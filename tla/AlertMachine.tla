---------------------------- MODULE AlertMachine ----------------------------
(***************************************************************************)
(* The alert evaluator of the hub: hub/alerts (the state machine and the   *)
(* evaluator), Hub.evaluate, checkStale and the restore in hub.New, with   *)
(* the tables they read (hosts, alert_rules, the newest sample of a host)  *)
(* and the journal they append to (alert_events).                          *)
(*                                                                         *)
(* Three actors: the hub's run loop, which evaluates in several database   *)
(* steps; the HTTP handlers, which edit hosts and rules between any two of *)
(* them; the agents, whose samples arrive at any time.  The hub may crash  *)
(* at any step: the machine's cells are memory, the tables survive.        *)
(*                                                                         *)
(* A row id is what SQLite gives an INTEGER PRIMARY KEY without            *)
(* AUTOINCREMENT, the largest id in the table plus one, so the id of a     *)
(* deleted row may be given again.                                         *)
(***************************************************************************)
EXTENDS Integers, Sequences, FiniteSets, FiniteSetsExt, Functions

CONSTANTS
  HostIds,        \* row ids of hosts, 1..n
  RuleIds,        \* row ids of alert_rules, 1..n; 0 is the offline rule
  Metrics,        \* metrics a rule can name
  Levels,         \* values a metric can take
  Thresholds,     \* thresholds a rule can have
  Durations,      \* durations a rule can have, in ticks
  DefaultRules,   \* the sequence of rules SeedDefaultRules installs
  Interval,       \* the sampling interval, in ticks
  Absent,         \* "not collected", and "no sample"
  AnyHost,        \* the host_id NULL of a global rule
  MaxTime, MaxEvents, MaxEdits, MaxBoots, MaxStoreErrors   \* bounds

Rule == [host : HostIds \cup {AnyHost}, metric : Metrics,
         threshold : Thresholds, dur : Durations]

ASSUME ConstantsAssumption ==
  /\ IsFiniteSet(HostIds) /\ HostIds \subseteq Nat \ {0}
  /\ IsFiniteSet(RuleIds) /\ RuleIds \subseteq Nat \ {0}
  /\ Levels \subseteq Nat /\ Thresholds \subseteq Nat /\ Durations \subseteq Nat
  /\ Absent \notin Levels /\ AnyHost \notin HostIds
  /\ DefaultRules \in Seq(Rule) /\ DOMAIN DefaultRules \subseteq RuleIds
  /\ {Interval, MaxTime, MaxEvents, MaxEdits, MaxBoots, MaxStoreErrors} \subseteq Nat

StatusRuleID == 0
Keys == (RuleIds \cup {StatusRuleID}) \X HostIds
ThresholdKeys == RuleIds \X HostIds
Sample == [at : 0..MaxTime, vals : [Metrics -> Levels \cup {Absent}]]
Host == [status : {"never_seen", "online", "offline"}, muted : BOOLEAN,
         seen : 0..MaxTime, latest : Sample \cup {Absent}]
Event == [key : Keys, kind : {"fired", "resolved"}]
EventIds == 1..MaxEvents

VARIABLES
  now,      \* the clock, in ticks
  hosts,    \* hosts, by id: status, muted, last_seen and the newest sample
  rules,    \* alert_rules, by id
  journal,  \* alert_events, by id: a row with a larger id is younger
  cells,    \* the machine's cells, by key; memory only
  pc,       \* where checkStale and evaluate are
  silent,   \* hosts checkStale has read as silent and not marked yet
  seenHosts, seenRules,  \* what evaluate has read so far
  out,      \* events evaluate has still to insert
  edits, boots, errors,  \* counters of the bounds
  clearAt,  \* history: when a threshold key was last observed not breached
  lost,     \* history: keys an event of which could not be inserted
  recycled    \* history: keys whose rule or host was deleted: its id may be given again

tables == <<hosts, rules, journal>>
memory == <<cells, pc, silent, seenHosts, seenRules, out>>
history == <<clearAt, lost, recycled>>
vars == <<now, tables, memory, edits, boots, errors, history>>

\* since is read in a pending cell only; elsewhere it is left at 0.
OkCell == [st |-> "ok", since |-> 0]
FiringCell == [st |-> "firing", since |-> 0]

\* The row id of the next row of a table whose ids are S.
NextId(S) == IF S = {} THEN 1 ELSE Max(S) + 1

\* The last event of k, the row of the largest id, is a fired.
Unresolved(k) ==
  \E i \in DOMAIN journal :
    /\ journal[i] = [key |-> k, kind |-> "fired"]
    /\ \A j \in DOMAIN journal : journal[j].key = k => j <= i

-----------------------------------------------------------------------------
(* The machine and the evaluator: pure. *)

\* Mutant: a clear observation does not end the wait.
ObserveSticky(c, breached, d) ==
  CASE c.st = "ok" /\ breached ->
         IF d <= 0 THEN FiringCell ELSE [st |-> "pending", since |-> now]
    [] c.st = "pending" /\ breached /\ now - c.since >= d -> FiringCell
    [] c.st = "firing" /\ ~breached -> OkCell
    [] OTHER -> c

\* Mutant: an alert never clears.
ObserveLatched(c, breached, d) ==
  CASE c.st = "ok" /\ breached ->
         IF d <= 0 THEN FiringCell ELSE [st |-> "pending", since |-> now]
    [] c.st = "pending" /\ ~breached -> OkCell
    [] c.st = "pending" /\ breached /\ now - c.since >= d -> FiringCell
    [] OTHER -> c

\* Machine.Observe: the cell after one observation.
Observe(c, breached, d) ==
  CASE c.st = "ok" /\ breached ->
         IF d <= 0 THEN FiringCell ELSE [st |-> "pending", since |-> now]
    [] c.st = "pending" /\ ~breached -> OkCell
    [] c.st = "pending" /\ breached /\ now - c.since >= d -> FiringCell
    [] c.st = "firing" /\ ~breached -> OkCell
    [] OTHER -> c

\* The rule evaluated for one metric on one host: the one for that host when
\* there is one, else the global one; the lowest id among several.
Applicable(rs, h) ==
  LET mine(m)   == {i \in DOMAIN rs : rs[i].metric = m /\ rs[i].host = h}
      global(m) == {i \in DOMAIN rs : rs[i].metric = m /\ rs[i].host = AnyHost}
      pick(m)   == IF mine(m) # {} THEN {Min(mine(m))}
                   ELSE IF global(m) # {} THEN {Min(global(m))} ELSE {}
  IN  UNION {pick(m) : m \in Metrics}

Fresh(s) == s # Absent /\ now - s.at <= 2 * Interval

\* The keys an evaluation observes, given the hosts and rules it has read and
\* the newest sample of each host: the offline rule, then the threshold rules.
StatusObserved(hs) ==
  {<<StatusRuleID, h>> : h \in {x \in DOMAIN hs : hs[x].status # "never_seen" /\ ~hs[x].muted}}

ThresholdObserved(hs, rs, latest) ==
  UNION {{<<r, h>> : r \in {i \in Applicable(rs, h) : latest[h].vals[rs[i].metric] # Absent}} :
           h \in {x \in DOMAIN hs : ~hs[x].muted /\ Fresh(latest[x])}}

Breached(k, hs, rs, latest) ==
  IF k[1] = StatusRuleID THEN hs[k[2]].status = "offline"
  ELSE latest[k[2]].vals[rs[k[1]].metric] > rs[k[1]].threshold

\* Mutant: a pending alert that clears is told as an end.
TransitionNoisy(k, old, new) ==
  IF old.st # "firing" /\ new.st = "firing" THEN {[key |-> k, kind |-> "fired"]}
  ELSE IF old.st # "ok" /\ new.st = "ok" THEN {[key |-> k, kind |-> "resolved"]}
  ELSE {}

\* The event an observation owes the journal, as a set of at most one.
Transition(k, old, new) ==
  IF old.st # "firing" /\ new.st = "firing" THEN {[key |-> k, kind |-> "fired"]}
  ELSE IF old.st = "firing" /\ new.st = "ok" THEN {[key |-> k, kind |-> "resolved"]}
  ELSE {}

-----------------------------------------------------------------------------
(* The run loop. *)

\* The minute tick, and the end of checkStale: read the hosts ...
EvalHosts ==
  /\ pc = "idle" \/ (pc = "marking" /\ silent = {})
  /\ pc' = "rules" /\ seenHosts' = hosts
  /\ UNCHANGED <<now, tables, cells, silent, seenRules, out, edits, boots, errors, history>>

\* ... then the rules ...
EvalRules ==
  /\ pc = "rules"
  /\ pc' = "samples" /\ seenRules' = rules
  /\ UNCHANGED <<now, tables, cells, silent, seenHosts, out, edits, boots, errors, history>>

\* ... then the newest sample of each host, and feed the machine.  A host
\* deleted meanwhile has no sample, but its status is still observed.
EvalObserve ==
  /\ pc = "samples"
  /\ LET latest == [h \in DOMAIN seenHosts |->
                      IF h \in DOMAIN hosts THEN hosts[h].latest ELSE Absent]
         seen == StatusObserved(seenHosts) \cup ThresholdObserved(seenHosts, seenRules, latest)
         breached(k) == Breached(k, seenHosts, seenRules, latest)
         dur(k) == IF k[1] = StatusRuleID THEN 0 ELSE seenRules[k[1]].dur
         after == [k \in Keys |-> IF k \in seen THEN Observe(cells[k], breached(k), dur(k))
                                  ELSE cells[k]]
     IN  /\ cells' = after
         /\ out' = UNION {Transition(k, cells[k], after[k]) : k \in seen}
         /\ clearAt' = [k \in ThresholdKeys |->
                           IF k \in seen /\ ~breached(k) THEN now ELSE clearAt[k]]
  /\ pc' = "insert"
  /\ UNCHANGED <<now, tables, silent, seenHosts, seenRules, edits, boots, errors, lost, recycled>>

\* Insert one event.  The foreign key refuses the event of a deleted host; any
\* other error of the database is bounded.  An event that fails is skipped.
InsertEvent(e) ==
  /\ pc = "insert" /\ e \in out
  /\ e.key[2] \in DOMAIN hosts
  /\ LET id == NextId(DOMAIN journal)
     IN  /\ id \in EventIds
         /\ journal' = [i \in DOMAIN journal \cup {id} |-> IF i = id THEN e ELSE journal[i]]
  /\ out' = out \ {e}
  /\ UNCHANGED <<now, hosts, rules, cells, pc, silent, seenHosts, seenRules, edits, boots, errors,
                 history>>

SkipEvent(e) ==
  /\ pc = "insert" /\ e \in out
  /\ \/ e.key[2] \notin DOMAIN hosts /\ UNCHANGED errors
     \/ e.key[2] \in DOMAIN hosts /\ errors < MaxStoreErrors /\ errors' = errors + 1
  /\ out' = out \ {e} /\ lost' = lost \cup {e.key}
  /\ UNCHANGED <<now, tables, cells, pc, silent, seenHosts, seenRules, edits, boots, clearAt, recycled>>

EvalDone ==
  /\ pc = "insert" /\ out = {}
  /\ pc' = "idle" /\ seenHosts' = <<>> /\ seenRules' = <<>>
  /\ UNCHANGED <<now, tables, cells, silent, out, edits, boots, errors, history>>

\* The fast tick: the online hosts silent for three intervals are read ...
Stale(h) == hosts[h].status = "online" /\ hosts[h].seen < now - 3 * Interval

CheckStale ==
  /\ pc = "idle" /\ \E h \in DOMAIN hosts : Stale(h)
  /\ pc' = "marking" /\ silent' = {h \in DOMAIN hosts : Stale(h)}
  /\ UNCHANGED <<now, tables, cells, seenHosts, seenRules, out, edits, boots, errors, history>>

\* ... and marked offline one by one, whatever they have said meanwhile; a host
\* deleted meanwhile ends the check without an evaluation.
MarkOffline(h) ==
  /\ pc = "marking" /\ h \in silent
  /\ \/ /\ h \in DOMAIN hosts
        /\ hosts' = [hosts EXCEPT ![h].status = "offline"]
        /\ silent' = silent \ {h} /\ UNCHANGED pc
     \/ /\ h \notin DOMAIN hosts
        /\ pc' = "idle" /\ silent' = {} /\ UNCHANGED hosts
  /\ UNCHANGED <<now, rules, journal, cells, seenHosts, seenRules, out, edits, boots, errors, history>>

\* Mutant: nothing is restored.
RestoreNothing(k) == OkCell

\* Machine.Restore: the cell a boot gives a key.
Restored(k) == IF Unresolved(k) THEN FiringCell ELSE OkCell

\* The hub stops at any point, and New rebuilds: default rules when there is
\* none, and the cells from the last event of each key.
Boot ==
  /\ boots < MaxBoots /\ boots' = boots + 1
  /\ rules' = IF DOMAIN rules = {} THEN DefaultRules ELSE rules
  /\ cells' = [k \in Keys |-> Restored(k)]
  /\ pc' = "idle" /\ silent' = {} /\ seenHosts' = <<>> /\ seenRules' = <<>> /\ out' = {}
  /\ recycled' = IF DOMAIN rules = {} THEN recycled \cup ((DOMAIN DefaultRules) \X HostIds) ELSE recycled
  /\ UNCHANGED <<now, hosts, journal, edits, errors, clearAt, lost>>

-----------------------------------------------------------------------------
(* The handlers of the API, one transaction each. *)

Edit == edits < MaxEdits /\ edits' = edits + 1

CreateHost ==
  /\ Edit
  /\ LET id == NextId(DOMAIN hosts)
         host == [status |-> "never_seen", muted |-> FALSE, seen |-> 0, latest |-> Absent]
     IN  /\ id \in HostIds
         /\ hosts' = [h \in DOMAIN hosts \cup {id} |-> IF h = id THEN host ELSE hosts[h]]
  /\ UNCHANGED <<now, rules, journal, memory, boots, errors, history>>

\* The rules of the host, its samples and its events go with it.
DeleteHost(h) ==
  /\ Edit /\ h \in DOMAIN hosts
  /\ hosts' = Restrict(hosts, DOMAIN hosts \ {h})
  /\ rules' = Restrict(rules, {i \in DOMAIN rules : rules[i].host # h})
  /\ journal' = Restrict(journal, {i \in DOMAIN journal : journal[i].key[2] # h})
  /\ recycled' = recycled \cup {k \in Keys : k[2] = h \/ (k[1] \in (DOMAIN rules) \ (DOMAIN rules'))}
  /\ UNCHANGED <<now, memory, boots, errors, clearAt, lost>>

SetMuted(h, m) ==
  /\ Edit /\ h \in DOMAIN hosts /\ hosts[h].muted # m
  /\ hosts' = [hosts EXCEPT ![h].muted = m]
  /\ UNCHANGED <<now, rules, journal, memory, boots, errors, history>>

CreateRule(r) ==
  /\ Edit
  /\ r.host # AnyHost => r.host \in DOMAIN hosts
  /\ LET id == NextId(DOMAIN rules)
     IN  /\ id \in RuleIds
         /\ rules' = [i \in DOMAIN rules \cup {id} |-> IF i = id THEN r ELSE rules[i]]
  /\ UNCHANGED <<now, hosts, journal, memory, boots, errors, history>>

UpdateRule(i, r) ==
  /\ Edit /\ i \in DOMAIN rules /\ rules[i] # r
  /\ r.host # AnyHost => r.host \in DOMAIN hosts
  /\ rules' = [rules EXCEPT ![i] = r]
  /\ UNCHANGED <<now, hosts, journal, memory, boots, errors, history>>

DeleteRule(i) ==
  /\ Edit /\ i \in DOMAIN rules
  /\ rules' = Restrict(rules, DOMAIN rules \ {i})
  /\ recycled' = recycled \cup {k \in Keys : k[1] = i}
  /\ UNCHANGED <<now, hosts, journal, memory, boots, errors, clearAt, lost>>

-----------------------------------------------------------------------------
(* The agents, and time. *)

\* An agent connects: the handler of its hello marks the host online.
Hello(h) ==
  /\ h \in DOMAIN hosts
  /\ hosts' = [hosts EXCEPT ![h].status = "online", ![h].seen = now]
  /\ UNCHANGED <<now, rules, journal, memory, edits, boots, errors, history>>

\* A sample newer than the last one stored is kept, and the host is online from
\* now on; any other is refused without a trace.  A sample the agent kept while
\* it was disconnected is older than now.
Report(h, s) ==
  /\ h \in DOMAIN hosts /\ s.at <= now
  /\ hosts[h].latest # Absent => s.at > hosts[h].latest.at
  /\ hosts' = [hosts EXCEPT ![h].latest = s, ![h].status = "online", ![h].seen = now]
  /\ UNCHANGED <<now, rules, journal, memory, edits, boots, errors, history>>

Tick ==
  /\ now < MaxTime /\ now' = now + 1
  /\ UNCHANGED <<tables, memory, edits, boots, errors, history>>

RunLoop == EvalHosts \/ EvalRules \/ EvalObserve \/ EvalDone \/ CheckStale
           \/ (\E h \in silent : MarkOffline(h))
           \/ \E e \in out : InsertEvent(e) \/ SkipEvent(e)

Handlers ==
  \/ CreateHost
  \/ \E h \in HostIds : DeleteHost(h) \/ \E m \in BOOLEAN : SetMuted(h, m)
  \/ \E r \in Rule : CreateRule(r) \/ \E i \in RuleIds : UpdateRule(i, r)
  \/ \E i \in RuleIds : DeleteRule(i)

Init ==
  /\ now = 0 /\ hosts = <<>> /\ rules = DefaultRules /\ journal = <<>>
  /\ cells = [k \in Keys |-> OkCell]
  /\ pc = "idle" /\ silent = {} /\ seenHosts = <<>> /\ seenRules = <<>> /\ out = {}
  /\ edits = 0 /\ boots = 0 /\ errors = 0
  /\ clearAt = [k \in ThresholdKeys |-> 0] /\ lost = {} /\ recycled = {}

Next == RunLoop \/ Boot \/ Handlers \/ Tick
        \/ \E h \in HostIds : Hello(h) \/ \E s \in Sample : Report(h, s)

\* The minute ticker and the scheduler of the runtime: an evaluation starts
\* again and again and each of its steps is taken.
Fairness == WF_vars(EvalHosts \/ EvalRules \/ EvalObserve \/ EvalDone
                    \/ (\E h \in silent : MarkOffline(h)) \/ \E e \in out : InsertEvent(e))

Spec == Init /\ [][Next]_vars
FairSpec == Spec /\ Fairness

-----------------------------------------------------------------------------
(* Properties. *)

TypeOK ==
  /\ now \in 0..MaxTime
  /\ DOMAIN hosts \subseteq HostIds /\ \A h \in DOMAIN hosts : hosts[h] \in Host
  /\ DOMAIN rules \subseteq RuleIds /\ \A i \in DOMAIN rules : rules[i] \in Rule
  /\ DOMAIN journal \subseteq EventIds /\ \A i \in DOMAIN journal : journal[i] \in Event
  /\ cells \in [Keys -> [st : {"ok", "pending", "firing"}, since : 0..MaxTime]]
  /\ pc \in {"idle", "marking", "rules", "samples", "insert"}
  /\ silent \subseteq HostIds /\ out \subseteq Event
  /\ DOMAIN seenHosts \subseteq HostIds /\ \A h \in DOMAIN seenHosts : seenHosts[h] \in Host
  /\ DOMAIN seenRules \subseteq RuleIds /\ \A i \in DOMAIN seenRules : seenRules[i] \in Rule
  /\ edits \in 0..MaxEdits /\ boots \in 0..MaxBoots /\ errors \in 0..MaxStoreErrors
  /\ clearAt \in [ThresholdKeys -> 0..MaxTime]
  /\ lost \subseteq Keys /\ recycled \subseteq Keys

\* Every variable has its type and, outside the error paths, the machine and the
\* journal tell the same story: a cell is firing exactly when the last event of its
\* key is a fired, counting the event evaluate is about to insert.  It is what
\* makes a restart lose no alert and announce none twice (hub.go, New: "does not
\* re-announce alerts nobody resolved").
MachineMatchesJournal ==
  /\ TypeOK
  /\ \A k \in Keys \ (lost \cup recycled) :
       (cells[k].st = "firing") <=>
         \/ [key |-> k, kind |-> "fired"] \in out
         \/ Unresolved(k) /\ [key |-> k, kind |-> "resolved"] \notin out

\* The journal implements the alternating log for every key but those that
\* lost an event to a failed insert or whose row id may be given again.
Log == INSTANCE AlertLog
  WITH Ids <- EventIds,
       log <- Restrict(journal, {i \in DOMAIN journal : journal[i].key \notin lost \cup recycled})
AlternatingJournal == Log!Spec

\* A threshold alert fires only when no observation of its key within the
\* rule's duration was clear (machine.go: pending -> ok is silent, and the
\* next breach starts the duration again).
FiresOnlyAfterDuration ==
  [][\A k \in ThresholdKeys : /\ boots' = boots
                              /\ cells[k].st # "firing" /\ cells'[k].st = "firing"
                              => now - clearAt[k] >= seenRules[k[1]].dur]_vars

\* An alert ends: when from some time on a key is judged at every evaluation
\* and found clear, its last event is not a fired for ever (the minute ticker
\* evaluates again and again).  A key that lost an event is excepted.
Latest == [h \in DOMAIN hosts |-> hosts[h].latest]
Calm(k) == /\ k \in StatusObserved(hosts) \cup ThresholdObserved(hosts, rules, Latest)
           /\ ~Breached(k, hosts, rules, Latest)

AlertsEnd ==
  \A k \in Keys :
    <>[]Calm(k) => []<>(~Unresolved(k) \/ k \in lost \/ MaxEvents \in DOMAIN journal)
=============================================================================

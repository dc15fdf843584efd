----------------------------- MODULE AlertProofs -----------------------------
(***************************************************************************)
(* Proofs about AlertMachine: types; the cells and the journal agree; the  *)
(* journal implements AlertLog; no alert fires before its duration.        *)
(*                                                                         *)
(* Batch: events wait only while evaluate inserts.                         *)
(* Agree: for each key, what the cell says, what the journal says last and *)
(* what is still to be inserted are one story.                             *)
(* Waits: a pending cell has waited since its last clear observation.      *)
(***************************************************************************)
EXTENDS AlertMachine, WellFoundedInduction, TLAPS

Fired(k) == [key |-> k, kind |-> "fired"]
Ended(k) == [key |-> k, kind |-> "resolved"]

Batch == out # {} => pc = "insert"

AgreeOn(k) ==
  /\ Fired(k) \in out => /\ Ended(k) \notin out
                         /\ cells[k].st = "firing" /\ ~Unresolved(k)
  /\ Ended(k) \in out => cells[k].st # "firing" /\ Unresolved(k)
  /\ Fired(k) \notin out /\ Ended(k) \notin out => (cells[k].st = "firing" <=> Unresolved(k))

Agree == \A k \in Keys \ (lost \cup recycled) : AgreeOn(k)

WaitsOn(k) == /\ clearAt[k] <= now
              /\ cells[k].st = "pending" => clearAt[k] <= cells[k].since /\ cells[k].since <= now

Waits == \A k \in ThresholdKeys : WaitsOn(k)

IInv == TypeOK /\ Batch /\ Agree /\ Waits

Cells == [st : {"ok", "pending", "firing"}, since : 0..MaxTime]

\* TypeOK in parts: the tables, the run loop's memory, the histories.
TablesOK == /\ DOMAIN hosts \subseteq HostIds /\ \A h \in DOMAIN hosts : hosts[h] \in Host
            /\ DOMAIN rules \subseteq RuleIds /\ \A i \in DOMAIN rules : rules[i] \in Rule
JournalOK == DOMAIN journal \subseteq EventIds /\ \A i \in DOMAIN journal : journal[i] \in Event
MemoryOK == /\ cells \in [Keys -> Cells]
            /\ pc \in {"idle", "marking", "rules", "samples", "insert"}
            /\ silent \subseteq HostIds /\ out \subseteq Event
ReadOK == /\ DOMAIN seenHosts \subseteq HostIds /\ \A h \in DOMAIN seenHosts : seenHosts[h] \in Host
          /\ DOMAIN seenRules \subseteq RuleIds /\ \A i \in DOMAIN seenRules : seenRules[i] \in Rule
CountersOK == /\ now \in 0..MaxTime /\ edits \in 0..MaxEdits /\ boots \in 0..MaxBoots
              /\ errors \in 0..MaxStoreErrors
HistoryOK == /\ clearAt \in [ThresholdKeys -> 0..MaxTime]
             /\ lost \subseteq Keys /\ recycled \subseteq Keys

\* TypeOK is its parts.
LEMMA TypeParts ==
  TypeOK <=> TablesOK /\ JournalOK /\ MemoryOK /\ ReadOK /\ CountersOK /\ HistoryOK
  BY DEF TypeOK, TablesOK, JournalOK, MemoryOK, ReadOK, CountersOK, HistoryOK, Cells

\* What the constants are.
LEMMA Bounds ==
  /\ HostIds \subseteq Nat \ {0} /\ RuleIds \subseteq Nat \ {0} /\ Durations \subseteq Nat
  /\ AnyHost \notin HostIds /\ Absent \notin Levels
  /\ DefaultRules \in Seq(Rule) /\ DOMAIN DefaultRules \subseteq RuleIds
  /\ MaxTime \in Nat /\ MaxEvents \in Nat /\ MaxEdits \in Nat /\ MaxBoots \in Nat /\ MaxStoreErrors \in Nat
  /\ Interval \in Nat
  BY ConstantsAssumption

\* A key is a rule, or the offline rule, and a host.
LEMMA KeyParts ==
  ASSUME NEW k
  PROVE  /\ k \in Keys => k = <<k[1], k[2]>> /\ k[1] \in RuleIds \cup {StatusRuleID} /\ k[2] \in HostIds
         /\ k \in ThresholdKeys => k \in Keys /\ k[1] # StatusRuleID
  BY Bounds DEF Keys, ThresholdKeys, StatusRuleID

-----------------------------------------------------------------------------
(* The machine. *)

\* The cells of a boot are cells (Machine.Restore).
LEMMA CellValues == OkCell \in Cells /\ FiringCell \in Cells
  BY Bounds DEF OkCell, FiringCell, Cells

\* One observation: the cell it leaves, and what it owes the journal.
LEMMA Observation ==
  ASSUME now \in 0..MaxTime, NEW c \in Cells, NEW b, NEW d
  PROVE  /\ Observe(c, b, d) \in Cells
         /\ Observe(c, b, d).st = "pending" =>
              \/ Observe(c, b, d) = c /\ b /\ c.st = "pending"
              \/ b /\ Observe(c, b, d).since = now
         /\ c.st # "firing" /\ Observe(c, b, d).st = "firing" =>
              b /\ ((c.st = "ok" /\ d <= 0) \/ (c.st = "pending" /\ now - c.since >= d))
         /\ c.st = "firing" => Observe(c, b, d).st # "pending"
<1>1. CASE c.st = "ok" /\ b /\ d <= 0
  BY <1>1, CellValues DEF Observe, FiringCell
<1>2. CASE c.st = "ok" /\ b /\ ~(d <= 0)
  BY <1>2 DEF Observe, Cells
<1>3. CASE c.st = "ok" /\ ~b
  BY <1>3 DEF Observe
<1>4. CASE c.st = "pending" /\ ~b
  BY <1>4, CellValues DEF Observe, OkCell
<1>5. CASE c.st = "pending" /\ b /\ now - c.since >= d
  BY <1>5, CellValues DEF Observe, FiringCell
<1>6. CASE c.st = "pending" /\ b /\ ~(now - c.since >= d)
  BY <1>6 DEF Observe
<1>7. CASE c.st = "firing" /\ b
  BY <1>7 DEF Observe
<1>8. CASE c.st = "firing" /\ ~b
  BY <1>8, CellValues DEF Observe, OkCell
<1>9. c.st \in {"ok", "pending", "firing"}
  BY DEF Cells
<1> QED BY <1>1, <1>2, <1>3, <1>4, <1>5, <1>6, <1>7, <1>8, <1>9

\* A cell that begins to fire emits a fired, one that ceases to a resolved (machine.go, Observe).
LEMMA TransitionIs ==
  ASSUME NEW k \in Keys, NEW c \in Cells, NEW d \in Cells
  PROVE  /\ Transition(k, c, d) \subseteq {Fired(k), Ended(k)} /\ Transition(k, c, d) \subseteq Event
         /\ Fired(k) \in Transition(k, c, d) <=> c.st # "firing" /\ d.st = "firing"
         /\ Ended(k) \in Transition(k, c, d) <=> c.st = "firing" /\ d.st = "ok"
<1>1. Fired(k) # Ended(k) /\ Fired(k) \in Event /\ Ended(k) \in Event
  BY DEF Fired, Ended, Event
<1>2. c.st # "firing" /\ d.st = "firing" => Transition(k, c, d) = {Fired(k)}
  BY DEF Transition, Fired
<1>3. c.st = "firing" /\ d.st = "ok" => Transition(k, c, d) = {Ended(k)}
  BY DEF Transition, Ended
<1>4. ~(c.st # "firing" /\ d.st = "firing") /\ ~(c.st = "firing" /\ d.st = "ok") => Transition(k, c, d) = {}
  BY DEF Transition
<1> QED BY <1>1, <1>2, <1>3, <1>4

\* A nonempty set of naturals has a least element, and Min is that element.
LEMMA MinIsLeast ==
  ASSUME NEW S, S \subseteq Nat, S # {}
  PROVE  Min(S) \in S /\ \A x \in S : Min(S) <= x
<1> DEFINE Less == OpToRel(<, Nat)
<1>1. PICK m \in S : \A y \in S : ~(<<y, m>> \in Less)
  <2> HIDE DEF Less
  <2>1. IsWellFoundedOn(Less, Nat)
    BY NatLessThanWellFounded, Zenon DEF Less
  <2> QED BY <2>1, WFMin, Zenon
<1>2. \A y \in S : m <= y
  <2> SUFFICES ASSUME NEW y \in S, y < m PROVE FALSE
    OBVIOUS
  <2>1. <<y, m>> \in Nat \X Nat
    OBVIOUS
  <2>2. <<y, m>>[1] = y /\ <<y, m>>[2] = m
    OBVIOUS
  <2>3. <<y, m>> \in Less
    BY <2>1, <2>2 DEF OpToRel
  <2> QED BY <1>1, <2>3
<1> QED BY <1>2 DEF Min

\* A nonempty set of integers below a bound has a greatest element, and Max is
\* that element.
LEMMA MaxIsGreatest ==
  ASSUME NEW n \in Nat, NEW S, S \subseteq 0..n, S # {}
  PROVE  Max(S) \in S /\ \A x \in S : x <= Max(S)
<1> DEFINE Mirror == {n - x : x \in S}
<1>1. Mirror \subseteq Nat /\ Mirror # {}
  <2>1. \A x \in S : n - x \in Nat
    OBVIOUS
  <2> QED BY <2>1
<1>2. Min(Mirror) \in Mirror /\ \A y \in Mirror : Min(Mirror) <= y
  <2> HIDE DEF Mirror
  <2> QED BY <1>1, MinIsLeast
<1>3. PICK g \in S : Min(Mirror) = n - g
  BY <1>2
<1>4. \A y \in S : g >= y
  <2> SUFFICES ASSUME NEW y \in S PROVE g >= y
    OBVIOUS
  <2>1. n - y \in Mirror
    OBVIOUS
  <2>2. n - g <= n - y
    BY <1>2, <1>3, <2>1
  <2> QED BY <2>2
<1>5. Max(S) \in S /\ \A y \in S : Max(S) >= y
  BY <1>4 DEF Max
<1> QED BY <1>5

\* The rules evaluated are rules; the keys observed are keys.
LEMMA ApplicableRules ==
  ASSUME NEW rs, DOMAIN rs \subseteq RuleIds, NEW h
  PROVE  Applicable(rs, h) \subseteq DOMAIN rs
<1> DEFINE mine(m) == {i \in DOMAIN rs : rs[i].metric = m /\ rs[i].host = h}
           global(m) == {i \in DOMAIN rs : rs[i].metric = m /\ rs[i].host = AnyHost}
           pick(m) == IF mine(m) # {} THEN {Min(mine(m))}
                      ELSE IF global(m) # {} THEN {Min(global(m))} ELSE {}
<1>1. ASSUME NEW m PROVE pick(m) \subseteq DOMAIN rs
  <2>1. mine(m) \subseteq Nat /\ global(m) \subseteq Nat
    BY Bounds
  <2>2. mine(m) # {} => Min(mine(m)) \in mine(m)
    <3> HIDE DEF mine
    <3> QED BY <2>1, MinIsLeast
  <2>3. global(m) # {} => Min(global(m)) \in global(m)
    <3> HIDE DEF global
    <3> QED BY <2>1, MinIsLeast
  <2>4. mine(m) \subseteq DOMAIN rs /\ global(m) \subseteq DOMAIN rs
    OBVIOUS
  <2> HIDE DEF mine, global
  <2> QED BY <2>2, <2>3, <2>4
<1>2. Applicable(rs, h) = UNION {pick(m) : m \in Metrics}
  BY Zenon DEF Applicable
<1> HIDE DEF pick
<1> QED BY <1>1, <1>2

\* What an evaluation observes: the offline rule of every host, the rules it has read.
LEMMA ObservedKeys ==
  ASSUME NEW hs, DOMAIN hs \subseteq HostIds, NEW rs, DOMAIN rs \subseteq RuleIds, NEW latest
  PROVE  /\ StatusObserved(hs) \subseteq Keys /\ \A k \in StatusObserved(hs) : k[1] = StatusRuleID
         /\ ThresholdObserved(hs, rs, latest) \subseteq ThresholdKeys
         /\ \A k \in ThresholdObserved(hs, rs, latest) : k[1] \in DOMAIN rs
<1>1. StatusObserved(hs) \subseteq Keys /\ \A k \in StatusObserved(hs) : k[1] = StatusRuleID
  BY DEF StatusObserved, Keys
<1>2. ASSUME NEW k \in ThresholdObserved(hs, rs, latest)
      PROVE  k \in ThresholdKeys /\ k[1] \in DOMAIN rs
  <2>1. PICK h \in DOMAIN hs : k \in {<<r, h>> : r \in {i \in Applicable(rs, h) : latest[h].vals[rs[i].metric] # Absent}}
    BY DEF ThresholdObserved
  <2>2. PICK r \in Applicable(rs, h) : k = <<r, h>>
    BY <2>1
  <2>3. r \in DOMAIN rs
    BY <2>2, ApplicableRules
  <2> QED BY <2>2, <2>3 DEF ThresholdKeys
<1> QED BY <1>1, <1>2

-----------------------------------------------------------------------------
(* Rows of the journal. *)

\* The id of a new row is greater than those of the table.
LEMMA NewIdIsGreater ==
  ASSUME NEW S, S \subseteq EventIds
  PROVE  NextId(S) \in Nat /\ \A i \in S : i < NextId(S)
<1>1. CASE S = {}
  BY <1>1 DEF NextId
<1>2. CASE S # {}
  <2>1. S \subseteq 0..MaxEvents /\ MaxEvents \in Nat
    BY Bounds DEF EventIds
  <2>2. Max(S) \in S /\ \A i \in S : i <= Max(S)
    BY <1>2, <2>1, MaxIsGreatest
  <2>3. NextId(S) = Max(S) + 1
    BY <1>2 DEF NextId
  <2>4. \A i \in S : i \in Nat
    BY <2>1
  <2>5. Max(S) \in Nat
    BY <2>2, <2>4
  <2> HIDE DEF NextId
  <2> QED BY <2>2, <2>3, <2>4, <2>5
<1> QED BY <1>1, <1>2

\* What an insert does to the rows.
LEMMA Inserted ==
  ASSUME JournalOK, NEW e, InsertEvent(e)
  PROVE  \E id \in EventIds :
           /\ \A i \in DOMAIN journal : i < id
           /\ DOMAIN journal' = DOMAIN journal \cup {id} /\ journal'[id] = e
           /\ \A i \in DOMAIN journal : journal'[i] = journal[i]
<1> DEFINE id == NextId(DOMAIN journal)
<1>1. id \in EventIds /\ journal' = [i \in DOMAIN journal \cup {id} |-> IF i = id THEN e ELSE journal[i]]
  BY Zenon DEF InsertEvent
<1>2. \A i \in DOMAIN journal : i < id
  BY NewIdIsGreater DEF JournalOK
<1>3. id \notin DOMAIN journal
  BY <1>1, <1>2 DEF EventIds
<1> HIDE DEF id
<1> QED BY <1>1, <1>2, <1>3

\* The youngest row decides: a fired opens its key, a resolved ends it, and
\* the other keys are as they were.
LEMMA InsertedIsLast ==
  ASSUME JournalOK, NEW e \in Event, InsertEvent(e), NEW k \in Keys
  PROVE  /\ e = Fired(k) => Unresolved(k)'
         /\ e = Ended(k) => ~Unresolved(k)'
         /\ e.key # k => (Unresolved(k)' <=> Unresolved(k))
<1>1. PICK id \in EventIds :
        /\ \A i \in DOMAIN journal : i < id
        /\ DOMAIN journal' = DOMAIN journal \cup {id} /\ journal'[id] = e
        /\ \A i \in DOMAIN journal : journal'[i] = journal[i]
  BY Inserted
<1>2. id \in Nat /\ DOMAIN journal \subseteq Nat
  BY DEF EventIds, JournalOK
<1>3. Unresolved(k)' <=> \E i \in DOMAIN journal' : /\ journal'[i] = Fired(k)
                                                    /\ \A j \in DOMAIN journal' : journal'[j].key = k => j <= i
  BY DEF Unresolved, Fired
<1>4. Unresolved(k) <=> \E i \in DOMAIN journal : /\ journal[i] = Fired(k)
                                                  /\ \A j \in DOMAIN journal : journal[j].key = k => j <= i
  BY DEF Unresolved, Fired
<1>5. Fired(k).key = k /\ Ended(k).key = k /\ Fired(k) # Ended(k)
  BY DEF Fired, Ended
<1>6. ASSUME e = Fired(k) PROVE Unresolved(k)'
  <2>1. id \in DOMAIN journal' /\ journal'[id] = Fired(k) /\ \A j \in DOMAIN journal' : j <= id
    BY <1>1, <1>2, <1>6
  <2> QED BY <1>3, <2>1
<1>7. ASSUME e = Ended(k), Unresolved(k)' PROVE FALSE
  <2>1. PICK i \in DOMAIN journal' : /\ journal'[i] = Fired(k)
                                     /\ \A j \in DOMAIN journal' : journal'[j].key = k => j <= i
    BY <1>3, <1>7
  <2>2. i # id
    BY <1>1, <1>5, <1>7, <2>1
  <2>3. id <= i
    BY <1>1, <1>5, <1>7, <2>1
  <2>4. i < id
    BY <1>1, <2>2
  <2> QED BY <1>2, <1>1, <2>2, <2>3, <2>4
<1>8. ASSUME e.key # k PROVE Unresolved(k)' <=> Unresolved(k)
  <2>1. ASSUME NEW i \in DOMAIN journal PROVE i \in DOMAIN journal' /\ journal'[i] = journal[i]
    BY <1>1
  <2>2. \A j \in DOMAIN journal' : journal'[j].key = k => j \in DOMAIN journal
    BY <1>1, <1>8
  <2>3. \A i \in DOMAIN journal' : journal'[i] = Fired(k) => i \in DOMAIN journal
    BY <1>5, <2>2
  <2> QED BY <1>3, <1>4, <2>1, <2>2, <2>3
<1> QED BY <1>6, <1>7, <1>8

-----------------------------------------------------------------------------
(* Types. *)

\* The hub starts typed.
LEMMA InitTypes == Init => TypeOK
<1> SUFFICES ASSUME Init PROVE TypeOK
  OBVIOUS
<1>1. \A i \in DOMAIN DefaultRules : DefaultRules[i] \in Rule
  BY Bounds
<1>2. TablesOK /\ JournalOK
  BY <1>1, Bounds DEF Init, TablesOK, JournalOK
<1>3. MemoryOK /\ ReadOK
  BY CellValues DEF Init, MemoryOK, ReadOK
<1>4. CountersOK /\ HistoryOK
  BY Bounds DEF Init, CountersOK, HistoryOK
<1> QED BY <1>2, <1>3, <1>4, TypeParts

\* What evaluate observes, named as in EvalObserve.
Newest == [h \in DOMAIN seenHosts |-> IF h \in DOMAIN hosts THEN hosts[h].latest ELSE Absent]
Observed == StatusObserved(seenHosts) \cup ThresholdObserved(seenHosts, seenRules, Newest)
IsBreached(k) == Breached(k, seenHosts, seenRules, Newest)
Waited(k) == IF k[1] = StatusRuleID THEN 0 ELSE seenRules[k[1]].dur

\* What an evaluation does to cells, transitions and times, in one place (Evaluate).
LEMMA EvalObserveIs ==
  ASSUME TypeOK, EvalObserve
  PROVE  /\ pc = "samples" /\ pc' = "insert" /\ Observed \subseteq Keys
         /\ cells' = [k \in Keys |-> IF k \in Observed THEN Observe(cells[k], IsBreached(k), Waited(k)) ELSE cells[k]]
         /\ out' = UNION {Transition(k, cells[k], cells'[k]) : k \in Observed}
         /\ clearAt' = [k \in ThresholdKeys |-> IF k \in Observed /\ ~IsBreached(k) THEN now ELSE clearAt[k]]
         /\ \A k \in Keys \cap Observed : Waited(k) \in Nat
<1>1. /\ cells' = [k \in Keys |-> IF k \in Observed THEN Observe(cells[k], IsBreached(k), Waited(k)) ELSE cells[k]]
      /\ out' = UNION {Transition(k, cells[k],
                          [x \in Keys |-> IF x \in Observed THEN Observe(cells[x], IsBreached(x), Waited(x)) ELSE cells[x]][k]) : k \in Observed}
      /\ clearAt' = [k \in ThresholdKeys |-> IF k \in Observed /\ ~IsBreached(k) THEN now ELSE clearAt[k]]
      /\ pc = "samples" /\ pc' = "insert"
  BY Zenon DEF EvalObserve, Newest, Observed, IsBreached, Waited
<1>2. /\ StatusObserved(seenHosts) \subseteq Keys /\ \A k \in StatusObserved(seenHosts) : k[1] = StatusRuleID
      /\ ThresholdObserved(seenHosts, seenRules, Newest) \subseteq ThresholdKeys
      /\ \A k \in ThresholdObserved(seenHosts, seenRules, Newest) : k[1] \in DOMAIN seenRules
  BY TypeParts, ObservedKeys DEF ReadOK
<1>3. Observed \subseteq Keys
  BY <1>2, KeyParts DEF Observed
<1>4. ASSUME NEW k \in Observed PROVE Waited(k) \in Nat
  <2>1. CASE k[1] = StatusRuleID
    BY <2>1 DEF Waited
  <2>2. CASE k[1] # StatusRuleID
    <3>1. k[1] \in DOMAIN seenRules
      BY <1>2, <2>2 DEF Observed
    <3>2. seenRules[k[1]] \in Rule
      BY <3>1, TypeParts DEF ReadOK
    <3> QED BY <2>2, <3>2, Bounds DEF Waited, Rule
  <2> QED BY <2>1, <2>2
<1> QED BY <1>1, <1>3, <1>4, Zenon

\* Every step keeps every variable typed.
LEMMA NextTypes == TypeOK /\ [Next]_vars => TypeOK'
<1> SUFFICES ASSUME TypeOK, [Next]_vars PROVE TypeOK'
  OBVIOUS
<1>0. TablesOK /\ JournalOK /\ MemoryOK /\ ReadOK /\ CountersOK /\ HistoryOK
  BY TypeParts
<1>q. TablesOK' /\ JournalOK' /\ MemoryOK' /\ ReadOK' /\ CountersOK' /\ HistoryOK' => TypeOK'
  BY DEF TypeOK, TablesOK, JournalOK, MemoryOK, ReadOK, CountersOK, HistoryOK, Cells
<1>1. CASE EvalHosts
  <2>1. TablesOK' /\ JournalOK' /\ CountersOK' /\ HistoryOK'
    BY <1>0, <1>1 DEF EvalHosts, tables, history, TablesOK, JournalOK, CountersOK, HistoryOK
  <2>2. MemoryOK' /\ ReadOK'
    BY <1>0, <1>1 DEF EvalHosts, tables, MemoryOK, ReadOK, TablesOK
  <2> QED BY <1>q, <2>1, <2>2
<1>2. CASE EvalRules
  <2>1. TablesOK' /\ JournalOK' /\ CountersOK' /\ HistoryOK'
    BY <1>0, <1>2 DEF EvalRules, tables, history, TablesOK, JournalOK, CountersOK, HistoryOK
  <2>2. MemoryOK' /\ ReadOK'
    BY <1>0, <1>2 DEF EvalRules, tables, MemoryOK, ReadOK, TablesOK
  <2> QED BY <1>q, <2>1, <2>2
<1>3. CASE EvalObserve
  <2>1. TablesOK' /\ JournalOK' /\ CountersOK' /\ ReadOK'
    BY <1>0, <1>3 DEF EvalObserve, tables, TablesOK, JournalOK, CountersOK, ReadOK
  <2>2. /\ pc' = "insert" /\ Observed \subseteq Keys
        /\ cells' = [k \in Keys |-> IF k \in Observed THEN Observe(cells[k], IsBreached(k), Waited(k)) ELSE cells[k]]
        /\ out' = UNION {Transition(k, cells[k], cells'[k]) : k \in Observed}
        /\ clearAt' = [k \in ThresholdKeys |-> IF k \in Observed /\ ~IsBreached(k) THEN now ELSE clearAt[k]]
    BY <1>3, EvalObserveIs
  <2>3. cells' \in [Keys -> Cells]
    <3>1. ASSUME NEW k \in Keys PROVE Observe(cells[k], IsBreached(k), Waited(k)) \in Cells /\ cells[k] \in Cells
      <4>1. cells[k] \in Cells /\ now \in 0..MaxTime
        BY <1>0 DEF MemoryOK, CountersOK
      <4> QED BY <4>1, Observation
    <3> QED BY <2>2, <3>1
  <2>4. out' \subseteq Event
    <3>1. ASSUME NEW k \in Observed PROVE Transition(k, cells[k], cells'[k]) \subseteq Event
      <4>1. k \in Keys /\ cells[k] \in Cells /\ cells'[k] \in Cells
        BY <1>0, <2>2, <2>3 DEF MemoryOK
      <4> QED BY <4>1, TransitionIs
    <3> QED BY <2>2, <3>1
  <2>5. silent' = silent /\ lost' = lost /\ recycled' = recycled
    BY <1>3 DEF EvalObserve
  <2>6. MemoryOK'
    BY <1>0, <2>2, <2>3, <2>4, <2>5 DEF MemoryOK
  <2>7. HistoryOK'
    BY <1>0, <2>2, <2>5 DEF HistoryOK, CountersOK
  <2> QED BY <1>q, <2>1, <2>6, <2>7
<1>4. ASSUME NEW e \in out, InsertEvent(e) PROVE TypeOK'
  <2>1. TablesOK' /\ ReadOK' /\ CountersOK' /\ HistoryOK' /\ MemoryOK'
    BY <1>0, <1>4 DEF InsertEvent, history, TablesOK, ReadOK, CountersOK, HistoryOK, MemoryOK
  <2>2. e \in Event
    BY <1>0, <1>4 DEF MemoryOK
  <2>3. JournalOK'
    <3>1. PICK id \in EventIds :
            /\ DOMAIN journal' = DOMAIN journal \cup {id} /\ journal'[id] = e
            /\ \A i \in DOMAIN journal : journal'[i] = journal[i]
      BY <1>0, <1>4, Inserted
    <3> QED BY <1>0, <2>2, <3>1 DEF JournalOK
  <2> QED BY <1>q, <2>1, <2>3
<1>5. ASSUME NEW e \in out, SkipEvent(e) PROVE TypeOK'
  <2>1. TablesOK' /\ JournalOK' /\ ReadOK' /\ MemoryOK'
    BY <1>0, <1>5 DEF SkipEvent, tables, TablesOK, JournalOK, ReadOK, MemoryOK
  <2>2. e.key \in Keys
    BY <1>0, <1>5 DEF MemoryOK, Event
  <2>3. CountersOK' /\ HistoryOK'
    BY <1>0, <1>5, <2>2, Bounds DEF SkipEvent, CountersOK, HistoryOK
  <2> QED BY <1>q, <2>1, <2>3
<1>6. CASE EvalDone
  <2>1. TablesOK' /\ JournalOK' /\ CountersOK' /\ HistoryOK' /\ MemoryOK'
    BY <1>0, <1>6 DEF EvalDone, tables, history, TablesOK, JournalOK, CountersOK, HistoryOK, MemoryOK
  <2>2. ReadOK'
    BY <1>6 DEF EvalDone, ReadOK
  <2> QED BY <1>q, <2>1, <2>2
<1>7. CASE CheckStale
  <2>1. TablesOK' /\ JournalOK' /\ CountersOK' /\ HistoryOK' /\ MemoryOK' /\ ReadOK'
    BY <1>0, <1>7 DEF CheckStale, tables, history, TablesOK, JournalOK, CountersOK, HistoryOK, MemoryOK, ReadOK
  <2> QED BY <1>q, <2>1
<1>8. ASSUME NEW h \in silent, MarkOffline(h) PROVE TypeOK'
  <2>1. JournalOK' /\ CountersOK' /\ HistoryOK' /\ MemoryOK' /\ ReadOK'
    BY <1>0, <1>8 DEF MarkOffline, history, JournalOK, CountersOK, HistoryOK, MemoryOK, ReadOK
  <2>2. TablesOK'
    <3>1. CASE hosts' = hosts
      BY <1>0, <1>8, <3>1 DEF MarkOffline, TablesOK
    <3>2. CASE h \in DOMAIN hosts /\ hosts' = [hosts EXCEPT ![h].status = "offline"]
      <4>1. hosts[h] \in Host
        BY <1>0, <3>2 DEF TablesOK
      <4>2. [hosts[h] EXCEPT !.status = "offline"] \in Host
        BY <4>1 DEF Host
      <4> QED BY <1>0, <1>8, <3>2, <4>2 DEF MarkOffline, TablesOK
    <3> QED BY <1>8, <3>1, <3>2 DEF MarkOffline
  <2> QED BY <1>q, <2>1, <2>2
<1>9. CASE Boot
  <2>1. JournalOK' /\ ReadOK'
    BY <1>0, <1>9 DEF Boot, JournalOK, ReadOK
  <2>2. TablesOK'
    <3>1. \A i \in DOMAIN DefaultRules : DefaultRules[i] \in Rule
      BY Bounds
    <3> QED BY <1>0, <1>9, <3>1, Bounds DEF Boot, TablesOK
  <2>3. MemoryOK'
    <3>1. \A k \in Keys : Restored(k) \in Cells
      BY CellValues DEF Restored
    <3> QED BY <1>9, <3>1 DEF Boot, MemoryOK
  <2>4. CountersOK'
    BY <1>0, <1>9, Bounds DEF Boot, CountersOK
  <2>5. HistoryOK'
    BY <1>0, <1>9, Bounds DEF Boot, HistoryOK, Keys
  <2> QED BY <1>q, <2>1, <2>2, <2>3, <2>4, <2>5
<1>10. CASE Handlers
  <2>0. ASSUME Edit PROVE edits' \in 0..MaxEdits
    BY <1>0, <2>0, Bounds DEF Edit, CountersOK
  <2>1. CASE CreateHost
    <3>1. JournalOK' /\ MemoryOK' /\ ReadOK' /\ HistoryOK' /\ CountersOK'
      BY <1>0, <2>0, <2>1 DEF CreateHost, memory, history, JournalOK, MemoryOK, ReadOK, HistoryOK, CountersOK
    <3>2. [status |-> "never_seen", muted |-> FALSE, seen |-> 0, latest |-> Absent] \in Host
      BY Bounds DEF Host
    <3>3. PICK id \in HostIds : hosts' = [h \in DOMAIN hosts \cup {id} |->
              IF h = id THEN [status |-> "never_seen", muted |-> FALSE, seen |-> 0, latest |-> Absent] ELSE hosts[h]]
      BY <2>1 DEF CreateHost
    <3>4. TablesOK'
      BY <1>0, <2>1, <3>2, <3>3 DEF CreateHost, TablesOK
    <3> QED BY <1>q, <3>1, <3>4
  <2>2. ASSUME NEW h \in HostIds, DeleteHost(h) PROVE TypeOK'
    <3>1. MemoryOK' /\ ReadOK' /\ CountersOK'
      BY <1>0, <2>0, <2>2 DEF DeleteHost, memory, MemoryOK, ReadOK, CountersOK
    <3>2. TablesOK'
      BY <1>0, <2>2 DEF DeleteHost, TablesOK, Restrict
    <3>3. JournalOK'
      BY <1>0, <2>2 DEF DeleteHost, JournalOK, Restrict
    <3>4. HistoryOK'
      BY <1>0, <2>2 DEF DeleteHost, HistoryOK
    <3> QED BY <1>q, <3>1, <3>2, <3>3, <3>4
  <2>3. ASSUME NEW h \in HostIds, NEW m \in BOOLEAN, SetMuted(h, m) PROVE TypeOK'
    <3>1. JournalOK' /\ MemoryOK' /\ ReadOK' /\ HistoryOK' /\ CountersOK'
      BY <1>0, <2>0, <2>3 DEF SetMuted, memory, history, JournalOK, MemoryOK, ReadOK, HistoryOK, CountersOK
    <3>2. hosts[h] \in Host /\ h \in DOMAIN hosts
      BY <1>0, <2>3 DEF SetMuted, TablesOK
    <3>3. [hosts[h] EXCEPT !.muted = m] \in Host
      BY <2>3, <3>2 DEF Host
    <3>4. TablesOK'
      BY <1>0, <2>3, <3>2, <3>3 DEF SetMuted, TablesOK
    <3> QED BY <1>q, <3>1, <3>4
  <2>4. ASSUME NEW r \in Rule, CreateRule(r) PROVE TypeOK'
    <3>1. JournalOK' /\ MemoryOK' /\ ReadOK' /\ HistoryOK' /\ CountersOK'
      BY <1>0, <2>0, <2>4 DEF CreateRule, memory, history, JournalOK, MemoryOK, ReadOK, HistoryOK, CountersOK
    <3>2. PICK id \in RuleIds : rules' = [i \in DOMAIN rules \cup {id} |-> IF i = id THEN r ELSE rules[i]]
      BY <2>4 DEF CreateRule
    <3>3. TablesOK'
      BY <1>0, <2>4, <3>2 DEF CreateRule, TablesOK
    <3> QED BY <1>q, <3>1, <3>3
  <2>5. ASSUME NEW r \in Rule, NEW i \in RuleIds, UpdateRule(i, r) PROVE TypeOK'
    <3>1. JournalOK' /\ MemoryOK' /\ ReadOK' /\ HistoryOK' /\ CountersOK'
      BY <1>0, <2>0, <2>5 DEF UpdateRule, memory, history, JournalOK, MemoryOK, ReadOK, HistoryOK, CountersOK
    <3>2. TablesOK'
      BY <1>0, <2>5 DEF UpdateRule, TablesOK
    <3> QED BY <1>q, <3>1, <3>2
  <2>6. ASSUME NEW i \in RuleIds, DeleteRule(i) PROVE TypeOK'
    <3>1. JournalOK' /\ MemoryOK' /\ ReadOK' /\ CountersOK'
      BY <1>0, <2>0, <2>6 DEF DeleteRule, memory, JournalOK, MemoryOK, ReadOK, CountersOK
    <3>2. TablesOK'
      BY <1>0, <2>6 DEF DeleteRule, TablesOK, Restrict
    <3>3. HistoryOK'
      BY <1>0, <2>6 DEF DeleteRule, HistoryOK
    <3> QED BY <1>q, <3>1, <3>2, <3>3
  <2> QED BY <1>10, <2>1, <2>2, <2>3, <2>4, <2>5, <2>6 DEF Handlers
<1>11. ASSUME NEW h \in HostIds, Hello(h) PROVE TypeOK'
  <2>1. JournalOK' /\ MemoryOK' /\ ReadOK' /\ HistoryOK' /\ CountersOK'
    BY <1>0, <1>11 DEF Hello, memory, history, JournalOK, MemoryOK, ReadOK, HistoryOK, CountersOK
  <2>2. hosts[h] \in Host /\ h \in DOMAIN hosts /\ now \in 0..MaxTime
    BY <1>0, <1>11 DEF Hello, TablesOK, CountersOK
  <2>3. [hosts[h] EXCEPT !.status = "online", !.seen = now] \in Host
    BY <2>2 DEF Host
  <2>4. hosts' = [hosts EXCEPT ![h] = [hosts[h] EXCEPT !.status = "online", !.seen = now]]
    BY <1>11, <2>2 DEF Hello
  <2>5. TablesOK'
    BY <1>0, <1>11, <2>2, <2>3, <2>4 DEF Hello, TablesOK
  <2> QED BY <1>q, <2>1, <2>5
<1>12. ASSUME NEW h \in HostIds, NEW s \in Sample, Report(h, s) PROVE TypeOK'
  <2>1. JournalOK' /\ MemoryOK' /\ ReadOK' /\ HistoryOK' /\ CountersOK'
    BY <1>0, <1>12 DEF Report, memory, history, JournalOK, MemoryOK, ReadOK, HistoryOK, CountersOK
  <2>2. hosts[h] \in Host /\ h \in DOMAIN hosts /\ now \in 0..MaxTime
    BY <1>0, <1>12 DEF Report, TablesOK, CountersOK
  <2>3. [hosts[h] EXCEPT !.latest = s, !.status = "online", !.seen = now] \in Host
    BY <2>2, <1>12 DEF Host
  <2>4. hosts' = [hosts EXCEPT ![h] = [hosts[h] EXCEPT !.latest = s, !.status = "online", !.seen = now]]
    BY <1>12, <2>2 DEF Report
  <2>5. TablesOK'
    BY <1>0, <1>12, <2>2, <2>3, <2>4 DEF Report, TablesOK
  <2> QED BY <1>q, <2>1, <2>5
<1>13. CASE Tick
  <2>1. TablesOK' /\ JournalOK' /\ MemoryOK' /\ ReadOK' /\ HistoryOK'
    BY <1>0, <1>13 DEF Tick, tables, memory, history, TablesOK, JournalOK, MemoryOK, ReadOK, HistoryOK
  <2>2. CountersOK'
    BY <1>0, <1>13, Bounds DEF Tick, CountersOK
  <2> QED BY <1>q, <2>1, <2>2
<1>14. CASE UNCHANGED vars
  <2>1. TablesOK' /\ JournalOK' /\ MemoryOK' /\ ReadOK' /\ HistoryOK' /\ CountersOK'
    BY <1>0, <1>14 DEF vars, tables, memory, history, TablesOK, JournalOK, MemoryOK, ReadOK, HistoryOK, CountersOK
  <2> QED BY <1>q, <2>1
<1> QED BY <1>1, <1>2, <1>3, <1>4, <1>5, <1>6, <1>7, <1>8, <1>9, <1>10, <1>11, <1>12, <1>13, <1>14 DEF Next, RunLoop

\* Every variable has its type.
THEOREM TypeCorrect == Spec => []TypeOK
  BY InitTypes, NextTypes, PTL DEF Spec
-----------------------------------------------------------------------------
(* The cells and the journal. *)

\* Who leaves the journal alone leaves its last events alone.
LEMMA UnresolvedKept ==
  ASSUME journal' = journal, NEW k
  PROVE  Unresolved(k)' <=> Unresolved(k)
  BY DEF Unresolved

\* A step that touches neither cells, journal nor events disturbs no key.
LEMMA AgreeKept ==
  ASSUME Agree, cells' = cells, journal' = journal, out' = out, lost \subseteq lost', recycled \subseteq recycled'
  PROVE  Agree'
<1> SUFFICES ASSUME NEW k \in Keys \ (lost' \cup recycled') PROVE AgreeOn(k)'
  BY DEF Agree
<1>1. AgreeOn(k)
  BY DEF Agree
<1> QED BY <1>1, UnresolvedKept DEF AgreeOn

\* A transition is emitted exactly when the cell leaves what the journal says.
LEMMA AgreeObserve == IInv /\ EvalObserve => Agree'
<1> SUFFICES ASSUME IInv, EvalObserve, NEW k \in Keys \ (lost' \cup recycled') PROVE AgreeOn(k)'
  BY DEF Agree
<1>1. /\ pc = "samples" /\ Observed \subseteq Keys
      /\ cells' = [x \in Keys |-> IF x \in Observed THEN Observe(cells[x], IsBreached(x), Waited(x)) ELSE cells[x]]
      /\ out' = UNION {Transition(x, cells[x], cells'[x]) : x \in Observed}
  BY EvalObserveIs DEF IInv
<1>2. TypeOK' /\ TypeOK
  BY NextTypes DEF IInv, Next, RunLoop
<1>3. \A x \in Keys : cells[x] \in Cells /\ cells'[x] \in Cells
  BY <1>2, TypeParts DEF TypeOK, Cells
<1>4. out = {} /\ journal' = journal /\ lost' = lost /\ recycled' = recycled
  BY <1>1 DEF IInv, Batch, EvalObserve, tables
<1>5. AgreeOn(k) /\ (cells[k].st = "firing" <=> Unresolved(k))
  BY <1>4 DEF IInv, Agree, AgreeOn
<1>6. Unresolved(k)' <=> Unresolved(k)
  BY <1>4, UnresolvedKept
<1>7. ASSUME NEW x \in Observed, x # k
      PROVE  Fired(k) \notin Transition(x, cells[x], cells'[x]) /\ Ended(k) \notin Transition(x, cells[x], cells'[x])
  <2>1. Transition(x, cells[x], cells'[x]) \subseteq {Fired(x), Ended(x)}
    BY <1>1, <1>3, TransitionIs
  <2>2. Fired(x).key = x /\ Ended(x).key = x /\ Fired(k).key = k /\ Ended(k).key = k
    BY DEF Fired, Ended
  <2> QED BY <1>7, <2>1, <2>2
<1>8. CASE k \notin Observed
  <2>1. Fired(k) \notin out' /\ Ended(k) \notin out'
    BY <1>1, <1>7, <1>8
  <2>2. cells'[k] = cells[k]
    BY <1>1, <1>8
  <2> QED BY <1>5, <1>6, <2>1, <2>2 DEF AgreeOn
<1>9. CASE k \in Observed
  <2>1. /\ Fired(k) \in out' <=> Fired(k) \in Transition(k, cells[k], cells'[k])
        /\ Ended(k) \in out' <=> Ended(k) \in Transition(k, cells[k], cells'[k])
    BY <1>1, <1>7, <1>9
  <2>2. /\ Fired(k) \in out' <=> cells[k].st # "firing" /\ cells'[k].st = "firing"
        /\ Ended(k) \in out' <=> cells[k].st = "firing" /\ cells'[k].st = "ok"
    BY <1>3, <2>1, TransitionIs
  <2>3. now \in 0..MaxTime
    BY <1>2, TypeParts DEF CountersOK
  <2>4. cells[k].st = "firing" => cells'[k].st # "pending"
    <3>1. cells'[k] = Observe(cells[k], IsBreached(k), Waited(k))
      BY <1>1, <1>9
    <3> QED BY <1>3, <2>3, <3>1, Observation
  <2>5. cells'[k].st \in {"ok", "pending", "firing"}
    BY <1>3 DEF Cells
  <2> QED BY <1>5, <1>6, <2>2, <2>4, <2>5 DEF AgreeOn
<1> QED BY <1>8, <1>9

\* An insert says what the cell says already, with the largest id of the journal.
LEMMA AgreeInsert == ASSUME IInv, NEW e \in out, InsertEvent(e) PROVE Agree'
<1> SUFFICES ASSUME NEW k \in Keys \ (lost' \cup recycled') PROVE AgreeOn(k)'
  BY DEF Agree
<1>1. JournalOK /\ e \in Event
  BY TypeParts DEF IInv, MemoryOK
<1>2. cells' = cells /\ lost' = lost /\ recycled' = recycled /\ out' = out \ {e}
  BY DEF InsertEvent, history
<1>3. AgreeOn(k)
  BY <1>2 DEF IInv, Agree
<1>4. Fired(k) # Ended(k) /\ Fired(k).key = k /\ Ended(k).key = k
  BY DEF Fired, Ended
<1>5. CASE e.key # k
  <2>1. Unresolved(k)' <=> Unresolved(k)
    BY <1>1, <1>5, InsertedIsLast
  <2> QED BY <1>2, <1>3, <1>4, <1>5, <2>1 DEF AgreeOn
<1>6. CASE e = Fired(k)
  <2>1. Unresolved(k)'
    BY <1>1, <1>6, InsertedIsLast
  <2> QED BY <1>2, <1>3, <1>4, <1>6, <2>1 DEF AgreeOn
<1>7. CASE e = Ended(k)
  <2>1. ~Unresolved(k)'
    BY <1>1, <1>7, InsertedIsLast
  <2> QED BY <1>2, <1>3, <1>4, <1>7, <2>1 DEF AgreeOn
<1>8. e.key # k \/ e = Fired(k) \/ e = Ended(k)
  BY <1>1 DEF Event, Fired, Ended
<1> QED BY <1>5, <1>6, <1>7, <1>8

\* A transition that is not inserted is counted as lost (evaluate, the insert that fails).
LEMMA AgreeSkip == ASSUME IInv, NEW e \in out, SkipEvent(e) PROVE Agree'
<1> SUFFICES ASSUME NEW k \in Keys \ (lost' \cup recycled') PROVE AgreeOn(k)'
  BY DEF Agree
<1>1. /\ cells' = cells /\ journal' = journal /\ recycled' = recycled /\ out' = out \ {e}
      /\ lost' = lost \cup {e.key}
  BY DEF SkipEvent, tables
<1>2. AgreeOn(k)
  BY <1>1 DEF IInv, Agree
<1>3. e # Fired(k) /\ e # Ended(k)
  BY <1>1 DEF Fired, Ended
<1>4. Unresolved(k)' <=> Unresolved(k)
  BY <1>1, UnresolvedKept
<1> QED BY <1>1, <1>2, <1>3, <1>4 DEF AgreeOn

\* The rows of a deleted host are not those of the keys that are not recycled.
LEMMA UnresolvedDelete ==
  ASSUME NEW h, DeleteHost(h), NEW k \in Keys, k \notin recycled'
  PROVE  Unresolved(k)' <=> Unresolved(k)
<1>1. k[2] # h
  BY DEF DeleteHost
<1>2. /\ DOMAIN journal' = {i \in DOMAIN journal : journal[i].key[2] # h}
      /\ \A i \in DOMAIN journal' : journal'[i] = journal[i]
  BY DEF DeleteHost, Restrict
<1>3. \A i \in DOMAIN journal : journal[i].key = k => i \in DOMAIN journal'
  BY <1>1, <1>2
<1>4. Fired(k).key = k
  BY DEF Fired
<1>5. \A i \in DOMAIN journal : journal[i] = Fired(k) => i \in DOMAIN journal'
  BY <1>3, <1>4
<1> QED BY <1>2, <1>3, <1>5 DEF Unresolved, Fired

\* A host takes its events with it; its keys may be given again (recycled).
LEMMA AgreeDelete == ASSUME IInv, NEW h, DeleteHost(h) PROVE Agree'
<1> SUFFICES ASSUME NEW k \in Keys \ (lost' \cup recycled') PROVE AgreeOn(k)'
  BY DEF Agree
<1>1. cells' = cells /\ out' = out /\ lost' = lost /\ recycled \subseteq recycled'
  BY DEF DeleteHost, memory
<1>2. AgreeOn(k)
  BY <1>1 DEF IInv, Agree
<1>3. Unresolved(k)' <=> Unresolved(k)
  BY UnresolvedDelete
<1> QED BY <1>1, <1>2, <1>3 DEF AgreeOn

\* The cells of a boot are read off the journal (Machine.Restore).
LEMMA AgreeBoot == IInv /\ Boot => Agree'
<1> SUFFICES ASSUME IInv, Boot, NEW k \in Keys \ (lost' \cup recycled') PROVE AgreeOn(k)'
  BY DEF Agree
<1>1. cells'[k] = Restored(k) /\ out' = {} /\ journal' = journal
  BY DEF Boot
<1>2. Restored(k).st = "firing" <=> Unresolved(k)
  BY DEF Restored, OkCell, FiringCell
<1> QED BY <1>1, <1>2, UnresolvedKept DEF AgreeOn

\* The first boot restores what the journal says.
LEMMA InitAgree == Init => Agree
<1> SUFFICES ASSUME Init, NEW k \in Keys PROVE AgreeOn(k)
  BY DEF Agree
<1>1. ~Unresolved(k) /\ cells[k].st # "firing" /\ out = {}
  BY DEF Init, Unresolved, OkCell
<1> QED BY <1>1 DEF AgreeOn
-----------------------------------------------------------------------------
(* How long a pending alert has waited. *)

\* Nothing is pending at first.
LEMMA InitWaits == Init => Waits
  BY Bounds, KeyParts DEF Init, Waits, WaitsOn, OkCell

\* Who leaves cells and clock alone leaves the waiting alone.
LEMMA WaitsKept ==
  ASSUME Waits, cells' = cells, clearAt' = clearAt, now' = now PROVE Waits'
  BY DEF Waits, WaitsOn

\* A clear observation ends the waiting, a breach keeps its beginning (Machine.Observe).
LEMMA WaitsObserve == IInv /\ EvalObserve => Waits'
<1> SUFFICES ASSUME IInv, EvalObserve, NEW k \in ThresholdKeys PROVE WaitsOn(k)'
  BY DEF Waits
<1>1. /\ cells' = [x \in Keys |-> IF x \in Observed THEN Observe(cells[x], IsBreached(x), Waited(x)) ELSE cells[x]]
      /\ clearAt' = [x \in ThresholdKeys |-> IF x \in Observed /\ ~IsBreached(x) THEN now ELSE clearAt[x]]
  BY EvalObserveIs DEF IInv
<1>2. now' = now /\ now \in Nat /\ now \in 0..MaxTime /\ k \in Keys /\ cells[k] \in Cells /\ clearAt[k] \in Nat
  <2>1. now \in 0..MaxTime /\ k \in Keys /\ cells \in [Keys -> Cells] /\ clearAt \in [ThresholdKeys -> 0..MaxTime]
    BY KeyParts, TypeParts DEF IInv, CountersOK, MemoryOK, HistoryOK
  <2> QED BY <2>1, Bounds DEF EvalObserve
<1>3. WaitsOn(k)
  BY DEF IInv, Waits
<1>4. clearAt'[k] = now \/ clearAt'[k] = clearAt[k]
  BY <1>1
<1>5. ASSUME cells'[k].st = "pending"
      PROVE  clearAt'[k] <= cells'[k].since /\ cells'[k].since <= now
  <2>1. CASE k \notin Observed
    BY <1>1, <1>2, <1>3, <1>5, <2>1 DEF WaitsOn
  <2>2. CASE k \in Observed
    <3>1. cells'[k] = Observe(cells[k], IsBreached(k), Waited(k))
      BY <1>1, <1>2, <2>2
    <3>2. \/ cells'[k] = cells[k] /\ IsBreached(k) /\ cells[k].st = "pending"
          \/ IsBreached(k) /\ cells'[k].since = now
      BY <1>2, <1>5, <3>1, Observation
    <3>3. clearAt'[k] = clearAt[k]
      BY <1>1, <3>2
    <3> QED BY <1>2, <1>3, <3>2, <3>3 DEF WaitsOn
  <2> QED BY <2>1, <2>2
<1> QED BY <1>2, <1>3, <1>4, <1>5 DEF WaitsOn

\* A restored cell is not pending.
LEMMA WaitsBoot == IInv /\ Boot => Waits'
<1> SUFFICES ASSUME IInv, Boot, NEW k \in ThresholdKeys PROVE WaitsOn(k)'
  BY DEF Waits
<1>1. cells'[k].st # "pending"
  BY KeyParts DEF Boot, Restored, OkCell, FiringCell
<1>2. WaitsOn(k) /\ now' = now /\ clearAt' = clearAt
  BY DEF IInv, Waits, Boot
<1> QED BY <1>1, <1>2 DEF WaitsOn

\* The past stays past.
LEMMA WaitsTick == IInv /\ Tick => Waits'
<1> SUFFICES ASSUME IInv, Tick, NEW k \in ThresholdKeys PROVE WaitsOn(k)'
  BY DEF Waits
<1>1. now' = now + 1 /\ cells' = cells /\ clearAt' = clearAt
  BY DEF Tick, memory, history
<1>2. now \in Nat /\ clearAt[k] \in Nat /\ k \in Keys /\ cells[k].since \in Nat
  <2>1. now \in 0..MaxTime /\ k \in Keys /\ cells \in [Keys -> Cells] /\ clearAt \in [ThresholdKeys -> 0..MaxTime]
    BY KeyParts, TypeParts DEF IInv, CountersOK, MemoryOK, HistoryOK
  <2> QED BY <2>1, Bounds DEF Cells
<1>3. WaitsOn(k)
  BY DEF IInv, Waits
<1> QED BY <1>1, <1>2, <1>3 DEF WaitsOn

-----------------------------------------------------------------------------
(* The invariant. *)

\* The invariant holds at first ...
LEMMA InitIInv == Init => IInv
  BY InitTypes, InitAgree, InitWaits DEF IInv, Batch, Init

\* ... every step keeps it, action by action ...
LEMMA NextIInv == IInv /\ [Next]_vars => IInv'
<1> SUFFICES ASSUME IInv, [Next]_vars PROVE Batch' /\ Agree' /\ Waits'
  BY NextTypes DEF IInv
<1>0. Batch /\ Agree /\ Waits
  BY DEF IInv
<1>1. CASE EvalHosts \/ EvalRules \/ EvalDone \/ CheckStale
  <2>1. /\ cells' = cells /\ journal' = journal /\ out' = out /\ lost' = lost /\ recycled' = recycled
        /\ clearAt' = clearAt /\ now' = now /\ out = {}
    BY <1>0, <1>1 DEF EvalHosts, EvalRules, EvalDone, CheckStale, tables, history, Batch
  <2>2. Batch'
    BY <2>1 DEF Batch
  <2> QED BY <1>0, <2>1, <2>2, AgreeKept, WaitsKept
<1>2. CASE EvalObserve
  <2>1. Batch'
    BY <1>2 DEF EvalObserve, Batch
  <2> QED BY <1>2, <2>1, AgreeObserve, WaitsObserve
<1>3. ASSUME NEW h \in silent, MarkOffline(h) PROVE Batch' /\ Agree' /\ Waits'
  <2>1. /\ cells' = cells /\ journal' = journal /\ out' = out /\ lost' = lost /\ recycled' = recycled
        /\ clearAt' = clearAt /\ now' = now /\ out = {}
    BY <1>0, <1>3 DEF MarkOffline, history, Batch
  <2>2. Batch'
    BY <2>1 DEF Batch
  <2> QED BY <1>0, <2>1, <2>2, AgreeKept, WaitsKept
<1>4. ASSUME NEW e \in out, InsertEvent(e) PROVE Batch' /\ Agree' /\ Waits'
  <2>1. pc' = "insert" /\ cells' = cells /\ clearAt' = clearAt /\ now' = now
    BY <1>4 DEF InsertEvent, history
  <2>2. Batch'
    BY <2>1 DEF Batch
  <2> QED BY <1>0, <1>4, <2>1, <2>2, AgreeInsert, WaitsKept
<1>5. ASSUME NEW e \in out, SkipEvent(e) PROVE Batch' /\ Agree' /\ Waits'
  <2>1. pc' = "insert" /\ cells' = cells /\ clearAt' = clearAt /\ now' = now
    BY <1>5 DEF SkipEvent
  <2>2. Batch'
    BY <2>1 DEF Batch
  <2> QED BY <1>0, <1>5, <2>1, <2>2, AgreeSkip, WaitsKept
<1>6. CASE Boot
  <2>1. Batch'
    BY <1>6 DEF Boot, Batch
  <2> QED BY <1>6, <2>1, AgreeBoot, WaitsBoot
<1>7. CASE Handlers
  <2>1. /\ cells' = cells /\ clearAt' = clearAt /\ now' = now /\ out' = out /\ pc' = pc
        /\ lost' = lost /\ recycled \subseteq recycled'
        /\ journal' = journal \/ \E h \in HostIds : DeleteHost(h)
    BY <1>7 DEF Handlers, CreateHost, DeleteHost, SetMuted, CreateRule, UpdateRule, DeleteRule, memory, history
  <2>2. Batch' /\ Waits'
    BY <1>0, <2>1, WaitsKept DEF Batch
  <2>3. Agree'
    BY <1>0, <2>1, AgreeKept, AgreeDelete
  <2> QED BY <2>2, <2>3
<1>8. CASE Tick
  <2>1. cells' = cells /\ journal' = journal /\ out' = out /\ lost' = lost /\ recycled' = recycled /\ pc' = pc
    BY <1>8 DEF Tick, tables, memory, history
  <2>2. Batch'
    BY <1>0, <2>1 DEF Batch
  <2> QED BY <1>0, <1>8, <2>1, <2>2, AgreeKept, WaitsTick
<1>9. CASE (\E h \in HostIds : Hello(h) \/ \E s \in Sample : Report(h, s)) \/ UNCHANGED vars
  <2>1. /\ cells' = cells /\ journal' = journal /\ out' = out /\ lost' = lost /\ recycled' = recycled
        /\ clearAt' = clearAt /\ now' = now /\ pc' = pc
    BY <1>9 DEF Hello, Report, vars, tables, memory, history
  <2>2. Batch'
    BY <1>0, <2>1 DEF Batch
  <2> QED BY <1>0, <2>1, <2>2, AgreeKept, WaitsKept
<1> QED BY <1>1, <1>2, <1>3, <1>4, <1>5, <1>6, <1>7, <1>8, <1>9 DEF Next, RunLoop

\* ... so it holds always.
LEMMA InvariantHolds == Spec => []IInv
  BY InitIInv, NextIInv, PTL DEF Spec

\* What the invariant says of a key is what the property says of it.
LEMMA AgreeMeans == IInv => MachineMatchesJournal
<1> SUFFICES ASSUME IInv, NEW k \in Keys \ (lost \cup recycled)
             PROVE  (cells[k].st = "firing") <=>
                      \/ [key |-> k, kind |-> "fired"] \in out
                      \/ Unresolved(k) /\ [key |-> k, kind |-> "resolved"] \notin out
  BY DEF MachineMatchesJournal, IInv
<1>1. AgreeOn(k)
  BY DEF IInv, Agree
<1> QED BY <1>1 DEF AgreeOn, Fired, Ended

\* Outside the error paths the cells and the journal agree, whatever the rules,
\* the hosts, the samples, the edits between two reads and the restarts.
THEOREM CellsAgreeWithJournal == Spec => []MachineMatchesJournal
  BY InvariantHolds, AgreeMeans, PTL

-----------------------------------------------------------------------------
(* No alert before its duration. *)

\* A cell that begins to fire was pending, since its last clear observation or later.
LEMMA FiringStep ==
  ASSUME IInv, [Next]_vars, NEW k \in ThresholdKeys,
         boots' = boots, cells[k].st # "firing", cells'[k].st = "firing"
  PROVE  now - clearAt[k] >= seenRules[k[1]].dur
<1>1. ~Boot
  BY TypeParts DEF IInv, Boot, CountersOK
<1>2. EvalObserve
  <2>1. cells' = cells \/ EvalObserve
    BY <1>1 DEF Next, RunLoop, Handlers, EvalHosts, EvalRules, EvalDone, CheckStale, MarkOffline, InsertEvent,
                SkipEvent, CreateHost, DeleteHost, SetMuted, CreateRule, UpdateRule, DeleteRule, Hello, Report,
                Tick, vars, memory
  <2> QED BY <2>1
<1>3. /\ cells' = [x \in Keys |-> IF x \in Observed THEN Observe(cells[x], IsBreached(x), Waited(x)) ELSE cells[x]]
      /\ \A x \in Keys \cap Observed : Waited(x) \in Nat
  BY <1>2, EvalObserveIs DEF IInv
<1>4. /\ now \in 0..MaxTime /\ now \in Nat /\ k \in Keys /\ cells[k] \in Cells /\ clearAt[k] \in Nat
      /\ k[1] # StatusRuleID
  <2>1. /\ now \in 0..MaxTime /\ k \in Keys /\ k[1] # StatusRuleID
        /\ cells \in [Keys -> Cells] /\ clearAt \in [ThresholdKeys -> 0..MaxTime]
    BY KeyParts, TypeParts DEF IInv, CountersOK, MemoryOK, HistoryOK
  <2> QED BY <2>1, Bounds
<1>5. k \in Observed /\ cells'[k] = Observe(cells[k], IsBreached(k), Waited(k))
  BY <1>3, <1>4
<1>6. \/ cells[k].st = "ok" /\ Waited(k) <= 0
      \/ cells[k].st = "pending" /\ now - cells[k].since >= Waited(k)
  BY <1>4, <1>5, Observation
<1>7. Waited(k) = seenRules[k[1]].dur /\ Waited(k) \in Nat
  BY <1>3, <1>4, <1>5 DEF Waited
<1>8. WaitsOn(k) /\ cells[k].since \in Nat
  BY <1>4, Bounds DEF IInv, Waits, Cells
<1> QED BY <1>4, <1>6, <1>7, <1>8 DEF WaitsOn

\* No alert fires before its metric has been breached for the rule's duration,
\* for every schedule of evaluations, edits, samples and restarts.
THEOREM NoEarlyAlert == Spec => FiresOnlyAfterDuration
<1>1. IInv /\ [Next]_vars =>
        [\A k \in ThresholdKeys : /\ boots' = boots
                                  /\ cells[k].st # "firing" /\ cells'[k].st = "firing"
                                  => now - clearAt[k] >= seenRules[k[1]].dur]_vars
  BY FiringStep
<1> QED BY <1>1, InvariantHolds, PTL DEF Spec, FiresOnlyAfterDuration
-----------------------------------------------------------------------------
(* AlertMachine implements AlertLog. *)

\* The rows the abstract log has: those of the keys that are told of.
Told == {i \in DOMAIN journal : journal[i].key \notin lost \cup recycled}
TheLog == Restrict(journal, Told)

\* The abstract log has the rows of the keys it tells of, as they are.
LEMMA LogRows == DOMAIN TheLog = Told /\ \A i \in Told : TheLog[i] = journal[i]
  BY DEF TheLog, Restrict

\* A key that is told of is open in the log when its last event is a fired.
LEMMA OpenIsUnresolved ==
  ASSUME NEW k \in Keys \ (lost \cup recycled)
  PROVE  Log!Open(k) <=> Unresolved(k)
<1>1. Log!Open(k) <=> \E i \in DOMAIN TheLog : /\ TheLog[i] = Fired(k)
                                               /\ \A j \in DOMAIN TheLog : TheLog[j].key = k => j <= i
  BY DEF Log!Open, TheLog, Told, Fired
<1>2. Unresolved(k) <=> \E i \in DOMAIN journal : /\ journal[i] = Fired(k)
                                                  /\ \A j \in DOMAIN journal : journal[j].key = k => j <= i
  BY DEF Unresolved, Fired
<1>3. Fired(k).key = k
  BY DEF Fired
<1>4. \A i \in DOMAIN journal : journal[i].key = k => i \in Told
  BY DEF Told
<1>5. \A i \in DOMAIN journal : journal[i] = Fired(k) => i \in Told
  BY <1>3, <1>4
<1>6. Told \subseteq DOMAIN journal
  BY DEF Told
<1> HIDE DEF Log!Open, Unresolved
<1> QED BY <1>1, <1>2, <1>4, <1>5, <1>6, LogRows

\* An event of a key that is told of is a new row of the log; any other leaves
\* the log alone.
LEMMA InsertRefines ==
  ASSUME IInv, NEW e \in out, InsertEvent(e)
  PROVE  Log!Next \/ TheLog' = TheLog
<1>1. JournalOK /\ e \in Event
  BY TypeParts DEF IInv, MemoryOK
<1>2. PICK id \in EventIds :
        /\ \A i \in DOMAIN journal : i < id
        /\ DOMAIN journal' = DOMAIN journal \cup {id} /\ journal'[id] = e
        /\ \A i \in DOMAIN journal : journal'[i] = journal[i]
  BY <1>1, Inserted
<1>3. lost' = lost /\ recycled' = recycled
  BY DEF InsertEvent, history
<1>4. TheLog' = [i \in Told' |-> journal'[i]] /\ TheLog = [i \in Told |-> journal[i]]
  BY DEF TheLog, Restrict
<1>5. \A i \in Told : i \in DOMAIN journal
  BY DEF Told
<1>6. CASE e.key \in lost \cup recycled
  <2>1. Told' = Told
    BY <1>2, <1>3, <1>6 DEF Told
  <2>2. \A i \in Told : journal'[i] = journal[i]
    BY <1>2, <1>5
  <2> QED BY <1>4, <2>1, <2>2
<1>7. CASE e.key \notin lost \cup recycled
  <2>1. Told' = Told \cup {id}
    BY <1>2, <1>3, <1>7 DEF Told
  <2>2. \A j \in DOMAIN TheLog : j < id
    BY <1>2, <1>5, LogRows
  <2>3. TheLog' = [j \in DOMAIN TheLog \cup {id} |-> IF j = id THEN e ELSE TheLog[j]]
    <3>1. id \notin DOMAIN journal
      BY <1>2 DEF EventIds
    <3>2. \A j \in Told \cup {id} : journal'[j] = IF j = id THEN e ELSE TheLog[j]
      BY <1>2, <1>5, <3>1, LogRows
    <3> QED BY <1>4, <2>1, <3>2, LogRows
  <2>4. Log!Add(e)
    BY <2>2, <2>3 DEF Log!Add, TheLog, Told
  <2>5. PICK k \in Keys : k = e.key /\ (e = Fired(k) \/ e = Ended(k))
    BY <1>1 DEF Event, Fired, Ended
  <2>6. AgreeOn(k) /\ (Log!Open(k) <=> Unresolved(k))
    BY <1>7, <2>5, OpenIsUnresolved DEF IInv, Agree
  <2>7. CASE e = Fired(k)
    <3>1. ~Log!Open(k)
      BY <2>6, <2>7 DEF AgreeOn
    <3>2. Log!Fire(k)
      BY <2>4, <2>7, <3>1 DEF Log!Fire, Fired
    <3> QED BY <3>2 DEF Log!Next
  <2>8. CASE e = Ended(k)
    <3>1. Log!Open(k)
      BY <2>6, <2>8 DEF AgreeOn
    <3>2. Log!Resolve(k)
      BY <2>4, <2>8, <3>1 DEF Log!Resolve, Ended
    <3> QED BY <3>2 DEF Log!Next
  <2> QED BY <2>5, <2>7, <2>8
<1> QED BY <1>6, <1>7

\* A key that is told of no more is removed.
LEMMA RemoveRefines ==
  ASSUME NEW K \in SUBSET Keys, lost' \cup recycled' = lost \cup recycled \cup K,
         DOMAIN journal' \subseteq DOMAIN journal, \A i \in DOMAIN journal' : journal'[i] = journal[i],
         \A i \in DOMAIN journal \ DOMAIN journal' : journal[i].key \in K
  PROVE  Log!Next
<1>1. Told' = {j \in DOMAIN TheLog : TheLog[j].key \notin K}
  <2>1. Told' = {i \in DOMAIN journal' : journal'[i].key \notin lost' \cup recycled'}
    BY DEF Told
  <2>2. \A i : i \in Told' <=> i \in DOMAIN journal' /\ journal'[i].key \notin lost \cup recycled \cup K
    BY <2>1
  <2>3. \A i : i \in Told <=> i \in DOMAIN journal /\ journal[i].key \notin lost \cup recycled
    BY DEF Told
  <2>4. \A i : i \in Told' <=> i \in Told /\ journal[i].key \notin K
    BY <2>2, <2>3
  <2> QED BY <2>4, LogRows
<1>2. TheLog' = [i \in Told' |-> journal'[i]]
  BY DEF TheLog, Restrict
<1>3. \A i \in Told' : journal'[i] = TheLog[i]
  <2>1. Told' \subseteq DOMAIN journal'
    BY DEF Told
  <2> QED BY <1>1, <2>1, LogRows
<1>4. TheLog' = [i \in {j \in DOMAIN TheLog : TheLog[j].key \notin K} |-> TheLog[i]]
  BY <1>1, <1>2, <1>3
<1>5. Log!Remove(K)
  BY <1>4 DEF Log!Remove, TheLog, Told
<1> QED BY <1>5 DEF Log!Next

\* Every step of the machine is a step of the log, or none.
LEMMA StepRefines ==
  ASSUME IInv, [Next]_vars
  PROVE  Log!Next \/ TheLog' = TheLog
<1>1. ASSUME NEW e \in out, InsertEvent(e) PROVE Log!Next \/ TheLog' = TheLog
  BY <1>1, InsertRefines
<1>2. ASSUME NEW e \in out, SkipEvent(e) PROVE Log!Next
  <2>1. {e.key} \in SUBSET Keys
    BY <1>2, TypeParts DEF IInv, MemoryOK, Event
  <2>2. journal' = journal /\ lost' = lost \cup {e.key} /\ recycled' = recycled
    BY <1>2 DEF SkipEvent, tables
  <2> QED BY <2>1, <2>2, RemoveRefines
<1>3. CASE Boot
  <2>1. PICK K \in SUBSET Keys : recycled' = recycled \cup K
    <3>1. (DOMAIN DefaultRules) \X HostIds \in SUBSET Keys
      BY Bounds DEF Keys
    <3>2. recycled' = recycled \cup ((DOMAIN DefaultRules) \X HostIds) \/ recycled' = recycled \cup {}
      BY <1>3 DEF Boot
    <3> QED BY <3>1, <3>2
  <2>2. journal' = journal /\ lost' = lost
    BY <1>3 DEF Boot
  <2> QED BY <2>1, <2>2, RemoveRefines
<1>4. ASSUME NEW h, DeleteHost(h) PROVE Log!Next
  <2> DEFINE K == {k \in Keys : k[2] = h \/ (k[1] \in (DOMAIN rules) \ (DOMAIN rules'))}
  <2>1. K \in SUBSET Keys /\ recycled' = recycled \cup K /\ lost' = lost
    BY <1>4 DEF DeleteHost
  <2>2. /\ DOMAIN journal' = {i \in DOMAIN journal : journal[i].key[2] # h}
        /\ \A i \in DOMAIN journal' : journal'[i] = journal[i]
    BY <1>4 DEF DeleteHost, Restrict
  <2>3. \A i \in DOMAIN journal : journal[i].key \in Keys
    BY TypeParts DEF IInv, JournalOK, Event
  <2>4. \A i \in DOMAIN journal \ DOMAIN journal' : journal[i].key \in K
    BY <2>2, <2>3
  <2> HIDE DEF K
  <2> QED BY <2>1, <2>2, <2>4, RemoveRefines
<1>5. ASSUME NEW i, DeleteRule(i) PROVE Log!Next
  <2>1. /\ {k \in Keys : k[1] = i} \in SUBSET Keys
        /\ recycled' = recycled \cup {k \in Keys : k[1] = i} /\ lost' = lost /\ journal' = journal
    BY <1>5 DEF DeleteRule
  <2> QED BY <2>1, RemoveRefines
<1>6. ASSUME journal' = journal, lost' = lost, recycled' = recycled PROVE TheLog' = TheLog
  BY <1>6 DEF TheLog, Told
<1>7. CASE EvalHosts \/ EvalRules \/ EvalObserve \/ EvalDone \/ CheckStale \/ \E h \in silent : MarkOffline(h)
  BY <1>6, <1>7 DEF EvalHosts, EvalRules, EvalObserve, EvalDone, CheckStale, MarkOffline, tables, history
<1>8. CASE Handlers
  <2>1. \/ journal' = journal /\ lost' = lost /\ recycled' = recycled
        \/ \E h \in HostIds : DeleteHost(h)
        \/ \E i \in RuleIds : DeleteRule(i)
    BY <1>8 DEF Handlers, CreateHost, SetMuted, CreateRule, UpdateRule, history
  <2> QED BY <1>4, <1>5, <1>6, <2>1
<1>9. CASE (\E h \in HostIds : Hello(h) \/ \E s \in Sample : Report(h, s)) \/ Tick \/ UNCHANGED vars
  BY <1>6, <1>9 DEF Hello, Report, Tick, vars, tables, history
<1> QED BY <1>1, <1>2, <1>3, <1>7, <1>8, <1>9 DEF Next, RunLoop

\* The detailed machine, with its edits, failures and restarts, implements the
\* alternating log.
THEOREM ImplementsAlertLog == Spec => AlternatingJournal
<1>1. Init => Log!Init
  <2> SUFFICES ASSUME Init PROVE Log!Init
    OBVIOUS
  <2>1. DOMAIN TheLog = {}
    BY LogRows DEF Init, Told
  <2> QED BY <2>1 DEF Log!Init, TheLog, Told, Restrict
<1>2. IInv /\ [Next]_vars => [Log!Next]_TheLog
  BY StepRefines
<1>3. [Log!Next]_TheLog => [Log!Next]_(Restrict(journal, {i \in DOMAIN journal : journal[i].key \notin lost \cup recycled}))
  BY DEF TheLog, Told
<1> QED BY <1>1, <1>2, <1>3, InvariantHolds, PTL DEF Spec, AlternatingJournal, Log!Spec
=============================================================================

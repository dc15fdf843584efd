------------------------------ MODULE History -------------------------------
(***************************************************************************)
(* The samples of the hosts and their roll-up (store/retention.go): every  *)
(* hour Aggregate fills each coarser table from the finer one, window by   *)
(* window, then Purge cuts each table but the coarsest.  Samples arrive    *)
(* between any two statements, late ones too; a statement may fail, and    *)
(* the hub may stop anywhere, stay down, and do the hourly work at once    *)
(* when it boots.                                                          *)
(*                                                                         *)
(* Times are stored as text.  RFC3339Nano writes a whole second without a  *)
(* fraction, and "." sorts before "Z", so that an instant within a second  *)
(* sorts before that second itself.  A position is the place of an instant *)
(* in the order of the text: 2 * t for the instant t, and 2 * t - 1 for an *)
(* instant within the second that begins at t.                             *)
(*                                                                         *)
(* A row is the set of the samples it was computed from.                   *)
(***************************************************************************)
EXTENDS Integers, Sequences, FiniteSets, FiniteSetsExt, Functions

CONSTANTS
  Hosts,
  Size,        \* the window of each table computed from the one before it
  Keeps,       \* the retentions an administrator may choose, one per table
  Hour,        \* the period of the hourly work
  MaxSilence,  \* the longest time without a sample of any host
  MaxLate,     \* how late a sample arrives while the hub is up
  MaxDown,     \* the time the hub is down, in all
  None,
  Fractional,  \* bound: the seconds within which a sample may be taken
  Budget,      \* bound: the samples each host sends
  MaxRaces,    \* bound: samples that arrive during the hourly work
  MaxTime, MaxFaults   \* bounds

ASSUME HistoryAssumption ==
  /\ Size \in Seq(Nat \ {0}) /\ Size # <<>>
  /\ \A t \in 2..Len(Size) : Size[t] % Size[t - 1] = 0
  /\ Keeps \subseteq [DOMAIN Size -> Nat] /\ Budget \in [Hosts -> Nat]
  /\ {Hour, MaxSilence, MaxLate, MaxDown, MaxTime, MaxFaults, MaxRaces} \subseteq Nat
  /\ Fractional \subseteq 1..MaxTime /\ None \notin Nat

Coarse == DOMAIN Size
Tables == {0} \cup Coarse
Positions == {2 * t : t \in 0..MaxTime} \cup {2 * t - 1 : t \in Fractional}

VARIABLES
  now,
  table,     \* per table, the rows by host and position
  pc,        \* where the hourly work is: idle, a table to fill, the purge; or the hub is down
  win,       \* the window Aggregate computes next; None when there is none
  due,       \* when the hourly work runs next: at the boot, while the hub is down
  heard,     \* when the last sample arrived, put off by the time the hub was down since
  down,      \* the time the hub has been down, in all
  sent, faults, races,   \* counters of the bounds
  skipped    \* history: samples outside the windows that will be computed

vars == <<now, table, pc, win, due, heard, down, sent, faults, races, skipped>>

Idle == [at |-> "idle", t |-> 0]
Filling(t) == [at |-> "fill", t |-> t]
Purging == [at |-> "purge", t |-> 0]
Down == [at |-> "down", t |-> 0]

\* parseTime, and the position of a time formatted without a fraction.
Time(p) == (p + 1) \div 2
Place(t) == 2 * t
Truncate(t, size) == t - (t % size)

PlacesOf(t) == {k[2] : k \in DOMAIN table[t]}

\* time.After, of instants: within a second the text sorts the whole second last.
After(p, q) == Time(p) > Time(q) \/ (Time(p) = Time(q) /\ p < q)

\* Mutant: the windows start again at the oldest row of the source.
StartOldest(t) ==
  IF PlacesOf(t - 1) # {} THEN Truncate(Time(Min(PlacesOf(t - 1))), Size[t]) ELSE None

\* Mutant: the newest window is not computed again.
StartAfter(t) ==
  IF PlacesOf(t) # {} THEN Truncate(Time(Max(PlacesOf(t))), Size[t]) + Size[t]
  ELSE IF PlacesOf(t - 1) # {} THEN Truncate(Time(Min(PlacesOf(t - 1))), Size[t])
  ELSE None

\* Where aggregateStep starts: at the newest window it has written, of any host,
\* else at the oldest row of its source.
Start(t) ==
  IF PlacesOf(t) # {} THEN Truncate(Time(Max(PlacesOf(t))), Size[t])
  ELSE IF PlacesOf(t - 1) # {} THEN Truncate(Time(Min(PlacesOf(t - 1))), Size[t])
  ELSE None

\* Mutant: a window takes the row its end falls on.
InsideInclusive(t, w, p) == Place(w) <= p /\ p <= Place(w + Size[t])

\* aggregateWindow: one row per host that has a source row in the window.
Inside(t, w, p) == Place(w) <= p /\ p < Place(w + Size[t])

Computed(t, w) ==
  LET source == {k \in DOMAIN table[t - 1] : Inside(t, w, k[2])}
      rows == {<<k[1], Place(w)>> : k \in source}
      content(r) == UNION {table[t - 1][k] : k \in {k \in source : k[1] = r[1]}}
  IN  [r \in rows |-> content(r)]

\* INSERT OR REPLACE.
Replaced(old, new) ==
  [r \in DOMAIN old \cup DOMAIN new |-> IF r \in DOMAIN new THEN new[r] ELSE old[r]]

Complete(t) == win # None /\ win + Size[t] <= now

Fault == faults < MaxFaults /\ faults' = faults + 1

\* A sample that sorts before the windows that will be computed.
Behind(p) == \/ \E q \in PlacesOf(1) : p < q
             \/ pc = Filling(1) /\ win # None /\ p < Place(win)

-----------------------------------------------------------------------------
\* A sample is stored when it is newer than the newest of its host, by the text,
\* and has no row.  What the hub was down for comes late.
Report(h, p) ==
  /\ pc # Down
  /\ sent[h] < Budget[h] /\ sent' = [sent EXCEPT ![h] = @ + 1]
  /\ Time(p) \in (now - MaxLate - down)..now
  /\ LET mine == {k[2] : k \in {k \in DOMAIN table[0] : k[1] = h}}
     IN  mine # {} => After(p, Max(mine)) /\ p \notin mine
  /\ table' = [table EXCEPT ![0] = Replaced(@, [r \in {<<h, p>>} |-> {<<h, p>>}])]
  /\ skipped' = IF Behind(p) THEN skipped \cup {<<h, p>>} ELSE skipped
  /\ heard' = now
  /\ IF pc = Idle THEN UNCHANGED races ELSE races < MaxRaces /\ races' = races + 1
  /\ UNCHANGED <<now, pc, win, due, down, faults>>

\* Hub.hourly: Aggregate begins with the first table.  A sample within the first
\* second of the first window of all sorts before that window.
Hourly ==
  /\ pc = Idle /\ now >= due
  /\ pc' = Filling(1) /\ win' = Start(1) /\ due' = now + Hour
  /\ skipped' = skipped \cup
       IF PlacesOf(1) = {} /\ win' # None THEN {k \in DOMAIN table[0] : k[2] < Place(win')} ELSE {}
  /\ UNCHANGED <<now, table, heard, down, sent, faults, races>>

\* One complete window is written; an empty one writes nothing.
Fill ==
  /\ pc.at = "fill" /\ Complete(pc.t)
  /\ table' = [table EXCEPT ![pc.t] = Replaced(@, Computed(pc.t, win))]
  /\ win' = win + Size[pc.t]
  /\ UNCHANGED <<now, pc, due, heard, down, sent, faults, races, skipped>>

\* The next table, or the purge after the last.
NextTable ==
  /\ pc.at = "fill" /\ ~Complete(pc.t)
  /\ IF pc.t < Len(Size) THEN pc' = Filling(pc.t + 1) /\ win' = Start(pc.t + 1)
     ELSE pc' = Purging /\ win' = None
  /\ UNCHANGED <<now, table, due, heard, down, sent, faults, races, skipped>>

\* An error ends Aggregate, which is logged; Purge runs all the same.
FillFails ==
  /\ pc.at = "fill" /\ Fault
  /\ pc' = Purging /\ win' = None
  /\ UNCHANGED <<now, table, due, heard, down, sent, races, skipped>>

\* Purge cuts each table at the retention of the settings, but for the last n
\* when a DELETE fails or the hub stops before it.
Purge(keep, n) ==
  /\ pc = Purging
  /\ table' = [t \in Tables |->
       IF t < Len(Size) - n
       THEN Restrict(table[t], {k \in DOMAIN table[t] : k[2] >= Place(now - keep[t + 1])})
       ELSE table[t]]
  /\ pc' = Idle
  /\ UNCHANGED <<now, win, due, heard, down, sent, faults, races, skipped>>

\* Time passes while no hourly work is due.
Tick ==
  /\ pc = Idle /\ now < due /\ now < MaxTime /\ now - heard < MaxSilence
  /\ now' = now + 1
  /\ UNCHANGED <<table, pc, win, due, heard, down, sent, faults, races, skipped>>

\* The hub stops or is killed, whatever it does ...
Stop ==
  /\ pc # Down /\ pc' = Down /\ win' = None /\ due' = now
  /\ UNCHANGED <<now, table, heard, down, sent, faults, races, skipped>>

\* ... is down for a time, in which no host is heard ...
TickDown ==
  /\ pc = Down /\ down < MaxDown /\ now < MaxTime
  /\ now' = now + 1 /\ due' = now' /\ heard' = heard + 1 /\ down' = down + 1
  /\ UNCHANGED <<table, pc, win, sent, faults, races, skipped>>

\* Mutant: the work waits for the first tick of the new ticker.
NextHour == now + Hour

\* When Run does the hourly work first.
FirstWork == now

\* ... and boots: Run does the hourly work at once (hub.go:156).
Boot ==
  /\ pc = Down /\ pc' = Idle /\ due' = FirstWork
  /\ UNCHANGED <<now, table, win, heard, down, sent, faults, races, skipped>>

Init ==
  /\ now = 0 /\ table = [t \in Tables |-> <<>>] /\ pc = Idle /\ win = None /\ due = FirstWork
  /\ heard = 0 /\ down = 0 /\ sent = [h \in Hosts |-> 0] /\ faults = 0 /\ races = 0 /\ skipped = {}

Next == (\E h \in Hosts, p \in Positions : Report(h, p)) \/ Hourly \/ Fill \/ NextTable \/ FillFails
        \/ (\E keep \in Keeps, n \in 0..Len(Size) : Purge(keep, n)) \/ Tick \/ Stop \/ TickDown \/ Boot

Spec == Init /\ [][Next]_vars

-----------------------------------------------------------------------------
(* Properties. *)

\* Retentions under which nothing is lost, which the settings page does not ask for
\* (api_settings.go:34): a table outlasts two windows of the next one, the longest
\* silence, a late sample, all hours that fail and all the time the hub is down,
\* and is purged before the next.
Lasting ==
  \A keep \in Keeps, t \in Coarse :
    /\ keep[t] + 1 >= 2 * Size[t] + MaxSilence + MaxLate + Hour * MaxFaults + MaxDown
    /\ t + 1 \in Coarse => keep[t] + Size[t] <= keep[t + 1] + 1

\* A window that is written is past, and its samples are: what Aggregate writes
\* is complete (retention.go:33), and each sample counts once.
WindowsAreDisjoint ==
  \A t \in Coarse : \A k \in DOMAIN table[t], l \in DOMAIN table[t] :
    /\ k[2] + Place(Size[t]) <= Place(now)
    /\ k # l => table[t][k] \cap table[t][l] = {}

\* "Rewriting a window gives the same result" (retention.go:34), or one with the
\* samples that came meanwhile: a row never loses what it was computed from.
RowsNeverShrink ==
  [][\A t \in Coarse : \A k \in DOMAIN table[t] \cap DOMAIN table'[t] :
       table[t][k] \subseteq table'[t][k]]_vars

\* What the purge removes has been rolled up, but for the samples that arrived
\* behind the newest window of all hosts, or before the first.
PurgedIsRolledUp ==
  [][\A t \in Tables \ {Len(Size)} : \A k \in DOMAIN table[t] \ DOMAIN table'[t] :
       table[t][k] \subseteq skipped \cup UNION {table[t + 1][l] : l \in DOMAIN table[t + 1]}]_vars
=============================================================================

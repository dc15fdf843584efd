---------------------------- MODULE HistoryProofs ----------------------------
(***************************************************************************)
(* Proofs about History: the windows Aggregate has written are past, and   *)
(* no sample counts in two of them; and under retentions that are Lasting  *)
(* no row computed again loses anything, and no sample is purged before it *)
(* is rolled up.                                                           *)
(*                                                                         *)
(* IInv is the invariant of the first part.                                *)
(* Raw: a row of the first table is one sample.                            *)
(* Rows: a coarser row stands at the beginning of a whole past window, and *)
(* was computed from samples of its host within that window.               *)
(* Work: the window to compute next is a whole window of the table filled. *)
(*                                                                         *)
(* Retained is that of the second: a purge may overtake the roll-up only   *)
(* where a table has fallen behind, so it says how old the newest row of   *)
(* each table can be after so many hours that failed, and which row the    *)
(* next one will come from.                                                *)
(***************************************************************************)
EXTENDS History, WellFoundedInduction, TLAPS

\* w is where a window of size n begins.
Aligned(w, n) == w \in Nat /\ \E q \in Nat : w = n * q

\* The samples s that a row of table t at window w may hold.
Samples(t, h, w) == {s \in Hosts \X Nat : s[1] = h /\ Inside(t, w, s[2])}

RowOK(t, k) == \E h \in Hosts, w \in Nat :
  /\ k = <<h, Place(w)>>
  /\ Aligned(w, Size[t]) /\ w + Size[t] <= now
  /\ table[t][k] \subseteq Samples(t, h, w)

Raw == \A k \in DOMAIN table[0] : k \in Hosts \X (0..2 * now) /\ table[0][k] = {k}

Rows == \A t \in Coarse : \A k \in DOMAIN table[t] : RowOK(t, k)

Work == /\ pc \in {Idle, Purging, Down} \cup {Filling(t) : t \in Coarse}
        /\ pc.at = "fill" => win = None \/ Aligned(win, Size[pc.t])

IInv == now \in Nat /\ DOMAIN table = Tables /\ Raw /\ Rows /\ Work

-----------------------------------------------------------------------------
(* Windows. *)

\* What the assumption on the constants says of the tables and their sizes.
LEMMA Constants ==
  /\ MaxTime \in Nat /\ MaxLate \in Nat /\ Len(Size) \in Nat \ {0}
  /\ Coarse = 1..Len(Size) /\ Tables = 0..Len(Size)
  /\ \A t \in Coarse : Size[t] \in Nat \ {0}
  /\ \A t \in Coarse : t # 1 => t - 1 \in Coarse /\ Size[t] % Size[t - 1] = 0
  /\ Positions \subseteq Nat
<1> USE HistoryAssumption
<1>1. MaxTime \in Nat /\ MaxLate \in Nat
  OBVIOUS
<1>2. Len(Size) \in Nat \ {0} /\ DOMAIN Size = 1..Len(Size)
  OBVIOUS
<1>3. Positions \subseteq Nat
  BY <1>1 DEF Positions
<1> QED BY <1>1, <1>2, <1>3 DEF Coarse, Tables

\* Two windows of one size that do not begin together do not overlap.
LEMMA WindowsApart ==
  ASSUME NEW n \in Nat \ {0}, NEW v, NEW w, Aligned(v, n), Aligned(w, n), v < w
  PROVE  v + n <= w
<1>1. PICK i \in Nat : v = n * i
  BY DEF Aligned
<1>2. PICK j \in Nat : w = n * j
  BY DEF Aligned
<1>3. i < j
  <2> SUFFICES ASSUME j <= i PROVE FALSE
    OBVIOUS
  <2>1. n * j <= n * i
    OBVIOUS
  <2> QED BY <2>1, <1>1, <1>2
<1>4. n * (i + 1) <= n * j
  BY <1>3
<1> QED BY <1>1, <1>2, <1>4

\* The end of a window is where a smaller one begins when the sizes divide.
LEMMA EndIsAligned ==
  ASSUME NEW m \in Nat \ {0}, NEW n \in Nat \ {0}, n % m = 0, NEW w, Aligned(w, n)
  PROVE  Aligned(w + n, m)
<1>1. PICK i \in Nat : w = n * i
  BY DEF Aligned
<1>2. PICK d \in Nat : n = m * d
  BY n = m * (n \div m) + (n % m), n \div m \in Nat
<1>3. w + n = m * (d * i + d)
  BY <1>1, <1>2
<1>4. PICK e \in Nat : w + n = m * e
  <2>1. d * i + d \in Nat
    OBVIOUS
  <2> QED BY <1>3, <2>1
<1>5. w + n \in Nat
  BY DEF Aligned
<1> QED BY <1>4, <1>5 DEF Aligned

\* Truncate gives the beginning of a window.
LEMMA TruncateAligns ==
  ASSUME NEW x \in Nat, NEW n \in Nat \ {0}
  PROVE  Aligned(Truncate(x, n), n)
<1>1. x = n * (x \div n) + (x % n) /\ x \div n \in Nat
  OBVIOUS
<1>2. Truncate(x, n) = n * (x \div n)
  BY <1>1 DEF Truncate
<1>3. Truncate(x, n) \in Nat
  BY <1>2, <1>1
<1> QED BY <1>1, <1>2, <1>3 DEF Aligned

\* A nonempty set of naturals has a least element, and Min is that element.
LEMMA MinIsLeast ==
  ASSUME NEW S, S \subseteq Nat, S # {}
  PROVE  Min(S) \in S /\ \A x \in S : Min(S) <= x
<1> DEFINE Less == OpToRel(<, Nat)
<1>1. PICK m \in S : \A y \in S : ~(<<y, m>> \in Less)
  <2> HIDE DEF Less
  <2>1. IsWellFoundedOn(Less, Nat)
    BY NatLessThanWellFounded, Zenon DEF Less
  <2> QED BY <2>1, WFMin, Zenon
<1>2. \A y \in S : m <= y
  <2> SUFFICES ASSUME NEW y \in S, y < m PROVE FALSE
    OBVIOUS
  <2>1. <<y, m>> \in Nat \X Nat
    OBVIOUS
  <2>2. <<y, m>>[1] = y /\ <<y, m>>[2] = m
    OBVIOUS
  <2>3. <<y, m>> \in Less
    BY <2>1, <2>2 DEF OpToRel
  <2> QED BY <1>1, <2>3
<1> QED BY <1>2 DEF Min

\* A nonempty set of integers below a bound has a greatest element, and Max is
\* that element.
LEMMA MaxIsGreatest ==
  ASSUME NEW n \in Nat, NEW S, S \subseteq 0..n, S # {}
  PROVE  Max(S) \in S /\ \A x \in S : x <= Max(S)
<1> DEFINE Mirror == {n - x : x \in S}
<1>1. Mirror \subseteq Nat /\ Mirror # {}
  <2>1. \A x \in S : n - x \in Nat
    OBVIOUS
  <2> QED BY <2>1
<1>2. Min(Mirror) \in Mirror /\ \A y \in Mirror : Min(Mirror) <= y
  <2> HIDE DEF Mirror
  <2> QED BY <1>1, MinIsLeast
<1>3. PICK g \in S : Min(Mirror) = n - g
  BY <1>2
<1>4. \A y \in S : g >= y
  <2> SUFFICES ASSUME NEW y \in S PROVE g >= y
    OBVIOUS
  <2>1. n - y \in Mirror
    OBVIOUS
  <2>2. n - g <= n - y
    BY <1>2, <1>3, <2>1
  <2> QED BY <2>2
<1>5. Max(S) \in S /\ \A y \in S : Max(S) >= y
  BY <1>4 DEF Max
<1> QED BY <1>5

\* Where Aggregate starts is the beginning of a window, of whatever row the start is
\* taken from.
LEMMA StartAligns ==
  ASSUME IInv, NEW t \in Coarse
  PROVE  Start(t) = None \/ Aligned(Start(t), Size[t])
<1> USE Constants
<1>1. Size[t] \in Nat \ {0} /\ t \in Tables /\ t - 1 \in Tables
  OBVIOUS
<1>2. ASSUME NEW u \in Tables PROVE PlacesOf(u) \subseteq 0..2 * now
  <2> SUFFICES ASSUME NEW k \in DOMAIN table[u] PROVE k[2] \in 0..2 * now
    BY DEF PlacesOf
  <2>1. CASE u = 0
    BY <2>1 DEF IInv, Raw
  <2>2. CASE u \in Coarse
    <3>1. PICK h \in Hosts, w \in Nat : k = <<h, Place(w)>> /\ w + Size[u] <= now
      BY <2>2 DEF IInv, Rows, RowOK
    <3> QED BY <3>1, <2>2 DEF IInv, Place
  <2> QED BY <2>1, <2>2
<1>3. 2 * now \in Nat
  BY DEF IInv
<1>4. ASSUME NEW p \in 0..2 * now PROVE Aligned(Truncate(Time(p), Size[t]), Size[t])
  <2>1. p + 1 \in Nat /\ Time(p) \in Nat
    BY <1>3 DEF Time
  <2> QED BY <2>1, <1>1, TruncateAligns
<1>5. CASE PlacesOf(t) # {}
  <2>1. Max(PlacesOf(t)) \in 0..2 * now
    BY <1>5, <1>1, <1>2, <1>3, MaxIsGreatest
  <2> QED BY <1>5, <2>1, <1>4 DEF Start
<1>6. CASE PlacesOf(t) = {} /\ PlacesOf(t - 1) # {}
  <2>1. PlacesOf(t - 1) \subseteq 0..2 * now
    BY <1>1, <1>2
  <2>2. PlacesOf(t - 1) \subseteq Nat
    BY <2>1, <1>3
  <2>3. Min(PlacesOf(t - 1)) \in PlacesOf(t - 1)
    BY <1>6, <2>2, MinIsLeast
  <2> QED BY <1>6, <2>1, <2>3, <1>4 DEF Start
<1> QED BY <1>5, <1>6 DEF Start

-----------------------------------------------------------------------------
(* The actions. *)

\* What is left of a table keeps its rows.
LEMMA RowsStay ==
  ASSUME IInv, NEW t \in Coarse, NEW k \in DOMAIN table[t],
         t \in DOMAIN table', k \in DOMAIN table'[t], table'[t][k] = table[t][k],
         now' \in Nat, now <= now'
  PROVE  RowOK(t, k)'
<1>1. PICK h \in Hosts, w \in Nat :
        /\ k = <<h, Place(w)>>
        /\ Aligned(w, Size[t]) /\ w + Size[t] <= now
        /\ table[t][k] \subseteq Samples(t, h, w)
  BY DEF IInv, Rows, RowOK
<1>2. w + Size[t] <= now'
  BY <1>1, Constants DEF IInv
<1> QED BY <1>1, <1>2 DEF RowOK

\* Nothing is stored at first.
LEMMA InitInv == Init => IInv
<1> SUFFICES ASSUME Init PROVE IInv
  OBVIOUS
<1>1. now \in Nat /\ DOMAIN table = Tables /\ \A t \in Tables : DOMAIN table[t] = {}
  BY DEF Init
<1>2. Raw /\ Rows
  BY <1>1, Constants DEF Raw, Rows
<1>3. Work
  BY DEF Init, Work, Idle
<1> QED BY <1>1, <1>2, <1>3 DEF IInv

\* A sample is one row of the first table, no later than now.
LEMMA ReportInv ==
  ASSUME IInv, NEW h \in Hosts, NEW p \in Positions, Report(h, p)
  PROVE  IInv'
<1>1. /\ now' = now /\ pc' = pc /\ win' = win
      /\ table' = [table EXCEPT ![0] = Replaced(@, [r \in {<<h, p>>} |-> {<<h, p>>}])]
  BY DEF Report
<1>2. now \in Nat /\ DOMAIN table = Tables /\ 0 \in Tables /\ DOMAIN table' = Tables
  BY <1>1, Constants DEF IInv
<1>3. p \in 0..2 * now
  <2>1. p \in Nat /\ (p + 1) \div 2 <= now
    BY <1>2, Constants DEF Report, Time
  <2> QED BY <2>1, <1>2
<1>4. Raw'
  <2> SUFFICES ASSUME NEW k \in DOMAIN table'[0]
               PROVE  k \in Hosts \X (0..2 * now) /\ table'[0][k] = {k}
    BY <1>1 DEF Raw
  <2>1. table'[0] = Replaced(table[0], [r \in {<<h, p>>} |-> {<<h, p>>}])
    BY <1>1, <1>2
  <2>2. CASE k = <<h, p>>
    BY <2>1, <2>2, <1>3 DEF Replaced
  <2>3. CASE k # <<h, p>>
    <3>1. k \in DOMAIN table[0] /\ table'[0][k] = table[0][k]
      BY <2>1, <2>3 DEF Replaced
    <3> QED BY <3>1 DEF IInv, Raw
  <2> QED BY <2>2, <2>3
<1>5. Rows'
  <2> SUFFICES ASSUME NEW t \in Coarse, NEW k \in DOMAIN table'[t]
               PROVE  RowOK(t, k)'
    BY DEF Rows
  <2>1. table'[t] = table[t] /\ t \in DOMAIN table'
    BY <1>1, <1>2, Constants
  <2>2. now' \in Nat /\ now <= now'
    BY <1>1, <1>2
  <2> QED BY <2>1, <2>2, RowsStay
<1>6. Work'
  BY <1>1 DEF IInv, Work
<1> QED BY <1>1, <1>2, <1>4, <1>5, <1>6 DEF IInv

\* Time only adds positions.
LEMMA MorePlaces ==
  ASSUME NEW a \in Nat, NEW b \in Nat, a <= b
  PROVE  0..2 * a \subseteq 0..2 * b
  OBVIOUS

\* A step that writes no table and does not go back in time.
LEMMA SameTables ==
  ASSUME IInv, table' = table, now' \in Nat, now <= now', Work'
  PROVE  IInv'
<1>1. now \in Nat /\ DOMAIN table' = Tables
  BY DEF IInv
<1>2. Raw'
  <2> SUFFICES ASSUME NEW k \in DOMAIN table[0]
               PROVE  k \in Hosts \X (0..2 * now') /\ table[0][k] = {k}
    BY DEF Raw
  <2>1. k \in Hosts \X (0..2 * now) /\ table[0][k] = {k}
    BY DEF IInv, Raw
  <2>2. 0..2 * now \subseteq 0..2 * now'
    BY <1>1, MorePlaces
  <2> QED BY <2>1, <2>2
<1>3. Rows'
  <2> SUFFICES ASSUME NEW t \in Coarse, NEW k \in DOMAIN table[t]
               PROVE  RowOK(t, k)'
    BY DEF Rows
  <2> QED BY <1>1, Constants, RowsStay
<1> QED BY <1>1, <1>2, <1>3 DEF IInv

\* What one window computes: each row is made of samples of its host within the
\* window, for a finer window that begins inside ends inside.
LEMMA ComputedWithin ==
  ASSUME IInv, NEW t \in Coarse, NEW w, Aligned(w, Size[t]),
         NEW r \in DOMAIN Computed(t, w)
  PROVE  \E h \in Hosts : r = <<h, Place(w)>> /\ Computed(t, w)[r] \subseteq Samples(t, h, w)
<1> DEFINE source == {k \in DOMAIN table[t - 1] : Inside(t, w, k[2])}
<1>0. /\ Size[t] \in Nat \ {0} /\ t \in Nat \ {0} /\ t - 1 \in Tables
      /\ now \in Nat /\ w \in Nat
  BY Constants DEF IInv, Aligned
<1>1. PICK k \in source : r = <<k[1], Place(w)>>
  BY DEF Computed
<1>2. Computed(t, w)[r] = UNION {table[t - 1][l] : l \in {l \in source : l[1] = r[1]}}
  BY DEF Computed
<1>3. ASSUME NEW l \in source
      PROVE  /\ l[1] \in Hosts
             /\ \A s \in table[t - 1][l] : s \in Hosts \X Nat /\ s[1] = l[1] /\ Inside(t, w, s[2])
  <2>1. CASE t = 1
    <3>1. l \in Hosts \X (0..2 * now) /\ table[0][l] = {l}
      BY <2>1 DEF IInv, Raw
    <3> QED BY <3>1, <2>1, <1>0
  <2>2. CASE t # 1
    <3>1. t - 1 \in Coarse /\ Size[t] % Size[t - 1] = 0 /\ Size[t - 1] \in Nat \ {0}
      BY <2>2, Constants
    <3>2. PICK h \in Hosts, v \in Nat :
            /\ l = <<h, Place(v)>> /\ Aligned(v, Size[t - 1])
            /\ table[t - 1][l] \subseteq Samples(t - 1, h, v)
      BY <3>1 DEF IInv, Rows, RowOK
    <3>3. w <= v /\ v < w + Size[t]
      BY <3>2, <1>0 DEF Inside, Place
    <3>4. v + Size[t - 1] <= w + Size[t]
      BY <3>1, <3>2, <3>3, <1>0, EndIsAligned, WindowsApart
    <3>5. ASSUME NEW s \in table[t - 1][l]
          PROVE  s \in Hosts \X Nat /\ s[1] = l[1] /\ Inside(t, w, s[2])
      <4>1. s \in Hosts \X Nat /\ s[1] = h /\ Inside(t - 1, v, s[2])
        BY <3>2 DEF Samples
      <4> QED BY <4>1, <3>1, <3>2, <3>3, <3>4, <1>0 DEF Inside, Place
    <3> QED BY <3>2, <3>5
  <2> QED BY <2>1, <2>2
<1>4. Computed(t, w)[r] \subseteq Samples(t, k[1], w)
  <2> HIDE DEF source
  <2> SUFFICES ASSUME NEW s \in Computed(t, w)[r] PROVE s \in Samples(t, k[1], w)
    OBVIOUS
  <2>1. PICK l \in source : l[1] = r[1] /\ s \in table[t - 1][l]
    BY <1>2
  <2> QED BY <2>1, <1>1, <1>3 DEF Samples
<1> QED BY <1>1, <1>3, <1>4

\* The rows a window writes are within it, the others stay, and the next window
\* begins where this one ends.
LEMMA FillInv ==
  ASSUME IInv, Fill
  PROVE  IInv'
<1> DEFINE t == pc.t
<1>1. /\ pc.at = "fill" /\ now' = now /\ pc' = pc /\ win' = win + Size[t]
      /\ table' = [table EXCEPT ![t] = Replaced(@, Computed(t, win))]
      /\ win # None /\ win + Size[t] <= now
  BY DEF Fill, Complete
<1>2. t \in Coarse /\ Aligned(win, Size[t])
  BY <1>1 DEF IInv, Work, Idle, Purging, Down, Filling
<1>3. /\ now \in Nat /\ DOMAIN table = Tables /\ DOMAIN table' = Tables
      /\ t \in Tables /\ t # 0 /\ Size[t] \in Nat \ {0}
  BY <1>1, <1>2, Constants DEF IInv
<1>4. Raw'
  <2>1. table'[0] = table[0]
    BY <1>1, <1>3, Constants
  <2> QED BY <2>1, <1>1 DEF IInv, Raw
<1>5. Rows'
  <2> SUFFICES ASSUME NEW u \in Coarse, NEW k \in DOMAIN table'[u]
               PROVE  RowOK(u, k)'
    BY DEF Rows
  <2>0. u \in DOMAIN table' /\ u \in Tables
    BY <1>3, Constants
  <2>1. CASE u # t
    <3>1. table'[u] = table[u]
      BY <1>1, <1>3, <2>0, <2>1
    <3> QED BY <3>1, <1>1, <1>3, <2>0, RowsStay
  <2>2. CASE u = t /\ k \in DOMAIN Computed(t, win)
    <3>1. table'[u][k] = Computed(t, win)[k]
      BY <1>1, <1>3, <2>2 DEF Replaced
    <3>2. PICK h \in Hosts :
            k = <<h, Place(win)>> /\ Computed(t, win)[k] \subseteq Samples(t, h, win)
      BY <1>2, <2>2, ComputedWithin
    <3>3. win \in Nat
      BY <1>2 DEF Aligned
    <3> QED BY <3>1, <3>2, <3>3, <1>1, <1>2, <2>2 DEF RowOK
  <2>3. CASE u = t /\ k \notin DOMAIN Computed(t, win)
    <3>1. k \in DOMAIN table[u] /\ table'[u][k] = table[u][k]
      BY <1>1, <1>3, <2>3 DEF Replaced
    <3> QED BY <3>1, <1>1, <1>3, <2>0, RowsStay
  <2> QED BY <2>1, <2>2, <2>3
<1>6. Work'
  <2>1. Aligned(win + Size[t], Size[t])
    <3>1. Size[t] % Size[t] = 0
      BY <1>3
    <3> QED BY <1>2, <1>3, <3>1, EndIsAligned
  <2> QED BY <1>1, <2>1 DEF IInv, Work
<1> QED BY <1>1, <1>3, <1>4, <1>5, <1>6 DEF IInv

\* A purge only takes rows away.
LEMMA PurgeInv ==
  ASSUME IInv, NEW keep \in Keeps, NEW n \in 0..Len(Size), Purge(keep, n)
  PROVE  IInv'
<1>1. /\ now' = now /\ pc' = Idle /\ now \in Nat
      /\ DOMAIN table = Tables /\ DOMAIN table' = Tables
  BY DEF Purge, IInv
<1>2. ASSUME NEW t \in Tables, NEW k \in DOMAIN table'[t]
      PROVE  k \in DOMAIN table[t] /\ table'[t][k] = table[t][k]
  BY DEF Purge, Restrict
<1>3. Raw'
  BY <1>1, <1>2, Constants DEF IInv, Raw
<1>4. Rows'
  <2> SUFFICES ASSUME NEW t \in Coarse, NEW k \in DOMAIN table'[t]
               PROVE  RowOK(t, k)'
    BY DEF Rows
  <2>1. t \in Tables
    BY Constants
  <2> QED BY <1>1, <1>2, <2>1, RowsStay
<1>5. Work'
  BY <1>1 DEF Work, Idle
<1> QED BY <1>1, <1>3, <1>4, <1>5 DEF IInv

\* Every step keeps the invariant.
LEMMA StepInv == IInv /\ [Next]_vars => IInv'
<1> SUFFICES ASSUME IInv, [Next]_vars PROVE IInv'
  OBVIOUS
<1>0. now \in Nat /\ now <= now
  BY DEF IInv
<1>1. ASSUME NEW h \in Hosts, NEW p \in Positions, Report(h, p) PROVE IInv'
  BY <1>1, ReportInv
<1>2. CASE Hourly
  <2>1. 1 \in Coarse
    BY Constants
  <2>2. Start(1) = None \/ Aligned(Start(1), Size[1])
    BY <2>1, StartAligns
  <2>3. Work'
    BY <1>2, <2>1, <2>2 DEF Hourly, Work, Filling
  <2> QED BY <1>0, <1>2, <2>3, SameTables DEF Hourly
<1>3. CASE Fill
  BY <1>3, FillInv
<1>4. CASE NextTable
  <2>1. ASSUME pc.t < Len(Size) PROVE Work'
    <3>1. pc.t \in Coarse
      BY <1>4 DEF NextTable, IInv, Work, Idle, Purging, Down, Filling
    <3>2. pc.t + 1 \in Coarse
      BY <2>1, <3>1, Constants
    <3>3. Start(pc.t + 1) = None \/ Aligned(Start(pc.t + 1), Size[pc.t + 1])
      BY <3>2, StartAligns
    <3>4. pc' = Filling(pc.t + 1) /\ win' = Start(pc.t + 1)
      BY <1>4, <2>1 DEF NextTable
    <3> QED BY <3>2, <3>3, <3>4 DEF Work, Filling
  <2>2. ASSUME ~(pc.t < Len(Size)) PROVE Work'
    BY <1>4, <2>2 DEF NextTable, Work, Purging
  <2> QED BY <1>0, <1>4, <2>1, <2>2, SameTables DEF NextTable
<1>5. CASE FillFails
  <2>1. Work'
    BY <1>5 DEF FillFails, Work, Purging
  <2> QED BY <1>0, <1>5, <2>1, SameTables DEF FillFails
<1>6. ASSUME NEW keep \in Keeps, NEW n \in 0..Len(Size), Purge(keep, n) PROVE IInv'
  BY <1>6, PurgeInv
<1>7. CASE Stop
  <2>1. Work'
    BY <1>7 DEF Stop, Work, Down
  <2> QED BY <1>0, <1>7, <2>1, SameTables DEF Stop
<1>8. CASE Tick
  <2>1. Work'
    BY <1>8 DEF Tick, Work, IInv
  <2>2. now' \in Nat /\ now <= now'
    BY <1>0, <1>8 DEF Tick
  <2> QED BY <1>8, <2>1, <2>2, SameTables DEF Tick
<1>9. CASE TickDown
  <2>1. Work'
    BY <1>9 DEF TickDown, Work, IInv
  <2>2. now' \in Nat /\ now <= now'
    BY <1>0, <1>9 DEF TickDown
  <2> QED BY <1>9, <2>1, <2>2, SameTables DEF TickDown
<1>10. CASE Boot
  <2>1. Work'
    BY <1>10 DEF Boot, Work, Idle
  <2> QED BY <1>0, <1>10, <2>1, SameTables DEF Boot
<1>11. CASE UNCHANGED vars
  <2>1. Work'
    BY <1>11 DEF vars, Work, IInv
  <2> QED BY <1>0, <1>11, <2>1, SameTables DEF vars
<1> QED BY <1>1, <1>2, <1>3, <1>4, <1>5, <1>6, <1>7, <1>8, <1>9, <1>10, <1>11 DEF Next

-----------------------------------------------------------------------------
\* Rows of one host that share a sample stand for windows that overlap, so for one.
LEMMA InvDisjoint == IInv => WindowsAreDisjoint
<1> SUFFICES ASSUME IInv, NEW t \in Coarse, NEW k \in DOMAIN table[t], NEW l \in DOMAIN table[t]
             PROVE  /\ k[2] + Place(Size[t]) <= Place(now)
                    /\ k # l => table[t][k] \cap table[t][l] = {}
  BY DEF WindowsAreDisjoint
<1>0. Size[t] \in Nat \ {0} /\ now \in Nat
  BY Constants DEF IInv
<1>1. PICK h \in Hosts, v \in Nat :
        /\ k = <<h, Place(v)>> /\ Aligned(v, Size[t]) /\ v + Size[t] <= now
        /\ table[t][k] \subseteq Samples(t, h, v)
  BY DEF IInv, Rows, RowOK
<1>2. PICK g \in Hosts, w \in Nat :
        /\ l = <<g, Place(w)>> /\ Aligned(w, Size[t]) /\ w + Size[t] <= now
        /\ table[t][l] \subseteq Samples(t, g, w)
  BY DEF IInv, Rows, RowOK
<1>3. k[2] + Place(Size[t]) <= Place(now)
  BY <1>0, <1>1 DEF Place
<1>4. ASSUME NEW s \in table[t][k] \cap table[t][l] PROVE k = l
  <2>1. s[1] = h /\ s[1] = g /\ s[2] \in Nat
    BY <1>1, <1>2, <1>4 DEF Samples
  <2>2. Place(v) <= s[2] /\ s[2] < Place(v + Size[t]) /\ Place(w) <= s[2] /\ s[2] < Place(w + Size[t])
    BY <1>1, <1>2, <1>4 DEF Samples, Inside
  <2>3. v < w + Size[t] /\ w < v + Size[t]
    BY <2>1, <2>2, <1>0, <1>1, <1>2 DEF Place
  <2>4. ~(v < w)
    <3>1. v < w => v + Size[t] <= w
      BY <1>0, <1>1, <1>2, WindowsApart
    <3> QED BY <2>3, <3>1, <1>0
  <2>5. ~(w < v)
    <3>1. w < v => w + Size[t] <= v
      BY <1>0, <1>1, <1>2, WindowsApart
    <3> QED BY <2>3, <3>1, <1>0
  <2>6. v = w
    BY <2>4, <2>5
  <2> QED BY <2>1, <2>6, <1>1, <1>2
<1> QED BY <1>3, <1>4

\* In every run of Aggregate and Purge, with failures, restarts and samples that arrive
\* between any two statements, a row of a coarser table stands for a window that is
\* over, and no sample is counted in two rows of one table: store/retention.go.
THEOREM SampleCountsOnce == Spec => []WindowsAreDisjoint
<1>1. Spec => []IInv
  BY InitInv, StepInv, PTL DEF Spec
<1> QED BY <1>1, InvDisjoint, PTL

-----------------------------------------------------------------------------
(* What is retained. *)

\* Where the instant of a row ends: of a sample, its time; of a window, its end.
End(t, p) == IF t = 0 THEN Time(p) ELSE p \div 2 + Size[t]

\* The work passed table t in the last hour, or in the one before.
Passed(t) == IF pc.at = "fill" /\ pc.t <= t THEN due - 2 * Hour ELSE due - Hour

\* ... and without a fault no earlier than this.
Low(t) == Passed(t) - Hour * faults

\* How much older than now the newest sample may be.
Lag == MaxSilence + MaxLate + down

\* Where the newest row of table t ends at the earliest.
Recent(t) == Low(t) - Size[t] + 1 - Lag

\* The window of table t that is computed next.
Opening(t) == IF pc = Filling(t) /\ win # None THEN win ELSE Start(t)

\* The work begins on its hour, or at the boot, and takes no time; faults, silence and
\* the time without the hub are bounded.
Clocks ==
  /\ {heard, due, down, faults} \subseteq Nat /\ faults <= MaxFaults /\ down <= MaxDown
  /\ heard <= now /\ now - heard <= MaxSilence
  /\ pc = Idle => due - Hour <= now /\ now <= due
  /\ pc = Down => now = due
  /\ pc \notin {Idle, Down} => now = due - Hour

\* The first table reaches back to the sample heard of last.
Heard == PlacesOf(0) # {} => Time(Max(PlacesOf(0))) >= heard - MaxLate - down

\* No table is ahead of its source.
Downhill == \A t \in Coarse : PlacesOf(t) # {} =>
  PlacesOf(t - 1) # {} /\ Max(PlacesOf(t - 1)) >= Max(PlacesOf(t))

\* The table being filled was opened at its newest row, or at the oldest of its source.
Opened ==
  pc.at = "fill" =>
    IF win = None
    THEN PlacesOf(pc.t) = {} /\ (pc.t # 1 => PlacesOf(pc.t - 1) = {})
    ELSE Start(pc.t) # None /\ Start(pc.t) <= win

\* A sample that may have come within the present hour's work.
Fresh(p) == Time(p) >= now - MaxLate - down

\* While the first roll-up is empty, every sample before the windows still to come was
\* late, or is within the second before the first window.
FirstWindow ==
  PlacesOf(1) = {} /\ pc \notin {Idle, Down} => \A k \in DOMAIN table[0] :
    /\ pc = Filling(1) =>
         \/ Fresh(k[2])
         \/ win # None /\ (k[2] >= Place(win) \/ k[2] < Place(Start(1)))
    /\ k[2] < Place(Opening(1)) => Fresh(k[2]) \/ table[0][k] \subseteq skipped

\* The newest rows can be computed again.
Again == \A t \in Coarse : \A k \in DOMAIN table[t] : k[2] = Max(PlacesOf(t)) =>
  \A s \in table[t][k] : \E j \in DOMAIN table[t - 1] :
    j[1] = k[1] /\ k[2] <= j[2] /\ j[2] < k[2] + Place(Size[t]) /\ s \in table[t - 1][j]

\* The windows of table t have passed p.
Done(t, p) == IF pc = Filling(t) /\ win # None THEN p < Place(win)
              ELSE PlacesOf(t) # {} /\ p < Max(PlacesOf(t))

\* What they have passed is in the table.
RolledUp == \A t \in Coarse : \A j \in DOMAIN table[t - 1] : Done(t, j[2]) =>
  \A s \in table[t - 1][j] \ skipped : \E k \in DOMAIN table[t] :
    k[2] <= j[2] /\ j[2] < k[2] + Place(Size[t]) /\ s \in table[t][k]

\* A table that has rows has a recent one.
NewestRecent == \A t \in Coarse : PlacesOf(t) # {} => End(t, Max(PlacesOf(t))) >= Recent(t)

\* One that has none has not missed any that is not recent.
SourceRecent == \A t \in Coarse : PlacesOf(t) = {} =>
  \A p \in PlacesOf(t - 1) : End(t - 1, p) >= Recent(t) \/ (t = 1 /\ p < Place(Opening(1)))

\* No row up to table t is before x, the window that is not over yet ...
Young(t, x) == \A u \in 1..t : \A p \in PlacesOf(u) : p >= Place(x)

\* ... and no sample that will be rolled up.
Unseen(t, x) == Young(t, x) /\ \A p \in PlacesOf(0) : p >= Place(x) \/ p < Place(Opening(1))

\* Row p of table s is about as new as a row before x can be, and is still to be rolled
\* up as far as table t; where the work has passed, nothing above it is that old.
Carries(t, x, s, p) ==
  /\ p < Place(x) /\ End(s, p) >= x - Lag
  /\ s < t =>
       /\ Place(Opening(s + 1)) <= p
       /\ End(s, p) >= Low(t) - Lag
       /\ pc.at = "fill" /\ s < pc.t - 1 => Young(t, x) /\ End(s, p) >= now - Lag

\* Some row will bring table t up to x, or there is nothing to bring.
Over(t, x) == Unseen(t, x) \/ \E s \in 0..t : \E p \in PlacesOf(s) : Carries(t, x, s, p)

Carried == \A t \in Coarse : Over(t, Truncate(now, Size[t]))

Retained ==
  /\ IInv /\ Clocks /\ Heard /\ Downhill /\ Opened /\ FirstWindow
  /\ Again /\ RolledUp /\ NewestRecent /\ SourceRecent /\ Carried

-----------------------------------------------------------------------------
(* Facts of a state. *)

\* What the assumption says of the other constants.
LEMMA MoreConstants ==
  /\ {Hour, MaxSilence, MaxLate, MaxDown, MaxFaults} \subseteq Nat /\ None \notin Nat
  /\ \A keep \in Keeps, t \in Coarse : keep[t] \in Nat
BY HistoryAssumption DEF Coarse

\* The stages of the hourly work differ.
LEMMA Stages ==
  /\ Idle.at = "idle" /\ Purging.at = "purge" /\ Down.at = "down" /\ Idle # Purging /\ Down \notin {Idle, Purging}
  /\ \A t : Filling(t).at = "fill" /\ Filling(t).t = t /\ Filling(t) \notin {Idle, Purging, Down}
  /\ \A t, u : Filling(t) = Filling(u) => t = u
<1>1. Idle.at = "idle" /\ Purging.at = "purge" /\ Down.at = "down"
  BY DEF Idle, Purging, Down
<1>2. \A t : Filling(t).at = "fill" /\ Filling(t).t = t
  BY DEF Filling
<1> QED BY <1>1, <1>2

\* ... and filling is filling some table.
LEMMA IsFilling ==
  ASSUME Work, pc.at = "fill"
  PROVE  pc.t \in Coarse /\ pc = Filling(pc.t)
BY Stages DEF Work

\* A size divides those of the tables after it, and is no larger.
LEMMA SizesDivide ==
  ASSUME NEW s \in Coarse, NEW t \in Coarse, s <= t
  PROVE  Size[s] <= Size[t] /\ \E d \in Nat : Size[t] = Size[s] * d
<1> DEFINE Good(u) == Size[s] <= Size[u] /\ \E d \in Nat : Size[u] = Size[s] * d
           Bad == {u \in Coarse : s <= u /\ ~Good(u)}
<1>1. Good(s)
  BY Constants, Size[s] = Size[s] * 1
<1>2. ASSUME NEW u \in Coarse, u # 1, Good(u - 1) PROVE Good(u)
  <2>1. u - 1 \in Coarse /\ Size[u] % Size[u - 1] = 0 /\ Size[u] \in Nat \ {0} /\ Size[u - 1] \in Nat \ {0} /\ Size[s] \in Nat \ {0}
    BY <1>2, Constants
  <2>2. Size[u] = Size[u - 1] * (Size[u] \div Size[u - 1]) /\ Size[u] \div Size[u - 1] \in Nat
    BY <2>1
  <2>3. PICK e \in Nat : Size[u] = Size[u - 1] * e
    BY <2>2
  <2>4. PICK d \in Nat : Size[u - 1] = Size[s] * d
    BY <1>2
  <2>5. Size[u] = Size[s] * (d * e) /\ d * e \in Nat
    BY <2>3, <2>4, <2>1
  <2>6. e # 0
    BY <2>3, <2>1
  <2>7. Size[u - 1] <= Size[u]
    BY <2>3, <2>6, <2>1
  <2> QED BY <2>5, <2>7, <2>1, <1>2
<1>3. Bad = {}
  <2> SUFFICES ASSUME Bad # {} PROVE FALSE
    OBVIOUS
  <2>1. Bad \subseteq Nat
    BY Constants
  <2>2. Min(Bad) \in Bad /\ \A u \in Bad : Min(Bad) <= u
    BY <2>1, MinIsLeast
  <2> DEFINE m == Min(Bad)
  <2>3. m \in Coarse /\ s <= m /\ ~Good(m) /\ m # s
    BY <2>2, <1>1
  <2>4. m # 1 /\ m - 1 \in Coarse /\ s <= m - 1
    <3> HIDE DEF m
    <3>1. m \in Nat /\ s \in Nat /\ s # 0
      BY <2>3, Constants
    <3>2. s <= m /\ m # s
      BY <2>3
    <3>3. m # 1 /\ s <= m - 1
      BY <3>1, <3>2
    <3> QED BY <2>3, <3>3, Constants
  <2>5. m - 1 \notin Bad
    <3> SUFFICES ASSUME m - 1 \in Bad PROVE FALSE
      OBVIOUS
    <3>1. m <= m - 1
      BY <2>2
    <3> HIDE DEF m
    <3> QED BY <3>1, <2>3, Constants
  <2>6. Good(m - 1)
    BY <2>4, <2>5
  <2> HIDE DEF Good, m, Bad
  <2> QED BY <2>3, <2>4, <2>6, <1>2
<1> QED BY <1>3

\* Where a window begins, one of a smaller size begins.
LEMMA AlignedDown ==
  ASSUME NEW s \in Coarse, NEW t \in Coarse, s <= t, NEW x, Aligned(x, Size[t])
  PROVE  Aligned(x, Size[s])
<1>1. PICK d \in Nat : Size[t] = Size[s] * d
  BY SizesDivide
<1>2. PICK q \in Nat : x = Size[t] * q
  BY DEF Aligned
<1>3. x = Size[s] * (d * q) /\ d * q \in Nat
  BY <1>1, <1>2, Constants
<1> QED BY <1>3 DEF Aligned

\* The places of a table, and of a coarser one.
LEMMA PlacesAre ==
  ASSUME IInv, NEW u \in Tables
  PROVE  /\ PlacesOf(u) \subseteq Nat
         /\ \A p \in PlacesOf(u) : p <= 2 * now
         /\ u \in Coarse => \A p \in PlacesOf(u) : \E w \in Nat :
              /\ p = 2 * w /\ p \div 2 = w /\ Time(p) = w
              /\ Aligned(w, Size[u]) /\ w + Size[u] <= now
<1> SUFFICES ASSUME NEW k \in DOMAIN table[u]
             PROVE  /\ k[2] \in Nat /\ k[2] <= 2 * now
                    /\ u \in Coarse => \E w \in Nat :
                         /\ k[2] = 2 * w /\ k[2] \div 2 = w /\ Time(k[2]) = w
                         /\ Aligned(w, Size[u]) /\ w + Size[u] <= now
  BY DEF PlacesOf
<1>0. now \in Nat
  BY DEF IInv
<1>1. CASE u = 0
  <2>1. k[2] \in 0..2 * now
    BY <1>1 DEF IInv, Raw
  <2> QED BY <2>1, <1>0, <1>1, Constants
<1>2. CASE u \in Coarse
  <2>1. PICK h \in Hosts, w \in Nat : k = <<h, Place(w)>> /\ Aligned(w, Size[u]) /\ w + Size[u] <= now
    BY <1>2 DEF IInv, Rows, RowOK
  <2>2. k[2] = 2 * w
    BY <2>1 DEF Place
  <2>3. k[2] \div 2 = w /\ Time(k[2]) = w
    BY <2>2 DEF Time
  <2> QED BY <1>2, <2>1, <2>2, <2>3, <1>0, Constants
<1> QED BY <1>1, <1>2 DEF Tables

\* The newest and the oldest row of a table.
LEMMA Newest ==
  ASSUME IInv, NEW u \in Tables, PlacesOf(u) # {}
  PROVE  Max(PlacesOf(u)) \in PlacesOf(u) /\ \A p \in PlacesOf(u) : p <= Max(PlacesOf(u))
<1>1. 2 * now \in Nat
  BY DEF IInv
<1>2. PlacesOf(u) \subseteq 0..2 * now
  BY PlacesAre, <1>1
<1> QED BY <1>1, <1>2, MaxIsGreatest

LEMMA Oldest ==
  ASSUME IInv, NEW u \in Tables, PlacesOf(u) # {}
  PROVE  Min(PlacesOf(u)) \in PlacesOf(u) /\ \A p \in PlacesOf(u) : Min(PlacesOf(u)) <= p
BY PlacesAre, MinIsLeast

\* The window an instant falls in.
LEMMA TruncateIs ==
  ASSUME NEW x \in Nat, NEW n \in Nat \ {0}
  PROVE  /\ Truncate(x, n) \in Nat /\ Truncate(x, n) <= x /\ x < Truncate(x, n) + n
         /\ Aligned(Truncate(x, n), n)
<1>1. x % n \in 0..(n - 1)
  OBVIOUS
<1>2. Aligned(Truncate(x, n), n)
  BY TruncateAligns
<1> QED BY <1>1, <1>2 DEF Truncate, Aligned

\* ... is that of the later one or before it.
LEMMA TruncateGrows ==
  ASSUME NEW x \in Nat, NEW y \in Nat, x <= y, NEW n \in Nat \ {0}
  PROVE  Truncate(x, n) <= Truncate(y, n)
<1> DEFINE v == Truncate(y, n)
           w == Truncate(x, n)
<1>1. w \in Nat /\ w <= x /\ Aligned(w, n) /\ v \in Nat /\ y < v + n /\ Aligned(v, n)
  BY TruncateIs
<1> HIDE DEF v, w
<1>2. v < w => v + n <= w
  BY <1>1, WindowsApart
<1>3. w <= v
  BY <1>1, <1>2
<1> QED BY <1>3 DEF v, w

\* ... and begins where it begins.
LEMMA TruncateStays ==
  ASSUME NEW n \in Nat \ {0}, NEW w, Aligned(w, n)
  PROVE  Truncate(w, n) = w
<1> DEFINE v == Truncate(w, n)
<1>1. w \in Nat
  BY DEF Aligned
<1>2. v \in Nat /\ v <= w /\ w < v + n /\ Aligned(v, n)
  BY <1>1, TruncateIs
<1> HIDE DEF v
<1>3. v < w => v + n <= w
  BY <1>2, WindowsApart
<1>4. v = w
  BY <1>1, <1>2, <1>3
<1> QED BY <1>4 DEF v

\* Where Aggregate starts: at the newest row; or else no later than the oldest row
\* of the source, but for a sample in the second before.
StartsWell(t) ==
  /\ PlacesOf(t) # {} => Start(t) \in Nat /\ Place(Start(t)) = Max(PlacesOf(t))
  /\ PlacesOf(t) = {} /\ PlacesOf(t - 1) # {} =>
       /\ Start(t) \in Nat
       /\ \A p \in PlacesOf(t - 1) : Place(Start(t)) <= p + 1 /\ (t # 1 => Place(Start(t)) <= p)
  /\ PlacesOf(t) = {} /\ PlacesOf(t - 1) = {} => Start(t) = None

\* It does, before a step and after it.
LEMMA Starts ==
  ASSUME IInv, NEW t \in Coarse
  PROVE  StartsWell(t)
<1> USE DEF StartsWell
<1>0. t \in Tables /\ t - 1 \in Tables /\ Size[t] \in Nat \ {0} /\ t \in Nat
  BY Constants
<1>1. CASE PlacesOf(t) # {}
  <2>1. Max(PlacesOf(t)) \in PlacesOf(t)
    BY <1>0, <1>1, Newest
  <2>2. PICK w \in Nat : Max(PlacesOf(t)) = 2 * w /\ Time(Max(PlacesOf(t))) = w /\ Aligned(w, Size[t])
    BY <1>0, <2>1, PlacesAre
  <2>3. Start(t) = w
    BY <1>0, <1>1, <2>2, TruncateStays DEF Start
  <2> QED BY <1>1, <2>2, <2>3 DEF Place
<1>2. CASE PlacesOf(t) = {} /\ PlacesOf(t - 1) # {}
  <2> DEFINE m == Min(PlacesOf(t - 1))
  <2>1. m \in PlacesOf(t - 1) /\ m \in Nat /\ \A p \in PlacesOf(t - 1) : p \in Nat /\ m <= p
    BY <1>0, <1>2, Oldest, PlacesAre
  <2>2. Start(t) = Truncate(Time(m), Size[t])
    BY <1>2 DEF Start
  <2>3. t # 1 => 2 * Time(m) = m
    <3> SUFFICES ASSUME t # 1 PROVE 2 * Time(m) = m
      OBVIOUS
    <3>1. t - 1 \in Coarse
      BY Constants
    <3> HIDE DEF m
    <3> QED BY <1>0, <2>1, <3>1, PlacesAre
  <2> HIDE DEF m
  <2>4. Time(m) \in Nat /\ 2 * Time(m) <= m + 1
    BY <2>1 DEF Time
  <2>5. Start(t) \in Nat /\ Start(t) <= Time(m)
    BY <2>2, <2>4, <1>0, TruncateIs
  <2> QED BY <1>2, <2>1, <2>3, <2>4, <2>5 DEF Place
<1>3. CASE PlacesOf(t) = {} /\ PlacesOf(t - 1) = {}
  BY <1>3 DEF Start
<1> QED BY <1>1, <1>2, <1>3

LEMMA StartsNext == IInv' => \A t \in Coarse : StartsWell(t)'
<1>1. IInv => \A t \in Coarse : StartsWell(t)
  BY Starts
<1>2. IInv' => (\A t \in Coarse : StartsWell(t))'
  BY <1>1, PTL
<1> QED BY <1>2

\* An earlier oldest row is an earlier start.
LEMMA EarlierStart ==
  ASSUME NEW m \in Nat, NEW n \in Nat, m <= n, NEW z \in Nat \ {0}
  PROVE  Truncate(Time(m), z) <= Truncate(Time(n), z)
<1>1. Time(m) \in Nat /\ Time(n) \in Nat /\ Time(m) <= Time(n)
  BY DEF Time
<1> QED BY <1>1, TruncateGrows

\* While there is anything to open, the opening is a time.
LEMMA OpeningIs ==
  ASSUME IInv, NEW t \in Coarse, PlacesOf(t) # {} \/ PlacesOf(t - 1) # {}
  PROVE  Opening(t) \in Nat /\ Start(t) \in Nat
<1>1. Start(t) \in Nat
  BY Starts DEF StartsWell
<1>2. pc = Filling(t) /\ win # None => win \in Nat
  BY Stages DEF IInv, Work, Aligned
<1> QED BY <1>1, <1>2 DEF Opening

\* Above an empty table every table is empty.
LEMMA EmptyAbove ==
  ASSUME IInv, Downhill, NEW s \in Tables, PlacesOf(s) = {}, NEW t \in Tables, s <= t
  PROVE  PlacesOf(t) = {}
<1> DEFINE Bad == {u \in Tables : s <= u /\ PlacesOf(u) # {}}
<1>1. Bad = {}
  <2> SUFFICES ASSUME Bad # {} PROVE FALSE
    OBVIOUS
  <2>1. Bad \subseteq Nat
    BY Constants
  <2>2. PICK m \in Bad : \A u \in Bad : m <= u
    BY <2>1, MinIsLeast
  <2>3. m \in Coarse /\ m - 1 \in Tables /\ s <= m - 1 /\ m \in Nat /\ s \in Nat
    <3>1. m # s
      OBVIOUS
    <3> QED BY <3>1, Constants
  <2>4. PlacesOf(m - 1) # {}
    BY <2>3 DEF Downhill
  <2>5. m - 1 \in Bad
    BY <2>3, <2>4
  <2> QED BY <2>2, <2>3, <2>5
<1> QED BY <1>1

\* How old the newest sample may be changes only while the hub is down.
LEMMA LagIs ==
  ASSUME IInv, Clocks
  PROVE  Lag \in Nat /\ down \in Nat /\ Lag <= MaxSilence + MaxLate + MaxDown
BY MoreConstants DEF Clocks, Lag

\* A late sample is within it.
LEMMA LagCovers ==
  ASSUME IInv, Clocks, NEW p \in Nat, Fresh(p)
  PROVE  Time(p) \in Nat /\ Time(p) >= now - Lag
<1>1. {now, down, MaxSilence, MaxLate} \subseteq Nat
  BY MoreConstants, LagIs DEF IInv
<1>2. Time(p) \in Nat
  BY DEF Time
<1>3. Time(p) >= now - MaxLate - down
  BY DEF Fresh
<1> QED BY <1>1, <1>2, <1>3 DEF Lag

LEMMA LagStays ==
  ASSUME Next, ~TickDown
  PROVE  down' = down /\ Lag' = Lag
<1>1. down' = down
  BY DEF Next, Report, Hourly, Fill, NextTable, FillFails, Purge, Tick, Stop, Boot
<1> QED BY <1>1 DEF Lag

\* The last hour is past.
LEMMA LowIsPast ==
  ASSUME IInv, Clocks, NEW t \in Coarse
  PROVE  /\ Low(t) \in Int /\ Passed(t) \in Int /\ Hour * faults \in Nat
         /\ Low(t) <= now /\ Recent(t) \in Int /\ Recent(t) + Lag <= now
<1>0. /\ now \in Nat /\ heard \in Nat /\ due \in Nat /\ faults \in Nat /\ Hour \in Nat
      /\ Lag \in Nat /\ Size[t] \in Nat \ {0}
  BY Constants, MoreConstants, LagIs DEF IInv, Clocks
<1>1. Hour * faults \in Nat
  BY <1>0
<1>2. due - Hour <= now
  BY <1>0 DEF Clocks
<1>3. Passed(t) \in Int /\ Passed(t) <= due - Hour
  BY <1>0 DEF Passed
<1>4. Low(t) \in Int /\ Low(t) <= now
  <2> DEFINE e == Hour * faults
  <2>1. e \in Nat
    BY <1>1
  <2> HIDE DEF e
  <2>2. Passed(t) - e \in Int /\ Passed(t) - e <= now
    BY <2>1, <1>2, <1>3, <1>0
  <2> QED BY <2>2 DEF e, Low
<1>5. Recent(t) \in Int /\ Recent(t) + Lag <= now
  BY <1>0, <1>4 DEF Recent
<1> QED BY <1>1, <1>3, <1>4, <1>5

\* Lasting, when the purge runs: what is not recent may go, what is recent stays.
LEMMA Lasts ==
  ASSUME IInv, Clocks, Lasting, pc = Purging, NEW keep \in Keeps, NEW t \in Coarse
  PROVE  /\ keep[t] \in Nat /\ Low(t) = now - Hour * faults
         /\ now - keep[t] <= Recent(t) - Size[t]
<1>0. /\ now \in Nat /\ due \in Nat /\ faults \in 0..MaxFaults /\ Hour \in Nat /\ MaxFaults \in Nat
      /\ Size[t] \in Nat \ {0} /\ keep[t] \in Nat
      /\ {MaxSilence, MaxLate, MaxDown} \subseteq Nat /\ Lag \in Nat /\ Lag <= MaxSilence + MaxLate + MaxDown
  BY Constants, MoreConstants, LagIs DEF IInv, Clocks
<1>1. keep[t] + 1 >= 2 * Size[t] + MaxSilence + MaxLate + Hour * MaxFaults + MaxDown
  BY DEF Lasting
<1>2. Passed(t) = now
  BY <1>0, Stages DEF Passed, Clocks
<1>3. PICK e \in Nat : e = Hour * faults
  BY <1>0
<1>4. PICK m \in Nat : m = Hour * MaxFaults
  BY <1>0
<1>5. e <= m
  BY <1>0, <1>3, <1>4
<1>6. Low(t) = now - e
  BY <1>2, <1>3 DEF Low
<1>7. now - keep[t] <= Recent(t) - Size[t]
  <2>1. Recent(t) = now - e - Size[t] + 1 - Lag
    BY <1>6 DEF Recent
  <2>2. keep[t] + 1 >= 2 * Size[t] + Lag + m
    BY <1>0, <1>1, <1>4
  <2> QED BY <2>1, <2>2, <1>0, <1>5
<1> QED BY <1>0, <1>3, <1>6, <1>7

-----------------------------------------------------------------------------
(* What the steps do to the places, to the openings and to the hours. *)

\* A sample adds its place to the first table.
LEMMA ReportPlaces ==
  ASSUME IInv, NEW h \in Hosts, NEW q \in Positions, Report(h, q)
  PROVE  /\ q \in Nat /\ q <= 2 * now /\ Time(q) \in Nat /\ Fresh(q)
         /\ PlacesOf(0)' = PlacesOf(0) \cup {q}
         /\ \A u \in Coarse : PlacesOf(u)' = PlacesOf(u) /\ table'[u] = table[u]
         /\ \A k \in DOMAIN table[0] : k \in DOMAIN table'[0] /\ table'[0][k] = table[0][k]
         /\ \A k \in DOMAIN table'[0] : k \in DOMAIN table[0] \/ k = <<h, q>>
         /\ table'[0][<<h, q>>] = {<<h, q>>}
<1>0. now \in Nat /\ DOMAIN table = Tables /\ 0 \in Tables
  BY Constants DEF IInv
<1>1. table' = [table EXCEPT ![0] = Replaced(@, [r \in {<<h, q>>} |-> {<<h, q>>}])]
  BY DEF Report
<1>2. table'[0] = Replaced(table[0], [r \in {<<h, q>>} |-> {<<h, q>>}])
  BY <1>0, <1>1
<1>3. DOMAIN table'[0] = DOMAIN table[0] \cup {<<h, q>>} /\ table'[0][<<h, q>>] = {<<h, q>>}
  BY <1>2 DEF Replaced
<1>4. ASSUME NEW k \in DOMAIN table[0] PROVE table'[0][k] = table[0][k]
  <2>1. CASE k = <<h, q>>
    BY <1>3, <2>1 DEF IInv, Raw
  <2>2. CASE k # <<h, q>>
    BY <1>2, <2>2 DEF Replaced
  <2> QED BY <2>1, <2>2
<1>5. PlacesOf(0)' = PlacesOf(0) \cup {q}
  BY <1>3 DEF PlacesOf
<1>6. ASSUME NEW u \in Coarse PROVE PlacesOf(u)' = PlacesOf(u) /\ table'[u] = table[u]
  <2>1. table'[u] = table[u]
    BY <1>0, <1>1, Constants
  <2> QED BY <2>1 DEF PlacesOf
<1>7. q \in Nat /\ Time(q) \in Nat /\ Fresh(q)
  <2>1. q \in Nat /\ Time(q) \in (now - MaxLate - down)..now
    BY Constants DEF Report
  <2> QED BY <2>1, <1>0 DEF Time, Fresh
<1>8. q <= 2 * now
  <2>1. q \in Nat /\ (q + 1) \div 2 <= now
    BY <1>0, Constants DEF Report, Time
  <2> QED BY <2>1, <1>0
<1> QED BY <1>3, <1>4, <1>5, <1>6, <1>7, <1>8

\* The opening of the first table follows the oldest sample, that of the others no
\* sample.
LEMMA ReportOpenings ==
  ASSUME IInv, IInv', NEW h \in Hosts, NEW q \in Positions, Report(h, q)
  PROVE  /\ \A u \in Coarse \ {1} : Opening(u)' = Opening(u) /\ Start(u)' = Start(u)
         /\ \A k \in PlacesOf(0) : k < q => Opening(1)' = Opening(1) /\ Start(1)' = Start(1)
         /\ PlacesOf(0) # {} \/ PlacesOf(1) # {} => Start(1)' <= Start(1) /\ Opening(1)' <= Opening(1)
<1>0. pc' = pc /\ win' = win /\ 1 \in Coarse /\ 0 \in Tables /\ Size[1] \in Nat \ {0}
  BY Constants DEF Report
<1>1. /\ PlacesOf(0)' = PlacesOf(0) \cup {q} /\ q \in Nat
      /\ \A u \in Coarse : PlacesOf(u)' = PlacesOf(u)
  BY ReportPlaces
<1>2. ASSUME NEW u \in Coarse \ {1} PROVE Opening(u)' = Opening(u) /\ Start(u)' = Start(u)
  <2>1. u - 1 \in Coarse
    BY Constants
  <2>2. Start(u)' = Start(u)
    BY <1>1, <2>1 DEF Start
  <2> QED BY <1>0, <2>2 DEF Opening
<1>3. ASSUME NEW k \in PlacesOf(0), k < q PROVE Opening(1)' = Opening(1) /\ Start(1)' = Start(1)
  <2>1. \A p \in PlacesOf(0) : p \in Nat
    BY <1>0, PlacesAre
  <2>2. Min(PlacesOf(0)) \in PlacesOf(0) /\ \A p \in PlacesOf(0) : Min(PlacesOf(0)) <= p
    BY <1>0, Oldest
  <2>3. Min(PlacesOf(0)') \in PlacesOf(0)' /\ \A p \in PlacesOf(0)' : Min(PlacesOf(0)') <= p
    <3>1. PlacesOf(0)' \subseteq Nat /\ PlacesOf(0)' # {}
      BY <1>1, <2>1
    <3> QED BY <3>1, MinIsLeast
  <2>4. Min(PlacesOf(0)') = Min(PlacesOf(0))
    <3> DEFINE m == Min(PlacesOf(0))
               n == Min(PlacesOf(0)')
    <3>1. m \in Nat /\ m <= k /\ k \in Nat
      BY <2>1, <2>2, <1>3
    <3>2. n <= m
      BY <1>1, <2>2, <2>3
    <3>3. n = q \/ m <= n
      BY <1>1, <2>2, <2>3
    <3>4. n \in Nat
      BY <1>1, <2>1, <2>3
    <3> HIDE DEF m, n
    <3>5. m = n
      BY <3>1, <3>2, <3>3, <3>4, <1>3, <1>1
    <3> QED BY <3>5 DEF m, n
  <2>5. Start(1)' = Start(1)
    <3>1. PlacesOf(1)' = PlacesOf(1)
      BY <1>0, <1>1
    <3>2. PlacesOf(0) # {} /\ PlacesOf(0)' # {}
      BY <1>1
    <3> QED BY <2>4, <3>1, <3>2 DEF Start
  <2> QED BY <1>0, <2>5 DEF Opening
<1>4. ASSUME PlacesOf(0) # {} \/ PlacesOf(1) # {} PROVE Start(1)' <= Start(1) /\ Opening(1)' <= Opening(1)
  <2>1. Opening(1) \in Nat /\ Start(1) \in Nat
    BY <1>0, <1>4, OpeningIs
  <2>2. Start(1)' <= Start(1)
    <3>1. CASE PlacesOf(1) # {}
      <4>1. PlacesOf(1)' = PlacesOf(1)
        BY <1>0, <1>1
      <4>2. Start(1)' = Start(1)
        BY <4>1, <3>1 DEF Start
      <4> QED BY <4>2, <2>1
    <3>2. CASE PlacesOf(1) = {}
      <4> DEFINE m == Min(PlacesOf(0))
                 n == Min(PlacesOf(0)')
      <4>1. PlacesOf(1)' = {} /\ PlacesOf(0)' # {} /\ PlacesOf(0) # {}
        BY <1>0, <1>1, <1>4, <3>2
      <4>2. m \in PlacesOf(0) /\ PlacesOf(0) \subseteq Nat
        BY <1>0, <4>1, Oldest, PlacesAre
      <4>3. n \in PlacesOf(0)' /\ \A p \in PlacesOf(0)' : n <= p
        <5>1. PlacesOf(0)' \subseteq Nat
          BY <1>1, <4>2
        <5> QED BY <5>1, <4>1, MinIsLeast
      <4>4. m \in Nat /\ n \in Nat /\ n <= m
        BY <1>1, <4>2, <4>3
      <4>5. Start(1) = Truncate(Time(m), Size[1]) /\ Start(1)' = Truncate(Time(n), Size[1])
        BY <3>2, <4>1 DEF Start, Truncate, Time
      <4> HIDE DEF m, n
      <4> QED BY <4>4, <4>5, <1>0, EarlierStart
    <3> QED BY <3>1, <3>2
  <2>3. Opening(1)' = IF pc = Filling(1) /\ win # None THEN win ELSE Start(1)'
    BY <1>0 DEF Opening, Filling
  <2>4. pc = Filling(1) /\ win # None => Opening(1)' = Opening(1)
    BY <2>3 DEF Opening
  <2>5. ~(pc = Filling(1) /\ win # None) => Opening(1)' = Start(1)' /\ Opening(1) = Start(1)
    BY <2>3 DEF Opening
  <2> QED BY <2>1, <2>2, <2>4, <2>5
<1> QED BY <1>2, <1>3, <1>4

\* A window that finds a row in the source adds its place to the table, another
\* leaves the places alone.
LEMMA FillPlaces ==
  ASSUME IInv, Fill
  PROVE  /\ pc.t \in Coarse /\ pc = Filling(pc.t) /\ pc' = pc /\ now' = now
         /\ win # None /\ Aligned(win, Size[pc.t]) /\ win + Size[pc.t] <= now /\ win' = win + Size[pc.t]
         /\ \A u \in Tables \ {pc.t} : PlacesOf(u)' = PlacesOf(u) /\ table'[u] = table[u]
         /\ table'[pc.t] = Replaced(table[pc.t], Computed(pc.t, win))
         /\ IF \E p \in PlacesOf(pc.t - 1) : Inside(pc.t, win, p)
            THEN PlacesOf(pc.t)' = PlacesOf(pc.t) \cup {Place(win)}
            ELSE PlacesOf(pc.t)' = PlacesOf(pc.t) /\ DOMAIN Computed(pc.t, win) = {}
<1> DEFINE v == pc.t
<1>1. /\ pc.at = "fill" /\ now' = now /\ pc' = pc /\ win' = win + Size[v]
      /\ table' = [table EXCEPT ![v] = Replaced(@, Computed(v, win))]
      /\ win # None /\ win + Size[v] <= now
  BY DEF Fill, Complete
<1>2. v \in Coarse /\ pc = Filling(v) /\ Aligned(win, Size[v])
  BY <1>1, IsFilling DEF IInv, Work
<1>3. DOMAIN table = Tables /\ v \in Tables
  BY <1>2, Constants DEF IInv
<1>4. table'[v] = Replaced(table[v], Computed(v, win))
  BY <1>1, <1>3
<1>5. ASSUME NEW u \in Tables \ {v} PROVE PlacesOf(u)' = PlacesOf(u) /\ table'[u] = table[u]
  <2>1. table'[u] = table[u]
    BY <1>1, <1>3
  <2> QED BY <2>1 DEF PlacesOf
<1>6. DOMAIN table'[v] = DOMAIN table[v] \cup DOMAIN Computed(v, win)
  BY <1>4 DEF Replaced
<1>7. DOMAIN Computed(v, win) = {<<k[1], Place(win)>> : k \in {k \in DOMAIN table[v - 1] : Inside(v, win, k[2])}}
  BY DEF Computed
<1>8. CASE \E p \in PlacesOf(v - 1) : Inside(v, win, p)
  <2>1. PICK j \in DOMAIN table[v - 1] : Inside(v, win, j[2])
    BY <1>8 DEF PlacesOf
  <2>2. <<j[1], Place(win)>> \in DOMAIN Computed(v, win)
    BY <1>7, <2>1
  <2>3. \A r \in DOMAIN Computed(v, win) : r[2] = Place(win)
    BY <1>7
  <2>4. PlacesOf(v)' = {k[2] : k \in DOMAIN table[v] \cup DOMAIN Computed(v, win)}
    BY <1>6, <1>1 DEF PlacesOf
  <2> HIDE DEF v
  <2>5. <<j[1], Place(win)>>[2] = Place(win)
    OBVIOUS
  <2>6. PlacesOf(v)' = PlacesOf(v) \cup {Place(win)}
    BY <2>2, <2>3, <2>4, <2>5 DEF PlacesOf
  <2> QED BY <2>6, <1>1, <1>2, <1>4, <1>5, <1>8 DEF v
<1>9. CASE ~\E p \in PlacesOf(v - 1) : Inside(v, win, p)
  <2>1. DOMAIN Computed(v, win) = {}
    BY <1>7, <1>9 DEF PlacesOf
  <2>2. PlacesOf(v)' = PlacesOf(v)
    BY <1>1, <1>6, <2>1 DEF PlacesOf
  <2> QED BY <2>1, <2>2, <1>1, <1>2, <1>4, <1>5, <1>9
<1> QED BY <1>8, <1>9

\* The rows a purge leaves.
LEMMA PurgePlaces ==
  ASSUME IInv, NEW keep \in Keeps, NEW n \in 0..Len(Size), Purge(keep, n)
  PROVE  /\ pc = Purging /\ pc' = Idle /\ now' = now /\ skipped' = skipped /\ due' = due
         /\ heard' = heard /\ down' = down
         /\ \A u \in Tables :
              /\ PlacesOf(u)' \subseteq PlacesOf(u)
              /\ \A p \in PlacesOf(u) : p \notin PlacesOf(u)' => u + 1 \in Coarse /\ p < Place(now - keep[u + 1])
              /\ \A k \in DOMAIN table[u] :
                   k \notin DOMAIN table'[u] => u + 1 \in Coarse /\ k[2] < Place(now - keep[u + 1])
              /\ \A k \in DOMAIN table'[u] : k \in DOMAIN table[u] /\ table'[u][k] = table[u][k]
              /\ u \in Coarse /\ table'[u] # table[u] =>
                   \A k \in DOMAIN table'[u - 1] : k[2] >= Place(now - keep[u])
<1>0. now \in Nat
  BY DEF IInv
<1>1. /\ pc = Purging /\ pc' = Idle /\ now' = now /\ skipped' = skipped /\ due' = due
      /\ heard' = heard /\ down' = down
      /\ \A u \in Tables : table'[u] =
           IF u < Len(Size) - n
           THEN Restrict(table[u], {k \in DOMAIN table[u] : k[2] >= Place(now - keep[u + 1])})
           ELSE table[u]
  BY DEF Purge
<1>2. ASSUME NEW u \in Tables
      PROVE  /\ \A k \in DOMAIN table'[u] : k \in DOMAIN table[u] /\ table'[u][k] = table[u][k]
             /\ \A k \in DOMAIN table[u] : k \notin DOMAIN table'[u] =>
                  u + 1 \in Coarse /\ ~(k[2] >= Place(now - keep[u + 1]))
             /\ ~(u < Len(Size) - n) => table'[u] = table[u]
             /\ u < Len(Size) - n => \A k \in DOMAIN table'[u] : k[2] >= Place(now - keep[u + 1])
  <2>1. CASE u < Len(Size) - n
    <3>1. table'[u] = Restrict(table[u], {k \in DOMAIN table[u] : k[2] >= Place(now - keep[u + 1])})
      BY <1>1, <2>1
    <3>2. u + 1 \in Coarse
      BY <2>1, Constants
    <3> QED BY <3>1, <3>2, <2>1 DEF Restrict
  <2>2. CASE ~(u < Len(Size) - n)
    <3>1. table'[u] = table[u]
      BY <1>1, <2>2
    <3> QED BY <3>1, <2>2
  <2> QED BY <2>1, <2>2
<1>3. ASSUME NEW u \in Tables, NEW k \in DOMAIN table[u], k \notin DOMAIN table'[u]
      PROVE  u + 1 \in Coarse /\ k[2] < Place(now - keep[u + 1])
  <2>1. u + 1 \in Coarse /\ ~(k[2] >= Place(now - keep[u + 1]))
    BY <1>2, <1>3
  <2>2. k[2] \in Nat
    BY PlacesAre DEF PlacesOf
  <2>3. Place(now - keep[u + 1]) \in Int
    BY <1>0, <2>1, MoreConstants DEF Place
  <2> QED BY <2>1, <2>2, <2>3
<1>4. ASSUME NEW u \in Tables PROVE PlacesOf(u)' \subseteq PlacesOf(u)
  BY <1>2 DEF PlacesOf
<1>5. ASSUME NEW u \in Tables, NEW p \in PlacesOf(u), p \notin PlacesOf(u)'
      PROVE  u + 1 \in Coarse /\ p < Place(now - keep[u + 1])
  BY <1>3, <1>5 DEF PlacesOf
<1>6. ASSUME NEW u \in Coarse, table'[u] # table[u], NEW k \in DOMAIN table'[u - 1]
      PROVE  k[2] >= Place(now - keep[u])
  <2>1. u \in Tables /\ u - 1 \in Tables /\ u \in Nat /\ (u - 1) + 1 = u
    BY Constants
  <2>3. u < Len(Size) - n
    BY <1>2, <1>6, <2>1
  <2>4. u - 1 < Len(Size) - n
    BY <2>1, <2>3, Constants
  <2> QED BY <1>2, <2>1, <2>4
<1> QED BY <1>1, <1>2, <1>3, <1>4, <1>5, <1>6

\* A step that writes no table moves an opening only back to where the table is
\* opened again.
LEMMA QuietOpenings ==
  ASSUME IInv, Hourly \/ NextTable \/ FillFails \/ Stop \/ Boot, NEW u \in Coarse
  PROVE  /\ table' = table /\ now' = now /\ heard' = heard /\ PlacesOf(u)' = PlacesOf(u) /\ PlacesOf(0)' = PlacesOf(0)
         /\ Start(u)' = Start(u)
         /\ Opening(u)' = Opening(u) \/ (pc = Filling(u) /\ win # None /\ Opening(u)' = Start(u))
<1>1. table' = table /\ now' = now /\ heard' = heard
  BY DEF Hourly, NextTable, FillFails, Stop, Boot
<1>2. \A t : PlacesOf(t)' = PlacesOf(t)
  BY <1>1 DEF PlacesOf
<1>3. \A t : Start(t)' = Start(t)
  BY <1>2 DEF Start
<1>4. Opening(u)' = Start(u) \/ Opening(u)' = Opening(u)
  <2>1. CASE Hourly
    <3>1. pc' = Filling(1) /\ win' = Start(1)
      BY <2>1 DEF Hourly
    <3>2. pc' = Filling(u) => u = 1
      BY <3>1, Stages
    <3> QED BY <3>1, <3>2, <1>3 DEF Opening, Filling
  <2>2. CASE NextTable
    <3>1. (pc' = Filling(pc.t + 1) /\ win' = Start(pc.t + 1)) \/ pc' = Purging
      BY <2>2 DEF NextTable
    <3>2. pc' = Filling(u) => win' = Start(u)
      BY <3>1, Stages
    <3> QED BY <3>2, <1>3 DEF Opening, Filling
  <2>3. CASE FillFails \/ Stop \/ Boot
    <3>1. pc' \in {Idle, Purging, Down}
      BY <2>3 DEF FillFails, Stop, Boot
    <3>2. pc' # Filling(u)
      BY <3>1, Stages
    <3> QED BY <3>2, <1>3 DEF Opening, Filling
  <2> QED BY <2>1, <2>2, <2>3
<1>5. ~(pc = Filling(u) /\ win # None) => Opening(u) = Start(u)
  BY DEF Opening
<1> QED BY <1>1, <1>2, <1>3, <1>4, <1>5

\* Only the passing of a table brings its last hour forward, while the hub is up.
LEMMA LowSteps ==
  ASSUME IInv, Clocks, Next, ~TickDown, NEW t \in Coarse
  PROVE  Low(t)' <= Low(t) \/ (NextTable /\ pc = Filling(t))
<1> DEFINE e == Hour * faults
           f == Hour * faults'
<1>0. /\ now \in Nat /\ due \in Nat /\ faults \in Nat /\ Hour \in Nat /\ t \in Nat
      /\ e \in Nat /\ Low(t) = Passed(t) - e /\ Low(t)' = Passed(t)' - f
  BY Constants, MoreConstants DEF IInv, Clocks, Low
<1>a. Passed(t) = due - 2 * Hour \/ Passed(t) = due - Hour
  BY DEF Passed
<1>b. faults' = faults => f = e
  OBVIOUS
<1>c. faults' = faults + 1 => f = e + Hour
  BY <1>0
<1> HIDE DEF e, f
<1>1. CASE Passed(t)' = Passed(t) /\ faults' = faults
  BY <1>0, <1>a, <1>b, <1>1
<1>2. CASE Fault /\ Passed(t)' = due - Hour
  BY <1>0, <1>a, <1>c, <1>2 DEF Fault
<1>d. Passed(t) \in Int
  BY <1>0, <1>a
<1>3. ASSUME NEW h \in Hosts, NEW p \in Positions, Report(h, p) PROVE Passed(t)' = Passed(t) /\ faults' = faults
  BY <1>3 DEF Report, Passed
<1>4. CASE Hourly
  <2>1. pc = Idle /\ due = now /\ pc' = Filling(1) /\ due' = now + Hour /\ faults' = faults
    BY <1>0, <1>4 DEF Hourly, Clocks
  <2>2. Passed(t) = due - Hour
    BY <2>1, Stages DEF Passed
  <2>3. Passed(t)' = due' - 2 * Hour
    BY <2>1, Stages, Constants DEF Passed
  <2> QED BY <1>1, <1>0, <2>1, <2>2, <2>3
<1>5. CASE Fill
  BY <1>1, <1>5 DEF Fill, Passed
<1>6. CASE NextTable
  <2>1. /\ pc.at = "fill" /\ due' = due /\ faults' = faults /\ pc.t \in Coarse /\ pc = Filling(pc.t)
        /\ pc' = Filling(pc.t + 1) \/ (pc' = Purging /\ pc.t = Len(Size))
    BY <1>6, IsFilling, Constants DEF NextTable, IInv
  <2>2. pc.t \in Nat /\ pc.t <= Len(Size) /\ t <= Len(Size) /\ Len(Size) \in Nat
    BY <2>1, Constants
  <2>3. CASE pc.t < t
    <3>1. pc' = Filling(pc.t + 1) /\ pc.t + 1 <= t
      BY <2>1, <2>2, <2>3, <1>0
    <3> QED BY <1>1, <2>1, <2>3, <3>1, <2>2, Stages, <1>0 DEF Passed
  <2>4. CASE pc.t > t
    <3>1. Passed(t) = due - Hour
      BY <2>4, <2>2, <1>0 DEF Passed
    <3>2. pc'.at = "fill" => pc'.t = pc.t + 1
      BY <2>1, Stages
    <3>3. Passed(t)' = due - Hour
      BY <2>1, <2>2, <2>4, <3>2, <1>0 DEF Passed
    <3> QED BY <1>1, <2>1, <3>1, <3>3
  <2>5. CASE pc.t = t
    BY <1>6, <2>1, <2>5
  <2> QED BY <2>2, <2>3, <2>4, <2>5, <1>0
<1>7. CASE FillFails
  BY <1>2, <1>7, Stages DEF FillFails, Passed
<1>8. ASSUME NEW keep \in Keeps, NEW n \in 0..Len(Size), Purge(keep, n)
      PROVE  Low(t)' <= Low(t) \/ (NextTable /\ pc = Filling(t))
  <2>1. Passed(t) = due - Hour /\ Passed(t)' = due - Hour
    BY <1>8, Stages DEF Purge, Passed
  <2>2. faults' = faults
    BY <1>8 DEF Purge
  <2> QED BY <1>1, <2>1, <2>2
<1>9. CASE Stop
  <2>1. pc' = Down /\ due' = now /\ faults' = faults /\ pc # Down
    BY <1>9 DEF Stop
  <2>2. Passed(t)' = now - Hour
    BY <2>1, Stages DEF Passed
  <2>3. Passed(t) >= now - Hour
    <3>1. CASE pc = Idle
      BY <1>0, <3>1, Stages DEF Clocks, Passed
    <3>2. CASE pc # Idle
      <4>1. now = due - Hour
        BY <2>1, <3>2 DEF Clocks
      <4> QED BY <1>0, <1>a, <4>1
    <3> QED BY <3>1, <3>2
  <2> QED BY <1>0, <1>b, <1>d, <2>1, <2>2, <2>3
<1>10. CASE Tick
  BY <1>1, <1>10 DEF Tick, Passed
<1>11. CASE Boot
  <2>1. due' = due /\ pc = Down /\ pc' = Idle /\ faults' = faults
    BY <1>11 DEF Boot, FirstWork, Clocks
  <2>2. Passed(t)' = Passed(t)
    BY <2>1, Stages DEF Passed
  <2> QED BY <1>1, <2>1, <2>2
<1> QED BY <1>1, <1>3, <1>4, <1>5, <1>6, <1>7, <1>8, <1>9, <1>10, <1>11 DEF Next

\* What a purge takes is not recent for the next table, and lies before its newest
\* window.
LEMMA PurgeSpares ==
  ASSUME IInv, Clocks, Lasting, NEW keep \in Keeps, NEW n \in 0..Len(Size), Purge(keep, n),
         NEW u \in Tables, NEW p \in PlacesOf(u), p < Place(now - keep[u + 1]), u + 1 \in Coarse
  PROVE  /\ End(u, p) < Recent(u + 1)
         /\ u \in Coarse => Recent(u + 1) <= Recent(u)
         /\ Recent(u + 1) = now - Hour * faults - Size[u + 1] + 1 - Lag
<1>0. /\ now \in Nat /\ Lag \in Nat /\ Size[u + 1] \in Nat \ {0} /\ p \in Nat
      /\ Hour * faults \in Nat /\ Recent(u + 1) \in Int
  BY Constants, LagIs, PlacesAre, LowIsPast DEF IInv
<1>1. keep[u + 1] \in Nat /\ Low(u + 1) = now - Hour * faults /\ now - keep[u + 1] <= Recent(u + 1) - Size[u + 1]
  BY PurgePlaces, Lasts
<1>2. p < 2 * (Recent(u + 1) - Size[u + 1])
  BY <1>0, <1>1 DEF Place
<1>3. Recent(u + 1) = now - Hour * faults - Size[u + 1] + 1 - Lag
  BY <1>1 DEF Recent
<1>4. CASE u = 0
  <2>1. (p + 1) \div 2 < Recent(u + 1)
    BY <1>0, <1>2
  <2>2. u \notin Coarse
    BY <1>4, Constants
  <2> QED BY <1>3, <1>4, <2>1, <2>2 DEF End, Time
<1>5. CASE u \in Coarse
  <2>1. Size[u] \in Nat \ {0} /\ Size[u] <= Size[u + 1]
    <3>1. u <= u + 1 /\ Size[u] \in Nat \ {0}
      BY <1>5, Constants
    <3> QED BY <1>5, <3>1, SizesDivide
  <2>2. PICK w \in Nat : p = 2 * w /\ p \div 2 = w
    BY <1>5, PlacesAre
  <2>3. End(u, p) = w + Size[u]
    BY <1>5, <2>2, Constants DEF End
  <2>4. Low(u) = now - Hour * faults
    BY <1>5, PurgePlaces, Lasts
  <2>5. Recent(u) = now - Hour * faults - Size[u] + 1 - Lag
    BY <2>4 DEF Recent
  <2>6. End(u, p) < Recent(u + 1)
    BY <2>1, <2>2, <2>3, <1>0, <1>2
  <2>7. Recent(u + 1) <= Recent(u)
    BY <2>1, <2>5, <1>3, <1>0
  <2> QED BY <1>3, <2>6, <2>7
<1> QED BY <1>4, <1>5 DEF Tables

\* A purge spares the newest row of each table.
LEMMA PurgeKeepsNewest ==
  ASSUME IInv, Clocks, Heard, NewestRecent, Lasting, IInv',
         NEW keep \in Keeps, NEW n \in 0..Len(Size), Purge(keep, n), NEW u \in Tables, PlacesOf(u) # {}
  PROVE  PlacesOf(u)' # {} /\ Max(PlacesOf(u)') = Max(PlacesOf(u))
<1> DEFINE m == Max(PlacesOf(u))
<1>0. /\ now \in Nat /\ heard \in Nat /\ {MaxSilence, MaxLate, down} \subseteq Nat /\ Lag = MaxSilence + MaxLate + down
      /\ PlacesOf(u)' \subseteq PlacesOf(u) /\ PlacesOf(u) \subseteq Nat
  BY MoreConstants, PlacesAre, PurgePlaces DEF IInv, Clocks, Lag
<1>1. m \in PlacesOf(u) /\ \A p \in PlacesOf(u) : p <= m
  BY Newest
<1>2. m \in PlacesOf(u)'
  <2> SUFFICES ASSUME m \notin PlacesOf(u)' PROVE FALSE
    OBVIOUS
  <2>1. u + 1 \in Coarse /\ m < Place(now - keep[u + 1])
    BY <1>1, PurgePlaces
  <2>2. /\ End(u, m) < Recent(u + 1)
        /\ u \in Coarse => Recent(u + 1) <= Recent(u)
    BY <1>1, <2>1, PurgeSpares
  <2>3. Recent(u + 1) \in Int /\ Recent(u + 1) + Lag <= now
    BY <2>1, LowIsPast
  <2>4. CASE u = 0
    <3>1. Time(m) >= heard - MaxLate - down
      BY <2>4 DEF Heard
    <3>2. Time(m) \in Nat
      BY <1>0, <1>1 DEF Time
    <3>3. now - heard <= MaxSilence
      BY DEF Clocks
    <3>4. End(u, m) = Time(m)
      BY <2>4 DEF End
    <3> HIDE DEF m
    <3> QED BY <2>2, <2>3, <3>1, <3>2, <3>3, <3>4, <1>0
  <2>5. CASE u \in Coarse
    <3>1. End(u, m) >= Recent(u)
      BY <2>5 DEF NewestRecent
    <3>2. Recent(u) \in Int /\ End(u, m) \in Int
      <4>1. m \div 2 \in Int /\ Size[u] \in Nat /\ u # 0
        BY <1>0, <1>1, <2>5, Constants
      <4> QED BY <4>1, <2>5, LowIsPast DEF End
    <3> HIDE DEF m
    <3> QED BY <2>2, <2>3, <2>5, <3>1, <3>2
  <2> QED BY <2>4, <2>5 DEF Tables
<1>3. Max(PlacesOf(u)') \in PlacesOf(u)' /\ \A p \in PlacesOf(u)' : p <= Max(PlacesOf(u)')
  <2>1. 2 * now \in Nat /\ PlacesOf(u)' \subseteq 0..2 * now
    BY <1>0, PlacesAre
  <2> QED BY <1>2, <2>1, MaxIsGreatest
<1>4. Max(PlacesOf(u)') = m
  <2> DEFINE g == Max(PlacesOf(u)')
  <2>1. g \in Nat /\ m \in Nat /\ g <= m /\ m <= g
    BY <1>0, <1>1, <1>2, <1>3
  <2> HIDE DEF g, m
  <2>2. g = m
    BY <2>1
  <2> QED BY <2>2 DEF g
<1> QED BY <1>2, <1>4

\* ... so that no opening moves, but for a table that is still empty.
LEMMA PurgeOpenings ==
  ASSUME IInv, Clocks, Heard, NewestRecent, Lasting, IInv',
         NEW keep \in Keeps, NEW n \in 0..Len(Size), Purge(keep, n), NEW u \in Coarse
  PROVE  /\ Opening(u) = Start(u) /\ Opening(u)' = Start(u)'
         /\ PlacesOf(u) # {} => Start(u)' = Start(u) /\ PlacesOf(u)' # {}
         /\ PlacesOf(u) = {} => PlacesOf(u)' = {}
         /\ PlacesOf(u) = {} /\ PlacesOf(u - 1)' # {} => Start(u) <= Start(u)'
<1>0. u \in Tables /\ u - 1 \in Tables /\ Size[u] \in Nat \ {0}
  BY Constants
<1>1. pc = Purging /\ pc' = Idle /\ \A v \in Tables : PlacesOf(v)' \subseteq PlacesOf(v)
  BY PurgePlaces
<1>2. Opening(u) = Start(u) /\ Opening(u)' = Start(u)'
  BY <1>1, Stages DEF Opening, Filling
<1>3. ASSUME PlacesOf(u) # {} PROVE Start(u)' = Start(u) /\ PlacesOf(u)' # {}
  <2>1. PlacesOf(u)' # {} /\ Max(PlacesOf(u)') = Max(PlacesOf(u))
    BY <1>0, <1>3, PurgeKeepsNewest
  <2> QED BY <2>1, <1>3 DEF Start, Truncate, Time
<1>4. ASSUME PlacesOf(u) = {}, PlacesOf(u - 1)' # {} PROVE Start(u) <= Start(u)'
  <2> DEFINE m == Min(PlacesOf(u - 1))
             k == Min(PlacesOf(u - 1)')
  <2>1. PlacesOf(u)' = {} /\ PlacesOf(u - 1) # {} /\ PlacesOf(u - 1)' \subseteq PlacesOf(u - 1)
    BY <1>0, <1>1, <1>4
  <2>2. PlacesOf(u - 1) \subseteq Nat /\ \A p \in PlacesOf(u - 1) : m <= p
    BY <1>0, <2>1, PlacesAre, Oldest
  <2>3. k \in PlacesOf(u - 1)'
    BY <1>4, <2>1, <2>2, MinIsLeast
  <2>4. m \in PlacesOf(u - 1)
    BY <1>0, <2>1, Oldest
  <2>5. m \in Nat /\ k \in Nat /\ m <= k
    BY <2>1, <2>2, <2>3, <2>4
  <2>6. Start(u) = Truncate(Time(m), Size[u]) /\ Start(u)' = Truncate(Time(k), Size[u])
    BY <1>4, <2>1 DEF Start, Truncate, Time
  <2> HIDE DEF m, k
  <2> QED BY <2>5, <2>6, <1>0, EarlierStart
<1> QED BY <1>0, <1>1, <1>2, <1>3, <1>4

-----------------------------------------------------------------------------
(* The steps keep the clocks, the order of the tables and their openings. *)

\* The hourly work keeps to its hour.
LEMMA ClocksStep == IInv /\ Clocks /\ Next => Clocks'
<1> SUFFICES ASSUME IInv, Clocks, Next PROVE Clocks'
  OBVIOUS
<1>0. /\ {now, heard, due, down, faults, Hour, MaxSilence, MaxFaults, MaxDown} \subseteq Nat
      /\ faults <= MaxFaults /\ down <= MaxDown /\ heard <= now /\ now - heard <= MaxSilence
  BY MoreConstants DEF IInv, Clocks
\* A step that leaves the clocks alone.
<1>a. ASSUME UNCHANGED <<now, due, heard, down>>, faults' = faults \/ Fault,
             pc' = pc \/ ({pc, pc'} \cap {Idle, Down} = {})
      PROVE  Clocks'
  <2>1. faults' \in Nat /\ faults' <= MaxFaults
    BY <1>0, <1>a DEF Fault
  <2>2. /\ pc' = Idle => due' - Hour <= now' /\ now' <= due'
        /\ pc' = Down => now' = due'
        /\ pc' \notin {Idle, Down} => now' = due' - Hour
    <3>1. CASE pc' = pc
      BY <1>a, <3>1 DEF Clocks
    <3>2. CASE {pc, pc'} \cap {Idle, Down} = {}
      <4>1. now = due - Hour
        BY <3>2 DEF Clocks
      <4> QED BY <1>a, <3>2, <4>1
    <3> QED BY <1>a, <3>1, <3>2
  <2>3. {heard', due', down'} \subseteq Nat /\ heard' <= now' /\ now' - heard' <= MaxSilence /\ down' <= MaxDown
    BY <1>0, <1>a
  <2> QED BY <2>1, <2>2, <2>3 DEF Clocks, Idle, Down
<1>1. ASSUME NEW h \in Hosts, NEW p \in Positions, Report(h, p) PROVE Clocks'
  BY <1>0, <1>1 DEF Report, Clocks
<1>2. CASE Hourly
  BY <1>0, <1>2, Stages DEF Hourly, Clocks
<1>3. CASE Fill
  BY <1>a, <1>3 DEF Fill
<1>4. CASE NextTable
  <2>1. {pc, pc'} \cap {Idle, Down} = {}
    BY <1>4, Stages DEF NextTable
  <2> QED BY <1>a, <1>4, <2>1 DEF NextTable
<1>5. CASE FillFails
  <2>1. {pc, pc'} \cap {Idle, Down} = {}
    BY <1>5, Stages DEF FillFails
  <2> QED BY <1>a, <1>5, <2>1 DEF FillFails
<1>6. ASSUME NEW keep \in Keeps, NEW n \in 0..Len(Size), Purge(keep, n) PROVE Clocks'
  <2>1. pc = Purging /\ pc' = Idle /\ UNCHANGED <<now, due, heard, down, faults>>
    BY <1>6 DEF Purge
  <2> QED BY <1>0, <2>1, Stages DEF Clocks
<1>7. CASE Stop
  BY <1>0, <1>7, Stages DEF Stop, Clocks
<1>8. CASE Tick
  BY <1>0, <1>8, Stages DEF Tick, Clocks
<1>9. CASE TickDown
  BY <1>0, <1>9, Stages DEF TickDown, Clocks
<1>10. CASE Boot
  BY <1>0, <1>10, Stages DEF Boot, FirstWork, Clocks
<1> QED BY <1>1, <1>2, <1>3, <1>4, <1>5, <1>6, <1>7, <1>8, <1>9, <1>10 DEF Next

\* The newest row, before a step and after it.
NewestWell(u) == PlacesOf(u) # {} =>
  /\ Max(PlacesOf(u)) \in PlacesOf(u) /\ Max(PlacesOf(u)) \in Nat
  /\ \A p \in PlacesOf(u) : p \in Nat /\ p <= Max(PlacesOf(u))

LEMMA NewestIs == IInv => \A u \in Tables : NewestWell(u)
BY Newest, PlacesAre DEF NewestWell

LEMMA NewestNext == IInv' => \A u \in Tables : NewestWell(u)'
<1>1. IInv' => (\A u \in Tables : NewestWell(u))'
  BY NewestIs, PTL
<1> QED BY <1>1

\* A step that is neither a sample, nor a window, nor a purge, writes no table.
LEMMA QuietSteps ==
  ASSUME Clocks, Next,
         ~ \E h \in Hosts, p \in Positions : Report(h, p),
         ~ Fill,
         ~ \E keep \in Keeps, n \in 0..Len(Size) : Purge(keep, n)
  PROVE  /\ Hourly \/ NextTable \/ FillFails \/ Stop \/ Boot \/ Tick \/ TickDown
         /\ table' = table /\ heard' - down' = heard - down
         /\ \A t : PlacesOf(t)' = PlacesOf(t) /\ Start(t)' = Start(t)
<1>1. Hourly \/ NextTable \/ FillFails \/ Stop \/ Boot \/ Tick \/ TickDown
  BY DEF Next
<1>2. table' = table
  BY <1>1 DEF Hourly, NextTable, FillFails, Stop, Boot, Tick, TickDown
<1>3. \A t : PlacesOf(t)' = PlacesOf(t)
  BY <1>2 DEF PlacesOf
<1>4. heard' - down' = heard - down
  <2>1. CASE TickDown
    BY <2>1 DEF TickDown, Clocks
  <2>2. CASE ~TickDown
    BY <1>1, <2>2 DEF Hourly, NextTable, FillFails, Stop, Boot, Tick
  <2> QED BY <2>1, <2>2
<1> QED BY <1>1, <1>2, <1>3, <1>4 DEF Start

\* The first table reaches back to when a sample was last heard of.
LEMMA HeardStep ==
  ASSUME IInv, Clocks, Heard, NewestRecent, Lasting, IInv', Next
  PROVE  Heard'
<1>0. 0 \in Tables /\ {now, heard, MaxLate, down} \subseteq Nat
  BY Constants, MoreConstants DEF IInv, Clocks
<1>1. ASSUME NEW h \in Hosts, NEW q \in Positions, Report(h, q) PROVE Heard'
  <2>1. PlacesOf(0)' = PlacesOf(0) \cup {q} /\ q \in Nat /\ q <= 2 * now /\ Fresh(q)
    BY <1>1, ReportPlaces
  <2>2. heard' = now /\ down' = down
    BY <1>1 DEF Report
  <2>3. Max(PlacesOf(0)') \in PlacesOf(0)' /\ q <= Max(PlacesOf(0)')
    <3>1. 2 * now \in Nat /\ PlacesOf(0)' \subseteq 0..2 * now /\ q \in PlacesOf(0)'
      BY <1>0, <2>1, PlacesAre
    <3> QED BY <3>1, MaxIsGreatest
  <2> DEFINE m == Max(PlacesOf(0)')
  <2>4. m \in Nat /\ q <= m
    BY <1>0, <2>1, <2>3, PlacesAre
  <2> HIDE DEF m
  <2>5. Time(q) <= Time(m) /\ Time(m) \in Nat /\ Time(q) \in Nat
    BY <2>1, <2>4 DEF Time
  <2>6. Time(m) >= now - MaxLate - down
    BY <2>1, <2>5, <1>0 DEF Fresh
  <2> QED BY <2>2, <2>6 DEF Heard, m, Time
<1>2. CASE Fill
  <2>1. pc.t \in Coarse
    BY <1>2, FillPlaces
  <2>2. PlacesOf(0)' = PlacesOf(0)
    <3>1. 0 \in Tables \ {pc.t}
      BY <2>1, Constants
    <3>2. \A u \in Tables \ {pc.t} : PlacesOf(u)' = PlacesOf(u)
      BY <1>2, FillPlaces
    <3> QED BY <3>1, <3>2
  <2>3. heard' = heard /\ down' = down
    BY <1>2 DEF Fill
  <2> QED BY <2>2, <2>3 DEF Heard, Time
<1>3. ASSUME NEW keep \in Keeps, NEW n \in 0..Len(Size), Purge(keep, n) PROVE Heard'
  <2>1. PlacesOf(0)' \subseteq PlacesOf(0) /\ heard' = heard /\ down' = down
    BY <1>0, <1>3, PurgePlaces
  <2>2. PlacesOf(0) # {} => Max(PlacesOf(0)') = Max(PlacesOf(0))
    BY <1>0, <1>3, PurgeKeepsNewest
  <2> QED BY <2>1, <2>2 DEF Heard, Time
<1>4. CASE table' = table /\ heard' - down' = heard - down
  <2>1. PlacesOf(0)' = PlacesOf(0) /\ {heard', down'} \subseteq Nat
    BY <1>4, ClocksStep DEF PlacesOf, Clocks
  <2>2. heard' - MaxLate - down' = heard - MaxLate - down
    BY <1>0, <1>4, <2>1
  <2> QED BY <2>1, <2>2 DEF Heard, Time
<1> QED BY <1>1, <1>2, <1>3, <1>4, QuietSteps

\* No table gets ahead of its source.
LEMMA DownhillStep ==
  ASSUME IInv, Clocks, Heard, Downhill, NewestRecent, Lasting, IInv', Next
  PROVE  Downhill'
<1> SUFFICES ASSUME NEW t \in Coarse, PlacesOf(t)' # {}
             PROVE  PlacesOf(t - 1)' # {} /\ Max(PlacesOf(t - 1)') >= Max(PlacesOf(t)')
  BY DEF Downhill
<1> DEFINE a == Max(PlacesOf(t))
           b == Max(PlacesOf(t - 1))
           c == Max(PlacesOf(t)')
           d == Max(PlacesOf(t - 1)')
<1>0. t \in Tables /\ t - 1 \in Tables /\ t - 1 # t /\ Size[t] \in Nat \ {0} /\ t \in Nat
  BY Constants
<1>1. PlacesOf(t) # {} =>
        /\ a \in PlacesOf(t) /\ a \in Nat
        /\ PlacesOf(t - 1) # {} /\ b \in PlacesOf(t - 1) /\ b \in Nat /\ b >= a
  BY <1>0, NewestIs DEF Downhill, NewestWell
<1>2. c \in PlacesOf(t)' /\ c \in Nat
  BY <1>0, NewestNext DEF NewestWell
<1>3. PlacesOf(t - 1)' # {} => d \in Nat /\ \A p \in PlacesOf(t - 1)' : p \in Nat /\ p <= d
  BY <1>0, NewestNext DEF NewestWell
<1>4. ASSUME PlacesOf(t)' = PlacesOf(t), PlacesOf(t - 1) \subseteq PlacesOf(t - 1)'
      PROVE  PlacesOf(t - 1)' # {} /\ d >= c
  <2>1. b \in PlacesOf(t - 1)' /\ c = a /\ a \in Nat /\ b \in Nat /\ b >= a
    BY <1>1, <1>4
  <2>2. b <= d /\ d \in Nat
    BY <1>3, <2>1
  <2> HIDE DEF a, b, c, d
  <2> QED BY <2>1, <2>2
<1>5. ASSUME NEW h \in Hosts, NEW q \in Positions, Report(h, q) PROVE PlacesOf(t - 1)' # {} /\ d >= c
  <2>1. PlacesOf(t)' = PlacesOf(t)
    BY <1>5, ReportPlaces
  <2>2. PlacesOf(t - 1) \subseteq PlacesOf(t - 1)'
    BY <1>0, <1>5, ReportPlaces DEF Tables
  <2> QED BY <1>4, <2>1, <2>2
<1>6. ASSUME Fill PROVE PlacesOf(t - 1)' # {} /\ d >= c
  <2>1. pc.t \in Coarse /\ \A u \in Tables \ {pc.t} : PlacesOf(u)' = PlacesOf(u)
    BY <1>6, FillPlaces
  <2>2. CASE t # pc.t
    <3>1. PlacesOf(t)' = PlacesOf(t)
      BY <1>0, <2>1, <2>2
    <3>2. PlacesOf(t - 1) \subseteq PlacesOf(t - 1)'
      <4>1. CASE t - 1 # pc.t
        BY <1>0, <2>1, <4>1
      <4>2. CASE t - 1 = pc.t
        <5>1. PlacesOf(pc.t) \subseteq PlacesOf(pc.t)'
          BY <1>6, FillPlaces
        <5>2. pc' = pc
          BY <1>6 DEF Fill
        <5>3. PlacesOf(t - 1)' = PlacesOf(pc.t)'
          BY <4>2, <5>2 DEF PlacesOf
        <5> QED BY <4>2, <5>1, <5>3
      <4> QED BY <4>1, <4>2
    <3> QED BY <1>4, <3>1, <3>2
  <2>3. CASE t = pc.t
    <3>1. PlacesOf(t - 1)' = PlacesOf(t - 1)
      BY <1>0, <2>1, <2>3
    <3>2. PlacesOf(t)' = PlacesOf(pc.t)'
      BY <1>6, <2>3 DEF Fill, PlacesOf
    <3>3. CASE c \in PlacesOf(t)
      <4>1. c <= a /\ a \in Nat /\ b \in Nat /\ b >= a /\ PlacesOf(t - 1) # {} /\ d = b
        BY <1>0, <1>1, <3>1, <3>3, NewestIs DEF NewestWell
      <4>2. c \in Nat
        BY <1>2
      <4> HIDE DEF a, b, c, d
      <4> QED BY <4>1, <4>2, <3>1
    <3>4. CASE c \notin PlacesOf(t)
      <4>1. \E p \in PlacesOf(t - 1) : Inside(t, win, p)
        BY <1>2, <1>6, <2>3, <3>2, <3>4, FillPlaces
      <4>2. c = Place(win)
        BY <1>2, <1>6, <2>3, <3>2, <3>4, FillPlaces
      <4>3. PICK p \in PlacesOf(t - 1) : Place(win) <= p
        BY <4>1 DEF Inside
      <4>4. p <= d /\ d \in Nat /\ p \in Nat
        BY <1>3, <3>1
      <4> HIDE DEF a, b, c, d
      <4> QED BY <4>2, <4>3, <4>4, <1>2, <3>1
    <3> QED BY <3>3, <3>4
  <2> QED BY <2>2, <2>3
<1>7. ASSUME NEW keep \in Keeps, NEW n \in 0..Len(Size), Purge(keep, n)
      PROVE  PlacesOf(t - 1)' # {} /\ d >= c
  <2>1. PlacesOf(t) # {}
    BY <1>0, <1>7, PurgePlaces
  <2>2. c = a
    BY <1>0, <1>7, <2>1, PurgeKeepsNewest
  <2>3. PlacesOf(t - 1)' # {} /\ d = b
    BY <1>0, <1>1, <1>7, <2>1, PurgeKeepsNewest
  <2> QED BY <1>1, <2>1, <2>2, <2>3
<1>8. CASE table' = table
  <2>1. PlacesOf(t)' = PlacesOf(t) /\ PlacesOf(t - 1)' = PlacesOf(t - 1)
    BY <1>8 DEF PlacesOf
  <2> QED BY <1>4, <2>1
<1> QED BY <1>5, <1>6, <1>7, <1>8, QuietSteps

\* The rows of the table being filled are not beyond the window computed next.
LEMMA FillBelow ==
  ASSUME IInv, Opened, pc.at = "fill", win # None
  PROVE  /\ pc.t \in Coarse /\ win \in Nat /\ Start(pc.t) \in Nat /\ Start(pc.t) <= win
         /\ Opening(pc.t) = win
         /\ \A p \in PlacesOf(pc.t) : p \in Nat /\ p <= Place(win)
<1>1. pc.t \in Coarse /\ pc = Filling(pc.t) /\ pc.t \in Tables
  BY IsFilling, Constants DEF IInv
<1>2. win \in Nat
  BY DEF IInv, Work, Aligned
<1>3. Start(pc.t) # None /\ Start(pc.t) <= win
  BY DEF Opened
<1>4. StartsWell(pc.t)
  BY <1>1, Starts
<1>5. Start(pc.t) \in Nat
  BY <1>3, <1>4 DEF StartsWell
<1>6. \A p \in PlacesOf(pc.t) : p \in Nat /\ p <= Place(win)
  <2> SUFFICES ASSUME NEW p \in PlacesOf(pc.t) PROVE p \in Nat /\ p <= Place(win)
    OBVIOUS
  <2>1. p \in Nat /\ p <= Max(PlacesOf(pc.t)) /\ Max(PlacesOf(pc.t)) \in Nat
    BY <1>1, NewestIs DEF NewestWell
  <2>2. Max(PlacesOf(pc.t)) = Place(Start(pc.t))
    BY <1>4 DEF StartsWell
  <2>3. Place(Start(pc.t)) <= Place(win)
    BY <1>2, <1>3, <1>5 DEF Place
  <2> QED BY <2>1, <2>2, <2>3, <1>2 DEF Place
<1> QED BY <1>1, <1>2, <1>3, <1>5, <1>6 DEF Opening

\* Where the work opens a table.
LEMMA OpensWell ==
  ASSUME IInv, NEW t \in Coarse
  PROVE  IF Start(t) = None THEN PlacesOf(t) = {} /\ PlacesOf(t - 1) = {} ELSE Start(t) \in Nat /\ Start(t) <= Start(t)
<1>1. StartsWell(t) /\ None \notin Nat
  BY Starts, MoreConstants
<1> QED BY <1>1 DEF StartsWell

\* What is filled was opened where it had to be.
LEMMA OpenedStep ==
  ASSUME IInv, Opened, IInv', Next
  PROVE  Opened'
<1>0. None \notin Nat /\ 1 \in Coarse /\ \A t \in Coarse : t \in Tables /\ t - 1 \in Tables
  BY Constants, MoreConstants
<1>1. ASSUME NEW h \in Hosts, NEW q \in Positions, Report(h, q) PROVE Opened'
  <2> SUFFICES ASSUME pc.at = "fill"
               PROVE  IF win = None
                      THEN PlacesOf(pc.t)' = {} /\ (pc.t # 1 => PlacesOf(pc.t - 1)' = {})
                      ELSE Start(pc.t)' # None /\ Start(pc.t)' <= win
    BY <1>1 DEF Report, Opened, PlacesOf, Start
  <2>0. pc' = pc /\ pc.t \in Coarse
    BY <1>1, IsFilling DEF IInv, Report
  <2>1. \A u \in Coarse : PlacesOf(u)' = PlacesOf(u)
    BY <1>1, ReportPlaces
  <2>2. CASE win = None
    <3>1. PlacesOf(pc.t) = {} /\ (pc.t # 1 => PlacesOf(pc.t - 1) = {})
      BY <2>2 DEF Opened
    <3>2. PlacesOf(pc.t)' = {}
      BY <2>0, <2>1, <3>1 DEF PlacesOf
    <3>3. pc.t # 1 => PlacesOf(pc.t - 1)' = {}
      <4>1. pc.t # 1 => pc.t - 1 \in Coarse
        BY <2>0, Constants
      <4> QED BY <2>0, <2>1, <3>1, <4>1 DEF PlacesOf
    <3> QED BY <2>2, <3>2, <3>3
  <2>3. CASE win # None
    <3>1. win \in Nat /\ Start(pc.t) \in Nat /\ Start(pc.t) <= win
      BY <2>3, FillBelow
    <3>2. CASE pc.t # 1
      <4>1. Start(pc.t)' = Start(pc.t)
        <5>1. \A u \in Coarse \ {1} : Start(u)' = Start(u)
          BY <1>1, ReportOpenings
        <5> QED BY <2>0, <3>2, <5>1 DEF Start, PlacesOf
      <4> QED BY <2>3, <3>1, <4>1, <1>0
    <3>3. CASE pc.t = 1
      <4>1. StartsWell(1) /\ StartsWell(1)'
        BY <1>0, Starts, StartsNext
      <4>2. PlacesOf(1) # {} \/ PlacesOf(0) # {}
        BY <4>1, <3>1, <3>3, <1>0 DEF StartsWell
      <4>3. Start(1)' <= Start(1)
        BY <4>2, <1>1, ReportOpenings
      <4>4. PlacesOf(1)' # {} \/ PlacesOf(0)' # {}
        BY <4>2, <1>1, <1>0, ReportPlaces
      <4>5. Start(1)' \in Nat
        BY <4>1, <4>4 DEF StartsWell
      <4>6. Start(pc.t)' = Start(1)'
        BY <2>0, <3>3 DEF Start, PlacesOf
      <4> QED BY <2>3, <3>1, <3>3, <4>3, <4>5, <4>6, <1>0
    <3> QED BY <3>2, <3>3
  <2> QED BY <2>2, <2>3
<1>2. CASE Fill
  <2> DEFINE v == pc.t
  <2>1. /\ v \in Coarse /\ pc' = pc /\ win \in Nat /\ win' = win + Size[v] /\ win # None
        /\ Size[v] \in Nat \ {0} /\ Start(v) \in Nat /\ Start(v) <= win
        /\ \A p \in PlacesOf(v) : p \in Nat /\ p <= Place(win)
    BY <1>2, FillPlaces, FillBelow, Constants, Stages
  <2>2. PlacesOf(v)' \subseteq PlacesOf(v) \cup {Place(win)} /\ PlacesOf(v) \subseteq PlacesOf(v)'
    BY <1>2, FillPlaces
  <2>3. PlacesOf(v - 1)' = PlacesOf(v - 1)
    <3>1. v - 1 # v /\ v - 1 \in Tables
      BY <1>0, <2>1, Constants
    <3>2. \A u \in Tables \ {v} : PlacesOf(u)' = PlacesOf(u)
      BY <1>2, FillPlaces
    <3> QED BY <2>1, <3>1, <3>2 DEF PlacesOf
  <2>4. Start(v)' \in Nat /\ Start(v)' <= win
    <3>1. CASE PlacesOf(v)' = {}
      <4>1. PlacesOf(v) = {}
        BY <2>2, <3>1
      <4>2. Start(v)' = Start(v)
        BY <2>1, <2>3, <3>1, <4>1 DEF Start, PlacesOf
      <4> QED BY <2>1, <4>2
    <3>2. CASE PlacesOf(v)' # {}
      <4>1. \A t \in Coarse : StartsWell(t)' /\ NewestWell(t)'
        BY <1>0, StartsNext, NewestNext
      <4>2. v' = v
        BY <2>1
      <4>3. Start(v)' \in Nat /\ Place(Start(v)') = Max(PlacesOf(v)') /\ Max(PlacesOf(v)') \in PlacesOf(v)'
        BY <2>1, <3>2, <4>1, <4>2 DEF StartsWell, NewestWell, Start, PlacesOf
      <4>4. Place(Start(v)') <= Place(win)
        BY <2>1, <2>2, <4>3 DEF Place
      <4> QED BY <4>3, <4>4, <2>1 DEF Place
    <3> QED BY <3>1, <3>2
  <2>5. win' # None /\ Start(v)' # None /\ Start(v)' <= win'
    BY <2>1, <2>4, <1>0
  <2> QED BY <2>1, <2>5 DEF Opened
<1>3. CASE ~(pc'.at = "fill")
  BY <1>3 DEF Opened
<1>4. ASSUME NEW t \in Coarse, pc' = Filling(t), win' = Start(t), table' = table PROVE Opened'
  <2>1. \A u : Start(u)' = Start(u) /\ PlacesOf(u)' = PlacesOf(u)
    BY <1>4 DEF Start, PlacesOf
  <2>2. pc'.t = t
    BY <1>4, Stages
  <2>3. IF win' = None THEN PlacesOf(t)' = {} /\ PlacesOf(t - 1)' = {} ELSE Start(t)' # None /\ Start(t)' <= win'
    BY <1>4, <2>1, OpensWell
  <2>4. Start(pc.t)' = Start(t)' /\ PlacesOf(pc.t)' = PlacesOf(t)' /\ PlacesOf(pc.t - 1)' = PlacesOf(t - 1)'
    BY <2>2 DEF Start, PlacesOf
  <2> QED BY <2>3, <2>4 DEF Opened
<1>5. CASE Hourly
  BY <1>0, <1>4, <1>5 DEF Hourly
<1>6. CASE NextTable
  <2>1. CASE pc.t < Len(Size)
    <3>1. pc.t + 1 \in Coarse
      BY <1>6, <2>1, IsFilling, Constants DEF NextTable, IInv
    <3> QED BY <1>4, <1>6, <2>1, <3>1 DEF NextTable
  <2>2. CASE ~(pc.t < Len(Size))
    BY <1>3, <1>6, <2>2, Stages DEF NextTable
  <2> QED BY <2>1, <2>2
<1>7. CASE FillFails \/ Stop \/ Boot \/ Tick \/ TickDown
  <2>1. pc' \in {Idle, Purging, Down}
    BY <1>7 DEF FillFails, Stop, Boot, Tick, TickDown
  <2> QED BY <1>3, <2>1, Stages
<1>8. ASSUME NEW keep \in Keeps, NEW n \in 0..Len(Size), Purge(keep, n) PROVE Opened'
  <2>1. pc' = Idle
    BY <1>8, PurgePlaces
  <2> QED BY <1>3, <2>1, Stages
<1> QED BY <1>1, <1>2, <1>5, <1>6, <1>7, <1>8 DEF Next

\* While the first roll-up is empty, what its windows have passed was late.
LEMMA FirstWindowStep ==
  ASSUME IInv, Clocks, Opened, FirstWindow, IInv', Next
  PROVE  FirstWindow'
<1> SUFFICES ASSUME PlacesOf(1)' = {}, pc' \notin {Idle, Down}, NEW k \in DOMAIN table'[0]
             PROVE  /\ pc' = Filling(1) =>
                         \/ Fresh(k[2])'
                         \/ win' # None /\ (k[2] >= Place(win') \/ k[2] < Place(Start(1)'))
                    /\ k[2] < Place(Opening(1)') => Fresh(k[2])' \/ table'[0][k] \subseteq skipped'
  BY DEF FirstWindow, Place, Idle, Down
<1>0. 1 \in Coarse /\ 0 \in Tables /\ 1 \in Tables /\ {now, MaxLate, down} \subseteq Nat /\ None \notin Nat
  BY Constants, MoreConstants DEF IInv, Clocks
<1> DEFINE p == k[2]
<1>a. ASSUME NEW j \in DOMAIN table[0] PROVE j[2] \in PlacesOf(0) /\ j[2] \in Nat /\ table[0][j] = {j}
  BY <1>0, PlacesAre DEF PlacesOf, IInv, Raw
<1>b. ASSUME pc \notin {Idle, Down}, PlacesOf(1) = {}, NEW j \in DOMAIN table[0]
      PROVE  /\ pc = Filling(1) =>
                  \/ Fresh(j[2])
                  \/ win # None /\ (j[2] >= Place(win) \/ j[2] < Place(Start(1)))
             /\ j[2] < Place(Opening(1)) => Fresh(j[2]) \/ table[0][j] \subseteq skipped
  BY <1>b DEF FirstWindow
<1>1. ASSUME NEW h \in Hosts, NEW q \in Positions, Report(h, q)
      PROVE  /\ pc' = Filling(1) =>
                  \/ Fresh(p)'
                  \/ win' # None /\ (p >= Place(win') \/ p < Place(Start(1)'))
             /\ p < Place(Opening(1)') => Fresh(p)' \/ table'[0][k] \subseteq skipped'
  <2>1. /\ q \in Nat /\ Fresh(q) /\ PlacesOf(1) = {}
        /\ k \in DOMAIN table[0] \/ k = <<h, q>>
        /\ k \in DOMAIN table[0] => table'[0][k] = table[0][k]
    BY <1>0, <1>1, ReportPlaces
  <2>2. now' = now /\ down' = down /\ pc' = pc /\ win' = win /\ skipped \subseteq skipped'
    BY <1>1 DEF Report
  <2>3. CASE p >= q
    <3>1. p \in Nat
      BY <1>a, <2>1
    <3> HIDE DEF p
    <3>2. Time(q) <= Time(p) /\ Time(q) \in Nat /\ Time(p) \in Nat
      BY <2>1, <2>3, <3>1 DEF Time
    <3>3. Time(p) >= now' - MaxLate - down'
      BY <3>2, <2>1, <2>2, <1>0 DEF Fresh
    <3>4. Fresh(p)'
      BY <3>3 DEF Fresh, Time
    <3> QED BY <3>4
  <2>4. CASE ~(p >= q)
    <3>1. k \in DOMAIN table[0]
      BY <2>1, <2>4
    <3>2. p \in PlacesOf(0) /\ p \in Nat /\ p < q
      BY <1>a, <2>1, <2>4, <3>1
    <3>3. Opening(1)' = Opening(1) /\ Start(1)' = Start(1)
      BY <1>1, <3>2, ReportOpenings
    <3>4. Fresh(p) => Fresh(p)'
      BY <2>2 DEF Fresh, Time
    <3>5. pc \notin {Idle, Down}
      BY <2>2
    <3>6. /\ pc = Filling(1) =>
               \/ Fresh(p)
               \/ win # None /\ (p >= Place(win) \/ p < Place(Start(1)))
          /\ p < Place(Opening(1)) => Fresh(p) \/ table[0][k] \subseteq skipped
      BY <1>b, <2>1, <3>1, <3>5
    <3> QED BY <3>1, <3>3, <3>4, <3>6, <2>1, <2>2
  <2> QED BY <2>3, <2>4
<1>2. CASE Hourly
  <2>1. /\ table' = table /\ pc' = Filling(1) /\ win' = Start(1) /\ Start(1)' = Start(1) /\ PlacesOf(1) = {}
        /\ skipped' = skipped \cup
             IF PlacesOf(1) = {} /\ win' # None THEN {j \in DOMAIN table[0] : j[2] < Place(win')} ELSE {}
    BY <1>2 DEF Hourly, PlacesOf, Start
  <2>2. Start(1) \in Nat
    <3>1. p \in PlacesOf(0)
      BY <1>a, <2>1
    <3> QED BY <3>1, <2>1, <1>0, Starts DEF StartsWell
  <2>3. p \in Nat /\ table'[0][k] = {k}
    BY <1>a, <2>1
  <2>4. p >= Place(win') \/ p < Place(Start(1)')
    BY <2>1, <2>2, <2>3 DEF Place
  <2>5. win' # None /\ Opening(1)' = win'
    BY <2>1, <2>2, <1>0 DEF Opening, Filling
  <2>6. p < Place(win') => k \in skipped'
    BY <2>1, <2>5
  <2> QED BY <2>3, <2>4, <2>5, <2>6
<1>3. CASE Fill
  <2>1. /\ pc.t \in Coarse /\ pc = Filling(pc.t) /\ pc' = pc /\ now' = now /\ down' = down /\ win' = win + Size[pc.t]
        /\ win # None /\ win \in Nat /\ Size[pc.t] \in Nat \ {0}
        /\ \A u \in Tables \ {pc.t} : PlacesOf(u)' = PlacesOf(u) /\ table'[u] = table[u]
    BY <1>3, FillPlaces, FillBelow, Constants, Stages DEF Fill
  <2>2. pc.t # 0 /\ pc \notin {Idle, Down}
    BY <2>1, Constants, Stages
  <2>3. PlacesOf(0)' = PlacesOf(0) /\ table'[0] = table[0] /\ skipped' = skipped
    BY <1>0, <1>3, <2>1, <2>2 DEF Fill
  <2>4. k \in DOMAIN table[0] /\ p \in Nat /\ p \in PlacesOf(0)
    BY <1>a, <2>3
  <2>5. Fresh(p) => Fresh(p)'
    BY <2>1 DEF Fresh, Time
  <2>6. CASE pc.t = 1
    <3>1. PlacesOf(1)' = PlacesOf(pc.t)'
      BY <2>1, <2>6 DEF PlacesOf
    <3>2. PlacesOf(1) = {} /\ ~\E x \in PlacesOf(0) : Inside(1, win, x)
      BY <1>3, <2>6, <3>1, FillPlaces
    <3>3. Start(1)' = Start(1)
      BY <2>3, <3>2 DEF Start
    <3>4. ~Inside(1, win, p)
      BY <2>4, <3>2
    <3>5. p < Place(win) \/ p >= Place(win')
      BY <2>1, <2>4, <2>6, <3>4 DEF Inside, Place
    <3>6. win' # None /\ Opening(1) = win /\ Opening(1)' = win'
      BY <2>1, <2>6, <1>0 DEF Opening, Filling
    <3>7. /\ Fresh(p) \/ p >= Place(win) \/ p < Place(Start(1))
          /\ p < Place(win) => Fresh(p) \/ table[0][k] \subseteq skipped
      BY <1>b, <2>1, <2>2, <2>4, <2>6, <3>2, <3>6
    <3>8. ~(p >= Place(win) /\ p < Place(win))
      BY <2>1, <2>4 DEF Place
    <3>9. ~(p >= Place(win') /\ p < Place(win'))
      BY <2>1, <2>4 DEF Place
    <3> QED BY <2>3, <2>5, <3>3, <3>5, <3>6, <3>7, <3>8, <3>9
  <2>7. CASE pc.t # 1
    <3>1. PlacesOf(1) = {}
      BY <1>0, <2>1, <2>7
    <3>2. pc # Filling(1) /\ pc' # Filling(1)
      BY <2>1, <2>7, Stages
    <3>3. Start(1)' = Start(1)
      BY <1>0, <2>1, <2>3, <2>7 DEF Start
    <3>4. Opening(1)' = Opening(1)
      BY <3>2, <3>3 DEF Opening, Filling
    <3> QED BY <1>b, <2>2, <2>3, <2>4, <2>5, <3>1, <3>2, <3>4
  <2> QED BY <2>6, <2>7
<1>4. CASE NextTable \/ FillFails
  <2>1. /\ table' = table /\ now' = now /\ down' = down /\ PlacesOf(1) = {} /\ skipped' = skipped
        /\ Opening(1)' = Opening(1) \/ (pc = Filling(1) /\ win # None /\ Opening(1)' = Start(1))
    BY <1>0, <1>4, QuietOpenings DEF NextTable, FillFails
  <2>2. pc.at = "fill" /\ pc \notin {Idle, Down}
    BY <1>4, Stages DEF NextTable, FillFails
  <2>3. pc' # Filling(1)
    <3>1. CASE pc' = Purging
      BY <3>1, Stages
    <3>2. CASE pc' = Filling(pc.t + 1)
      <4>1. pc.t \in Nat \ {0}
        BY <2>2, IsFilling, Constants DEF IInv
      <4> QED BY <3>2, <4>1, Stages
    <3> QED BY <1>4, <3>1, <3>2 DEF NextTable, FillFails
  <2>4. k \in DOMAIN table[0] /\ p \in Nat
    BY <1>a, <2>1
  <2>5. Fresh(p) => Fresh(p)'
    BY <2>1 DEF Fresh, Time
  <2>6. p < Place(Opening(1)') => p < Place(Opening(1))
    <3>1. CASE Opening(1)' = Opening(1)
      BY <3>1
    <3>2. CASE pc = Filling(1) /\ win # None /\ Opening(1)' = Start(1)
      <4>1. pc.t = 1
        BY <3>2, Stages
      <4>2. Opening(1) = win /\ win \in Nat /\ Start(1) \in Nat /\ Start(1) <= win
        BY <2>2, <3>2, <4>1, FillBelow
      <4> QED BY <2>4, <3>2, <4>2 DEF Place
    <3> QED BY <2>1, <3>1, <3>2
  <2> QED BY <1>b, <2>1, <2>2, <2>3, <2>4, <2>5, <2>6
<1>5. ASSUME NEW keep \in Keeps, NEW n \in 0..Len(Size), Purge(keep, n) PROVE FALSE
  BY <1>5, PurgePlaces
<1>6. CASE Stop \/ Boot \/ Tick \/ TickDown
  BY <1>6 DEF Stop, Boot, Tick, TickDown
<1> QED BY <1>1, <1>2, <1>3, <1>4, <1>5, <1>6 DEF Next

-----------------------------------------------------------------------------
(* What is written can be computed again, and is kept until it is rolled up. *)

\* What a window computes, sample by sample.
LEMMA ComputedHas ==
  ASSUME NEW t, NEW w
  PROVE  /\ \A k \in DOMAIN Computed(t, w) :
              /\ k[2] = Place(w)
              /\ \A s : s \in Computed(t, w)[k] <=>
                   \E j \in DOMAIN table[t - 1] : Inside(t, w, j[2]) /\ j[1] = k[1] /\ s \in table[t - 1][j]
         /\ \A j \in DOMAIN table[t - 1] : Inside(t, w, j[2]) =>
              /\ <<j[1], Place(w)>> \in DOMAIN Computed(t, w)
              /\ table[t - 1][j] \subseteq Computed(t, w)[<<j[1], Place(w)>>]
<1> DEFINE source == {k \in DOMAIN table[t - 1] : Inside(t, w, k[2])}
           rows == {<<k[1], Place(w)>> : k \in source}
           content(r) == UNION {table[t - 1][k] : k \in {k \in source : k[1] = r[1]}}
<1>1. Computed(t, w) = [r \in rows |-> content(r)]
  BY DEF Computed
<1>2. \A r \in rows : r[2] = Place(w) /\ Computed(t, w)[r] = content(r)
  BY <1>1
<1>3. DOMAIN Computed(t, w) = rows
  BY <1>1
<1>4. \A r, s : s \in content(r) <=> \E j \in source : j[1] = r[1] /\ s \in table[t - 1][j]
  OBVIOUS
<1>5. \A j \in source : <<j[1], Place(w)>> \in rows
  OBVIOUS
<1>6. ASSUME NEW j \in DOMAIN table[t - 1], Inside(t, w, j[2])
      PROVE  /\ <<j[1], Place(w)>> \in DOMAIN Computed(t, w)
             /\ table[t - 1][j] \subseteq Computed(t, w)[<<j[1], Place(w)>>]
  <2>1. j \in source
    BY <1>6
  <2>2. <<j[1], Place(w)>> \in rows
    BY <1>5, <2>1
  <2>3. <<j[1], Place(w)>>[1] = j[1]
    OBVIOUS
  <2>4. \A s \in table[t - 1][j] : s \in content(<<j[1], Place(w)>>)
    BY <1>4, <2>1, <2>3
  <2> HIDE DEF content, rows, source
  <2> QED BY <1>2, <1>3, <2>2, <2>4
<1>7. ASSUME NEW k \in DOMAIN Computed(t, w)
      PROVE  /\ k[2] = Place(w)
             /\ \A s : s \in Computed(t, w)[k] <=>
                  \E j \in DOMAIN table[t - 1] : Inside(t, w, j[2]) /\ j[1] = k[1] /\ s \in table[t - 1][j]
  <2>1. k \in rows
    BY <1>3
  <2>2. \A s : s \in content(k) <=> \E j \in DOMAIN table[t - 1] : Inside(t, w, j[2]) /\ j[1] = k[1] /\ s \in table[t - 1][j]
    BY <1>4
  <2> HIDE DEF content, rows
  <2> QED BY <1>2, <2>1, <2>2
<1> QED BY <1>6, <1>7

\* A window computed again holds what it held.
LEMMA FillGrows ==
  ASSUME IInv, Opened, Again, Fill, NEW t \in Tables, NEW k \in DOMAIN table[t]
  PROVE  k \in DOMAIN table'[t] /\ table[t][k] \subseteq table'[t][k]
<1> DEFINE v == pc.t
<1>1. /\ v \in Coarse /\ win \in Nat /\ win # None /\ Size[v] \in Nat \ {0} /\ v \in Tables
      /\ \A p \in PlacesOf(v) : p \in Nat /\ p <= Place(win)
      /\ \A u \in Tables \ {v} : table'[u] = table[u]
      /\ table'[v] = Replaced(table[v], Computed(v, win))
  BY FillPlaces, FillBelow, Constants, Stages
<1>2. CASE t # v
  BY <1>1, <1>2
<1>3. CASE t = v /\ k \notin DOMAIN Computed(v, win)
  BY <1>1, <1>3 DEF Replaced
<1>4. CASE t = v /\ k \in DOMAIN Computed(v, win)
  <2>1. k \in DOMAIN table'[t] /\ table'[t][k] = Computed(v, win)[k] /\ k[2] = Place(win)
    BY <1>1, <1>4, ComputedHas DEF Replaced
  <2>2. k[2] \in PlacesOf(v)
    BY <1>4 DEF PlacesOf
  <2>3. k[2] = Max(PlacesOf(v))
    <3> DEFINE m == Max(PlacesOf(v))
    <3>1. m \in PlacesOf(v) /\ k[2] <= m
      BY <1>1, <2>2, NewestIs DEF NewestWell
    <3>2. m \in Nat /\ m <= k[2] /\ k[2] \in Nat
      BY <1>1, <2>1, <2>2, <3>1
    <3> HIDE DEF m
    <3>3. k[2] = m
      BY <3>1, <3>2
    <3> QED BY <3>3 DEF m
  <2>4. ASSUME NEW s \in table[t][k] PROVE s \in Computed(v, win)[k]
    <3>1. PICK j \in DOMAIN table[v - 1] :
            j[1] = k[1] /\ k[2] <= j[2] /\ j[2] < k[2] + Place(Size[v]) /\ s \in table[v - 1][j]
      BY <1>1, <1>4, <2>3 DEF Again
    <3>2. Inside(v, win, j[2])
      <4>1. Place(win) + Place(Size[v]) = Place(win + Size[v])
        BY <1>1 DEF Place
      <4> QED BY <2>1, <3>1, <4>1 DEF Inside
    <3> QED BY <1>4, <3>1, <3>2, ComputedHas
  <2> QED BY <2>1, <2>4
<1> QED BY <1>2, <1>3, <1>4

\* The newest rows are made of rows the source still has.
LEMMA AgainStep ==
  ASSUME IInv, Clocks, Heard, Opened, Again, NewestRecent, Lasting, IInv', Next
  PROVE  Again'
<1> SUFFICES ASSUME NEW t \in Coarse, NEW k \in DOMAIN table'[t], k[2] = Max(PlacesOf(t)'), NEW s \in table'[t][k]
             PROVE  \E j \in DOMAIN table'[t - 1] :
                      j[1] = k[1] /\ k[2] <= j[2] /\ j[2] < k[2] + Place(Size[t]) /\ s \in table'[t - 1][j]
  BY DEF Again, Place
<1>0. t \in Tables /\ t - 1 \in Tables /\ t # t - 1 /\ Size[t] \in Nat \ {0} /\ now \in Nat
  BY Constants DEF IInv
<1>1. ASSUME k \in DOMAIN table[t], k[2] = Max(PlacesOf(t)), s \in table[t][k],
             \A j \in DOMAIN table[t - 1] : k[2] <= j[2] =>
               j \in DOMAIN table'[t - 1] /\ table[t - 1][j] \subseteq table'[t - 1][j]
      PROVE  \E j \in DOMAIN table'[t - 1] :
               j[1] = k[1] /\ k[2] <= j[2] /\ j[2] < k[2] + Place(Size[t]) /\ s \in table'[t - 1][j]
  <2>1. PICK j \in DOMAIN table[t - 1] :
          j[1] = k[1] /\ k[2] <= j[2] /\ j[2] < k[2] + Place(Size[t]) /\ s \in table[t - 1][j]
    BY <1>1 DEF Again
  <2> QED BY <1>1, <2>1
<1>2. ASSUME NEW h \in Hosts, NEW q \in Positions, Report(h, q)
      PROVE  \E j \in DOMAIN table'[t - 1] :
               j[1] = k[1] /\ k[2] <= j[2] /\ j[2] < k[2] + Place(Size[t]) /\ s \in table'[t - 1][j]
  <2>1. table'[t] = table[t] /\ PlacesOf(t)' = PlacesOf(t)
    BY <1>2, ReportPlaces
  <2>2. ASSUME NEW j \in DOMAIN table[t - 1]
        PROVE  j \in DOMAIN table'[t - 1] /\ table[t - 1][j] \subseteq table'[t - 1][j]
    <3>1. CASE t - 1 = 0
      BY <1>2, <3>1, ReportPlaces
    <3>2. CASE t - 1 \in Coarse
      BY <1>2, <3>2, ReportPlaces
    <3> QED BY <1>0, <3>1, <3>2 DEF Tables
  <2> QED BY <1>1, <2>1, <2>2
<1>3. ASSUME Fill
      PROVE  \E j \in DOMAIN table'[t - 1] :
               j[1] = k[1] /\ k[2] <= j[2] /\ j[2] < k[2] + Place(Size[t]) /\ s \in table'[t - 1][j]
  <2> DEFINE v == pc.t
  <2>1. /\ v \in Coarse /\ win \in Nat /\ v \in Tables /\ pc' = pc
        /\ \A u \in Tables \ {v} : PlacesOf(u)' = PlacesOf(u) /\ table'[u] = table[u]
        /\ table'[v] = Replaced(table[v], Computed(v, win))
        /\ PlacesOf(v) \subseteq PlacesOf(v)'
    BY <1>3, FillPlaces, FillBelow, Constants, Stages
  <2>2. ASSUME NEW j \in DOMAIN table[t - 1]
        PROVE  j \in DOMAIN table'[t - 1] /\ table[t - 1][j] \subseteq table'[t - 1][j]
    BY <1>0, <1>3, FillGrows
  <2>3. CASE t # v
    <3>1. table'[t] = table[t] /\ PlacesOf(t)' = PlacesOf(t)
      BY <1>0, <2>1, <2>3
    <3> QED BY <1>1, <2>2, <3>1
  <2>4. CASE t = v /\ k \notin DOMAIN Computed(v, win)
    <3>1. k \in DOMAIN table[t] /\ table'[t][k] = table[t][k]
      BY <2>1, <2>4 DEF Replaced
    <3>2. k[2] = Max(PlacesOf(t))
      <4> DEFINE m == Max(PlacesOf(t))
                 n == Max(PlacesOf(t)')
      <4>1. k[2] \in PlacesOf(t)
        BY <3>1 DEF PlacesOf
      <4>2. m \in PlacesOf(t) /\ m \in Nat /\ k[2] <= m /\ k[2] \in Nat
        BY <1>0, <4>1, NewestIs DEF NewestWell
      <4>3. PlacesOf(t)' = PlacesOf(v)'
        BY <2>1, <2>4 DEF PlacesOf
      <4>4. m \in PlacesOf(t)'
        BY <2>1, <2>4, <4>2, <4>3
      <4>5. m <= n
        BY <1>0, <4>4, NewestNext DEF NewestWell
      <4> HIDE DEF m
      <4>6. m <= k[2]
        BY <4>5
      <4>7. k[2] = m
        BY <4>2, <4>6
      <4> QED BY <4>7 DEF m
    <3> QED BY <1>1, <2>2, <3>1, <3>2
  <2>5. CASE t = v /\ k \in DOMAIN Computed(v, win)
    <3>1. table'[t][k] = Computed(v, win)[k] /\ k[2] = Place(win)
      BY <2>1, <2>5, ComputedHas DEF Replaced
    <3>2. PICK j \in DOMAIN table[v - 1] : Inside(v, win, j[2]) /\ j[1] = k[1] /\ s \in table[v - 1][j]
      BY <2>5, <3>1, ComputedHas
    <3>3. Place(win + Size[t]) = Place(win) + Place(Size[t])
      BY <1>0, <2>1 DEF Place
    <3> QED BY <2>2, <2>5, <3>1, <3>2, <3>3 DEF Inside
  <2> QED BY <2>3, <2>4, <2>5
<1>4. ASSUME NEW keep \in Keeps, NEW n \in 0..Len(Size), Purge(keep, n)
      PROVE  \E j \in DOMAIN table'[t - 1] :
               j[1] = k[1] /\ k[2] <= j[2] /\ j[2] < k[2] + Place(Size[t]) /\ s \in table'[t - 1][j]
  <2>1. k \in DOMAIN table[t] /\ table'[t][k] = table[t][k]
    BY <1>0, <1>4, PurgePlaces
  <2>2. k[2] \in PlacesOf(t)
    BY <2>1 DEF PlacesOf
  <2>3. k[2] = Max(PlacesOf(t))
    BY <1>0, <1>4, <2>2, PurgeKeepsNewest
  <2>4. k[2] >= Place(now - keep[t])
    <3>1. End(t, k[2]) >= Recent(t)
      BY <2>2, <2>3 DEF NewestRecent
    <3>2. PICK w \in Nat : k[2] = 2 * w /\ k[2] \div 2 = w
      BY <1>0, <2>2, PlacesAre
    <3>3. w + Size[t] >= Recent(t)
      BY <1>0, <3>1, <3>2, Constants DEF End
    <3>4. keep[t] \in Nat /\ now - keep[t] <= Recent(t) - Size[t] /\ Recent(t) \in Int
      BY <1>4, PurgePlaces, Lasts, LowIsPast
    <3>5. PICK r \in Int, z \in Nat, b \in Int : r = Recent(t) /\ z = Size[t] /\ b = now - keep[t]
      BY <3>4, <1>0
    <3>6. w >= b
      <4>1. w + z >= r /\ b <= r - z
        BY <3>3, <3>4, <3>5
      <4> QED BY <4>1
    <3> QED BY <3>2, <3>5, <3>6 DEF Place
  <2>5. ASSUME NEW j \in DOMAIN table[t - 1], k[2] <= j[2]
        PROVE  j \in DOMAIN table'[t - 1] /\ table[t - 1][j] \subseteq table'[t - 1][j]
    <3>1. j[2] \in Nat /\ k[2] \in Nat /\ keep[t] \in Nat
      <4>1. j[2] \in PlacesOf(t - 1)
        BY DEF PlacesOf
      <4> QED BY <1>0, <2>2, <4>1, PlacesAre, MoreConstants
    <3>2. t - 1 + 1 = t
      BY <1>0, Constants
    <3>3. j \in DOMAIN table'[t - 1]
      <4> SUFFICES ASSUME j \notin DOMAIN table'[t - 1] PROVE FALSE
        OBVIOUS
      <4>1. j[2] < Place(now - keep[t])
        BY <1>0, <1>4, <3>2, PurgePlaces
      <4> QED BY <4>1, <2>4, <2>5, <3>1, <1>0 DEF Place
    <3> QED BY <1>0, <1>4, <3>3, PurgePlaces
  <2> QED BY <1>1, <2>1, <2>3, <2>5
<1>5. CASE table' = table
  <2>1. PlacesOf(t)' = PlacesOf(t)
    BY <1>5 DEF PlacesOf
  <2> QED BY <1>1, <1>5, <2>1
<1> QED BY <1>2, <1>3, <1>4, <1>5, QuietSteps

\* Once a table is not being filled, what it is done with is what it was.
LEMMA StillDone ==
  ASSUME IInv, Opened, NEW t \in Coarse, NEW p \in Nat, table' = table, pc' # Filling(t), Done(t, p)'
  PROVE  Done(t, p)
<1>1. PlacesOf(t)' = PlacesOf(t)
  BY DEF PlacesOf
<1>2. PlacesOf(t) # {} /\ p < Max(PlacesOf(t))
  BY <1>1 DEF Done, Filling
<1>3. CASE pc = Filling(t) /\ win # None
  <2>1. pc.at = "fill" /\ pc.t = t
    BY <1>3, Stages
  <2>2. win \in Nat /\ \A x \in PlacesOf(t) : x \in Nat /\ x <= Place(win)
    BY <1>3, <2>1, FillBelow
  <2>3. Max(PlacesOf(t)) \in PlacesOf(t)
    BY <1>2, NewestIs, Constants DEF NewestWell
  <2>4. p < Place(win)
    BY <1>2, <2>2, <2>3 DEF Place
  <2> QED BY <1>3, <2>4 DEF Done
<1>4. CASE ~(pc = Filling(t) /\ win # None)
  BY <1>2, <1>4 DEF Done
<1> QED BY <1>3, <1>4

\* What the windows have passed is in the table, but for samples that came late.
LEMMA RolledUpStep ==
  ASSUME IInv, Clocks, Heard, Downhill, Opened, Again, RolledUp, NewestRecent, Lasting, IInv', Next
  PROVE  RolledUp'
<1> SUFFICES ASSUME NEW t \in Coarse, NEW j \in DOMAIN table'[t - 1], Done(t, j[2])', NEW s \in table'[t - 1][j],
                    s \notin skipped'
             PROVE  \E k \in DOMAIN table'[t] :
                      k[2] <= j[2] /\ j[2] < k[2] + Place(Size[t]) /\ s \in table'[t][k]
  BY DEF RolledUp, Place
<1> DEFINE Goal == \E k \in DOMAIN table'[t] :
                      k[2] <= j[2] /\ j[2] < k[2] + Place(Size[t]) /\ s \in table'[t][k]
<1>0. /\ t \in Tables /\ t - 1 \in Tables /\ t # t - 1 /\ Size[t] \in Nat \ {0} /\ now \in Nat /\ t \in Nat
      /\ None \notin Nat
  BY Constants, MoreConstants DEF IInv
<1>a. ASSUME NEW u \in Tables, NEW i \in DOMAIN table[u] PROVE i[2] \in PlacesOf(u) /\ i[2] \in Nat
  BY PlacesAre DEF PlacesOf
<1>1. ASSUME j \in DOMAIN table[t - 1], s \in table[t - 1][j], s \notin skipped, Done(t, j[2]),
             \A k \in DOMAIN table[t] : k[2] <= j[2] /\ j[2] < k[2] + Place(Size[t]) =>
               k \in DOMAIN table'[t] /\ table[t][k] \subseteq table'[t][k]
      PROVE  Goal
  <2>1. PICK k \in DOMAIN table[t] : k[2] <= j[2] /\ j[2] < k[2] + Place(Size[t]) /\ s \in table[t][k]
    BY <1>1 DEF RolledUp
  <2> QED BY <1>1, <2>1
<1>2. ASSUME NEW h \in Hosts, NEW q \in Positions, Report(h, q) PROVE Goal
  <2>1. /\ table'[t] = table[t] /\ PlacesOf(t)' = PlacesOf(t)
        /\ \A i \in DOMAIN table[0] : table'[0][i] = table[0][i]
        /\ \A i \in DOMAIN table'[0] : i \in DOMAIN table[0] \/ i = <<h, q>>
        /\ table'[0][<<h, q>>] = {<<h, q>>}
        /\ \A u \in Coarse : table'[u] = table[u]
    BY <1>2, ReportPlaces
  <2>2. /\ pc' = pc /\ win' = win
        /\ skipped' = IF Behind(q) THEN skipped \cup {<<h, q>>} ELSE skipped
    BY <1>2 DEF Report
  <2>3. Done(t, j[2])
    BY <2>1, <2>2 DEF Done, Filling, Place
  <2>4. CASE j \in DOMAIN table[t - 1]
    <3>1. table'[t - 1][j] = table[t - 1][j]
      BY <2>1, <2>4, <1>0 DEF Tables
    <3> QED BY <1>1, <2>1, <2>2, <2>3, <2>4, <3>1
  <2>5. CASE j \notin DOMAIN table[t - 1]
    <3>1. t - 1 = 0 /\ t = 1 /\ j = <<h, q>> /\ s = <<h, q>>
      BY <2>1, <2>5, <1>0 DEF Tables
    <3>2. Behind(q)
      <4>1. CASE pc = Filling(1) /\ win # None
        BY <2>3, <3>1, <4>1 DEF Done, Behind
      <4>2. CASE ~(pc = Filling(1) /\ win # None)
        <5>1. PlacesOf(1) # {} /\ q < Max(PlacesOf(1))
          BY <2>3, <3>1, <4>2 DEF Done
        <5>2. Max(PlacesOf(1)) \in PlacesOf(1)
          BY <1>0, <3>1, <5>1, NewestIs DEF NewestWell
        <5> QED BY <5>1, <5>2 DEF Behind
      <4> QED BY <4>1, <4>2
    <3> QED BY <2>2, <3>1, <3>2
  <2> QED BY <2>4, <2>5
<1>3. ASSUME Fill PROVE Goal
  <2> DEFINE v == pc.t
  <2>1. /\ v \in Coarse /\ v \in Nat /\ pc = Filling(v) /\ pc' = pc /\ win \in Nat /\ win # None /\ win' = win + Size[v]
        /\ Size[v] \in Nat \ {0} /\ v \in Tables
        /\ \A p \in PlacesOf(v) : p \in Nat /\ p <= Place(win)
        /\ \A u \in Tables \ {v} : PlacesOf(u)' = PlacesOf(u) /\ table'[u] = table[u]
        /\ table'[v] = Replaced(table[v], Computed(v, win))
    BY <1>3, FillPlaces, FillBelow, Constants, Stages
  <2>2. skipped' = skipped
    BY <1>3 DEF Fill
  <2>3. \A k \in DOMAIN table[t] : k \in DOMAIN table'[t] /\ table[t][k] \subseteq table'[t][k]
    BY <1>0, <1>3, FillGrows
  <2>4. CASE t = v
    <3>1. table'[t - 1] = table[t - 1]
      BY <1>0, <2>1, <2>4
    <3>2. j[2] \in Nat
      BY <1>0, <1>a, <3>1
    <3>3. j[2] < Place(win')
      <4>1. pc' = Filling(t) /\ win' # None
        BY <2>1, <2>4, <1>0
      <4> QED BY <4>1 DEF Done, Filling, Place
    <3>4. CASE j[2] < Place(win)
      <4>1. Done(t, j[2])
        BY <2>1, <2>4, <3>4 DEF Done
      <4> QED BY <1>1, <2>2, <2>3, <3>1, <4>1
    <3>5. CASE ~(j[2] < Place(win))
      <4>1. Inside(v, win, j[2])
        BY <2>1, <3>2, <3>3, <3>5 DEF Inside, Place
      <4> DEFINE k == <<j[1], Place(win)>>
      <4>2. k \in DOMAIN Computed(v, win) /\ s \in Computed(v, win)[k]
        BY <2>4, <3>1, <4>1, ComputedHas
      <4>3. k \in DOMAIN table'[t] /\ s \in table'[t][k]
        BY <2>1, <2>4, <4>2 DEF Replaced
      <4>4. k[2] <= j[2] /\ j[2] < k[2] + Place(Size[t])
        BY <2>1, <2>4, <4>1 DEF Inside, Place
      <4> QED BY <4>3, <4>4
    <3> QED BY <3>4, <3>5
  <2>5. CASE t # v
    <3>1. table'[t] = table[t] /\ PlacesOf(t)' = PlacesOf(t)
      BY <1>0, <2>1, <2>5
    <3>2. pc # Filling(t)
      BY <2>1, <2>5, Stages
    <3>3. PlacesOf(t) # {} /\ j[2] < Max(PlacesOf(t)) /\ Done(t, j[2])
      BY <2>1, <3>1, <3>2 DEF Done, Filling
    <3>4. j \in DOMAIN table[t - 1] /\ table'[t - 1][j] = table[t - 1][j]
      <4>1. CASE t - 1 # v
        BY <1>0, <2>1, <4>1
      <4>2. CASE t - 1 = v
        <5>1. PlacesOf(v) # {} /\ Max(PlacesOf(v)) >= Max(PlacesOf(t)) /\ Max(PlacesOf(v)) <= Place(win)
          BY <3>3, <4>2, <2>1, NewestIs DEF Downhill, NewestWell
        <5>2. Max(PlacesOf(t)) \in Nat /\ Max(PlacesOf(v)) \in Nat
          BY <1>0, <2>1, <3>3, <5>1, NewestIs DEF NewestWell
        <5>3. j \in DOMAIN table[v] \/ j \in DOMAIN Computed(v, win)
          BY <2>1, <4>2 DEF Replaced
        <5>4. j \notin DOMAIN Computed(v, win)
          <6> SUFFICES ASSUME j \in DOMAIN Computed(v, win) PROVE FALSE
            OBVIOUS
          <6>1. j[2] = Place(win)
            BY ComputedHas
          <6> QED BY <6>1, <3>3, <5>1, <5>2, <2>1 DEF Place
        <5>5. j \in DOMAIN table[v] /\ table'[v][j] = table[v][j]
          BY <2>1, <5>3, <5>4 DEF Replaced
        <5> QED BY <4>2, <5>5
      <4> QED BY <4>1, <4>2
    <3> QED BY <1>1, <2>2, <2>3, <3>3, <3>4
  <2> QED BY <2>4, <2>5
<1>4. ASSUME NEW keep \in Keeps, NEW n \in 0..Len(Size), Purge(keep, n) PROVE Goal
  <2>1. pc = Purging /\ pc' = Idle /\ skipped' = skipped /\ PlacesOf(t)' \subseteq PlacesOf(t)
    BY <1>0, <1>4, PurgePlaces
  <2>2. pc # Filling(t) /\ pc' # Filling(t)
    BY <2>1, Stages
  <2>3. Done(t, j[2])
    <3>1. PlacesOf(t)' # {} /\ j[2] < Max(PlacesOf(t)')
      BY <2>2 DEF Done, Filling
    <3>2. PlacesOf(t) # {} /\ Max(PlacesOf(t)') = Max(PlacesOf(t))
      BY <1>0, <1>4, <2>1, <3>1, PurgeKeepsNewest
    <3> QED BY <2>2, <3>1, <3>2 DEF Done
  <2>4. j \in DOMAIN table[t - 1] /\ table'[t - 1][j] = table[t - 1][j]
    BY <1>0, <1>4, PurgePlaces
  <2>5. ASSUME NEW k \in DOMAIN table[t], k[2] <= j[2], j[2] < k[2] + Place(Size[t])
        PROVE  k \in DOMAIN table'[t] /\ table[t][k] \subseteq table'[t][k]
    <3>1. k \in DOMAIN table'[t]
      <4> SUFFICES ASSUME k \notin DOMAIN table'[t] PROVE FALSE
        OBVIOUS
      <4>1. t + 1 \in Coarse /\ k[2] < Place(now - keep[t + 1])
        BY <1>0, <1>4, PurgePlaces
      <4>2. j[2] >= Place(now - keep[t])
        <5>1. table'[t] # table[t]
          OBVIOUS
        <5> QED BY <1>0, <1>4, <5>1, PurgePlaces
      <4>3. keep[t] \in Nat /\ keep[t + 1] \in Nat /\ keep[t] + Size[t] <= keep[t + 1] + 1
        BY <4>1, MoreConstants DEF Lasting
      <4>4. PICK w \in Nat : k[2] = 2 * w
        <5>1. k[2] \in PlacesOf(t)
          BY <1>0, <1>a
        <5> QED BY <1>0, <5>1, PlacesAre
      <4>5. j[2] \in Nat
        BY <1>0, <1>a, <2>4
      <4>6. PICK a \in Nat, b \in Nat, z \in Nat, i \in Nat :
              a = keep[t] /\ b = keep[t + 1] /\ z = Size[t] /\ i = j[2]
        BY <4>3, <4>5, <1>0
      <4>7. a + z <= b + 1 /\ now \in Nat
        BY <4>3, <4>6, <1>0
      <4>8. i < 2 * w + 2 * z /\ i >= 2 * (now - a)
        BY <2>5, <4>2, <4>4, <4>6 DEF Place
      <4>9. 2 * w < 2 * (now - b)
        BY <4>1, <4>4, <4>6 DEF Place
      <4> QED BY <4>7, <4>8, <4>9
    <3> QED BY <1>0, <1>4, <3>1, PurgePlaces
  <2> QED BY <1>1, <2>1, <2>3, <2>4, <2>5
<1>5. ASSUME Done(t, j[2]), table' = table, skipped \subseteq skipped' PROVE Goal
  BY <1>1, <1>5
<1>6. ASSUME pc' # Filling(t), table' = table, skipped \subseteq skipped' PROVE Goal
  <2>1. j[2] \in Nat
    BY <1>0, <1>6, <1>a
  <2> QED BY <1>5, <1>6, <2>1, StillDone
<1>7. ASSUME pc' = Filling(t), win' = Start(t), pc # Filling(t), table' = table, skipped \subseteq skipped',
             t = 1 /\ PlacesOf(1) = {} /\ win' # None => {k \in DOMAIN table[0] : k[2] < Place(win')} \subseteq skipped'
      PROVE  Goal
  <2>1. StartsWell(t) /\ j \in DOMAIN table[t - 1] /\ j[2] \in PlacesOf(t - 1) /\ j[2] \in Nat
    BY <1>0, <1>7, <1>a, Starts
  <2>2. Start(t) \in Nat /\ win' # None
    BY <2>1, <1>0, <1>7 DEF StartsWell
  <2>3. j[2] < Place(Start(t))
    BY <2>2, <1>7 DEF Done, Filling, Place
  <2>4. CASE PlacesOf(t) # {}
    <3>1. Done(t, j[2])
      BY <1>7, <2>1, <2>3, <2>4 DEF Done, StartsWell
    <3> QED BY <1>5, <1>7, <3>1
  <2>5. CASE PlacesOf(t) = {} /\ t # 1
    <3>1. Place(Start(t)) <= j[2]
      BY <2>1, <2>5 DEF StartsWell
    <3> QED BY <2>1, <2>2, <2>3, <3>1 DEF Place
  <2>6. CASE PlacesOf(t) = {} /\ t = 1
    <3>1. j \in skipped' /\ table'[0][j] = {j}
      BY <1>7, <2>1, <2>2, <2>3, <2>6 DEF IInv, Raw
    <3> QED BY <2>6, <3>1
  <2> QED BY <2>4, <2>5, <2>6
<1>8. ASSUME Hourly PROVE Goal
  <2>1. /\ pc = Idle /\ pc' = Filling(1) /\ win' = Start(1) /\ table' = table /\ skipped \subseteq skipped'
        /\ PlacesOf(1) = {} /\ win' # None => {k \in DOMAIN table[0] : k[2] < Place(win')} \subseteq skipped'
    BY <1>8 DEF Hourly
  <2>2. pc # Filling(t)
    BY <2>1, Stages
  <2>3. CASE t = 1
    BY <1>7, <2>1, <2>2, <2>3
  <2>4. CASE t # 1
    <3>1. pc' # Filling(t)
      BY <2>1, <2>4, Stages
    <3> QED BY <1>6, <2>1, <3>1
  <2> QED BY <2>3, <2>4
<1>9. ASSUME NextTable PROVE Goal
  <2>1. /\ pc.at = "fill" /\ table' = table /\ skipped' = skipped
        /\ (pc' = Filling(pc.t + 1) /\ win' = Start(pc.t + 1)) \/ pc' = Purging
    BY <1>9 DEF NextTable
  <2>2. pc.t \in Nat \ {0} /\ pc = Filling(pc.t)
    BY <2>1, IsFilling, Constants DEF IInv
  <2>3. CASE pc' = Filling(t)
    <3>1. pc.t + 1 = t /\ win' = Start(t)
      BY <2>1, <2>3, Stages
    <3>2. pc # Filling(t) /\ t # 1
      BY <2>2, <3>1, Stages
    <3> QED BY <1>7, <2>1, <2>3, <3>1, <3>2
  <2>4. CASE pc' # Filling(t)
    BY <1>6, <2>1, <2>4
  <2> QED BY <2>3, <2>4
<1>10. ASSUME FillFails \/ Stop \/ Boot \/ Tick \/ TickDown PROVE Goal
  <2>1. pc' \in {Idle, Purging, Down} /\ table' = table /\ skipped' = skipped
    BY <1>10 DEF FillFails, Stop, Boot, Tick, TickDown
  <2> QED BY <1>6, <2>1, Stages
<1> QED BY <1>2, <1>3, <1>4, <1>8, <1>9, <1>10 DEF Next

\* When the work leaves a table, nothing of its source is left to carry a sample over.
LEMMA Passing ==
  ASSUME IInv, Clocks, Downhill, Opened, FirstWindow, NextTable,
         NEW t \in Coarse, NEW x, x = Truncate(now, Size[t]), NEW s \in 0..t, NEW p \in PlacesOf(s),
         Carries(t, x, s, p), s < t, s < pc.t
  PROVE  Young(t, x) /\ End(s, p) >= now - Lag
<1> DEFINE v == pc.t
<1>0. /\ pc.at = "fill" /\ ~Complete(v) /\ v \in Coarse /\ v \in Nat \ {0} /\ pc = Filling(v)
      /\ now \in Nat /\ Size[t] \in Nat \ {0} /\ Size[v] \in Nat \ {0} /\ t \in Nat /\ s \in Nat
      /\ Lag \in Nat
      /\ x \in Nat /\ x <= now /\ Aligned(x, Size[t]) /\ s \in Tables /\ p \in Nat
  <2>1. pc.at = "fill" /\ ~Complete(v)
    BY DEF NextTable
  <2>2. v \in Coarse /\ pc = Filling(v)
    BY <2>1, IsFilling DEF IInv
  <2>3. now \in Nat /\ Size[t] \in Nat \ {0}
    BY Constants DEF IInv
  <2>4. x \in Nat /\ x <= now /\ Aligned(x, Size[t])
    BY <2>3, TruncateIs
  <2>5. s \in Tables
    BY Constants
  <2>6. p \in Nat
    BY <2>5, PlacesAre
  <2> QED BY <2>1, <2>2, <2>3, <2>4, <2>5, <2>6, Constants, LagIs
<1>1. p < Place(x) /\ Place(Opening(s + 1)) <= p
  BY DEF Carries
<1>2. CASE s < v - 1
  BY <1>0, <1>2 DEF Carries
<1>3. CASE s = v - 1 /\ win # None
  <2>1. Aligned(win, Size[v]) /\ win \in Nat
    BY <1>0, <1>3 DEF IInv, Work, Aligned
  <2>2. Aligned(x, Size[v])
    BY <1>0, <1>3, AlignedDown
  <2>3. win + Size[v] > now
    BY <1>0, <1>3, <2>1 DEF Complete
  <2>4. x <= win
    <3>1. win < x => win + Size[v] <= x
      BY <1>0, <2>1, <2>2, WindowsApart
    <3> QED BY <3>1, <1>0, <2>1, <2>3
  <2>5. Opening(s + 1) = win
    <3>1. s + 1 = v
      BY <1>0, <1>3
    <3> QED BY <1>0, <1>3, <3>1 DEF Opening
  <2> QED BY <1>0, <1>1, <2>1, <2>4, <2>5 DEF Place
<1>4. CASE s = v - 1 /\ win = None
  <2>1. PlacesOf(v) = {} /\ (v # 1 => PlacesOf(v - 1) = {})
    BY <1>0, <1>4 DEF Opened
  <2>2. v = 1 /\ s = 0
    BY <1>0, <1>4, <2>1
  <2>3. Young(t, x)
    <3> SUFFICES ASSUME NEW u \in 1..t PROVE PlacesOf(u) = {}
      BY DEF Young
    <3>1. u \in Tables /\ 1 \in Tables /\ 1 <= u
      BY <1>0, Constants
    <3> QED BY <2>1, <2>2, <3>1, EmptyAbove
  <2>4. PICK k \in DOMAIN table[0] : k[2] = p
    BY <2>2 DEF PlacesOf
  <2>5. Fresh(p)
    <3>1. PlacesOf(1) = {} /\ pc = Filling(1) /\ pc \notin {Idle, Down}
      BY <1>0, <2>1, <2>2, Stages
    <3> QED BY <3>1, <2>4, <1>4 DEF FirstWindow
  <2>6. Time(p) >= now - Lag
    BY <1>0, <2>5, LagCovers
  <2> QED BY <2>2, <2>3, <2>6 DEF End
<1>5. s < v - 1 \/ s = v - 1
  BY <1>0
<1> QED BY <1>2, <1>3, <1>4, <1>5

\* The table that is left has no row before the present window, or has one about as
\* new as that.
LEMMA Completed ==
  ASSUME IInv, Clocks, Downhill, Opened, FirstWindow, Carried, NextTable,
         NEW x, x = Truncate(now, Size[pc.t])
  PROVE  \/ Young(pc.t, x)
         \/ \E p \in PlacesOf(pc.t) : End(pc.t, p) >= x - Lag
<1>1. pc.at = "fill" /\ pc.t \in Coarse /\ pc.t \in Nat
  BY IsFilling, Constants DEF IInv, NextTable
<1>2. SUFFICES ASSUME ~Unseen(pc.t, x) PROVE
         \/ Young(pc.t, x)
         \/ \E p \in PlacesOf(pc.t) : End(pc.t, p) >= x - Lag
  BY DEF Unseen
<1>3. PICK s \in 0..pc.t : \E p \in PlacesOf(s) : Carries(pc.t, x, s, p)
  BY <1>1, <1>2 DEF Carried, Over
<1>4. PICK p \in PlacesOf(s) : Carries(pc.t, x, s, p)
  BY <1>3
<1>5. CASE s = pc.t
  BY <1>4, <1>5 DEF Carries
<1>6. CASE s < pc.t
  BY <1>1, <1>4, <1>6, Passing
<1>7. s = pc.t \/ s < pc.t
  BY <1>1
<1> QED BY <1>5, <1>6, <1>7

\* After that its newest row is recent, and so are the rows of its source if it has
\* none.
LEMMA Left ==
  ASSUME IInv, Clocks, Downhill, Opened, FirstWindow, Carried, NextTable, NEW v \in Coarse, v = pc.t
  PROVE  /\ PlacesOf(v)' = PlacesOf(v)
         /\ PlacesOf(v) # {} => End(v, Max(PlacesOf(v))) >= Recent(v)'
         /\ PlacesOf(v) = {} => \A p \in PlacesOf(v - 1) :
              End(v - 1, p) >= Recent(v)' \/ (v = 1 /\ p < Place(Start(1)))
<1> DEFINE x == Truncate(now, Size[v])
<1>0. /\ pc.at = "fill" /\ ~Complete(v) /\ v \in Coarse /\ v \in Nat \ {0} /\ v \in Tables /\ v - 1 \in Tables
      /\ pc = Filling(v) /\ Size[v] \in Nat \ {0} /\ now \in Nat /\ due \in Nat /\ Hour \in Nat /\ faults \in Nat
      /\ Lag \in Nat /\ Lag' = Lag /\ now = due - Hour
      /\ PlacesOf(v)' = PlacesOf(v) /\ now' = now /\ due' = due /\ faults' = faults
      /\ x \in Nat /\ x <= now /\ now < x + Size[v]
  <2>1. pc.at = "fill" /\ ~Complete(v) /\ PlacesOf(v)' = PlacesOf(v) /\ now' = now /\ due' = due /\ faults' = faults
    BY DEF NextTable, PlacesOf
  <2>2. v \in Coarse /\ pc = Filling(v) /\ pc \notin {Idle, Down}
    BY <2>1, IsFilling, Stages DEF IInv
  <2>3. now \in Nat /\ due \in Nat /\ faults \in Nat /\ now = due - Hour
    BY <2>2 DEF IInv, Clocks
  <2>4. Size[v] \in Nat \ {0}
    BY <2>2, Constants
  <2>5. x \in Nat /\ x <= now /\ now < x + Size[v]
    BY <2>3, <2>4, TruncateIs
  <2>6. Lag \in Nat /\ Lag' = Lag
    BY LagIs DEF Lag, NextTable
  <2>7. v \in Nat \ {0} /\ v \in Tables /\ v - 1 \in Tables
    BY <2>2, Constants
  <2>8. Hour \in Nat
    BY MoreConstants
  <2> QED BY <2>1, <2>2, <2>3, <2>4, <2>5, <2>6, <2>7, <2>8
<1>1. PICK low \in Nat : Recent(v)' = now - low - Size[v] + 1 - Lag
  <2>1. pc' = Filling(v + 1) \/ pc' = Purging
    BY DEF NextTable
  <2>2. ~(pc'.at = "fill" /\ pc'.t <= v)
    BY <2>1, Stages, <1>0
  <2>3. Passed(v)' = now
    BY <1>0, <2>2 DEF Passed
  <2>4. Hour * faults \in Nat
    BY <1>0
  <2> QED BY <1>0, <2>3, <2>4 DEF Recent, Low
<1>2. Young(v, x) \/ \E p \in PlacesOf(v) : End(v, p) >= x - Lag
  BY Completed
<1> HIDE DEF x
<1>3. ASSUME PlacesOf(v) # {} PROVE End(v, Max(PlacesOf(v))) >= Recent(v)'
  <2> DEFINE m == Max(PlacesOf(v))
  <2>1. m \in PlacesOf(v) /\ \A p \in PlacesOf(v) : p \in Nat /\ p <= m
    BY <1>0, <1>3, NewestIs DEF NewestWell
  <2>2. PICK w \in Nat : m = 2 * w /\ m \div 2 = w
    BY <1>0, <2>1, PlacesAre
  <2>3. End(v, m) = w + Size[v]
    BY <1>0, <2>2 DEF End
  <2> HIDE DEF m
  <2>4. CASE Young(v, x)
    <3>1. m >= Place(x)
      BY <1>0, <2>1, <2>4 DEF Young
    <3>2. w >= x
      BY <1>0, <2>2, <3>1 DEF Place
    <3> QED BY <1>0, <1>1, <2>3, <3>2 DEF m
  <2>5. ASSUME NEW p \in PlacesOf(v), End(v, p) >= x - Lag PROVE End(v, m) >= Recent(v)'
    <3>1. PICK y \in Nat : p = 2 * y /\ p \div 2 = y
      BY <1>0, PlacesAre
    <3>2. End(v, p) = y + Size[v]
      BY <1>0, <3>1 DEF End
    <3>3. y <= w
      <4>1. p <= m
        BY <2>1
      <4> QED BY <4>1, <2>2, <3>1
    <3> QED BY <1>0, <1>1, <2>3, <2>5, <3>2, <3>3
  <2> QED BY <1>2, <2>4, <2>5 DEF m
<1>4. ASSUME PlacesOf(v) = {}, NEW p \in PlacesOf(v - 1), v # 1
      PROVE  End(v - 1, p) >= Recent(v)'
  <2>1. v - 1 \in Coarse /\ v - 1 \in 1..v /\ Size[v - 1] \in Nat
    BY <1>0, <1>4, Constants
  <2>2. PICK y \in Nat : p = 2 * y /\ p \div 2 = y
    BY <1>0, <2>1, PlacesAre
  <2>3. p >= Place(x)
    BY <1>2, <1>4, <2>1 DEF Young
  <2>4. y >= x
    BY <1>0, <2>2, <2>3 DEF Place
  <2>5. End(v - 1, p) = y + Size[v - 1]
    <3>1. v - 1 # 0
      BY <1>0, <1>4
    <3> QED BY <2>2, <3>1 DEF End
  <2> QED BY <1>0, <1>1, <2>1, <2>4, <2>5
<1>5. ASSUME PlacesOf(v) = {}, NEW p \in PlacesOf(v - 1), v = 1
      PROVE  End(v - 1, p) >= Recent(v)' \/ p < Place(Start(1))
  <2>1. PICK k \in DOMAIN table[0] : k[2] = p
    BY <1>5 DEF PlacesOf
  <2>2. Fresh(p) \/ (win # None /\ (p >= Place(win) \/ p < Place(Start(1))))
    <3>1. pc = Filling(1) /\ pc \notin {Idle, Down} /\ PlacesOf(1) = {}
      BY <1>0, <1>5, Stages
    <3> QED BY <2>1, <3>1 DEF FirstWindow
  <2>3. p \in Nat /\ Time(p) \in Nat /\ (p + 1) \div 2 = Time(p)
    <3>1. p \in Nat
      BY <1>0, PlacesAre
    <3> QED BY <3>1 DEF Time
  <2>4. End(v - 1, p) = Time(p)
    BY <1>5 DEF End
  <2>5. CASE Fresh(p)
    <3>1. Time(p) >= now - Lag
      BY <2>3, <2>5, LagCovers
    <3> QED BY <1>0, <1>1, <2>3, <2>4, <3>1
  <2>6. CASE win # None /\ p >= Place(win)
    <3>1. win \in Nat /\ win + Size[v] > now
      BY <1>0, <2>6 DEF IInv, Work, Aligned, Complete
    <3>2. Time(p) >= win
      BY <2>3, <2>6, <3>1 DEF Place
    <3> QED BY <1>0, <1>1, <2>3, <2>4, <3>1, <3>2
  <2> QED BY <2>2, <2>5, <2>6
<1> QED BY <1>0, <1>3, <1>4, <1>5

\* The last hour is past after a step, too.
LEMMA LowNext ==
  IInv' /\ Clocks' => \A t \in Coarse : Low(t)' \in Int /\ Low(t)' <= now' /\ Recent(t)' \in Int
<1>1. IInv /\ Clocks => \A t \in Coarse : Low(t) \in Int /\ Low(t) <= now /\ Recent(t) \in Int
  BY LowIsPast
<1>2. IInv' /\ Clocks' => (\A t \in Coarse : Low(t) \in Int /\ Low(t) <= now /\ Recent(t) \in Int)'
  BY <1>1, PTL
<1> QED BY <1>2

\* What was recent is recent, unless the work leaves the table.  While the hub is down,
\* what is recent stays so, the hour passing with the lag.
LEMMA RecentSteps ==
  ASSUME IInv, Clocks, IInv', Next, NEW t \in Coarse
  PROVE  /\ Recent(t) \in Int /\ Recent(t)' \in Int /\ Low(t) \in Int /\ Low(t)' \in Int /\ Low(t)' <= now'
         /\ Recent(t) + Lag <= now /\ Lag \in Nat /\ Lag' \in Nat
         /\ \/ Recent(t)' <= Recent(t) /\ Low(t)' - Lag' <= Low(t) - Lag
            \/ NextTable /\ pc = Filling(t)
<1>1. Size[t] \in Nat /\ Lag \in Nat
  BY Constants, LagIs
<1>2. Clocks' /\ Lag' \in Nat
  <2>1. Clocks'
    BY ClocksStep
  <2>2. down' \in Nat
    BY <2>1 DEF Clocks
  <2> QED BY <2>1, <2>2, MoreConstants DEF Lag
<1>3. /\ Recent(t) \in Int /\ Recent(t)' \in Int /\ Low(t) \in Int /\ Low(t)' \in Int /\ Low(t)' <= now'
      /\ Recent(t) + Lag <= now
  BY <1>2, LowNext, LowIsPast
<1>4. Low(t)' - Lag' <= Low(t) - Lag \/ (NextTable /\ pc = Filling(t))
  <2>1. CASE ~TickDown
    BY <1>1, <1>3, <2>1, LowSteps, LagStays
  <2>2. CASE TickDown
    <3>1. /\ {now, due, down, faults, Hour, MaxSilence, MaxLate} \subseteq Nat
          /\ pc = Down /\ now = due /\ pc' = pc /\ due' = due + 1 /\ down' = down + 1 /\ faults' = faults
      BY <2>2, MoreConstants DEF TickDown, Clocks, IInv
    <3>2. Passed(t) = due - Hour /\ Passed(t)' = due + 1 - Hour
      BY <3>1, Stages DEF Passed
    <3>3. PICK e \in Nat : e = Hour * faults
      BY <3>1
    <3>4. Low(t) = due - Hour - e /\ Low(t)' = due + 1 - Hour - e
      BY <3>1, <3>2, <3>3 DEF Low
    <3>5. Lag' = Lag + 1
      BY <3>1 DEF Lag
    <3> QED BY <1>1, <3>1, <3>3, <3>4, <3>5
  <2> QED BY <2>1, <2>2
<1>5. Low(t)' - Lag' <= Low(t) - Lag => Recent(t)' <= Recent(t)
  BY <1>1, <1>2, <1>3 DEF Recent
<1> QED BY <1>1, <1>2, <1>3, <1>4, <1>5

\* A row within a window ends within it.
LEMMA EndsInside ==
  ASSUME IInv, NEW t \in Coarse, NEW w, Aligned(w, Size[t]), NEW p \in PlacesOf(t - 1), Inside(t, w, p)
  PROVE  End(t - 1, p) \in Int /\ End(t - 1, p) <= w + Size[t]
<1>0. t \in Nat \ {0} /\ t - 1 \in Tables /\ Size[t] \in Nat \ {0} /\ w \in Nat /\ p \in Nat
  <2>1. t - 1 \in Tables /\ t \in Nat \ {0}
    BY Constants
  <2> QED BY <2>1, Constants, PlacesAre DEF Aligned
<1>1. p < 2 * (w + Size[t]) /\ 2 * w <= p
  BY DEF Inside, Place
<1>2. CASE t = 1
  <2>1. (p + 1) \div 2 <= w + Size[t] /\ (p + 1) \div 2 \in Int
    BY <1>0, <1>1
  <2> QED BY <2>1, <1>2 DEF End, Time
<1>3. CASE t # 1
  <2>1. t - 1 \in Coarse /\ Size[t] % Size[t - 1] = 0 /\ Size[t - 1] \in Nat \ {0}
    BY <1>3, Constants
  <2>2. PICK y \in Nat : p = 2 * y /\ p \div 2 = y /\ Aligned(y, Size[t - 1])
    BY <1>0, <2>1, PlacesAre
  <2>3. y < w + Size[t]
    BY <1>0, <1>1, <2>2
  <2>4. y + Size[t - 1] <= w + Size[t]
    BY <2>1, <2>2, <2>3, <1>0, EndIsAligned, WindowsApart
  <2>5. End(t - 1, p) = y + Size[t - 1]
    <3>1. t - 1 # 0
      BY <1>0, <1>3
    <3> QED BY <2>2, <3>1 DEF End
  <2> QED BY <1>0, <2>1, <2>2, <2>4, <2>5
<1> QED BY <1>2, <1>3

\* A later row ends later.
LEMMA LaterEnds ==
  ASSUME NEW t \in Tables, NEW p \in Nat, NEW q \in Nat, p <= q
  PROVE  End(t, p) \in Int /\ End(t, q) \in Int /\ End(t, p) <= End(t, q)
<1>1. t = 0 \/ Size[t] \in Nat
  BY Constants
<1>2. /\ (p + 1) \div 2 <= (q + 1) \div 2 /\ p \div 2 <= q \div 2
      /\ (p + 1) \div 2 \in Int /\ (q + 1) \div 2 \in Int /\ p \div 2 \in Int /\ q \div 2 \in Int
  OBVIOUS
<1>3. CASE t = 0
  BY <1>2, <1>3 DEF End, Time
<1>4. CASE t # 0
  BY <1>1, <1>2, <1>4 DEF End
<1> QED BY <1>3, <1>4

\* The first row of a table is recent.
LEMMA FirstRow ==
  ASSUME IInv, Clocks, Opened, SourceRecent, Fill, NEW v \in Coarse, v = pc.t, PlacesOf(v) = {},
         NEW p \in PlacesOf(v - 1), Inside(v, win, p)
  PROVE  win + Size[v] >= Recent(v)
<1>1. pc = Filling(v) /\ win # None /\ Aligned(win, Size[v]) /\ win \in Nat
  BY FillPlaces DEF Aligned
<1>2. End(v - 1, p) \in Int /\ End(v - 1, p) <= win + Size[v]
  BY <1>1, EndsInside
<1>3. Recent(v) \in Int /\ Size[v] \in Nat
  BY LowIsPast, Constants
<1>4. End(v - 1, p) >= Recent(v) \/ (v = 1 /\ p < Place(Opening(1)))
  BY DEF SourceRecent
<1>5. ~(v = 1 /\ p < Place(Opening(1)))
  <2> SUFFICES ASSUME v = 1, p < Place(Opening(1)) PROVE FALSE
    OBVIOUS
  <2>1. Opening(1) = win /\ Place(win) <= p
    BY <1>1 DEF Opening, Inside
  <2>2. p \in Nat
    <3>1. v - 1 \in Tables
      BY Constants
    <3> QED BY <3>1, PlacesAre
  <2> QED BY <2>1, <2>2, <1>1 DEF Place
<1> QED BY <1>1, <1>2, <1>3, <1>4, <1>5

\* The newest row of each table is from the last hours that did not fail.
LEMMA NewestRecentStep ==
  ASSUME IInv, Clocks, Heard, Downhill, Opened, FirstWindow, NewestRecent, SourceRecent, Carried, Lasting,
         IInv', Next
  PROVE  NewestRecent'
<1> SUFFICES ASSUME NEW t \in Coarse, PlacesOf(t)' # {}
             PROVE  End(t, Max(PlacesOf(t)')) >= Recent(t)'
  BY DEF NewestRecent, End
<1> DEFINE Goal == End(t, Max(PlacesOf(t)')) >= Recent(t)'
<1>0. /\ t \in Tables /\ t - 1 \in Tables /\ Size[t] \in Nat \ {0} /\ t \in Nat \ {0}
      /\ Recent(t) \in Int /\ Recent(t)' \in Int
  BY Constants, RecentSteps
<1>1. CASE NextTable /\ pc = Filling(t)
  <2>1. pc.t = t
    BY <1>1, Stages
  <2> QED BY <1>1, <2>1, Left
<1>2. ASSUME PlacesOf(t) # {}, PlacesOf(t)' # {}, Max(PlacesOf(t)) <= Max(PlacesOf(t)'), Recent(t)' <= Recent(t)
      PROVE  Goal
  <2>1. Max(PlacesOf(t)) \in Nat /\ Max(PlacesOf(t)') \in Nat
    BY <1>0, <1>2, NewestIs, NewestNext DEF NewestWell
  <2>2. End(t, Max(PlacesOf(t))) >= Recent(t)
    BY <1>2 DEF NewestRecent
  <2>3. End(t, Max(PlacesOf(t))) \in Int /\ End(t, Max(PlacesOf(t)')) \in Int /\ End(t, Max(PlacesOf(t))) <= End(t, Max(PlacesOf(t)'))
    BY <1>0, <1>2, <2>1, LaterEnds
  <2> QED BY <1>0, <1>2, <2>2, <2>3
<1>3. CASE ~(NextTable /\ pc = Filling(t))
  <2>0. Recent(t)' <= Recent(t)
    BY <1>3, RecentSteps
  <2>1. ASSUME PlacesOf(t)' = PlacesOf(t) PROVE Goal
    <3>1. Max(PlacesOf(t)) \in Nat
      BY <1>0, <2>1, NewestIs DEF NewestWell
    <3> QED BY <1>2, <2>0, <2>1, <3>1
  <2>2. ASSUME NEW h \in Hosts, NEW q \in Positions, Report(h, q) PROVE Goal
    BY <2>1, <2>2, ReportPlaces
  <2>3. ASSUME Fill PROVE Goal
    <3>a. PICK v \in Coarse : v = pc.t /\ pc' = pc
      BY <2>3, FillPlaces
    <3>1. /\ v \in Coarse /\ Aligned(win, Size[v]) /\ win \in Nat
          /\ \A u \in Tables \ {v} : PlacesOf(u)' = PlacesOf(u)
          /\ IF \E p \in PlacesOf(v - 1) : Inside(v, win, p)
             THEN PlacesOf(v)' = PlacesOf(v) \cup {Place(win)}
             ELSE PlacesOf(v)' = PlacesOf(v)
      BY <2>3, <3>a, FillPlaces DEF Aligned
    <3>2. CASE t # v \/ PlacesOf(t)' = PlacesOf(t)
      BY <1>0, <2>1, <3>1, <3>2
    <3>3. CASE t = v /\ PlacesOf(t)' # PlacesOf(t)
      <4>1. PICK p \in PlacesOf(t - 1) : Inside(t, win, p)
        BY <3>1, <3>3
      <4>2. PlacesOf(t)' = PlacesOf(t) \cup {Place(win)}
        BY <3>1, <3>3
      <4>3. /\ Max(PlacesOf(t)') \in PlacesOf(t)' /\ Max(PlacesOf(t)') \in Nat
            /\ \A x \in PlacesOf(t)' : x <= Max(PlacesOf(t)')
        BY <1>0, NewestNext DEF NewestWell
      <4>4. CASE PlacesOf(t) # {}
        <5>1. Max(PlacesOf(t)) \in PlacesOf(t)
          BY <1>0, <4>4, NewestIs DEF NewestWell
        <5> QED BY <1>2, <2>0, <4>2, <4>3, <4>4, <5>1
      <4>5. CASE PlacesOf(t) = {}
        <5>1. Max(PlacesOf(t)') = 2 * win
          BY <4>2, <4>3, <4>5 DEF Place
        <5>2. win + Size[t] >= Recent(t)
          BY <2>3, <3>a, <3>3, <4>1, <4>5, FirstRow
        <5>3. t # 0 /\ (2 * win) \div 2 = win
          BY <1>0, <3>1
        <5>4. End(t, Max(PlacesOf(t)')) = win + Size[t]
          BY <5>1, <5>3 DEF End
        <5> QED BY <1>0, <2>0, <3>1, <5>2, <5>4
      <4> QED BY <4>4, <4>5
    <3> QED BY <3>2, <3>3
  <2>4. ASSUME NEW keep \in Keeps, NEW n \in 0..Len(Size), Purge(keep, n) PROVE Goal
    <3>1. PlacesOf(t)' \subseteq PlacesOf(t)
      BY <1>0, <2>4, PurgePlaces
    <3>2. Max(PlacesOf(t)') = Max(PlacesOf(t)) /\ PlacesOf(t) # {}
      BY <1>0, <2>4, <3>1, PurgeKeepsNewest
    <3>3. Max(PlacesOf(t)) \in Nat
      BY <1>0, <3>2, NewestIs DEF NewestWell
    <3> QED BY <1>2, <2>0, <3>2, <3>3
  <2>5. CASE PlacesOf(t)' = PlacesOf(t)
    BY <2>1, <2>5
  <2> QED BY <2>2, <2>3, <2>4, <2>5, QuietSteps
<1> QED BY <1>1, <1>3

\* While a table is empty, the rows of its source are from the last hours that did not
\* fail, but for samples before the first window.
LEMMA SourceRecentStep ==
  ASSUME IInv, Clocks, Heard, Downhill, Opened, FirstWindow, NewestRecent, SourceRecent, Carried, Lasting,
         IInv', Next
  PROVE  SourceRecent'
<1> SUFFICES ASSUME NEW t \in Coarse, PlacesOf(t)' = {}, NEW p \in PlacesOf(t - 1)'
             PROVE  End(t - 1, p) >= Recent(t)' \/ (t = 1 /\ p < Place(Opening(1)'))
  BY DEF SourceRecent, End, Place
<1> DEFINE Goal == End(t - 1, p) >= Recent(t)' \/ (t = 1 /\ p < Place(Opening(1)'))
<1>0. /\ t \in Tables /\ t - 1 \in Tables /\ Size[t] \in Nat \ {0} /\ t \in Nat \ {0} /\ 1 \in Coarse
      /\ Recent(t) \in Int /\ Recent(t)' \in Int /\ p \in Nat /\ now \in Nat /\ Lag \in Nat
      /\ Recent(t) + Lag <= now
  <2>1. t - 1 \in Tables
    BY Constants
  <2>2. p \in Nat
    BY <2>1, NewestNext DEF NewestWell
  <2> QED BY <2>1, <2>2, Constants, MoreConstants, RecentSteps DEF IInv, Tables
<1>1. CASE NextTable /\ pc = Filling(t)
  <2>1. pc.t = t /\ PlacesOf(t)' = PlacesOf(t) /\ PlacesOf(t - 1)' = PlacesOf(t - 1)
    BY <1>1, Stages DEF NextTable, PlacesOf
  <2>2. End(t - 1, p) >= Recent(t)' \/ (t = 1 /\ p < Place(Start(1)))
    BY <1>1, <2>1, Left
  <2>3. t = 1 => Opening(1)' = Start(1)
    <3> SUFFICES ASSUME t = 1 PROVE Opening(1)' = Start(1)
      OBVIOUS
    <3>1. pc' = Filling(2) \/ pc' = Purging
      BY <1>1, <2>1 DEF NextTable
    <3>2. pc' # Filling(1)
      BY <3>1, Stages
    <3>3. Start(1)' = Start(1)
      BY <1>0, <1>1, QuietOpenings
    <3> QED BY <3>2, <3>3 DEF Opening, Filling
  <2> QED BY <2>2, <2>3
<1>2. CASE ~(NextTable /\ pc = Filling(t))
  <2>0. Recent(t)' <= Recent(t)
    BY <1>2, RecentSteps
  <2>1. ASSUME End(t - 1, p) >= Recent(t) PROVE Goal
    <3>1. End(t - 1, p) \in Int
      BY <1>0, LaterEnds
    <3> QED BY <1>0, <2>0, <2>1, <3>1
  <2>2. ASSUME t = 1, Fresh(p) PROVE Goal
    <3>1. End(t - 1, p) = Time(p) /\ Time(p) \in Nat /\ Time(p) >= now - Lag
      BY <1>0, <2>2, LagCovers DEF End
    <3> QED BY <1>0, <2>1, <3>1
  <2>3. ASSUME PlacesOf(t) = {}, p \in PlacesOf(t - 1), t = 1 /\ p < Place(Opening(1)) => p < Place(Opening(1)')
        PROVE  Goal
    BY <2>1, <2>3 DEF SourceRecent
  <2>4. ASSUME NEW h \in Hosts, NEW q \in Positions, Report(h, q) PROVE Goal
    <3>1. /\ PlacesOf(t) = {} /\ q \in Nat /\ Fresh(q) /\ PlacesOf(0)' = PlacesOf(0) \cup {q}
          /\ \A u \in Coarse : PlacesOf(u)' = PlacesOf(u)
      BY <2>4, ReportPlaces
    <3>2. CASE t # 1
      <4>1. p \in PlacesOf(t - 1)
        BY <1>0, <3>1, <3>2, Constants
      <4> QED BY <2>3, <3>1, <3>2, <4>1
    <3>3. CASE t = 1 /\ p < q
      <4>1. p \in PlacesOf(t - 1)
        BY <1>0, <3>1, <3>3
      <4>2. Opening(1)' = Opening(1)
        BY <2>4, <3>3, <4>1, ReportOpenings
      <4> QED BY <2>3, <3>1, <4>1, <4>2
    <3>4. CASE t = 1 /\ q <= p
      <4>1. Time(q) \in Int /\ Time(p) \in Int /\ Time(q) <= Time(p)
        BY <1>0, <3>1, <3>4 DEF Time
      <4>2. Fresh(p)
        <5>1. {MaxLate, down} \subseteq Nat
          BY MoreConstants, LagIs
        <5> QED BY <1>0, <3>1, <4>1, <5>1 DEF Fresh
      <4> QED BY <2>2, <3>4, <4>2
    <3> QED BY <1>0, <3>1, <3>2, <3>3, <3>4
  <2>5. ASSUME Fill PROVE Goal
    <3>a. PICK v \in Coarse : v = pc.t /\ pc' = pc /\ pc = Filling(v)
      BY <2>5, FillPlaces
    <3>1. /\ Aligned(win, Size[v]) /\ win \in Nat /\ win # None /\ win' = win + Size[v] /\ Size[v] \in Nat \ {0}
          /\ \A u \in Tables \ {v} : PlacesOf(u)' = PlacesOf(u)
          /\ IF \E x \in PlacesOf(v - 1) : Inside(v, win, x)
             THEN PlacesOf(v)' = PlacesOf(v) \cup {Place(win)}
             ELSE PlacesOf(v)' = PlacesOf(v)
      BY <2>5, <3>a, FillPlaces, Constants DEF Aligned
    <3>2. PlacesOf(t) = {}
      BY <1>0, <3>1
    <3>3. CASE t = v
      <4>1. p \in PlacesOf(t - 1)
        BY <1>0, <3>1, <3>3
      <4>2. t = 1 => Opening(1) = win /\ Opening(1)' = win'
        <5> SUFFICES ASSUME t = 1 PROVE Opening(1) = win /\ Opening(1)' = win'
          OBVIOUS
        <5>1. Opening(1) = win
          BY <3>1, <3>3, <3>a DEF Opening
        <5>2. pc' = Filling(1) /\ win' # None
          BY <3>1, <3>3, <3>a, MoreConstants
        <5> QED BY <5>1, <5>2 DEF Opening, Filling
      <4>3. t = 1 /\ p < Place(Opening(1)) => p < Place(Opening(1)')
        BY <1>0, <4>2, <3>1 DEF Place
      <4> QED BY <2>3, <3>2, <4>1, <4>3
    <3>4. CASE t # v /\ p \in PlacesOf(t - 1)
      <4>1. t = 1 => Opening(1)' = Opening(1)
        <5> SUFFICES ASSUME t = 1 PROVE Opening(1)' = Opening(1)
          OBVIOUS
        <5>1. v # 1 /\ v # 0 /\ 0 \in Tables /\ 1 \in Tables
          BY <3>4, Constants
        <5>2. PlacesOf(1)' = PlacesOf(1) /\ PlacesOf(0)' = PlacesOf(0)
          BY <3>1, <5>1
        <5>3. Start(1)' = Start(1)
          BY <5>2 DEF Start
        <5>4. pc # Filling(1) /\ pc' # Filling(1)
          BY <3>a, <5>1, Stages
        <5> QED BY <5>3, <5>4 DEF Opening, Filling
      <4> QED BY <2>3, <3>2, <3>4, <4>1
    <3>5. CASE t # v /\ p \notin PlacesOf(t - 1)
      <4>1. t - 1 = v /\ p = 2 * win /\ \E x \in PlacesOf(v - 1) : Inside(v, win, x)
        BY <1>0, <3>1, <3>5 DEF Place
      <4>2. CASE PlacesOf(v) # {}
        <5>1. PICK m \in PlacesOf(v) : m \in Nat /\ m <= 2 * win
          <6>1. \A m \in PlacesOf(v) : m \in Nat /\ m <= 2 * win
            BY <2>5, <3>a, <3>1, FillBelow DEF Place, Fill
          <6> QED BY <4>2, <6>1
        <5>2. End(t - 1, m) >= Recent(t)
          <6>1. t # 1 /\ m \in PlacesOf(t - 1)
            BY <4>1, <5>1, <1>0, Constants
          <6> QED BY <6>1, <3>2 DEF SourceRecent
        <5>3. End(t - 1, m) \in Int /\ End(t - 1, p) \in Int /\ End(t - 1, m) <= End(t - 1, p)
          BY <1>0, <4>1, <5>1, LaterEnds
        <5> QED BY <1>0, <2>1, <5>2, <5>3
      <4>3. CASE PlacesOf(v) = {}
        <5>1. win + Size[v] >= Recent(v)
          BY <2>5, <3>a, <4>1, <4>3, FirstRow
        <5>2. Recent(t) <= Recent(v) /\ Recent(v) \in Int
          <6>1. pc.at = "fill" /\ pc.t <= v /\ pc.t <= t
            <7>1. pc.at = "fill" /\ pc.t = v /\ v \in Nat
              BY <3>a, Stages, Constants
            <7>2. v <= v /\ v <= t
              BY <4>1, <1>0, <7>1
            <7> QED BY <7>1, <7>2
          <6>2. Low(t) = Low(v)
            BY <6>1 DEF Low, Passed
          <6>3. Size[v] <= Size[t]
            BY <4>1, <1>0, SizesDivide, Constants
          <6>4. Low(v) \in Int /\ Recent(v) \in Int
            BY LowIsPast
          <6> QED BY <1>0, <3>1, <6>2, <6>3, <6>4 DEF Recent
        <5>3. End(t - 1, p) = win + Size[v]
          <6>1. v # 0 /\ (2 * win) \div 2 = win
            BY <3>1, Constants
          <6> QED BY <4>1, <6>1 DEF End
        <5> QED BY <1>0, <2>1, <3>1, <5>1, <5>2, <5>3
      <4> QED BY <4>2, <4>3
    <3> QED BY <3>3, <3>4, <3>5
  <2>6. ASSUME NEW keep \in Keeps, NEW n \in 0..Len(Size), Purge(keep, n) PROVE Goal
    <3>1. PlacesOf(t) = {} /\ p \in PlacesOf(t - 1)
      BY <1>0, <2>6, PurgePlaces, PurgeKeepsNewest
    <3>2. t = 1 /\ p < Place(Opening(1)) => p < Place(Opening(1)')
      <4> SUFFICES ASSUME t = 1, p < Place(Opening(1)) PROVE p < Place(Opening(1)')
        OBVIOUS
      <4>1. Opening(1) = Start(1) /\ Opening(1)' = Start(1)' /\ Start(1) <= Start(1)'
        BY <1>0, <2>6, <3>1, PurgeOpenings
      <4>2. Start(1) \in Nat /\ Start(1)' \in Nat
        <5>1. PlacesOf(0) # {} /\ PlacesOf(0)' # {} /\ PlacesOf(1)' = {}
          BY <3>1
        <5>2. StartsWell(1) /\ StartsWell(1)'
          BY <1>0, Starts, StartsNext
        <5> QED BY <3>1, <5>1, <5>2 DEF StartsWell
      <4> QED BY <1>0, <4>1, <4>2 DEF Place
    <3> QED BY <2>3, <3>1, <3>2
  <2>7. ASSUME Hourly \/ NextTable \/ FillFails \/ Stop \/ Boot PROVE Goal
    <3>1. PlacesOf(t) = {} /\ p \in PlacesOf(t - 1) /\ PlacesOf(0)' = PlacesOf(0)
      BY <1>0, <2>7, QuietOpenings DEF PlacesOf
    <3>2. CASE t = 1 /\ Opening(1)' # Opening(1)
      <4>1. pc = Filling(1) /\ win # None /\ Opening(1)' = Start(1) /\ pc \notin {Idle, Down}
        BY <1>0, <2>7, <3>2, QuietOpenings, Stages
      <4>2. PICK k \in DOMAIN table[0] : k[2] = p
        BY <3>1, <3>2 DEF PlacesOf
      <4>3. Fresh(p) \/ p >= Place(win) \/ p < Place(Start(1))
        BY <3>1, <3>2, <4>1, <4>2 DEF FirstWindow
      <4>4. CASE Fresh(p)
        BY <2>2, <3>2, <4>4
      <4>5. CASE p < Place(Start(1))
        BY <3>2, <4>1, <4>5
      <4>6. CASE p >= Place(win)
        <5>1. Opening(1) = win
          BY <4>1 DEF Opening
        <5>2. win \in Nat
          BY <4>1, Stages DEF IInv, Work, Aligned
        <5>3. ~(p < Place(Opening(1)))
          BY <1>0, <4>6, <5>1, <5>2 DEF Place
        <5> QED BY <2>3, <3>1, <5>3
      <4> QED BY <4>3, <4>4, <4>5, <4>6
    <3>3. CASE ~(t = 1 /\ Opening(1)' # Opening(1))
      BY <2>3, <3>1, <3>3
    <3> QED BY <3>2, <3>3
  <2>8. ASSUME Tick \/ TickDown PROVE Goal
    <3>1. table' = table /\ pc' = pc /\ win' = win
      BY <2>8 DEF Tick, TickDown
    <3>2. PlacesOf(t) = {} /\ p \in PlacesOf(t - 1)
      BY <3>1 DEF PlacesOf
    <3>3. Opening(1)' = Opening(1)
      BY <3>1 DEF Opening, Start, PlacesOf, Filling
    <3> QED BY <2>3, <3>2, <3>3
  <2> QED BY <2>4, <2>5, <2>6, <2>7, <2>8 DEF Next
<1> QED BY <1>1, <1>2

\* While the first roll-up is empty, a sample that is behind the present window by no
\* more than it may be is carried over, or one before it is.
LEMMA FirstCase ==
  IInv /\ Clocks /\ Downhill /\ pc \in {Idle, Down} /\ PlacesOf(1) = {} =>
    \A t \in Coarse, x \in Nat, p \in Nat :
      /\ p \in PlacesOf(0) /\ p < Place(x)
      /\ Time(p) >= x - Lag /\ Time(p) >= Low(t) - Lag
      => Over(t, x)
<1> SUFFICES ASSUME IInv, Clocks, Downhill, pc \in {Idle, Down}, PlacesOf(1) = {},
                    NEW t \in Coarse, NEW x \in Nat, NEW p \in Nat, p \in PlacesOf(0), p < Place(x),
                    Time(p) >= x - Lag, Time(p) >= Low(t) - Lag,
                    ~Unseen(t, x)
             PROVE  \E s \in 0..t : \E k \in PlacesOf(s) : Carries(t, x, s, k)
  BY DEF Over
<1>0. /\ t \in Nat \ {0} /\ 0 \in Tables /\ 1 \in Tables /\ 1 \in Coarse /\ Lag \in Nat
      /\ Low(t) \in Int /\ pc.at # "fill" /\ 0 \in 0..t
  BY Constants, LagIs, LowIsPast, Stages
<1>1. Young(t, x)
  <2> SUFFICES ASSUME NEW u \in 1..t PROVE PlacesOf(u) = {}
    BY DEF Young
  <2>1. u \in Tables /\ 1 <= u
    BY <1>0, Constants
  <2> QED BY <1>0, <2>1, EmptyAbove
<1>2. PICK k \in PlacesOf(0) : ~(k >= Place(x)) /\ ~(k < Place(Opening(1)))
  BY <1>1 DEF Unseen
<1>3. Opening(1) \in Nat /\ k \in Nat
  <2>1. PlacesOf(1 - 1) # {}
    BY <1>2
  <2> QED BY <1>0, <1>2, <2>1, OpeningIs, PlacesAre
<1>4. k < Place(x) /\ Place(Opening(1)) <= k
  BY <1>2, <1>3 DEF Place
<1>5. PICK i \in PlacesOf(0) : i \in Nat /\ i >= p /\ i < Place(x) /\ Place(Opening(1)) <= i
  <2>1. CASE k >= p
    BY <1>3, <1>4, <2>1
  <2>2. CASE k < p
    <3>1. Place(Opening(1)) <= p
      BY <1>3, <1>4, <2>2 DEF Place
    <3> QED BY <3>1
  <2> QED BY <1>3, <2>1, <2>2
<1>6. Time(i) \in Int /\ Time(p) \in Int /\ Time(i) >= Time(p)
  BY <1>5 DEF Time
<1>7. Carries(t, x, 0, i)
  <2>1. End(0, i) = Time(i) /\ 0 + 1 = 1
    BY DEF End
  <2> QED BY <1>0, <1>5, <1>6, <2>1 DEF Carries
<1> QED BY <1>0, <1>7

LEMMA FirstCaseNext ==
  IInv' /\ Clocks' /\ Downhill' /\ pc' \in {Idle, Down} /\ PlacesOf(1)' = {} =>
    \A t \in Coarse, x \in Nat, p \in Nat :
      /\ p \in PlacesOf(0)' /\ p < Place(x)
      /\ Time(p) >= x - Lag' /\ Time(p) >= Low(t)' - Lag'
      => Over(t, x)'
<1> DEFINE P == \A t \in Coarse, x \in Nat, p \in Nat :
                  /\ p \in PlacesOf(0) /\ p < Place(x)
                  /\ Time(p) >= x - Lag /\ Time(p) >= Low(t) - Lag
                  => Over(t, x)
           R == pc \in {Idle, Down} /\ PlacesOf(1) = {}
<1>1. IInv /\ Clocks /\ Downhill /\ R => P
  BY FirstCase
<1> HIDE DEF P, R
<1>2. IInv' /\ Clocks' /\ Downhill' /\ R' => P'
  BY <1>1, PTL
<1> QED BY <1>2 DEF P, R, Place, Time, Idle, Down

\* The opening is a time after a step, too.
LEMMA OpeningNext ==
  IInv' => \A t \in Coarse : PlacesOf(t)' # {} \/ PlacesOf(t - 1)' # {} => Opening(t)' \in Nat /\ Start(t)' \in Nat
<1>1. IInv => \A t \in Coarse : PlacesOf(t) # {} \/ PlacesOf(t - 1) # {} => Opening(t) \in Nat /\ Start(t) \in Nat
  BY OpeningIs
<1>2. IInv' => (\A t \in Coarse : PlacesOf(t) # {} \/ PlacesOf(t - 1) # {} => Opening(t) \in Nat /\ Start(t) \in Nat)'
  BY <1>1, PTL
<1> QED BY <1>2

\* A fresh sample that is before the present window and not before the opening is
\* carried over, when nothing above it is.
LEMMA FreshIsCarried ==
  ASSUME IInv, Clocks, IInv', Next, now' = now,
         NEW t \in Coarse, NEW x \in Nat, x <= now, Young(t, x)',
         NEW p \in PlacesOf(0)', p < Place(x), Fresh(p), ~(p < Place(Opening(1)'))
  PROVE  Over(t, x)'
<1>0. /\ t \in Nat \ {0} /\ 0 \in Tables /\ 1 \in Coarse /\ Lag \in Nat /\ Lag' = Lag
      /\ Low(t)' \in Int /\ Low(t)' <= now /\ 0 \in 0..t /\ now \in Nat
  <2>1. now \in Nat /\ ~TickDown
    BY DEF IInv, TickDown
  <2> QED BY <2>1, Constants, RecentSteps, LagStays
<1>1. p \in Nat /\ Opening(1)' \in Nat
  <2>1. p \in Nat
    BY <1>0, NewestNext DEF NewestWell
  <2>2. PlacesOf(1 - 1)' # {}
    OBVIOUS
  <2> QED BY <1>0, <2>1, <2>2, OpeningNext
<1>2. Place(Opening(1)') <= p
  BY <1>1 DEF Place
<1>3. Time(p) \in Nat /\ Time(p) >= now - Lag /\ End(0, p) = Time(p) /\ 0 + 1 = 1
  BY <1>1, LagCovers DEF End
<1>4. Carries(t, x, 0, p)'
  <2>1. End(0, p) >= x - Lag /\ End(0, p) >= now - Lag
        /\ End(0, p) >= Low(t)' - Lag
    BY <1>0, <1>3
  <2> QED BY <1>0, <1>2, <1>3, <2>1 DEF Carries, Place, End, Time
<1> QED BY <1>0, <1>4 DEF Over

\* Steps that write no table carry on with what is carried.
LEMMA CarriedQuiet ==
  ASSUME IInv, Clocks, Downhill, Opened, FirstWindow, IInv', Next, Hourly \/ NextTable \/ FillFails \/ Stop \/ Boot,
         NEW t \in Coarse, NEW x, x = Truncate(now, Size[t]), Over(t, x)
  PROVE  Over(t, x)'
<1>0. /\ t \in Nat \ {0} /\ 0 \in Tables /\ 1 \in Coarse /\ 1 \in 1..t /\ Lag \in Nat /\ Lag' = Lag
      /\ now \in Nat /\ x \in Nat /\ x <= now /\ now' = now /\ table' = table
      /\ Low(t) \in Int /\ Low(t)' \in Int /\ Low(t)' <= now /\ (Low(t)' <= Low(t) \/ (NextTable /\ pc = Filling(t)))
  <2>1. now \in Nat /\ Size[t] \in Nat \ {0}
    BY Constants DEF IInv
  <2>2. x \in Nat /\ x <= now
    BY <2>1, TruncateIs
  <2>3. now' = now /\ table' = table
    BY QuietOpenings
  <2>4. ~TickDown
    BY <2>1, <2>3 DEF TickDown
  <2>5. Lag \in Nat /\ Lag' = Lag
    BY <2>4, LagIs, LagStays
  <2>6. /\ Low(t) \in Int /\ Low(t)' \in Int /\ Low(t)' <= now
        /\ Low(t)' <= Low(t) \/ (NextTable /\ pc = Filling(t))
    BY <2>3, <2>5, RecentSteps
  <2> QED BY <2>1, <2>2, <2>3, <2>5, <2>6, Constants
<1>1. \A u : PlacesOf(u)' = PlacesOf(u)
  BY <1>0 DEF PlacesOf
<1>2. Young(t, x)' <=> Young(t, x)
  BY <1>1 DEF Young, Place
<1>3. CASE Unseen(t, x) /\ \A p \in PlacesOf(0) : p >= Place(x) \/ p < Place(Opening(1)')
  BY <1>1, <1>2, <1>3 DEF Over, Unseen, Place
<1>4. ASSUME Unseen(t, x), NEW p \in PlacesOf(0), ~(p >= Place(x)), ~(p < Place(Opening(1)'))
      PROVE  Over(t, x)'
  <2>1. p < Place(Opening(1)) /\ Young(t, x) /\ p \in Nat
    BY <1>0, <1>4, PlacesAre DEF Unseen
  <2>2. pc = Filling(1) /\ win # None /\ Opening(1)' = Start(1) /\ Opening(1) = win /\ pc \notin {Idle, Down} /\ win \in Nat
    <3>1. Opening(1)' # Opening(1)
      BY <1>4, <2>1
    <3>2. pc = Filling(1) /\ win # None /\ Opening(1)' = Start(1)
      BY <1>0, <3>1, QuietOpenings
    <3> QED BY <3>2, Stages DEF Opening, IInv, Work, Aligned
  <2>3. PlacesOf(1) = {}
    <3> SUFFICES ASSUME PlacesOf(1) # {} PROVE FALSE
      OBVIOUS
    <3>1. Start(1) \in Nat /\ Place(Start(1)) = Max(PlacesOf(1))
      BY <1>0, Starts DEF StartsWell
    <3>2. Max(PlacesOf(1)) \in PlacesOf(1)
      BY <1>0, NewestIs DEF NewestWell, Tables
    <3>3. Place(Start(1)) >= Place(x)
      BY <1>0, <2>1, <3>1, <3>2 DEF Young
    <3> QED BY <1>0, <1>4, <2>1, <2>2, <3>1, <3>3 DEF Place
  <2>4. PICK k \in DOMAIN table[0] : k[2] = p
    BY DEF PlacesOf
  <2>5. Fresh(p) \/ p >= Place(win) \/ p < Place(Start(1))
    BY <2>2, <2>3, <2>4 DEF FirstWindow
  <2>6. Fresh(p)
    BY <1>4, <2>1, <2>2, <2>5 DEF Place
  <2>7. p < Place(x) /\ p \in PlacesOf(0)' /\ Young(t, x)'
    BY <1>0, <1>1, <1>2, <1>4, <2>1 DEF Place
  <2> QED BY <1>0, <1>4, <2>6, <2>7, FreshIsCarried
<1>5. ASSUME NEW s \in 0..t, NEW p \in PlacesOf(s), Carries(t, x, s, p)
      PROVE  Over(t, x)'
  <2>0. s \in Nat /\ s \in Tables /\ p \in Nat /\ s + 1 \in Nat
    <3>1. s \in Tables
      BY Constants
    <3> QED BY <3>1, PlacesAre
  <2>1. CASE s = t
    <3>1. Carries(t, x, s, p)'
      BY <1>0, <1>5, <2>1 DEF Carries, Place, End, Time
    <3> QED BY <1>1, <3>1 DEF Over
  <2>2. CASE s < t
    <3>1. s + 1 \in Coarse /\ PlacesOf(s + 1 - 1) # {}
      BY <1>0, <2>0, <2>2, Constants
    <3>2. Place(Opening(s + 1)) <= p /\ Opening(s + 1) \in Nat
      BY <1>5, <2>2, <3>1, OpeningIs DEF Carries
    <3>3. Place(Opening(s + 1)') <= p
      <4>1. CASE Opening(s + 1)' = Opening(s + 1)
        BY <3>2, <4>1
      <4>2. CASE Opening(s + 1)' # Opening(s + 1)
        <5>1. pc = Filling(s + 1) /\ win # None /\ Opening(s + 1)' = Start(s + 1)
          BY <3>1, <4>2, QuietOpenings
        <5>2. pc.at = "fill" /\ pc.t = s + 1
          BY <5>1, Stages
        <5>3. Start(s + 1) \in Nat /\ Start(s + 1) <= Opening(s + 1)
          <6>1. win \in Nat /\ Start(pc.t) \in Nat /\ Start(pc.t) <= win /\ Opening(pc.t) = win
            BY <5>1, <5>2, FillBelow
          <6> QED BY <5>2, <6>1
        <5> QED BY <2>0, <3>2, <5>1, <5>3 DEF Place
      <4> QED BY <4>1, <4>2
    <3>4. ASSUME NextTable, s < pc.t
          PROVE  Young(t, x) /\ End(s, p) >= now - Lag
      BY <1>5, <2>2, <3>4, Passing
    <3>5. End(s, p) \in Int
      BY <2>0, LaterEnds
    <3>6. End(s, p) >= Low(t)' - Lag
      <4>1. CASE NextTable /\ pc = Filling(t)
        <5>1. s < pc.t
          BY <2>2, <4>1, Stages
        <5> QED BY <1>0, <3>4, <3>5, <4>1, <5>1
      <4>2. CASE Low(t)' <= Low(t)
        <5>1. End(s, p) >= Low(t) - Lag
          BY <1>5, <2>2 DEF Carries
        <5> QED BY <1>0, <3>5, <4>2, <5>1
      <4> QED BY <1>0, <4>1, <4>2
    <3>7. pc'.at = "fill" /\ s < pc'.t - 1 => Young(t, x)' /\ End(s, p) >= now - Lag
      <4> SUFFICES ASSUME pc'.at = "fill", s < pc'.t - 1
                   PROVE  Young(t, x)' /\ End(s, p) >= now - Lag
        OBVIOUS
      <4>1. CASE Hourly
        <5>1. pc'.t = 1
          BY <4>1, Stages DEF Hourly
        <5> QED BY <2>0, <5>1
      <4>2. CASE NextTable
        <5>1. pc' = Filling(pc.t + 1) /\ pc.t \in Coarse
          <6>1. pc.at = "fill"
            BY <4>2 DEF NextTable
          <6> QED BY <4>2, <6>1, Stages, IsFilling DEF NextTable, IInv
        <5>2. pc'.t = pc.t + 1 /\ pc.t \in Nat
          BY <5>1, Stages, Constants
        <5>3. s < pc.t
          BY <2>0, <5>2
        <5> QED BY <1>2, <3>4, <4>2, <5>3
      <4>3. CASE FillFails \/ Stop \/ Boot
        BY <4>3, Stages DEF FillFails, Stop, Boot
      <4> QED BY <4>1, <4>2, <4>3
    <3>8. Carries(t, x, s, p)'
      <4>1. p < Place(x) /\ End(s, p) >= x - Lag
        BY <1>5 DEF Carries
      <4> QED BY <1>0, <3>3, <3>6, <3>7, <4>1 DEF Carries, Place, End, Time
    <3> QED BY <1>1, <3>8 DEF Over
  <2> QED BY <1>0, <2>0, <2>1, <2>2
<1> QED BY <1>3, <1>4, <1>5 DEF Over, Unseen

\* So does a sample, which may have to be carried over itself.
LEMMA CarriedReport ==
  ASSUME IInv, Clocks, IInv', Next, NEW h \in Hosts, NEW q \in Positions, Report(h, q),
         NEW t \in Coarse, NEW x, x = Truncate(now, Size[t]), Over(t, x)
  PROVE  Over(t, x)'
<1>0. /\ t \in Nat \ {0} /\ 0 \in Tables /\ 1 \in Coarse
      /\ now \in Nat /\ x \in Nat /\ x <= now /\ now' = now /\ pc' = pc /\ due' = due /\ faults' = faults
      /\ Lag \in Nat /\ Lag' = Lag /\ {MaxLate, down} \subseteq Nat
  <2>1. now \in Nat /\ Size[t] \in Nat \ {0}
    BY Constants DEF IInv
  <2>2. x \in Nat /\ x <= now
    BY <2>1, TruncateIs
  <2>3. Lag' = Lag
    BY DEF Report, Lag
  <2>4. Lag \in Nat /\ {MaxLate, down} \subseteq Nat
    BY MoreConstants, LagIs
  <2>5. t \in Nat \ {0} /\ 0 \in Tables /\ 1 \in Coarse
    BY Constants
  <2>6. now' = now /\ pc' = pc /\ due' = due /\ faults' = faults
    BY DEF Report
  <2> QED BY <2>1, <2>2, <2>3, <2>4, <2>5, <2>6
<1>1. /\ PlacesOf(0)' = PlacesOf(0) \cup {q} /\ \A u \in Coarse : PlacesOf(u)' = PlacesOf(u)
      /\ q \in Nat /\ Fresh(q) /\ Time(q) \in Nat
  BY ReportPlaces
<1>2. Young(t, x)' <=> Young(t, x)
  <2>1. \A u \in 1..t : PlacesOf(u)' = PlacesOf(u)
    BY <1>0, <1>1, Constants
  <2> QED BY <2>1 DEF Young, Place
<1>3. CASE Unseen(t, x) /\ \A p \in PlacesOf(0)' : p >= Place(x) \/ p < Place(Opening(1)')
  BY <1>2, <1>3 DEF Over, Unseen, Place
<1>4. ASSUME Unseen(t, x), NEW k \in PlacesOf(0)', ~(k >= Place(x)), ~(k < Place(Opening(1)'))
      PROVE  Over(t, x)'
  <2>1. k \in Nat /\ Young(t, x)' /\ k < Place(x)
    <3>1. k \in Nat
      BY <1>0, NewestNext DEF NewestWell
    <3> QED BY <1>0, <1>2, <1>4, <3>1 DEF Unseen, Place
  <2>2. ~(k < q)
    <3> SUFFICES ASSUME k < q PROVE FALSE
      OBVIOUS
    <3>1. k \in PlacesOf(0)
      BY <1>1, <2>1
    <3>2. Opening(1)' = Opening(1)
      BY <3>1, ReportOpenings
    <3> QED BY <1>4, <3>1, <3>2 DEF Unseen
  <2>3. Fresh(k)
    <3>1. Time(k) \in Int /\ Time(k) >= Time(q)
      BY <1>1, <2>1, <2>2 DEF Time
    <3> QED BY <1>0, <1>1, <3>1 DEF Fresh
  <2> QED BY <1>0, <1>4, <2>1, <2>3, FreshIsCarried
<1>5. ASSUME NEW s \in 0..t, NEW p \in PlacesOf(s), Carries(t, x, s, p)
      PROVE  Over(t, x)'
  <2>0. s \in Nat /\ s \in Tables /\ p \in Nat /\ s + 1 \in Nat /\ p \in PlacesOf(s)'
    <3>1. s \in Tables
      BY Constants
    <3> QED BY <1>1, <3>1, PlacesAre DEF Tables
  <2>1. s < t => Place(Opening(s + 1)') <= p
    <3> SUFFICES ASSUME s < t PROVE Place(Opening(s + 1)') <= p
      OBVIOUS
    <3>1. s + 1 \in Coarse /\ PlacesOf(s + 1 - 1) # {} /\ PlacesOf(s + 1 - 1)' # {}
      BY <1>0, <2>0, Constants
    <3>2. Place(Opening(s + 1)) <= p /\ Opening(s + 1) \in Nat /\ Opening(s + 1)' \in Nat
      BY <1>5, <3>1, OpeningIs, OpeningNext DEF Carries
    <3>3. Opening(s + 1)' <= Opening(s + 1)
      <4>1. CASE s = 0
        BY <4>1, ReportOpenings
      <4>2. CASE s # 0
        <5>1. s + 1 # 1
          BY <2>0, <4>2
        <5>2. Opening(s + 1)' = Opening(s + 1)
          BY <3>1, <5>1, ReportOpenings
        <5> QED BY <3>2, <5>2
      <4> QED BY <4>1, <4>2
    <3> QED BY <2>0, <3>2, <3>3 DEF Place
  <2>2. Low(t)' = Low(t)
    BY <1>0 DEF Low, Passed
  <2>3. Carries(t, x, s, p)'
    BY <1>0, <1>2, <1>5, <2>1, <2>2 DEF Carries, Place, End, Time
  <2> QED BY <2>0, <2>3 DEF Over
<1> QED BY <1>3, <1>4, <1>5, <1>2 DEF Over, Unseen

\* A purge spares what is carried over.
LEMMA CarriedPurge ==
  ASSUME IInv, Clocks, Heard, Downhill, NewestRecent, Lasting, IInv', Next,
         NEW keep \in Keeps, NEW n \in 0..Len(Size), Purge(keep, n),
         NEW t \in Coarse, NEW x, x = Truncate(now, Size[t]), Over(t, x)
  PROVE  Over(t, x)'
<1>0. /\ t \in Nat \ {0} /\ 0 \in Tables /\ 1 \in Coarse /\ Lag \in Nat /\ Lag' = Lag
      /\ now \in Nat /\ x \in Nat /\ x <= now /\ now < x + Size[t] /\ Size[t] \in Nat \ {0} /\ t \in Tables
      /\ pc = Purging /\ pc' = Idle /\ now' = now
      /\ \A u \in Tables : PlacesOf(u)' \subseteq PlacesOf(u)
      /\ Low(t) \in Int /\ Low(t)' \in Int /\ Low(t)' <= Low(t)
  <2>1. now \in Nat /\ Size[t] \in Nat \ {0}
    BY Constants DEF IInv
  <2>2. x \in Nat /\ x <= now /\ now < x + Size[t]
    BY <2>1, TruncateIs
  <2>3. pc = Purging /\ pc' = Idle /\ now' = now /\ \A u \in Tables : PlacesOf(u)' \subseteq PlacesOf(u)
    BY PurgePlaces
  <2>4. ~(NextTable /\ pc = Filling(t))
    BY <2>3, Stages
  <2>7. Lag \in Nat /\ Lag' = Lag
    BY LagIs, PurgePlaces DEF Lag
  <2>5. Low(t) \in Int /\ Low(t)' \in Int /\ Low(t)' <= Low(t)
    BY <2>4, <2>7, RecentSteps
  <2>6. t \in Nat \ {0} /\ 0 \in Tables /\ 1 \in Coarse /\ t \in Tables
    BY Constants DEF Tables
  <2> QED BY <2>1, <2>2, <2>3, <2>5, <2>6, <2>7
<1>1. Young(t, x) => Young(t, x)'
  <2>1. \A u \in 1..t : PlacesOf(u)' \subseteq PlacesOf(u)
    BY <1>0, Constants
  <2> QED BY <2>1 DEF Young, Place
<1>2. CASE Unseen(t, x)
  <2>1. SUFFICES ASSUME NEW p \in PlacesOf(0)', ~(p >= Place(x)) PROVE p < Place(Opening(1)')
    BY <1>1, <1>2 DEF Over, Unseen, Place
  <2>2. p \in PlacesOf(0) /\ p \in Nat /\ p < Place(Opening(1))
    BY <1>0, <1>2, <2>1, PlacesAre DEF Unseen
  <2>3. /\ Opening(1) = Start(1) /\ Opening(1)' = Start(1)'
        /\ Start(1)' = Start(1) \/ Start(1) <= Start(1)'
    <3>1. PlacesOf(1 - 1)' # {}
      BY <2>1
    <3> QED BY <1>0, <3>1, PurgeOpenings
  <2>4. Start(1) \in Nat /\ Start(1)' \in Nat
    <3>1. PlacesOf(1 - 1)' # {} /\ PlacesOf(1 - 1) # {}
      BY <2>1, <2>2
    <3> QED BY <1>0, <3>1, OpeningIs, OpeningNext
  <2> QED BY <2>2, <2>3, <2>4 DEF Place
<1>3. ASSUME NEW s \in 0..t, NEW p \in PlacesOf(s), Carries(t, x, s, p)
      PROVE  Over(t, x)'
  <2>0. s \in Nat /\ s \in Tables /\ p \in Nat /\ s + 1 \in Nat /\ End(s, p) \in Int /\ s <= t
    <3>1. s \in Tables /\ s \in Nat /\ s <= t
      BY Constants
    <3>2. p \in Nat
      BY <3>1, PlacesAre
    <3> QED BY <3>1, <3>2, LaterEnds
  <2>1. p < Place(x) /\ End(s, p) >= x - Lag
    BY <1>3 DEF Carries
  <2>2. p \in PlacesOf(s)'
    <3> SUFFICES ASSUME p \notin PlacesOf(s)' PROVE FALSE
      OBVIOUS
    <3>0. now \in Nat /\ x \in Nat /\ Lag \in Nat
      BY <1>0
    <3>1. s + 1 \in Coarse /\ p < Place(now - keep[s + 1])
      BY <2>0, PurgePlaces
    <3>2. PICK low \in Nat : low = Hour * faults
      BY LowIsPast
    <3>3. /\ End(s, p) < now - low - Size[s + 1] + 1 - Lag /\ Size[s + 1] \in Nat \ {0}
          /\ s \in Coarse => Recent(s + 1) <= Recent(s)
          /\ Recent(s + 1) = now - low - Size[s + 1] + 1 - Lag
      BY <2>0, <3>1, <3>2, PurgeSpares, Constants
    <3>4. Low(t) = now - low
      BY <1>0, <3>2, Lasts
    <3>5. CASE s < t
      <4>1. End(s, p) >= Low(t) - Lag
        BY <1>3, <3>5 DEF Carries
      <4>2. PICK e \in Int, z \in Nat : e = End(s, p) /\ z = Size[s + 1] /\ z # 0
        BY <2>0, <3>3
      <4>3. PICK g \in Int : g = now - low - Lag
        BY <3>0
      <4>4. e >= g
        BY <3>4, <4>1, <4>2, <4>3
      <4>5. e < g - z + 1
        BY <3>0, <3>3, <4>2, <4>3
      <4> QED BY <4>2, <4>4, <4>5
    <3>6. CASE s = t
      <4>1. Recent(t) = now - low - Size[t] + 1 - Lag
        BY <3>4 DEF Recent
      <4>2. PICK e \in Int, z \in Nat, y \in Nat : e = End(s, p) /\ z = Size[s + 1] /\ y = Size[t]
        BY <1>0, <2>0, <3>3
      <4>3. now - low - z + 1 - Lag <= now - low - y + 1 - Lag
        BY <3>3, <3>6, <4>1, <4>2
      <4>4. e < now - low - z + 1 - Lag
        BY <3>3, <4>2
      <4>5. e >= x - Lag /\ now < x + y
        BY <1>0, <2>1, <4>2
      <4> QED BY <3>0, <4>3, <4>4, <4>5
    <3> QED BY <1>0, <2>0, <3>5, <3>6
  <2>3. CASE s = t
    <3>1. Carries(t, x, s, p)'
      BY <1>0, <2>1, <2>3 DEF Carries, Place, End, Time
    <3> QED BY <2>2, <3>1 DEF Over
  <2>4. ASSUME s < t, Place(Opening(s + 1)') <= p PROVE Over(t, x)'
    <3>1. End(s, p) >= Low(t)' - Lag
      <4>1. End(s, p) >= Low(t) - Lag
        BY <1>3, <2>4 DEF Carries
      <4> QED BY <1>0, <2>0, <4>1
    <3>2. pc'.at # "fill"
      BY <1>0, Stages
    <3>3. Carries(t, x, s, p)'
      BY <1>0, <2>1, <2>4, <3>1, <3>2 DEF Carries, Place, End, Time
    <3> QED BY <2>2, <3>3 DEF Over
  <2>5. CASE s < t
    <3>1. s + 1 \in Coarse /\ s + 1 \in Tables
      BY <1>0, <2>0, <2>5, Constants
    <3>2. Opening(s + 1)' = Start(s + 1)'
      BY <3>1, PurgeOpenings
    <3>3. CASE PlacesOf(s + 1) # {}
      <4>1. Opening(s + 1)' = Opening(s + 1)
        BY <3>1, <3>3, PurgeOpenings
      <4>2. Place(Opening(s + 1)) <= p
        BY <1>3, <2>5 DEF Carries
      <4> QED BY <2>4, <2>5, <4>1, <4>2
    <3>4. CASE PlacesOf(s + 1) = {} /\ s # 0
      <4>1. PlacesOf(s + 1)' = {} /\ s + 1 # 1 /\ PlacesOf(s + 1 - 1)' # {} /\ p \in PlacesOf(s + 1 - 1)'
        BY <1>0, <2>0, <2>2, <3>1, <3>4
      <4>2. Place(Start(s + 1)') <= p
        <5>1. StartsWell(s + 1)'
          BY <3>1, StartsNext
        <5> QED BY <4>1, <5>1 DEF StartsWell, Place
      <4> QED BY <2>4, <2>5, <3>2, <4>2
    <3>5. CASE PlacesOf(s + 1) = {} /\ s = 0
      <4>1. PlacesOf(1)' = {} /\ p \in PlacesOf(0)'
        BY <1>0, <2>2, <3>1, <3>5
      <4>2. End(s, p) = Time(p) /\ Time(p) \in Int
        BY <2>0, <3>5 DEF End, Time
      <4>3. Time(p) >= Low(t)' - Lag
        <5>1. End(s, p) >= Low(t) - Lag
          BY <1>3, <2>5 DEF Carries
        <5> QED BY <1>0, <4>2, <5>1
      <4>4. Clocks' /\ Downhill'
        BY ClocksStep, DownhillStep
      <4> QED BY <1>0, <2>0, <2>1, <4>1, <4>2, <4>3, <4>4, FirstCaseNext
    <3> QED BY <3>3, <3>4, <3>5
  <2> QED BY <1>0, <2>0, <2>3, <2>5
<1> QED BY <1>2, <1>3 DEF Over

\* When a window is complete, the newest sample is behind it by no more than the
\* longest silence, a late sample and the time the hub was down.
LEMMA CarriedTick ==
  ASSUME IInv, Clocks, Heard, Downhill, NewestRecent, Lasting, Carried, IInv', Next, Tick \/ TickDown,
         NEW t \in Coarse, NEW x, x = Truncate(now, Size[t]), NEW y, y = Truncate(now + 1, Size[t])
  PROVE  Over(t, y)'
<1>0. /\ t \in Nat \ {0} /\ 0 \in Tables /\ 1 \in Tables /\ 1 \in Coarse /\ 0 \in 0..t
      /\ {Lag, Lag'} \subseteq Nat /\ Lag <= Lag'
      /\ now \in Nat /\ now' = now + 1 /\ {heard, down, MaxLate} \subseteq Nat
      /\ heard - MaxLate - down >= now + 1 - Lag'
      /\ pc \in {Idle, Down} /\ pc' \in {Idle, Down} /\ pc.at # "fill" /\ pc' = pc /\ win' = win
      /\ x \in Nat /\ y \in Nat /\ x <= y /\ (x = y \/ y = now + 1)
      /\ {Low(t), Low(t)'} \subseteq Int /\ Low(t)' - Lag' <= Low(t) - Lag /\ Low(t)' <= now + 1
  <2>1. now \in Nat /\ Size[t] \in Nat \ {0} /\ now + 1 \in Nat
    BY Constants DEF IInv
  <2>2. x \in Nat /\ x <= now /\ now < x + Size[t] /\ Aligned(x, Size[t])
    BY <2>1, TruncateIs
  <2>3. y \in Nat /\ y <= now + 1 /\ now + 1 < y + Size[t] /\ Aligned(y, Size[t])
    BY <2>1, TruncateIs
  <2>4. x <= y
    BY <2>1, TruncateGrows
  <2>5. x < y => x + Size[t] <= y
    BY <2>1, <2>2, <2>3, WindowsApart
  <2>6. /\ now' = now + 1 /\ pc \in {Idle, Down} /\ pc' = pc /\ win' = win
        /\ \/ now - heard < MaxSilence /\ down' = down
           \/ now - heard <= MaxSilence /\ down' = down + 1
    BY DEF Tick, TickDown, Clocks
  <2>7. /\ {Low(t), Low(t)'} \subseteq Int /\ {Lag, Lag'} \subseteq Nat
        /\ Low(t)' - Lag' <= Low(t) - Lag /\ Low(t)' <= now + 1
    <3>1. ~(NextTable /\ pc = Filling(t))
      BY <2>6, Stages
    <3> QED BY <2>6, <3>1, RecentSteps
  <2>9. {heard, down, MaxLate, MaxSilence} \subseteq Nat
    BY MoreConstants DEF Clocks
  <2>10. Lag <= Lag' /\ heard - MaxLate - down >= now + 1 - Lag'
    BY <2>1, <2>6, <2>9 DEF Lag
  <2>8. x = y \/ y = now + 1
    BY <2>1, <2>2, <2>3, <2>4, <2>5
  <2>11. t \in Nat \ {0} /\ 0 \in Tables /\ 1 \in Tables /\ 1 \in Coarse /\ 0 \in 0..t
    BY Constants DEF Tables
  <2>12. pc' \in {Idle, Down} /\ pc.at # "fill"
    BY <2>6, Stages DEF Idle, Down
  <2> QED BY <2>1, <2>2, <2>3, <2>4, <2>6, <2>7, <2>8, <2>9, <2>10, <2>11, <2>12
<1>1. Over(t, x)
  BY DEF Carried
<1>3. \A u : PlacesOf(u)' = PlacesOf(u) /\ Start(u)' = Start(u) /\ Opening(u) = Start(u) /\ Opening(u)' = Start(u)
  <2>1. table' = table
    BY DEF Tick, TickDown
  <2>2. \A u : pc # Filling(u)
    BY <1>0, Stages
  <2> QED BY <1>0, <2>1, <2>2 DEF PlacesOf, Start, Opening, Filling
<1>4. CASE x = y
  <2>1. Unseen(t, y) => Unseen(t, y)'
    BY <1>3 DEF Unseen, Young, Place
  <2>2. ASSUME NEW s \in 0..t, NEW p \in PlacesOf(s), Carries(t, y, s, p)
        PROVE  Carries(t, y, s, p)'
    <3>1. End(s, p) \in Int
      <4>1. s \in Tables
        BY Constants
      <4> QED BY <4>1, PlacesAre, LaterEnds
    <3>2. p < Place(y) /\ End(s, p) >= y - Lag'
      BY <1>0, <2>2, <3>1 DEF Carries
    <3>3. s < t => Place(Opening(s + 1)') <= p /\ End(s, p) >= Low(t)' - Lag'
      <4>1. s < t => Place(Opening(s + 1)) <= p /\ End(s, p) >= Low(t) - Lag
        BY <2>2 DEF Carries
      <4> QED BY <1>0, <1>3, <3>1, <4>1
    <3> QED BY <1>0, <3>2, <3>3 DEF Carries, Place, End, Time
  <2> QED BY <1>1, <1>3, <1>4, <2>1, <2>2 DEF Over
<1>5. CASE y = now + 1 /\ PlacesOf(0) = {}
  <2>1. \A u \in 1..t : PlacesOf(u) = {}
    <3> SUFFICES ASSUME NEW u \in 1..t PROVE PlacesOf(u) = {}
      OBVIOUS
    <3>1. u \in Tables /\ 0 <= u
      BY <1>0, Constants
    <3> QED BY <1>0, <1>5, <3>1, EmptyAbove
  <2> QED BY <1>3, <1>5, <2>1 DEF Over, Unseen, Young
<1>6. CASE y = now + 1 /\ PlacesOf(0) # {}
  <2>0. PICK m : m = Max(PlacesOf(0))
    OBVIOUS
  <2>1. m \in PlacesOf(0) /\ m \in Nat /\ Time(m) >= heard - MaxLate - down /\ m <= 2 * now
    <3>1. m \in PlacesOf(0)
      BY <1>0, <1>6, <2>0, NewestIs DEF NewestWell
    <3> QED BY <1>0, <1>6, <2>0, <3>1, PlacesAre DEF Heard
  <2>2. PlacesOf(1) # {} => Place(Start(1)) <= m
    <3> SUFFICES ASSUME PlacesOf(1) # {} PROVE Place(Start(1)) <= m
      OBVIOUS
    <3>1. Place(Start(1)) = Max(PlacesOf(1)) /\ Start(1) \in Nat
      BY <1>0, Starts DEF StartsWell
    <3>2. Max(PlacesOf(1 - 1)) >= Max(PlacesOf(1))
      BY <1>0 DEF Downhill
    <3> QED BY <2>0, <2>1, <3>1, <3>2 DEF Place
  <2>3. Time(m) \in Nat /\ Time(m) >= y - Lag' /\ Time(m) >= Low(t)' - Lag'
        /\ m < Place(y) /\ End(0, m) = Time(m)
    <3>1. Time(m) \in Nat /\ End(0, m) = Time(m)
      BY <2>1 DEF Time, End
    <3> QED BY <1>0, <1>6, <2>1, <3>1 DEF Place
  <2>4. CASE PlacesOf(1) # {}
    <3>1. Carries(t, y, 0, m)'
      <4>1. Place(Opening(0 + 1)') <= m
        BY <1>3, <2>2, <2>4
      <4> QED BY <1>0, <2>3, <4>1 DEF Carries, Place, End, Time
    <3> QED BY <1>0, <1>3, <2>1, <3>1 DEF Over
  <2>5. CASE PlacesOf(1) = {}
    <3>1. Clocks' /\ Downhill'
      BY ClocksStep, DownhillStep
    <3> QED BY <1>0, <1>3, <2>1, <2>3, <2>5, <3>1, FirstCaseNext
  <2> QED BY <2>4, <2>5
<1> QED BY <1>0, <1>4, <1>5, <1>6

\* A window writes no row behind the present one when its source has none there.
LEMMA FillYoung ==
  ASSUME IInv, Fill, NEW v \in Coarse, v = pc.t,
         NEW t \in Coarse, v <= t, NEW x, x = Truncate(now, Size[t]), Young(t, x), v = 1 => Unseen(t, x)
  PROVE  Young(t, x)'
<1>0. /\ t \in Nat /\ v \in Nat \ {0} /\ v - 1 \in Tables /\ Size[v] \in Nat \ {0} /\ now \in Nat
      /\ pc = Filling(v) /\ pc' = pc /\ win # None /\ win \in Nat /\ Aligned(win, Size[v])
      /\ \A u \in Tables \ {v} : PlacesOf(u)' = PlacesOf(u)
      /\ IF \E p \in PlacesOf(v - 1) : Inside(v, win, p)
         THEN PlacesOf(v)' = PlacesOf(v) \cup {Place(win)}
         ELSE PlacesOf(v)' = PlacesOf(v)
  <2>1. t \in Nat /\ v \in Nat \ {0} /\ v - 1 \in Tables /\ Size[v] \in Nat \ {0} /\ now \in Nat
    BY Constants DEF IInv
  <2>2. Aligned(win, Size[v])
    BY FillPlaces
  <2> QED BY <2>1, <2>2, FillPlaces DEF Aligned
<1>1. x \in Nat /\ Aligned(x, Size[v])
  <2>1. Size[t] \in Nat \ {0}
    BY Constants
  <2>2. x \in Nat /\ Aligned(x, Size[t])
    BY <1>0, <2>1, TruncateIs
  <2> QED BY <2>2, AlignedDown
<1>2. ASSUME NEW p \in PlacesOf(v - 1), Inside(v, win, p) PROVE win >= x
  <2>1. p \in Nat /\ Place(win) <= p /\ p < 2 * (win + Size[v])
    BY <1>0, <1>2, PlacesAre DEF Inside, Place
  <2>2. p >= Place(x)
    <3>1. CASE v = 1
      <4>1. Opening(1) = win /\ p \in PlacesOf(0)
        BY <1>0, <3>1 DEF Opening
      <4>2. p >= Place(x) \/ p < Place(win)
        BY <3>1, <4>1 DEF Unseen
      <4> QED BY <1>0, <2>1, <4>2 DEF Place
    <3>2. CASE v # 1
      <4>1. v - 1 \in 1..t
        BY <1>0, <3>2
      <4> QED BY <4>1 DEF Young
    <3> QED BY <3>1, <3>2
  <2>3. x < win + Size[v]
    BY <1>0, <1>1, <2>1, <2>2 DEF Place
  <2>4. win < x => win + Size[v] <= x
    BY <1>0, <1>1, WindowsApart
  <2> QED BY <1>0, <1>1, <2>3, <2>4
<1>3. SUFFICES ASSUME NEW u \in 1..t, NEW p \in PlacesOf(u)' PROVE p >= Place(x)
  BY DEF Young, Place
<1>4. CASE p \in PlacesOf(u)
  BY <1>4 DEF Young
<1>5. CASE p \notin PlacesOf(u)
  <2>1. u = v
    <3>1. u \in Tables
      BY <1>0, Constants
    <3> QED BY <1>0, <1>5, <3>1
  <2>2. p = Place(win) /\ win >= x
    BY <1>0, <1>2, <1>5, <2>1
  <2> QED BY <1>0, <1>1, <2>2 DEF Place
<1> QED BY <1>4, <1>5

\* A window takes up what is carried over, or leaves it for a later one.
LEMMA CarriedFill ==
  ASSUME IInv, Clocks, Downhill, Opened, IInv', Fill, NEW v \in Coarse, v = pc.t,
         NEW t \in Coarse, NEW x, x = Truncate(now, Size[t]), Over(t, x)
  PROVE  Over(t, x)'
<1>0. /\ t \in Nat \ {0} /\ v \in Nat \ {0} /\ v \in Tables /\ v - 1 \in Tables /\ Size[v] \in Nat \ {0} /\ now \in Nat
      /\ pc = Filling(v) /\ pc' = pc /\ pc.at = "fill" /\ pc.t = v
      /\ win # None /\ win \in Nat /\ Aligned(win, Size[v]) /\ win' = win + Size[v] /\ win' # None
      /\ now' = now /\ x \in Nat /\ Lag \in Nat /\ Lag' = Lag /\ 0 \in Tables /\ 1 \in Tables /\ 1 \in Coarse
      /\ \A u \in Tables \ {v} : PlacesOf(u)' = PlacesOf(u)
      /\ IF \E p \in PlacesOf(v - 1) : Inside(v, win, p)
         THEN PlacesOf(v)' = PlacesOf(v) \cup {Place(win)}
         ELSE PlacesOf(v)' = PlacesOf(v)
      /\ \A p \in PlacesOf(v) : p \in Nat /\ p <= Place(win)
      /\ Opening(v) = win /\ Opening(v)' = win'
  <2>1. now \in Nat /\ Size[t] \in Nat \ {0}
    BY Constants DEF IInv
  <2>2. x \in Nat
    BY <2>1, TruncateIs
  <2>3. pc = Filling(v) /\ pc' = pc /\ pc.at = "fill" /\ pc.t = v /\ win # None /\ win \in Nat /\ win' = win + Size[v]
    BY FillPlaces, Stages DEF Aligned
  <2>4. Size[v] \in Nat \ {0} /\ win' # None
    BY <2>3, Constants, MoreConstants
  <2>5. Opening(v) = win /\ Opening(v)' = win'
    BY <2>3, <2>4 DEF Opening, Filling
  <2>6. /\ Aligned(win, Size[v]) /\ now' = now
        /\ \A u \in Tables \ {v} : PlacesOf(u)' = PlacesOf(u)
        /\ IF \E p \in PlacesOf(v - 1) : Inside(v, win, p)
           THEN PlacesOf(v)' = PlacesOf(v) \cup {Place(win)}
           ELSE PlacesOf(v)' = PlacesOf(v)
    BY <2>3, FillPlaces
  <2>7. \A p \in PlacesOf(v) : p \in Nat /\ p <= Place(win)
    BY <2>3, FillBelow
  <2>8. t \in Nat \ {0} /\ v \in Nat \ {0} /\ v \in Tables /\ v - 1 \in Tables /\ 0 \in Tables /\ 1 \in Tables /\ 1 \in Coarse
    BY Constants
  <2>9. Lag \in Nat /\ Lag' = Lag
    BY LagIs DEF Fill, Lag
  <2> QED BY <2>1, <2>2, <2>3, <2>4, <2>5, <2>6, <2>7, <2>8, <2>9
<1>1. \A u \in Tables : PlacesOf(u) \subseteq PlacesOf(u)'
  BY <1>0
<1>2. ASSUME NEW u \in Coarse, u # v, u # v + 1 PROVE Opening(u)' = Opening(u)
  <2>1. u \in Tables \ {v} /\ u - 1 \in Tables \ {v}
    <3>1. u \in Nat /\ u \in Tables /\ u - 1 \in Tables
      BY Constants
    <3>2. u - 1 # v
      BY <1>0, <1>2, <3>1
    <3> QED BY <1>2, <3>1, <3>2
  <2>2. Start(u)' = Start(u)
    BY <1>0, <2>1 DEF Start
  <2>3. pc # Filling(u) /\ pc' # Filling(u)
    BY <1>0, <1>2, Stages
  <2> QED BY <2>2, <2>3 DEF Opening, Filling
<1>3. Low(t)' = Low(t) /\ Low(t) \in Int
  <2>1. due' = due /\ faults' = faults
    BY DEF Fill
  <2> QED BY <1>0, <2>1, LowIsPast DEF Low, Passed
<1>4. CASE Unseen(t, x)
  <2>1. Young(t, x)'
    <3>1. CASE v <= t
      BY <1>4, <3>1, FillYoung DEF Unseen
    <3>2. CASE ~(v <= t)
      <4>1. \A u \in 1..t : PlacesOf(u)' = PlacesOf(u)
        <5> SUFFICES ASSUME NEW u \in 1..t PROVE PlacesOf(u)' = PlacesOf(u)
          OBVIOUS
        <5>1. u \in Tables
          BY <1>0, Constants
        <5>2. u # v
          BY <1>0, <3>2
        <5> QED BY <1>0, <5>1, <5>2
      <4> QED BY <1>4, <4>1 DEF Unseen, Young, Place
    <3> QED BY <3>1, <3>2
  <2>2. ASSUME NEW p \in PlacesOf(0)', ~(p >= Place(x)) PROVE p < Place(Opening(1)')
    <3>1. p \in PlacesOf(0) /\ p \in Nat /\ p < Place(Opening(1))
      <4>1. p \in PlacesOf(0)
        BY <1>0
      <4> QED BY <1>0, <1>4, <2>2, <4>1, PlacesAre DEF Unseen
    <3>2. CASE v = 1
      BY <1>0, <3>1, <3>2 DEF Place
    <3>3. CASE v # 1
      <4>1. 1 # v + 1
        BY <1>0
      <4>2. Opening(1)' = Opening(1)
        BY <1>0, <1>2, <3>3, <4>1
      <4> QED BY <3>1, <4>2
    <3> QED BY <3>2, <3>3
  <2> QED BY <2>1, <2>2 DEF Over, Unseen, Place
<1>5. ASSUME NEW s \in 0..t, NEW p \in PlacesOf(s), Carries(t, x, s, p)
      PROVE  Over(t, x)'
  <2>0. s \in Nat /\ s \in Tables /\ p \in Nat /\ s + 1 \in Nat /\ End(s, p) \in Int /\ s <= t /\ p \in PlacesOf(s)'
        /\ p < Place(x) /\ End(s, p) >= x - Lag
    <3>1. s \in Tables /\ s \in Nat /\ s <= t
      BY Constants
    <3>2. p \in Nat
      BY <3>1, PlacesAre
    <3>3. p \in PlacesOf(s)'
      BY <1>1, <3>1
    <3> QED BY <1>5, <3>1, <3>2, <3>3, LaterEnds DEF Carries
  <2>1. CASE s = t
    <3>1. Carries(t, x, s, p)'
      BY <1>0, <2>0, <2>1 DEF Carries, Place, End, Time
    <3> QED BY <2>0, <3>1 DEF Over
  <2>2. ASSUME s < t PROVE s + 1 \in Coarse /\ Place(Opening(s + 1)) <= p /\ End(s, p) >= Low(t) - Lag
                           /\ (s < v - 1 => Young(t, x) /\ End(s, p) >= now - Lag)
    BY <1>0, <1>5, <2>0, <2>2, Constants DEF Carries
  <2>3. ASSUME s < t, Place(Opening(s + 1)') <= p, s < v - 1 => Young(t, x)'
        PROVE  Over(t, x)'
    <3>1. Carries(t, x, s, p)'
      BY <1>0, <1>3, <2>0, <2>2, <2>3 DEF Carries, Place, End, Time
    <3> QED BY <2>0, <3>1 DEF Over
  <2>4. CASE s < t /\ s + 1 = v /\ p < Place(win')
    <3>0. PICK w \in Nat : w = 2 * win /\ w = Place(win)
      BY <1>0 DEF Place
    <3>1. Inside(v, win, p) /\ p \in PlacesOf(v - 1)
      BY <1>0, <2>0, <2>2, <2>4 DEF Inside, Place
    <3>2. w \in PlacesOf(v)' /\ w < Place(x)
      <4>1. w <= p
        BY <3>0, <3>1 DEF Inside
      <4> QED BY <1>0, <2>0, <3>0, <3>1, <4>1 DEF Place
    <3>3. End(v, w) = win + Size[v]
      <4>1. v # 0 /\ w \div 2 = win
        BY <1>0, <3>0
      <4> QED BY <4>1 DEF End
    <3>4. End(s, p) <= win + Size[v]
      <4>1. v - 1 = s
        BY <1>0, <2>0, <2>4
      <4> QED BY <1>0, <3>1, <4>1, EndsInside
    <3>5. v < t => Place(Opening(v + 1)') <= w
      <4> SUFFICES ASSUME v < t PROVE Place(Opening(v + 1)') <= w
        OBVIOUS
      <4>0. v + 1 \in Coarse
        <5>1. t <= Len(Size) /\ Len(Size) \in Nat
          BY Constants
        <5>2. v + 1 \in 1..Len(Size)
          <6>1. v \in Nat /\ t \in Nat /\ v < t
            BY <1>0
          <6> QED BY <5>1, <6>1
        <5> QED BY <5>2, Constants
      <4>1. PICK u \in Coarse : u = v + 1 /\ u \in Tables \ {v} /\ u # 1 /\ u - 1 = v
        BY <1>0, <4>0 DEF Tables
      <4>2. pc' # Filling(u)
        BY <1>0, <4>1, Stages
      <4>3. Opening(u)' = Start(u)' /\ PlacesOf(u)' = PlacesOf(u)
        BY <1>0, <4>1, <4>2 DEF Opening, Filling
      <4>4. StartsWell(u)'
        BY <4>1, StartsNext
      <4>5. CASE PlacesOf(u) = {}
        <5>1. w \in PlacesOf(u - 1)' /\ PlacesOf(u)' = {}
          BY <3>2, <4>1, <4>3, <4>5
        <5>2. Place(Start(u)') <= w
          BY <4>1, <4>4, <5>1 DEF StartsWell, Place
        <5> QED BY <4>1, <4>3, <5>2
      <4>6. CASE PlacesOf(u) # {}
        <5>1. Place(Start(u)') = Max(PlacesOf(u))
          BY <4>3, <4>4, <4>6 DEF StartsWell, Place
        <5>2. PlacesOf(v) # {} /\ Max(PlacesOf(v)) >= Max(PlacesOf(u))
          <6>1. PlacesOf(u - 1) # {} /\ Max(PlacesOf(u - 1)) >= Max(PlacesOf(u))
            BY <4>1, <4>6 DEF Downhill
          <6> QED BY <4>1, <6>1
        <5>3. Max(PlacesOf(v)) \in PlacesOf(v) /\ Max(PlacesOf(u)) \in Nat
          BY <1>0, <4>1, <4>6, <5>2, NewestIs DEF NewestWell
        <5>4. Max(PlacesOf(v)) \in Nat /\ Max(PlacesOf(v)) <= w
          BY <1>0, <3>0, <5>3
        <5> QED BY <4>1, <4>3, <5>1, <5>2, <5>3, <5>4
      <4> QED BY <4>1, <4>5, <4>6
    <3>6. Carries(t, x, v, w)'
      <4>1. End(v, w) >= x - Lag /\ End(v, w) >= Low(t)' - Lag
        BY <1>0, <1>3, <2>0, <2>2, <2>4, <3>3, <3>4
      <4>2. ~(v < v - 1)
        BY <1>0
      <4> QED BY <1>0, <3>2, <3>5, <4>1, <4>2 DEF Carries, Place, End, Time
    <3>7. v \in 0..t
      BY <1>0, <2>0, <2>4
    <3> QED BY <3>2, <3>6, <3>7 DEF Over
  <2>5. CASE s < t /\ s + 1 = v /\ ~(p < Place(win'))
    <3>1. Place(Opening(s + 1)') <= p
      BY <1>0, <2>0, <2>5 DEF Place
    <3>2. ~(s < v - 1)
      BY <1>0, <2>0, <2>5
    <3> QED BY <2>3, <2>5, <3>1, <3>2
  <2>6. CASE s < t /\ s = v
    <3>1. s + 1 \in Coarse /\ s + 1 \in Tables \ {v} /\ s + 1 # 1 /\ s + 1 - 1 = s
      <4>1. s + 1 \in Coarse
        BY <2>2, <2>6
      <4>2. s + 1 # v /\ s + 1 # 1 /\ s + 1 - 1 = s
        BY <1>0, <2>0, <2>6
      <4> QED BY <4>1, <4>2 DEF Tables
    <3>2. pc' # Filling(s + 1) /\ pc # Filling(s + 1)
      BY <1>0, <2>6, <3>1, Stages
    <3>3. Opening(s + 1)' = Start(s + 1)' /\ Opening(s + 1) = Start(s + 1) /\ PlacesOf(s + 1)' = PlacesOf(s + 1)
      BY <1>0, <3>1, <3>2 DEF Opening, Filling
    <3>4. StartsWell(s + 1)' /\ StartsWell(s + 1)
      BY <3>1, Starts, StartsNext
    <3>5. Place(Opening(s + 1)') <= p
      <4>1. CASE PlacesOf(s + 1) = {}
        BY <2>0, <3>1, <3>3, <3>4, <4>1 DEF StartsWell, Place
      <4>2. CASE PlacesOf(s + 1) # {}
        <5>1. Place(Start(s + 1)') = Max(PlacesOf(s + 1)) /\ Place(Start(s + 1)) = Max(PlacesOf(s + 1))
          BY <3>3, <3>4, <4>2 DEF StartsWell, Place
        <5> QED BY <2>2, <2>6, <3>3, <5>1 DEF Place
      <4> QED BY <4>1, <4>2
    <3>6. ~(s < v - 1)
      BY <1>0, <2>0, <2>6
    <3> QED BY <2>3, <2>6, <3>5, <3>6
  <2>7. CASE s < t /\ s + 1 # v /\ s # v
    <3>1. Opening(s + 1)' = Opening(s + 1)
      <4>1. s + 1 # v + 1
        BY <1>0, <2>0, <2>7
      <4> QED BY <1>2, <2>2, <2>7, <4>1
    <3>2. s < v - 1 => Young(t, x)'
      <4> SUFFICES ASSUME s < v - 1 PROVE Young(t, x)'
        OBVIOUS
      <4>1. Young(t, x) /\ v # 1
        BY <1>0, <2>0, <2>2, <2>7
      <4>2. CASE v <= t
        BY <4>1, <4>2, FillYoung
      <4>3. CASE ~(v <= t)
        <5>1. \A u \in 1..t : PlacesOf(u)' = PlacesOf(u)
          <6> SUFFICES ASSUME NEW u \in 1..t PROVE PlacesOf(u)' = PlacesOf(u)
            OBVIOUS
          <6>1. u \in Tables
            BY <1>0, Constants
          <6>2. u # v
            BY <1>0, <4>3
          <6> QED BY <1>0, <6>1, <6>2
        <5> QED BY <4>1, <5>1 DEF Young, Place
      <4> QED BY <4>2, <4>3
    <3> QED BY <2>2, <2>3, <2>7, <3>1, <3>2
  <2> QED BY <1>0, <2>0, <2>1, <2>4, <2>5, <2>6, <2>7
<1> QED BY <1>4, <1>5 DEF Over

\* There is always a row to carry on from: nothing is behind the present window, or a
\* row that is recent enough lies within a window that is still to be computed.
LEMMA CarriedStep ==
  ASSUME IInv, Clocks, Heard, Downhill, Opened, FirstWindow, NewestRecent, Carried, Lasting, IInv', Next
  PROVE  Carried'
<1> SUFFICES ASSUME NEW t \in Coarse PROVE Over(t, Truncate(now, Size[t]))'
  BY DEF Carried
<1> DEFINE Goal == Over(t, Truncate(now, Size[t]))'
<1>0. PICK x : x = Truncate(now, Size[t]) /\ Over(t, x)
  BY DEF Carried
<1>1. ASSUME now' = now, Over(t, x)' PROVE Goal
  <2>1. x = Truncate(now', Size[t])
    BY <1>0, <1>1
  <2> QED BY <1>1, <2>1
<1>2. ASSUME NEW h \in Hosts, NEW q \in Positions, Report(h, q) PROVE Goal
  BY <1>0, <1>1, <1>2, CarriedReport DEF Report
<1>3. ASSUME Fill PROVE Goal
  <2>1. PICK v \in Coarse : v = pc.t /\ now' = now
    BY <1>3, FillPlaces
  <2> QED BY <1>0, <1>1, <1>3, <2>1, CarriedFill
<1>4. ASSUME NEW keep \in Keeps, NEW n \in 0..Len(Size), Purge(keep, n) PROVE Goal
  <2>1. now' = now
    BY <1>4, PurgePlaces
  <2> QED BY <1>0, <1>1, <1>4, <2>1, CarriedPurge
<1>5. ASSUME Hourly \/ NextTable \/ FillFails \/ Stop \/ Boot PROVE Goal
  <2>1. now' = now
    BY <1>5, QuietOpenings
  <2> QED BY <1>0, <1>1, <1>5, <2>1, CarriedQuiet
<1>6. ASSUME Tick \/ TickDown PROVE Goal
  <2>1. PICK y : y = Truncate(now + 1, Size[t])
    OBVIOUS
  <2>2. Over(t, y)'
    BY <1>0, <1>6, <2>1, CarriedTick
  <2>3. y = Truncate(now', Size[t])
    BY <1>6, <2>1 DEF Tick, TickDown
  <2> QED BY <2>2, <2>3
<1> QED BY <1>2, <1>3, <1>4, <1>5, <1>6 DEF Next

-----------------------------------------------------------------------------
(* The runs. *)

\* At first nothing is stored.
LEMMA RetainedInit == Init => Retained
<1> SUFFICES ASSUME Init PROVE Retained
  OBVIOUS
<1>0. /\ now = 0 /\ pc = Idle /\ pc.at = "idle" /\ due = 0 /\ heard = 0 /\ down = 0 /\ faults = 0
      /\ {Hour, MaxSilence, MaxDown, MaxFaults} \subseteq Nat
      /\ \A t \in Tables : DOMAIN table[t] = {}
      /\ 0 \in Tables /\ \A t \in Coarse : t \in Tables /\ t - 1 \in Tables
  <2>1. \A t \in Tables : DOMAIN table[t] = {}
    BY DEF Init
  <2> QED BY <2>1, Constants, MoreConstants, Stages DEF Init, FirstWork
<1>1. \A t \in Tables : PlacesOf(t) = {}
  BY <1>0 DEF PlacesOf
<1>2. IInv
  BY InitInv
<1>3. Clocks
  BY <1>0, Stages DEF Clocks
<1>4. Heard /\ Downhill /\ Opened /\ FirstWindow
  BY <1>0, <1>1 DEF Heard, Downhill, Opened, FirstWindow
<1>5. Again /\ RolledUp
  BY <1>0 DEF Again, RolledUp
<1>6. NewestRecent /\ SourceRecent
  BY <1>0, <1>1 DEF NewestRecent, SourceRecent
<1>7. Carried
  <2> SUFFICES ASSUME NEW t \in Coarse PROVE Unseen(t, Truncate(now, Size[t]))
    BY DEF Carried, Over
  <2>1. 1..t \subseteq Tables
    BY Constants
  <2> QED BY <1>0, <1>1, <2>1 DEF Unseen, Young
<1> QED BY <1>2, <1>3, <1>4, <1>5, <1>6, <1>7 DEF Retained

\* A state that stays is as it was.
LEMMA RetainedStays == Retained /\ UNCHANGED vars => Retained'
<1> SUFFICES ASSUME Retained, UNCHANGED vars PROVE Retained'
  OBVIOUS
<1>1. /\ now' = now /\ table' = table /\ pc' = pc /\ win' = win /\ due' = due /\ heard' = heard /\ down' = down /\ faults' = faults
      /\ skipped' = skipped
  BY DEF vars
<1>2. \A t : PlacesOf(t)' = PlacesOf(t)
  BY <1>1 DEF PlacesOf
<1>3. \A t : Start(t)' = Start(t)
  BY <1>2 DEF Start
<1>4. \A t : Opening(t)' = Opening(t)
  BY <1>1, <1>3 DEF Opening, Filling
<1>5. Lag' = Lag /\ \A t : Low(t)' = Low(t) /\ Recent(t)' = Recent(t)
  BY <1>1 DEF Lag, Low, Recent, Passed
<1>6. IInv'
  BY StepInv DEF Retained
<1>7. Clocks' /\ Heard' /\ Downhill' /\ Opened'
  BY <1>1, <1>2, <1>3 DEF Retained, Clocks, Heard, Downhill, Opened, Time, Idle, Down
<1>8. FirstWindow'
  BY <1>1, <1>2, <1>3, <1>4 DEF Retained, FirstWindow, Fresh, Time, Place, Idle, Down, Filling
<1>9. Again'
  BY <1>1, <1>2 DEF Retained, Again, Place
<1>10. \A t, p : Done(t, p)' <=> Done(t, p)
  BY <1>1, <1>2 DEF Done, Place, Filling
<1>11. RolledUp'
  BY <1>1, <1>10 DEF Retained, RolledUp, Place
<1>12. NewestRecent' /\ SourceRecent'
  BY <1>2, <1>4, <1>5 DEF Retained, NewestRecent, SourceRecent, End, Time, Place
<1>13. Carried'
  <2>1. \A t, x : Young(t, x)' <=> Young(t, x)
    BY <1>2 DEF Young, Place
  <2>2. \A t, x : Unseen(t, x)' <=> Unseen(t, x)
    BY <1>2, <1>4, <2>1 DEF Unseen, Place
  <2>3. \A t, x, s, p : Carries(t, x, s, p)' <=> Carries(t, x, s, p)
    BY <1>1, <1>4, <1>5, <2>1 DEF Carries, Place, End, Time
  <2>4. \A t, x : Over(t, x)' <=> Over(t, x)
    BY <1>2, <2>2, <2>3 DEF Over
  <2> SUFFICES ASSUME NEW t \in Coarse PROVE Over(t, Truncate(now, Size[t]))'
    BY DEF Carried
  <2>5. PICK x : x = Truncate(now, Size[t]) /\ Over(t, x)
    BY DEF Retained, Carried
  <2>6. x = Truncate(now', Size[t])
    BY <1>1, <2>5
  <2> QED BY <2>4, <2>5, <2>6
<1> QED BY <1>6, <1>7, <1>8, <1>9, <1>11, <1>12, <1>13 DEF Retained

\* Under retentions that last, every step keeps what is retained.
LEMMA RetainedStep == Lasting /\ Retained /\ [Next]_vars => Retained'
<1> SUFFICES ASSUME Lasting, Retained, Next PROVE Retained'
  BY RetainedStays
<1>1. IInv /\ Clocks /\ Heard /\ Downhill /\ Opened /\ FirstWindow /\ Again /\ RolledUp
      /\ NewestRecent /\ SourceRecent /\ Carried
  BY DEF Retained
<1>2. IInv'
  BY <1>1, StepInv
<1>3. Clocks' /\ Heard' /\ Downhill' /\ Opened' /\ FirstWindow'
  BY <1>1, <1>2, ClocksStep, HeardStep, DownhillStep, OpenedStep, FirstWindowStep
<1>4. Again' /\ RolledUp'
  BY <1>1, <1>2, AgainStep, RolledUpStep
<1>5. NewestRecent' /\ SourceRecent' /\ Carried'
  BY <1>1, <1>2, NewestRecentStep, SourceRecentStep, CarriedStep
<1> QED BY <1>2, <1>3, <1>4, <1>5 DEF Retained

\* A row that stays loses nothing, and only a purge removes rows.
LEMMA RowsStayOrGrow ==
  ASSUME Retained, Next
  PROVE  /\ \A t \in Coarse : \A k \in DOMAIN table[t] \cap DOMAIN table'[t] : table[t][k] \subseteq table'[t][k]
         /\ (\A t \in Tables : DOMAIN table[t] \subseteq DOMAIN table'[t])
            \/ (\E keep \in Keeps, n \in 0..Len(Size) : Purge(keep, n))
<1>0. IInv /\ Clocks /\ Opened /\ Again /\ Coarse \subseteq Tables
  BY DEF Retained, Tables
<1>1. ASSUME NEW h \in Hosts, NEW q \in Positions, Report(h, q)
      PROVE  /\ \A t \in Coarse : table'[t] = table[t]
             /\ \A t \in Tables : DOMAIN table[t] \subseteq DOMAIN table'[t]
  BY <1>0, <1>1, ReportPlaces DEF Tables
<1>2. ASSUME Fill, NEW t \in Tables, NEW k \in DOMAIN table[t]
      PROVE  k \in DOMAIN table'[t] /\ table[t][k] \subseteq table'[t][k]
  BY <1>0, <1>2, FillGrows
<1>3. ASSUME NEW keep \in Keeps, NEW n \in 0..Len(Size), Purge(keep, n), NEW t \in Tables, NEW k \in DOMAIN table'[t]
      PROVE  table'[t][k] = table[t][k]
  BY <1>0, <1>3, PurgePlaces
<1>4. CASE \E h \in Hosts, q \in Positions : Report(h, q)
  BY <1>1, <1>4
<1>5. CASE Fill
  BY <1>0, <1>2, <1>5
<1>6. CASE \E keep \in Keeps, n \in 0..Len(Size) : Purge(keep, n)
  BY <1>0, <1>3, <1>6
<1>7. CASE table' = table
  BY <1>7
<1> QED BY <1>0, <1>4, <1>5, <1>6, <1>7, QuietSteps

\* When retentions last, a row is never computed again from fewer samples than before:
\* whatever fails, stops or comes late, the purge spares the rows that the newest windows
\* are made of (retention.go:34).
THEOREM RowsNeverShrinkIfLasting ==
  ASSUME Lasting PROVE Spec => RowsNeverShrink
<1>1. Init => Retained
  BY RetainedInit
<1>2. Retained /\ [Next]_vars => Retained'
  BY RetainedStep
<1>3. Retained /\ [Next]_vars =>
        [\A t \in Coarse : \A k \in DOMAIN table[t] \cap DOMAIN table'[t] :
          table[t][k] \subseteq table'[t][k]]_vars
  BY RowsStayOrGrow
<1> QED BY <1>1, <1>2, <1>3, PTL DEF Spec, RowsNeverShrink

\* What a purge removes is in the next table, or was late.
LEMMA PurgedRow ==
  ASSUME Lasting, Retained, NEW keep \in Keeps, NEW n \in 0..Len(Size), Purge(keep, n),
         NEW t \in Tables, NEW k \in DOMAIN table[t] \ DOMAIN table'[t]
  PROVE  table[t][k] \subseteq skipped \cup UNION {table[t + 1][l] : l \in DOMAIN table[t + 1]}
<1> DEFINE u == t + 1
           p == k[2]
<1>0. /\ IInv /\ Clocks /\ FirstWindow /\ RolledUp /\ NewestRecent /\ SourceRecent
      /\ pc = Purging /\ pc \notin {Idle, Down} /\ \A v : pc # Filling(v)
      /\ u \in Coarse /\ u \in Tables /\ u - 1 = t /\ p \in PlacesOf(t) /\ p \in Nat /\ p < Place(now - keep[u])
      /\ now \in Nat /\ Size[u] \in Nat \ {0} /\ Lag \in Nat
      /\ End(t, p) \in Int /\ End(t, p) < Recent(u) /\ Recent(u) \in Int /\ Recent(u) + Lag <= now
  <2>1. /\ IInv /\ Clocks /\ FirstWindow /\ RolledUp /\ NewestRecent /\ SourceRecent /\ now \in Nat
    BY DEF Retained, IInv
  <2>2. pc = Purging /\ u \in Coarse /\ p < Place(now - keep[u])
    BY <2>1, PurgePlaces
  <2>3. p \in PlacesOf(t)
    BY DEF PlacesOf
  <2>4. p \in Nat
    BY <2>1, <2>3, PlacesAre
  <2>5. u - 1 = t /\ Size[u] \in Nat \ {0}
    BY <2>2, Constants
  <2> HIDE DEF p
  <2>6. End(t, p) < Recent(u)
    BY <2>1, <2>2, <2>3, PurgeSpares
  <2>7. End(t, p) \in Int
    BY <2>4, LaterEnds
  <2>8. Recent(u) \in Int /\ Recent(u) + Lag <= now
    BY <2>1, <2>2, LowIsPast
  <2> QED BY <2>1, <2>2, <2>3, <2>4, <2>5, <2>6, <2>7, <2>8, Stages, LagIs DEF Tables
<1>1. CASE PlacesOf(u) # {}
  <2>1. Max(PlacesOf(u)) \in PlacesOf(u) /\ End(u, Max(PlacesOf(u))) >= Recent(u)
    BY <1>0, <1>1, NewestIs DEF NewestWell, NewestRecent
  <2>2. PICK w \in Nat : Max(PlacesOf(u)) = 2 * w /\ Max(PlacesOf(u)) \div 2 = w
    BY <1>0, <2>1, PlacesAre
  <2>3. End(u, Max(PlacesOf(u))) = w + Size[u]
    <3>1. u # 0
      BY <1>0, Constants
    <3> QED BY <2>2, <3>1 DEF End
  <2>4. keep[u] \in Nat /\ now - keep[u] <= Recent(u) - Size[u]
    BY <1>0, Lasts
  <2>5. now - keep[u] <= w
    <3>1. PICK r \in Int, z \in Nat, b \in Int : r = Recent(u) /\ z = Size[u] /\ b = now - keep[u]
      BY <1>0, <2>4
    <3>2. w + z >= r /\ b <= r - z
      BY <2>1, <2>3, <2>4, <3>1
    <3>3. b <= w
      BY <3>2
    <3> QED BY <3>1, <3>3
  <2>6. p < Max(PlacesOf(u))
    <3>1. PICK b \in Int : b = now - keep[u]
      BY <1>0, <2>4
    <3>2. PICK i \in Nat : i = p
      BY <1>0
    <3>3. i < 2 * b /\ b <= w
      BY <1>0, <2>5, <3>1, <3>2 DEF Place
    <3>4. i < 2 * w
      BY <3>3
    <3> QED BY <2>2, <3>2, <3>4
  <2>7. Done(u, p)
    BY <1>0, <1>1, <2>6 DEF Done
  <2>8. k \in DOMAIN table[u - 1] /\ table[u - 1][k] = table[t][k]
    BY <1>0
  <2> SUFFICES ASSUME NEW s \in table[t][k] \ skipped PROVE \E l \in DOMAIN table[u] : s \in table[u][l]
    OBVIOUS
  <2> QED BY <1>0, <2>7, <2>8 DEF RolledUp
<1>2. CASE PlacesOf(u) = {}
  <2>1. u = 1 /\ p < Place(Opening(1))
    <3>1. p \in PlacesOf(u - 1) /\ End(u - 1, p) = End(t, p)
      BY <1>0
    <3>2. End(u - 1, p) >= Recent(u) \/ (u = 1 /\ p < Place(Opening(1)))
      BY <1>0, <1>2, <3>1 DEF SourceRecent
    <3> QED BY <1>0, <3>1, <3>2
  <2>2. t = 0
    BY <1>0, <2>1
  <2>3. Fresh(p) \/ table[0][k] \subseteq skipped
    BY <1>0, <1>2, <2>1, <2>2 DEF FirstWindow
  <2>4. ~Fresh(p)
    <3>1. End(t, p) = Time(p)
      BY <2>2 DEF End
    <3>2. Fresh(p) => Time(p) >= now - Lag
      BY <1>0, LagCovers
    <3> QED BY <1>0, <3>1, <3>2
  <2> QED BY <2>2, <2>3, <2>4
<1> QED BY <1>1, <1>2

\* When retentions last, no sample is purged that the next table does not hold, but for
\* those that came after their window had been passed: whatever fails and whenever the
\* hub stops, Purge never overtakes Aggregate (retention.go:45).
THEOREM PurgedIsRolledUpIfLasting ==
  ASSUME Lasting PROVE Spec => PurgedIsRolledUp
<1>1. Init => Retained
  BY RetainedInit
<1>2. Retained /\ [Next]_vars => Retained'
  BY RetainedStep
<1>3. Retained /\ [Next]_vars =>
        [\A t \in Tables \ {Len(Size)} : \A k \in DOMAIN table[t] \ DOMAIN table'[t] :
          table[t][k] \subseteq skipped \cup UNION {table[t + 1][l] : l \in DOMAIN table[t + 1]}]_vars
  BY RowsStayOrGrow, PurgedRow
<1> QED BY <1>1, <1>2, <1>3, PTL DEF Spec, PurgedIsRolledUp
=============================================================================

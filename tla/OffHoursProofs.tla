---------------------------- MODULE OffHoursProofs ----------------------------
(***************************************************************************)
(* Proofs about OffHours: the resource is off when its windows say so, and *)
(* the hub acts on its turns and on nothing else.                          *)
(*                                                                         *)
(* clock gives the first instant that shows a time (ClockIsFirst).  Four   *)
(* days of windows hold every window that is open (SeenIsOff), and merging *)
(* them changes nothing (MergedCovers).  The last boundary is the last     *)
(* turn of what the four days hold (LastBoundaryIs), and no more than what *)
(* is LongOff turns otherwise than the windows do (BoundaryIsMeant).       *)
(***************************************************************************)
EXTENDS OffHours, WellFoundedInduction, TLAPS

\* A zone with one change of its offset.
Zone == [before : Int, after : Int, at : Int]

\* A nonempty set of integers above a bound has a least element.
LEMMA MinIsLeast ==
  ASSUME NEW lo \in Int, NEW S, S # {}, \A x \in S : x \in Int /\ lo <= x
  PROVE  Min(S) \in S /\ \A x \in S : Min(S) <= x
<1> DEFINE Less == OpToRel(<, Nat)
           Lifted == {x - lo : x \in S}
<1>1. PICK m \in Lifted : \A y \in Lifted : ~(<<y, m>> \in Less)
  <2> HIDE DEF Less
  <2>1. IsWellFoundedOn(Less, Nat)
    BY NatLessThanWellFounded, Zenon DEF Less
  <2>2. Lifted \subseteq Nat /\ Lifted # {}
    OBVIOUS
  <2> HIDE DEF Lifted
  <2> QED BY <2>1, <2>2, WFMin, Zenon
<1>2. PICK l \in S : m = l - lo
  OBVIOUS
<1>3. \A x \in S : l <= x
  <2> SUFFICES ASSUME NEW x \in S, x < l PROVE FALSE
    OBVIOUS
  <2>1. x - lo \in Nat /\ m \in Nat /\ x - lo < m /\ x - lo \in Lifted
    BY <1>2
  <2>2. <<x - lo, m>> \in Less
    BY <2>1 DEF OpToRel
  <2> QED BY <1>1, <2>1, <2>2
<1> QED BY <1>3 DEF Min

\* A nonempty set of integers below a bound has a greatest element.
LEMMA MaxIsGreatest ==
  ASSUME NEW hi \in Int, NEW S, S # {}, \A x \in S : x \in Int /\ x <= hi
  PROVE  Max(S) \in S /\ \A x \in S : x <= Max(S)
<1> DEFINE Mirror == {0 - x : x \in S}
<1>1. Min(Mirror) \in Mirror /\ \A y \in Mirror : Min(Mirror) <= y
  <2>1. 0 - hi \in Int /\ Mirror # {} /\ \A y \in Mirror : y \in Int /\ 0 - hi <= y
    OBVIOUS
  <2> HIDE DEF Mirror
  <2> QED BY <2>1, MinIsLeast
<1>2. PICK g \in S : Min(Mirror) = 0 - g
  BY <1>1
<1>3. \A y \in S : y <= g
  <2> SUFFICES ASSUME NEW y \in S PROVE y <= g
    OBVIOUS
  <2>1. 0 - y \in Mirror
    OBVIOUS
  <2>2. g \in Int /\ y \in Int /\ 0 - g <= 0 - y
    BY <1>1, <1>2, <2>1
  <2> QED BY <2>2
<1> QED BY <1>3 DEF Max

\* Min names the element that is least.
LEMMA MinIs ==
  ASSUME NEW S, NEW v \in S, \A x \in S : x \in Int /\ v <= x
  PROVE  Min(S) = v
<1>1. Min(S) \in S /\ \A x \in S : Min(S) <= x
  BY DEF Min
<1> QED BY <1>1

\* Division and remainder.
LEMMA Division ==
  ASSUME NEW D \in Int, D > 0, NEW n \in Int
  PROVE  /\ n \div D \in Int /\ n % D \in 0..(D - 1)
         /\ n = (n \div D) * D + (n % D)
OBVIOUS

\* Multiples of D are D apart.
LEMMA Multiple ==
  ASSUME NEW D \in Int, D > 0, NEW k \in Int, NEW j \in Int, k < j
  PROVE  k * D + D <= j * D
<1>1. (j - k - 1) * D >= 0
  OBVIOUS
<1> QED BY <1>1

\* What a multiple of D and a remainder are made of.
LEMMA Quotient ==
  ASSUME NEW D \in Int, D > 0, NEW q \in Int, NEW r \in 0..(D - 1)
  PROVE  (q * D + r) \div D = q /\ (q * D + r) % D = r
<1> DEFINE n == q * D + r
           k == n \div D
<1>1. n \in Int
  OBVIOUS
<1>2. k \in Int /\ n % D \in 0..(D - 1) /\ n = k * D + (n % D)
  BY <1>1, Division
<1>3. ~(k < q)
  <2> SUFFICES ASSUME k < q PROVE FALSE
    OBVIOUS
  <2>1. k * D + D <= q * D
    BY <1>2, Multiple
  <2> QED BY <2>1, <1>2
<1>4. ~(q < k)
  <2> SUFFICES ASSUME q < k PROVE FALSE
    OBVIOUS
  <2>1. q * D + D <= k * D
    BY <1>2, Multiple
  <2> QED BY <2>1, <1>2
<1>5. k = q
  BY <1>2, <1>3, <1>4
<1> QED BY <1>2, <1>5

\* The numbers everything is counted in.
LEMMA DayIsPositive ==
  /\ Day \in Int /\ Day > 0 /\ MinutesPerHour \in Int /\ MinutesPerHour > 0 /\ HoursPerDay \in Int
  /\ Lookback \in Int /\ Lookback >= 0
BY OffHoursAssumption DEF Day

\* A wall-clock time of a day: its day and its minute.
LEMMA WallParts ==
  ASSUME NEW d \in Int, NEW mins \in 0..(Day - 1)
  PROVE  (d * Day + mins) \div Day = d /\ (d * Day + mins) % Day = mins
<1> HIDE DEF Day
<1> QED BY DayIsPositive, Quotient

\* No midnight is skipped or repeated.
LEMMA MidnightIsPlain ==
  ASSUME NEW z \in Zone, OnTheHour(z), NEW d \in Int
  PROVE  /\ ~(z.at + z.before <= d * Day /\ d * Day < z.at + z.after)
         /\ ~(z.at + z.after <= d * Day /\ d * Day < z.at + z.before)
<1>1. d * Day \in Int /\ (d * Day) % Day = 0
  <2> HIDE DEF Day
  <2>1. 0 \in 0..(Day - 1) /\ d * Day \in Int /\ d * Day + 0 = d * Day
    BY DayIsPositive
  <2>2. (d * Day + 0) % Day = 0
    BY <2>1, WallParts
  <2> QED BY <2>1, <2>2
<1> QED BY <1>1 DEF OnTheHour, Zone

\* A change of the clock is shorter than a day.
LEMMA JumpIsShort ==
  ASSUME NEW z \in Zone, OnTheHour(z)
  PROVE  z.after - z.before < Day /\ z.before - z.after < Day
<1> HIDE DEF Day
<1>1. ASSUME NEW lo \in Int, NEW hi \in Int, hi - lo >= Day
      PROVE  \E d \in Int : lo <= d * Day /\ d * Day < hi
  <2> DEFINE n == lo + Day - 1
             d == n \div Day
  <2>1. n \in Int /\ d \in Int /\ n % Day \in 0..(Day - 1) /\ n = d * Day + (n % Day)
    BY DayIsPositive, Division
  <2>2. d * Day \in Int
    BY <2>1, DayIsPositive
  <2>3. lo <= d * Day /\ d * Day < hi
    BY <2>1, <2>2, <1>1, DayIsPositive
  <2> QED BY <2>1, <2>3
<1>2. z.at + z.before \in Int /\ z.at + z.after \in Int /\ z.at \in Int /\ z.before \in Int /\ z.after \in Int
  BY DEF Zone
<1>3. ~(z.after - z.before >= Day)
  <2> SUFFICES ASSUME z.after - z.before >= Day PROVE FALSE
    OBVIOUS
  <2>1. (z.at + z.after) - (z.at + z.before) >= Day
    BY <1>2, DayIsPositive
  <2>2. PICK d \in Int : z.at + z.before <= d * Day /\ d * Day < z.at + z.after
    BY <1>1, <1>2, <2>1
  <2> QED BY <2>2, MidnightIsPlain
<1>4. ~(z.before - z.after >= Day)
  <2> SUFFICES ASSUME z.before - z.after >= Day PROVE FALSE
    OBVIOUS
  <2>1. (z.at + z.before) - (z.at + z.after) >= Day
    BY <1>2, DayIsPositive
  <2>2. PICK d \in Int : z.at + z.after <= d * Day /\ d * Day < z.at + z.before
    BY <1>1, <1>2, <2>1
  <2> QED BY <2>2, MidnightIsPlain
<1> QED BY <1>2, <1>3, <1>4, DayIsPositive

\* The first instant that shows a time, case by case.
LEMMA FirstIs ==
  ASSUME NEW z \in Zone, NEW wall \in Int
  PROVE  First(z, wall) = IF wall - z.before < z.at THEN wall - z.before
                          ELSE IF wall - z.after >= z.at THEN wall - z.after ELSE z.at
<1> DEFINE S == {u \in {wall - z.before, wall - z.after, z.at} : Wall(z, u) >= wall}
           v == IF wall - z.before < z.at THEN wall - z.before
                ELSE IF wall - z.after >= z.at THEN wall - z.after ELSE z.at
<1>1. z.at \in Int /\ z.before \in Int /\ z.after \in Int
  BY DEF Zone
<1>2. v \in S
  BY <1>1 DEF Wall, Offset
<1>3. \A x \in S : x \in Int /\ v <= x
  BY <1>1 DEF Wall, Offset
<1>4. Min(S) = v
  <2> HIDE DEF S, v
  <2> QED BY <1>2, <1>3, MinIs
<1> QED BY <1>4 DEF First

\* Later times are first shown later.
LEMMA FirstRises ==
  ASSUME NEW z \in Zone, NEW w1 \in Int, NEW w2 \in Int, w1 <= w2
  PROVE  First(z, w1) \in Int /\ First(z, w2) \in Int /\ First(z, w1) <= First(z, w2)
<1>1. z.at \in Int /\ z.before \in Int /\ z.after \in Int
  BY DEF Zone
<1> QED BY <1>1, FirstIs

\* What time.Date gives for a time that is not skipped.
LEMMA TimeDateShows ==
  ASSUME NEW z \in Zone, NEW w \in Int, ~(z.at + z.before <= w /\ w < z.at + z.after)
  PROVE  /\ TimeDate(z, w) \in Int
         /\ Wall(z, TimeDate(z, w)) = w
<1>1. z.at \in Int /\ z.before \in Int /\ z.after \in Int
  BY DEF Zone
<1> QED BY <1>1 DEF TimeDate, Wall, Offset

\* ... and for a time that is.
LEMMA TimeDateMisses ==
  ASSUME NEW z \in Zone, NEW w \in Int, z.at + z.before <= w, w < z.at + z.after
  PROVE  /\ TimeDate(z, w) \in Int
         /\ \/ Wall(z, TimeDate(z, w)) = w + (z.after - z.before)
            \/ Wall(z, TimeDate(z, w)) = w - (z.after - z.before)
<1>1. z.at \in Int /\ z.before \in Int /\ z.after \in Int
  BY DEF Zone
<1> QED BY <1>1 DEF TimeDate, Wall, Offset

\* The hour that follows a minute that is skipped begins where the gap ends.
LEMMA NextHour ==
  ASSUME NEW A \in Int, A % MinutesPerHour = 0, NEW d \in Int, NEW mins \in Int,
         A - MinutesPerHour <= d * Day + mins, d * Day + mins < A
  PROVE  d * Day + ((mins \div MinutesPerHour) + 1) * MinutesPerHour = A
<1> DEFINE M == MinutesPerHour
           a == A \div M
           q == mins \div M
           r == mins % M
           h == d * HoursPerDay
           wall == d * Day + mins
<1>1. M \in Int /\ M > 0 /\ a \in Int /\ A = a * M /\ q \in Int /\ r \in 0..(M - 1) /\ mins = q * M + r
      /\ h \in Int /\ wall \in Int
  BY DayIsPositive, Division
<1>2. d * Day = h * M
  BY DayIsPositive DEF Day
<1>3. wall = (h + q) * M + r
  BY <1>1, <1>2
<1>4. wall = (a - 1) * M + (wall - (A - M)) /\ wall - (A - M) \in 0..(M - 1)
  BY <1>1
<1>5. wall \div M = h + q
  <2> HIDE DEF M, wall, h, q, r
  <2> QED BY <1>1, <1>3, Quotient
<1>6. wall \div M = a - 1
  <2> HIDE DEF M, wall, a
  <2>1. a - 1 \in Int
    BY <1>1
  <2> QED BY <1>1, <1>4, <2>1, Quotient
<1>7. h + q = a - 1
  BY <1>5, <1>6
<1>8. d * Day + (q + 1) * M = (h + q + 1) * M
  BY <1>1, <1>2
<1>9. (h + q + 1) * M = a * M
  BY <1>1, <1>7
<1> QED BY <1>1, <1>8, <1>9

\* A clock that is off by less than a day shows another minute of the day.
LEMMA OtherMinute ==
  ASSUME NEW d \in Int, NEW mins \in Int, NEW j \in Int, j # 0, -Day < j, j < Day
  PROVE  (d * Day + mins + j) % Day # mins
<1> HIDE DEF Day
<1>1. Day \in Int /\ Day > 0 /\ d * Day \in Int
  BY DayIsPositive
<1> DEFINE n == d * Day + mins + j
           k == n \div Day
<1> SUFFICES ASSUME n % Day = mins PROVE FALSE
  OBVIOUS
<1>2. n \in Int /\ k \in Int /\ n = k * Day + mins /\ k * Day \in Int
  BY <1>1, Division
<1>3. k * Day = d * Day + j
  BY <1>1, <1>2
<1>4. k < d => k * Day + Day <= d * Day
  BY <1>1, <1>2, Multiple
<1>5. d < k => d * Day + Day <= k * Day
  BY <1>1, <1>2, Multiple
<1>6. k = d => k * Day = d * Day
  OBVIOUS
<1> HIDE DEF k, n
<1> QED BY <1>1, <1>2, <1>3, <1>4, <1>5, <1>6

\* clock gives the first instant at which the wall clock shows the time or a
\* later one (schedule.go:152).
LEMMA ClockIsFirst ==
  ASSUME NEW z \in Zone, OnTheHour(z), NEW d \in Int, NEW mins \in 0..Day
  PROVE  Clock(z, d, mins) = First(z, d * Day + mins)
<1> DEFINE wall == d * Day + mins
           A == z.at + z.after
           B == z.at + z.before
           t == TimeDate(z, wall)
<1> HIDE DEF Day
<1>1. z.at \in Int /\ z.before \in Int /\ z.after \in Int /\ A \in Int /\ B \in Int /\ Lookback \in Int /\ Lookback >= 0
  BY DayIsPositive DEF Zone
<1>2. Day \in Int /\ Day > 0 /\ mins \in Int /\ d * Day \in Int /\ wall \in Int
  BY DayIsPositive
<1>6. z.after - z.before < Day /\ z.before - z.after < Day /\ z.before - z.after <= Lookback
  BY JumpIsShort DEF OnTheHour
<1>3. ASSUME NEW w \in Int, ~(B <= w /\ w < A), ~(A <= w /\ w < B)
      PROVE  TimeDate(z, w) = First(z, w)
  BY <1>1, <1>3, FirstIs DEF TimeDate, Offset
<1>4. CASE mins = Day
  <2>1. (d + 1) * Day = wall
    BY <1>2, <1>4
  <2>2. ~(B <= wall /\ wall < A) /\ ~(A <= wall /\ wall < B)
    BY <2>1, MidnightIsPlain
  <2>3. TimeDate(z, wall) = First(z, wall)
    BY <1>2, <1>3, <2>2
  <2> HIDE DEF wall
  <2> QED BY <1>2, <1>4, <2>1, <2>3 DEF Clock, wall
<1>5. CASE mins < Day
  <2>1. mins \in 0..(Day - 1) /\ wall % Day = mins /\ ~(mins >= Day)
    BY <1>2, <1>5, WallParts
  <2>2. CASE B <= wall /\ wall < A
    <3>1. t \in Int /\ (Wall(z, t) = wall + (z.after - z.before) \/ Wall(z, t) = wall - (z.after - z.before))
      BY <1>1, <1>2, <2>2, TimeDateMisses
    <3>2. z.after > z.before /\ z.after - z.before < Day
      BY <1>1, <1>2, <2>2, <1>6
    <3>3. PICK j \in {z.after - z.before, -(z.after - z.before)} : Wall(z, t) = wall + j
      BY <1>1, <1>2, <3>1
    <3>4. Wall(z, t) % Day # mins
      <4>1. j \in Int /\ j # 0 /\ -Day < j /\ j < Day
        BY <1>1, <1>2, <3>2
      <4> QED BY <1>2, <3>3, <4>1, OtherMinute
    <3>5. A % MinutesPerHour = 0 /\ A - MinutesPerHour <= wall
      BY <1>1, <1>2, <2>2, <3>2, DayIsPositive DEF OnTheHour
    <3>6. d * Day + ((mins \div MinutesPerHour) + 1) * MinutesPerHour = A
      BY <1>1, <1>2, <2>2, <3>5, NextHour
    <3>7. Clock(z, d, mins) = TimeDate(z, A)
      <4> HIDE DEF A
      <4> QED BY <2>1, <3>4, <3>6 DEF Clock
    <3>8. TimeDate(z, A) = z.at
      BY <1>1, <2>2, <3>2 DEF TimeDate, Offset
    <3>9. First(z, wall) = z.at
      BY <1>1, <1>2, <2>2, FirstIs
    <3> QED BY <3>7, <3>8, <3>9
  <2>3. CASE ~(B <= wall /\ wall < A)
    <3> DEFINE delta == Offset(z, t - Lookback) - Offset(z, t)
    <3>1. t \in Int /\ Wall(z, t) = wall
      BY <1>2, <2>3, TimeDateShows
    <3>2. Clock(z, d, mins) = IF delta > 0 /\ Wall(z, t - delta) % Day = mins THEN t - delta ELSE t
      <4> HIDE DEF delta
      <4> QED BY <2>1, <3>1 DEF Clock, delta
    <3>3. delta \in Int /\ (delta > 0 => delta = z.before - z.after /\ delta < Day /\ delta <= Lookback
                                          /\ t >= z.at /\ t - Lookback < z.at)
      BY <1>1, <1>2, <3>1, <1>6 DEF Offset
    <3>4. CASE delta > 0 /\ t - delta < z.at
      <4>1. Wall(z, t - delta) = wall
        BY <1>1, <3>1, <3>3, <3>4 DEF Wall, Offset
      <4>2. First(z, wall) = t - delta
        BY <1>1, <1>2, <3>1, <3>3, <3>4, FirstIs DEF Wall, Offset
      <4> HIDE DEF t, delta
      <4> QED BY <2>1, <3>2, <3>4, <4>1, <4>2
    <3>5. CASE delta > 0 /\ ~(t - delta < z.at)
      <4>1. Wall(z, t - delta) = wall + (-delta)
        BY <1>1, <3>1, <3>3, <3>5 DEF Wall, Offset
      <4>2. Wall(z, t - delta) % Day # mins
        <5>1. -delta \in Int /\ -delta # 0 /\ -Day < -delta /\ -delta < Day
          BY <1>2, <3>3, <3>5
        <5> HIDE DEF delta
        <5> QED BY <1>2, <4>1, <5>1, OtherMinute
      <4>3. First(z, wall) = t
        BY <1>1, <1>2, <3>1, <3>3, <3>5, FirstIs DEF Wall, Offset
      <4> HIDE DEF t, delta
      <4> QED BY <3>2, <4>2, <4>3
    <3>6. CASE ~(delta > 0)
      <4>1. First(z, wall) = t
        BY <1>1, <1>2, <3>1, <3>6, FirstIs DEF Wall, Offset, OnTheHour
      <4> HIDE DEF t, delta
      <4> QED BY <3>2, <3>6, <4>1
    <3> QED BY <3>4, <3>5, <3>6
  <2> QED BY <2>2, <2>3
<1> QED BY <1>2, <1>4, <1>5

-----------------------------------------------------------------------------
(* Intervals. *)

\* Where merged intervals begin and end.
Begins(ivs) == {iv.start : iv \in {i \in ivs : ~\E j \in ivs : j.start < i.start /\ i.start <= j.end}}
Ends(ivs) == {iv.end : iv \in {i \in ivs : ~\E j \in ivs : j.start <= i.end /\ i.end < j.end}}

\* merge in these words.
LEMMA MergedIs ==
  ASSUME NEW ivs
  PROVE  Merged(ivs) = {[start |-> s, end |-> Min({e \in Ends(ivs) : e >= s})] : s \in Begins(ivs)}
BY DEF Merged, Begins, Ends

\* merge neither loses an instant nor adds one.
LEMMA MergedCovers ==
  ASSUME NEW lo \in Int, NEW hi \in Int, NEW ivs,
         \A iv \in ivs : iv.start \in lo..hi /\ iv.end \in lo..hi /\ iv.start <= iv.end,
         NEW t \in Int
  PROVE  (\E iv \in Merged(ivs) : iv.start <= t /\ t < iv.end)
           <=> (\E iv \in ivs : iv.start <= t /\ t < iv.end)
<1> DEFINE Until(s) == {e \in Ends(ivs) : e >= s}
<1>1. Begins(ivs) \subseteq lo..hi /\ Ends(ivs) \subseteq lo..hi
  BY DEF Begins, Ends
<1>2. (\E iv \in Merged(ivs) : iv.start <= t /\ t < iv.end)
        <=> (\E s \in Begins(ivs) : s <= t /\ t < Min(Until(s)))
  <2> HIDE DEF Until
  <2>1. Merged(ivs) = {[start |-> s, end |-> Min(Until(s))] : s \in Begins(ivs)}
    BY MergedIs DEF Until
  <2>2. \A s : /\ [start |-> s, end |-> Min(Until(s))].start = s
               /\ [start |-> s, end |-> Min(Until(s))].end = Min(Until(s))
    OBVIOUS
  <2> QED BY <2>1, <2>2, Zenon
<1>3. \A s \in lo..hi : Until(s) # {} => Min(Until(s)) \in Until(s) /\ \A e \in Until(s) : Min(Until(s)) <= e
  <2> SUFFICES ASSUME NEW s \in lo..hi, Until(s) # {}
               PROVE  Min(Until(s)) \in Until(s) /\ \A e \in Until(s) : Min(Until(s)) <= e
    OBVIOUS
  <2>1. \A x \in Until(s) : x \in Int /\ lo <= x
    BY <1>1
  <2> HIDE DEF Until
  <2> QED BY <2>1, MinIsLeast
<1>4. ASSUME NEW iv \in ivs, iv.start <= t, t < iv.end
      PROVE  \E s \in Begins(ivs) : s <= t /\ t < Min(Until(s))
  <2> DEFINE All == {j.start : j \in ivs}
             Past == {b \in Begins(ivs) : b <= t}
             Late == {j.end : j \in ivs}
  <2>1. Min(All) \in All /\ \A x \in All : Min(All) <= x
    <3>1. All # {} /\ \A x \in All : x \in Int /\ lo <= x
      BY <1>4
    <3> HIDE DEF All
    <3> QED BY <3>1, MinIsLeast
  <2>2. Min(All) \in Past
    <3>1. PICK i \in ivs : Min(All) = i.start
      BY <2>1
    <3>2. \A j \in ivs : i.start <= j.start
      BY <2>1, <3>1
    <3>3. i.start \in Begins(ivs)
      BY <3>2 DEF Begins
    <3>4. i.start <= t
      BY <1>4, <3>2
    <3> QED BY <3>1, <3>3, <3>4
  <2>3. Max(Past) \in Past /\ \A x \in Past : x <= Max(Past)
    <3>1. \A x \in Past : x \in Int /\ x <= hi
      BY <1>1
    <3> HIDE DEF Past, All
    <3> QED BY <2>2, <3>1, MaxIsGreatest
  <2>4. PICK s \in Past : \A x \in Past : x <= s
    BY <2>3
  <2>5. Max(Late) \in Late /\ \A x \in Late : x <= Max(Late)
    <3>1. Late # {} /\ \A x \in Late : x \in Int /\ x <= hi
      BY <1>4
    <3> HIDE DEF Late
    <3> QED BY <3>1, MaxIsGreatest
  <2>6. Until(s) # {}
    <3>1. PICK i \in ivs : Max(Late) = i.end
      BY <2>5
    <3>2. \A j \in ivs : j.end <= i.end
      BY <2>5, <3>1
    <3>3. i.end \in Ends(ivs)
      BY <3>2 DEF Ends
    <3>4. i.end >= s
      BY <1>1, <1>4, <2>4, <3>2
    <3> QED BY <3>3, <3>4
  <2>7. PICK e \in Until(s) : e = Min(Until(s))
    BY <1>1, <1>3, <2>4, <2>6
  <2>8. ~(e <= t)
    <3> SUFFICES ASSUME e <= t PROVE FALSE
      OBVIOUS
    <3>1. PICK i \in ivs : i.end = e /\ \A j \in ivs : ~(j.start <= e /\ e < j.end)
      BY DEF Ends
    <3> DEFINE Mid == {j.start : j \in {k \in ivs : e < k.start /\ k.start <= t}}
    <3>2. iv.start \in Mid
      BY <1>4, <3>1
    <3>3. Min(Mid) \in Mid /\ \A x \in Mid : Min(Mid) <= x
      <4>1. Mid # {} /\ \A x \in Mid : x \in Int /\ lo <= x
        BY <3>2
      <4> HIDE DEF Mid
      <4> QED BY <4>1, MinIsLeast
    <3>4. PICK m \in ivs : e < m.start /\ m.start <= t /\ Min(Mid) = m.start
      BY <3>3
    <3>5. \A j \in ivs : ~(j.start < m.start /\ m.start <= j.end)
      <4> SUFFICES ASSUME NEW j \in ivs, j.start < m.start, m.start <= j.end PROVE FALSE
        OBVIOUS
      <4>1. j.start \in Int /\ m.start \in Int /\ j.end \in Int /\ e \in Int
        BY <1>1
      <4>2. ~(e < j.start)
        <5> SUFFICES ASSUME e < j.start PROVE FALSE
          OBVIOUS
        <5>1. j.start \in Mid
          BY <3>4, <4>1
        <5>2. m.start <= j.start
          BY <3>3, <3>4, <5>1
        <5> QED BY <4>1, <5>2
      <4> QED BY <3>1, <3>4, <4>1, <4>2
    <3>6. m.start \in Past
      BY <3>4, <3>5 DEF Begins
    <3>7. m.start <= s /\ e >= s /\ s \in Int /\ e \in Int /\ m.start \in Int
      BY <1>1, <2>4, <3>6
    <3> QED BY <3>4, <3>7
  <2>9. s \in Begins(ivs) /\ s <= t /\ e \in Int /\ t < e
    BY <1>1, <2>4, <2>7, <2>8
  <2> HIDE DEF Until
  <2> QED BY <2>7, <2>9
<1>5. ASSUME NEW s \in Begins(ivs), s <= t, t < Min(Until(s)), \A iv \in ivs : ~(iv.start <= t /\ t < iv.end)
      PROVE  FALSE
  <2> DEFINE Over == {j.end : j \in {k \in ivs : k.start <= t}}
  <2>1. PICK i \in ivs : i.start = s
    BY DEF Begins
  <2>2. i.end \in Over
    BY <1>5, <2>1
  <2>3. Max(Over) \in Over /\ \A x \in Over : x <= Max(Over)
    <3>1. Over # {} /\ \A x \in Over : x \in Int /\ x <= hi
      BY <2>2
    <3> HIDE DEF Over
    <3> QED BY <3>1, MaxIsGreatest
  <2>4. PICK j \in ivs : j.start <= t /\ Max(Over) = j.end
    BY <2>3
  <2>5. \A k \in ivs : k.start <= t => k.end <= j.end
    BY <2>3, <2>4
  <2>6. j.end <= t /\ j.end \in Int
    BY <1>5, <2>4
  <2>7. \A k \in ivs : ~(k.start <= j.end /\ j.end < k.end)
    BY <2>5, <2>6
  <2>8. j.end \in Ends(ivs)
    BY <2>7 DEF Ends
  <2>9. j.end >= s
    BY <1>5, <2>1, <2>5
  <2>10. j.end \in Until(s) /\ s \in lo..hi
    BY <1>1, <2>8, <2>9
  <2>11. Min(Until(s)) \in Int /\ Min(Until(s)) <= j.end
    BY <1>1, <1>3, <2>10
  <2> HIDE DEF Until
  <2> QED BY <1>5, <2>6, <2>11
<1> QED BY <1>2, <1>4, <1>5

-----------------------------------------------------------------------------
(* Days. *)

\* An instant is of day d or a later one as soon as the clock shows its midnight.
LEMMA DayShown ==
  ASSUME NEW z \in Zone, NEW t \in Int, NEW d \in Int
  PROVE  DayOf(z, t) \in Int /\ (d <= DayOf(z, t) <=> d * Day <= Wall(z, t))
<1> HIDE DEF Day
<1> DEFINE w == Wall(z, t)
           k == w \div Day
<1>1. w \in Int
  BY DEF Wall, Offset, Zone
<1>2. Day \in Int /\ Day > 0 /\ d * Day \in Int
  BY DayIsPositive
<1> HIDE DEF w
<1>3. k \in Int /\ w % Day \in 0..(Day - 1) /\ w = k * Day + (w % Day) /\ k * Day \in Int
  BY <1>1, <1>2, Division
<1>4. d < k => d * Day + Day <= k * Day
  BY <1>2, <1>3, Multiple
<1>5. k < d => k * Day + Day <= d * Day
  BY <1>2, <1>3, Multiple
<1>6. d = k => d * Day = k * Day
  OBVIOUS
<1>7. d <= k <=> d * Day <= w
  <2> HIDE DEF k
  <2> QED BY <1>1, <1>2, <1>3, <1>4, <1>5, <1>6
<1> QED BY <1>3, <1>7 DEF DayOf, w

\* ... and it stays of that day or a later one.
LEMMA MidnightPassed ==
  ASSUME NEW z \in Zone, OnTheHour(z), NEW t \in Int, NEW d \in Int
  PROVE  d <= DayOf(z, t) <=> First(z, d * Day) <= t
<1> HIDE DEF Day
<1>1. z.at \in Int /\ z.before \in Int /\ z.after \in Int /\ d * Day \in Int
  BY DayIsPositive DEF Zone
<1>2. /\ ~(z.at + z.before <= d * Day /\ d * Day < z.at + z.after)
      /\ ~(z.at + z.after <= d * Day /\ d * Day < z.at + z.before)
  BY MidnightIsPlain
<1>3. d * Day <= Wall(z, t) <=> First(z, d * Day) <= t
  BY <1>1, <1>2, FirstIs DEF Wall, Offset
<1> QED BY <1>3, DayShown

\* Days do not go back.
LEMMA DaysPass ==
  ASSUME NEW z \in Zone, OnTheHour(z), NEW t \in Int, NEW u \in Int, t <= u
  PROVE  DayOf(z, t) \in Int /\ DayOf(z, u) \in Int /\ DayOf(z, t) <= DayOf(z, u)
<1> HIDE DEF Day
<1> DEFINE d == DayOf(z, t)
<1>1. d \in Int /\ DayOf(z, u) \in Int
  BY DayShown
<1>2. d * Day \in Int
  BY <1>1, DayIsPositive
<1>3. First(z, d * Day) <= t
  BY <1>1, MidnightPassed
<1>4. First(z, d * Day) <= u
  BY <1>2, <1>3, FirstRises
<1> QED BY <1>1, <1>4, MidnightPassed

\* The midnight time.Date gives is of the day it was asked for.
LEMMA DayAtIs ==
  ASSUME NEW z \in Zone, OnTheHour(z), NEW d \in Int
  PROVE  DayAt(z, d) = d
<1> HIDE DEF Day
<1>1. 0 \in 0..(Day - 1) /\ d * Day \in Int /\ d * Day + 0 = d * Day
  BY DayIsPositive
<1>2. (d * Day) \div Day = d
  <2>1. (d * Day + 0) \div Day = d
    BY <1>1, WallParts
  <2> QED BY <1>1, <2>1
<1>3. Wall(z, TimeDate(z, d * Day)) = d * Day
  BY <1>1, MidnightIsPlain, TimeDateShows
<1> QED BY <1>2, <1>3 DEF DayAt, DayOf

-----------------------------------------------------------------------------
(* Windows. *)

\* From when to when window w of day d is meant.
Opens(z, d, w) == First(z, d * Day + w.from)
Closes(z, d, w) == First(z, (IF w.to <= w.from THEN d + 1 ELSE d) * Day + w.to)

\* Off by a window of day d; by one of any day.
OffOn(windows, z, u, d) ==
  \E w \in windows : Weekday(d) \in w.days /\ Opens(z, d, w) <= u /\ u < Closes(z, d, w)

IsOff(windows, z, u) == \E d \in Int : OffOn(windows, z, u, d)

\* The days intervals looks at.
Nearby(d) == (d - 2)..(d + 1)

\* The times between which a window of a day is open.
LEMMA WallOfDays ==
  ASSUME NEW d \in Int, NEW w \in Window
  PROVE  LET opens == d * Day + w.from
             closes == (IF w.to <= w.from THEN d + 1 ELSE d) * Day + w.to
         IN  /\ opens \in Int /\ d * Day <= opens /\ opens < d * Day + Day
             /\ closes \in Int /\ opens < closes /\ closes < d * Day + 2 * Day
             /\ (d + 1) * Day = d * Day + Day /\ (d + 2) * Day = d * Day + 2 * Day
             /\ d * Day \in Int
             /\ w.from \in 0..Day /\ w.to \in 0..Day
<1> HIDE DEF Day
<1>1. w.from \in 0..(Day - 1) /\ w.to \in 0..Day /\ Day \in Int /\ Day > 0 /\ d * Day \in Int
  BY DayIsPositive DEF Window
<1>2. (d + 1) * Day = d * Day + Day /\ (d + 2) * Day = d * Day + 2 * Day
  BY <1>1
<1> QED BY <1>1, <1>2

\* A window opens before it closes, and not on another day than its own or the next.
LEMMA WindowSpan ==
  ASSUME NEW z \in Zone, NEW d \in Int, NEW w \in Window
  PROVE  Opens(z, d, w) \in Int /\ Closes(z, d, w) \in Int /\ Opens(z, d, w) <= Closes(z, d, w)
<1> HIDE DEF Day
<1> QED BY WallOfDays, FirstRises DEF Opens, Closes

\* A window that is open is of the day, or of the day before.
LEMMA WindowDay ==
  ASSUME NEW z \in Zone, OnTheHour(z), NEW d \in Int, NEW w \in Window, NEW u \in Int,
         Opens(z, d, w) <= u, u < Closes(z, d, w)
  PROVE  d \in (DayOf(z, u) - 1)..DayOf(z, u)
<1> HIDE DEF Day
<1> DEFINE opens == d * Day + w.from
           closes == (IF w.to <= w.from THEN d + 1 ELSE d) * Day + w.to
<1>1. /\ opens \in Int /\ d * Day <= opens /\ closes \in Int /\ closes < d * Day + 2 * Day
      /\ (d + 2) * Day = d * Day + 2 * Day /\ d * Day \in Int /\ (d + 2) * Day \in Int
  BY WallOfDays, DayIsPositive
<1>2. First(z, d * Day) \in Int /\ First(z, opens) \in Int /\ First(z, d * Day) <= First(z, opens)
  <2> HIDE DEF opens
  <2> QED BY <1>1, FirstRises
<1>3. d <= DayOf(z, u)
  BY <1>2, MidnightPassed DEF Opens
<1>4. First(z, closes) \in Int /\ First(z, (d + 2) * Day) \in Int /\ First(z, closes) <= First(z, (d + 2) * Day)
  <2> HIDE DEF closes
  <2> QED BY <1>1, FirstRises
<1>5. ~(First(z, (d + 2) * Day) <= u)
  BY <1>4 DEF Closes
<1>6. ~(d + 2 <= DayOf(z, u))
  BY <1>5, MidnightPassed
<1> QED BY <1>3, <1>6, DayShown

\* So is one of several.
LEMMA OffOnDay ==
  ASSUME NEW z \in Zone, OnTheHour(z), NEW windows, windows \subseteq Window, NEW u \in Int, NEW d \in Int,
         OffOn(windows, z, u, d)
  PROVE  d \in (DayOf(z, u) - 1)..DayOf(z, u)
BY WindowDay DEF OffOn

\* The intervals around an instant: those of four days.
LEMMA AroundIs ==
  ASSUME NEW z \in Zone, OnTheHour(z), NEW windows, windows \subseteq Window, NEW t \in Int
  PROVE  Around(windows, z, t) =
           {[start |-> Opens(z, p[1], p[2]), end |-> Closes(z, p[1], p[2])] :
              p \in {q \in Nearby(DayOf(z, t)) \X windows : Weekday(q[1]) \in q[2].days}}
<1> HIDE DEF Day
<1> DEFINE D == DayOf(z, t)
           days == {DayAt(z, D + k) : k \in (-2)..1}
           ends(d, w) == IF w.to <= w.from THEN Clock(z, DayAt(z, d + 1), w.to) ELSE Clock(z, d, w.to)
           P == {q \in Nearby(D) \X windows : Weekday(q[1]) \in q[2].days}
<1>1. D \in Int
  BY DayShown
<1>2. days = Nearby(D)
  <2>1. \A k \in (-2)..1 : DayAt(z, D + k) = D + k
    BY <1>1, DayAtIs
  <2>2. \A d \in Nearby(D) : d - D \in (-2)..1 /\ D + (d - D) = d
    BY <1>1 DEF Nearby
  <2>3. \A k \in (-2)..1 : D + k \in Nearby(D)
    BY <1>1 DEF Nearby
  <2> HIDE DEF D
  <2> QED BY <2>1, <2>2, <2>3
<1>3. \A p \in P : Clock(z, p[1], p[2].from) = Opens(z, p[1], p[2]) /\ ends(p[1], p[2]) = Closes(z, p[1], p[2])
  <2> SUFFICES ASSUME NEW d \in Int, NEW w \in Window
               PROVE  Clock(z, d, w.from) = Opens(z, d, w) /\ ends(d, w) = Closes(z, d, w)
    BY <1>1 DEF Nearby
  <2>1. w.from \in 0..Day /\ w.to \in 0..Day /\ d + 1 \in Int
    BY WallOfDays
  <2>2. Clock(z, d, w.from) = Opens(z, d, w)
    BY <2>1, ClockIsFirst DEF Opens
  <2>3. Clock(z, d, w.to) = First(z, d * Day + w.to)
    BY <2>1, ClockIsFirst
  <2>4. DayAt(z, d + 1) = d + 1 /\ Clock(z, d + 1, w.to) = First(z, (d + 1) * Day + w.to)
    BY <2>1, ClockIsFirst, DayAtIs
  <2> QED BY <2>2, <2>3, <2>4 DEF Closes
<1>4. Around(windows, z, t) =
        {[start |-> Clock(z, p[1], p[2].from), end |-> ends(p[1], p[2])] :
           p \in {q \in days \X windows : Weekday(q[1]) \in q[2].days}}
  BY DEF Around
<1>5. Around(windows, z, t) = {[start |-> Clock(z, p[1], p[2].from), end |-> ends(p[1], p[2])] : p \in P}
  <2> HIDE DEF days, ends, D
  <2> QED BY <1>2, <1>4 DEF D
<1>6. @ = {[start |-> Opens(z, p[1], p[2]), end |-> Closes(z, p[1], p[2])] : p \in P}
  <2> HIDE DEF P, ends
  <2> QED BY <1>3
<1> QED BY <1>5, <1>6

\* One of those intervals, and the instants they cover.
LEMMA AroundInterval ==
  ASSUME NEW z \in Zone, OnTheHour(z), NEW windows, windows \subseteq Window, NEW t \in Int, NEW iv
  PROVE  iv \in Around(windows, z, t)
           <=> \E d \in Nearby(DayOf(z, t)), w \in windows :
                 Weekday(d) \in w.days /\ iv = [start |-> Opens(z, d, w), end |-> Closes(z, d, w)]
<1> DEFINE D == DayOf(z, t)
           P == {q \in Nearby(D) \X windows : Weekday(q[1]) \in q[2].days}
           R(d, w) == [start |-> Opens(z, d, w), end |-> Closes(z, d, w)]
<1>1. Around(windows, z, t) = {R(p[1], p[2]) : p \in P}
  BY AroundIs
<1> HIDE DEF R, D
<1>2. ASSUME iv \in Around(windows, z, t)
      PROVE  \E d \in Nearby(D), w \in windows : Weekday(d) \in w.days /\ iv = R(d, w)
  BY <1>1, <1>2
<1>3. ASSUME NEW d \in Nearby(D), NEW w \in windows, Weekday(d) \in w.days, iv = R(d, w)
      PROVE  iv \in Around(windows, z, t)
  <2>1. <<d, w>> \in P /\ <<d, w>>[1] = d /\ <<d, w>>[2] = w
    BY <1>3
  <2> HIDE DEF P
  <2> QED BY <1>1, <1>3, <2>1
<1> QED BY <1>2, <1>3 DEF R, D

\* Off by a window of the four days around D.
Seen(windows, z, D, u) == \E d \in Nearby(D) : OffOn(windows, z, u, d)

\* What the intervals cover, in terms of windows.
LEMMA AroundCovers ==
  ASSUME NEW z \in Zone, OnTheHour(z), NEW windows, windows \subseteq Window, NEW t \in Int, NEW u \in Int
  PROVE  (\E iv \in Around(windows, z, t) : iv.start <= u /\ u < iv.end) <=> Seen(windows, z, DayOf(z, t), u)
<1>1. ASSUME NEW iv \in Around(windows, z, t), iv.start <= u, u < iv.end
      PROVE  Seen(windows, z, DayOf(z, t), u)
  <2>1. PICK d \in Nearby(DayOf(z, t)), w \in windows :
          Weekday(d) \in w.days /\ iv = [start |-> Opens(z, d, w), end |-> Closes(z, d, w)]
    BY AroundInterval
  <2> QED BY <1>1, <2>1 DEF Seen, OffOn
<1>2. ASSUME NEW d \in Nearby(DayOf(z, t)), NEW w \in windows, Weekday(d) \in w.days,
             Opens(z, d, w) <= u, u < Closes(z, d, w)
      PROVE  \E iv \in Around(windows, z, t) : iv.start <= u /\ u < iv.end
  <2> DEFINE iv == [start |-> Opens(z, d, w), end |-> Closes(z, d, w)]
  <2>1. iv \in Around(windows, z, t)
    BY <1>2, AroundInterval
  <2> QED BY <1>2, <2>1
<1> QED BY <1>1, <1>2 DEF Seen, OffOn

\* They lie between two instants, and none ends before it starts.
LEMMA AroundBounded ==
  ASSUME NEW z \in Zone, OnTheHour(z), NEW windows, windows \subseteq Window, NEW t \in Int
  PROVE  \E lo, hi \in Int : \A iv \in Around(windows, z, t) :
           iv.start \in lo..hi /\ iv.end \in lo..hi /\ iv.start <= iv.end
<1> HIDE DEF Day
<1> DEFINE D == DayOf(z, t)
           lo == First(z, (D - 2) * Day)
           hi == First(z, (D + 3) * Day)
<1>1. D \in Int
  BY DayShown
<1>2. lo \in Int /\ hi \in Int
  <2>1. (D - 2) * Day \in Int /\ (D + 3) * Day \in Int
    BY <1>1, DayIsPositive
  <2> HIDE DEF D
  <2> QED BY <2>1, FirstRises
<1>3. ASSUME NEW d \in Nearby(D), NEW w \in windows
      PROVE  Opens(z, d, w) \in lo..hi /\ Closes(z, d, w) \in lo..hi /\ Opens(z, d, w) <= Closes(z, d, w)
  <2> DEFINE opens == d * Day + w.from
             closes == (IF w.to <= w.from THEN d + 1 ELSE d) * Day + w.to
  <2>1. d \in Int /\ D - 2 <= d /\ d <= D + 1
    BY <1>1 DEF Nearby
  <2>2. w \in Window
    OBVIOUS
  <2>3. /\ opens \in Int /\ d * Day <= opens /\ closes \in Int /\ closes < (d + 2) * Day /\ opens < closes
        /\ d * Day \in Int /\ (d + 2) * Day \in Int
    BY <2>1, <2>2, WallOfDays, DayIsPositive
  <2>4. (D - 2) * Day \in Int /\ (D + 3) * Day \in Int
    BY <1>1, DayIsPositive
  <2>5. (D - 2) * Day <= d * Day
    <3>1. D - 2 < d => (D - 2) * Day + Day <= d * Day
      BY <1>1, <2>1, Multiple, DayIsPositive
    <3>2. D - 2 = d => (D - 2) * Day = d * Day
      OBVIOUS
    <3> HIDE DEF D
    <3> QED BY <1>1, <2>1, <2>3, <2>4, <3>1, <3>2, DayIsPositive
  <2>6. (d + 2) * Day <= (D + 3) * Day
    <3>1. d + 2 < D + 3 => (d + 2) * Day + Day <= (D + 3) * Day
      BY <1>1, <2>1, Multiple, DayIsPositive
    <3>2. d + 2 = D + 3 => (d + 2) * Day = (D + 3) * Day
      OBVIOUS
    <3> HIDE DEF D
    <3> QED BY <1>1, <2>1, <2>3, <2>4, <3>1, <3>2, DayIsPositive
  <2>7. (D - 2) * Day <= opens /\ opens <= closes /\ closes <= (D + 3) * Day
    <3> HIDE DEF D, opens, closes
    <3> QED BY <2>3, <2>4, <2>5, <2>6
  <2>8. lo <= First(z, opens) /\ First(z, opens) <= First(z, closes) /\ First(z, closes) <= hi
        /\ First(z, opens) \in Int /\ First(z, closes) \in Int
    <3> HIDE DEF D, opens, closes
    <3> QED BY <2>3, <2>4, <2>7, FirstRises
  <2> HIDE DEF lo, hi
  <2> QED BY <1>2, <2>8 DEF Opens, Closes
<1>4. ASSUME NEW iv \in Around(windows, z, t)
      PROVE  iv.start \in lo..hi /\ iv.end \in lo..hi /\ iv.start <= iv.end
  <2>1. PICK d \in Nearby(D), w \in windows :
          Weekday(d) \in w.days /\ iv = [start |-> Opens(z, d, w), end |-> Closes(z, d, w)]
    BY AroundInterval
  <2> HIDE DEF lo, hi
  <2> QED BY <1>3, <2>1
<1> HIDE DEF lo, hi
<1> QED BY <1>2, <1>4

\* The intervals merged cover what the windows of the four days cover.
LEMMA MergedSeen ==
  ASSUME NEW z \in Zone, OnTheHour(z), NEW windows, windows \subseteq Window, NEW t \in Int, NEW u \in Int
  PROVE  (\E iv \in Merged(Around(windows, z, t)) : iv.start <= u /\ u < iv.end)
           <=> Seen(windows, z, DayOf(z, t), u)
<1>1. PICK lo \in Int, hi \in Int : \A iv \in Around(windows, z, t) :
        iv.start \in lo..hi /\ iv.end \in lo..hi /\ iv.start <= iv.end
  BY AroundBounded
<1> QED BY <1>1, MergedCovers, AroundCovers

\* Of the day of an instant and of the day after, the four days see everything.
LEMMA SeenIsOff ==
  ASSUME NEW z \in Zone, OnTheHour(z), NEW windows, windows \subseteq Window, NEW D \in Int, NEW u \in Int,
         DayOf(z, u) \in (D - 1)..D
  PROVE  Seen(windows, z, D, u) <=> IsOff(windows, z, u)
<1>1. ASSUME NEW d \in Int, OffOn(windows, z, u, d) PROVE d \in Nearby(D)
  BY <1>1, OffOnDay, DayShown DEF Nearby
<1>2. Nearby(D) \subseteq Int
  BY DEF Nearby
<1> QED BY <1>1, <1>2 DEF Seen, IsOff

\* Off is what the windows say, of whatever day.
LEMMA OffIs ==
  ASSUME NEW z \in Zone, OnTheHour(z), NEW windows, windows \subseteq Window, NEW t \in Int
  PROVE  Off(windows, z, t) <=> IsOff(windows, z, t)
<1>1. DayOf(z, t) \in (DayOf(z, t) - 1)..DayOf(z, t) /\ DayOf(z, t) \in Int
  BY DayShown
<1> QED BY <1>1, MergedSeen, SeenIsOff DEF Off

\* What the windows say, where the model looks.
LEMMA MeantIs ==
  ASSUME NEW z \in Zone, OnTheHour(z), NEW windows, windows \subseteq Window, NEW u \in Int,
         DayOf(z, From) - 3 <= DayOf(z, u), u <= Horizon
  PROVE  u \in Meant(windows, z) <=> IsOff(windows, z, u)
<1> HIDE DEF Day
<1> DEFINE days == (DayOf(z, From) - 4)..(DayOf(z, Horizon) + 1)
           P == {q \in days \X windows : Weekday(q[1]) \in q[2].days}
           S(p) == Opens(z, p[1], p[2])..(Closes(z, p[1], p[2]) - 1)
<1>1. From \in Int /\ Horizon \in Int /\ DayOf(z, From) \in Int /\ DayOf(z, Horizon) \in Int
      /\ DayOf(z, u) <= DayOf(z, Horizon) /\ DayOf(z, u) \in Int
  BY OffHoursAssumption, DayShown, DaysPass
<1>2. Meant(windows, z) = UNION {S(p) : p \in P}
  BY DEF Meant, Opens, Closes
<1>3. ASSUME u \in Meant(windows, z) PROVE IsOff(windows, z, u)
  <2>1. PICK p \in P : u \in S(p)
    BY <1>2, <1>3
  <2>2. p[1] \in Int /\ p[2] \in windows /\ Weekday(p[1]) \in p[2].days
    BY <1>1
  <2>3. Opens(z, p[1], p[2]) \in Int /\ Closes(z, p[1], p[2]) \in Int
    BY <2>2, WindowSpan
  <2>4. Opens(z, p[1], p[2]) <= u /\ u < Closes(z, p[1], p[2])
    BY <2>1, <2>3
  <2> QED BY <2>2, <2>4 DEF IsOff, OffOn
<1>4. ASSUME NEW d \in Int, NEW w \in windows, Weekday(d) \in w.days, Opens(z, d, w) <= u, u < Closes(z, d, w)
      PROVE  u \in Meant(windows, z)
  <2>1. d \in days
    BY <1>1, <1>4, WindowDay
  <2>2. Opens(z, d, w) \in Int /\ Closes(z, d, w) \in Int
    BY WindowSpan
  <2>3. <<d, w>> \in P /\ u \in S(<<d, w>>)
    BY <1>4, <2>1, <2>2
  <2> HIDE DEF P, S
  <2> QED BY <1>2, <2>3
<1> QED BY <1>3, <1>4 DEF IsOff, OffOn

-----------------------------------------------------------------------------
(* The first theorem. *)

\* The schedule and its zone do not change, and the clock runs between its bounds.
Steady ==
  /\ zone \in Zones /\ ws \in Schedules /\ hours = Meant(ws, zone)
  /\ now \in From..Horizon /\ since \in From..now

\* What Steady and the assumptions say together.
LEMMA SteadyFacts ==
  ASSUME Steady
  PROVE  zone \in Zone /\ ws \subseteq Window /\ From \in Nat /\ Horizon \in Nat /\ now \in Int /\ since \in Int
BY OffHoursAssumption DEF Steady, Zone

\* Steady holds at first.
LEMMA SteadyInit == Init => Steady
BY OffHoursAssumption DEF Init, Steady

\* No step changes the schedule, its zone or what they mean.
LEMMA SteadyStep ==
  ASSUME Steady, [Next]_vars
  PROVE  Steady' /\ UNCHANGED <<zone, ws, hours>>
<1> USE SteadyFacts DEF Steady
<1>1. CASE Minute
  BY <1>1 DEF Minute, Evaluate
<1>2. CASE Sleep
  BY <1>2 DEF Sleep
<1>3. CASE CatchUp
  BY <1>3 DEF CatchUp, Evaluate
<1>4. CASE UNCHANGED vars
  BY <1>4 DEF vars
<1> QED BY <1>1, <1>2, <1>3, <1>4 DEF Next

\* Off and Meant agree where the model looks.
LEMMA SteadyIsMeant ==
  ASSUME Steady, OnTheHour(zone)
  PROVE  OffIsMeant
<1>1. zone \in Zone /\ ws \subseteq Window /\ now \in Int /\ From \in Int /\ From <= now /\ now <= Horizon
      /\ hours = Meant(ws, zone)
  BY SteadyFacts DEF Steady
<1>2. DayOf(zone, From) - 3 <= DayOf(zone, now)
  BY <1>1, DaysPass
<1>3. Off(ws, zone, now) <=> IsOff(ws, zone, now)
  BY <1>1, OffIs
<1>4. now \in Meant(ws, zone) <=> IsOff(ws, zone, now)
  BY <1>1, <1>2, MeantIs
<1> QED BY <1>1, <1>3, <1>4 DEF OffIsMeant

\* In a zone whose change is on the hour, the resource is off exactly when its
\* windows say so on the clock of the zone: of whatever windows, changes of the
\* clock and lengths of the day.
THEOREM WindowsAreMeant == Spec => [](OnTheHour(zone) => OffIsMeant)
<1>1. Steady /\ [Next]_vars => Steady'
  BY SteadyStep
<1>2. Steady => (OnTheHour(zone) => OffIsMeant)
  BY SteadyIsMeant
<1> QED BY SteadyInit, <1>1, <1>2, PTL DEF Spec

-----------------------------------------------------------------------------
(* Boundaries. *)

\* Merged intervals that are not empty: apart from one another, and not empty.
LEMMA MergedForm ==
  ASSUME NEW lo \in Int, NEW hi \in Int, NEW ivs,
         \A iv \in ivs : iv.start \in lo..hi /\ iv.end \in lo..hi /\ iv.start < iv.end
  PROVE  /\ \A iv \in Merged(ivs) : iv.start \in Int /\ iv.end \in Int /\ iv.start < iv.end
         /\ \A iv, jv \in Merged(ivs) : iv.start < jv.start => iv.end < jv.start
         /\ \A iv, jv \in Merged(ivs) : iv.start = jv.start => iv.end = jv.end
<1> DEFINE Until(s) == {e \in Ends(ivs) : e >= s}
<1>1. Begins(ivs) \subseteq lo..hi /\ Ends(ivs) \subseteq lo..hi
  BY DEF Begins, Ends
<1>2. \A iv \in Merged(ivs) : iv.start \in Begins(ivs) /\ iv.end = Min(Until(iv.start))
  <2> SUFFICES ASSUME NEW iv \in Merged(ivs)
               PROVE  iv.start \in Begins(ivs) /\ iv.end = Min(Until(iv.start))
    OBVIOUS
  <2>1. PICK s \in Begins(ivs) : iv = [start |-> s, end |-> Min(Until(s))]
    BY MergedIs
  <2>2. iv.start = s /\ iv.end = Min(Until(s))
    <3> HIDE DEF Until
    <3> QED BY <2>1
  <2> HIDE DEF Until
  <2> QED BY <2>2
<1>3. ASSUME NEW c \in Int, NEW s \in Begins(ivs), \E j \in ivs : j.start = s /\ j.start < c,
             \A j \in ivs : ~(j.start < c /\ c <= j.end)
      PROVE  \E e \in Until(s) : e < c
  <2> DEFINE Over == {j.end : j \in {k \in ivs : k.start < c}}
  <2>1. PICK i \in ivs : i.start = s /\ i.start < c
    BY <1>3
  <2>2. i.end \in Over
    BY <2>1
  <2>3. Max(Over) \in Over /\ \A x \in Over : x <= Max(Over)
    <3>1. Over # {} /\ \A x \in Over : x \in Int /\ x <= hi
      BY <2>2
    <3> HIDE DEF Over
    <3> QED BY <2>2, <3>1, MaxIsGreatest
  <2>4. PICK j \in ivs : j.start < c /\ Max(Over) = j.end
    BY <2>3
  <2>5. \A k \in ivs : k.start < c => k.end <= j.end
    BY <2>3, <2>4
  <2>6. j.end \in Int /\ j.end < c
    BY <1>3, <2>4
  <2>7. \A k \in ivs : ~(k.start <= j.end /\ j.end < k.end)
    BY <1>3, <2>5, <2>6
  <2>8. j.end \in Ends(ivs)
    BY <2>7 DEF Ends
  <2>9. j.end >= s
    BY <1>3, <2>1, <2>5
  <2> QED BY <2>6, <2>8, <2>9
<1>4. ASSUME NEW s \in Begins(ivs)
      PROVE  Min(Until(s)) \in Until(s) /\ \A e \in Until(s) : Min(Until(s)) <= e
  <2>1. hi + 1 \in Int /\ \A j \in ivs : ~(j.start < hi + 1 /\ hi + 1 <= j.end)
    OBVIOUS
  <2>2. \E j \in ivs : j.start = s /\ j.start < hi + 1
    BY DEF Begins
  <2>3. Until(s) # {}
    BY <1>3, <2>1, <2>2
  <2>4. \A x \in Until(s) : x \in Int /\ lo <= x
    BY <1>1
  <2> HIDE DEF Until
  <2> QED BY <2>3, <2>4, MinIsLeast
<1>5. ASSUME NEW s \in Begins(ivs)
      PROVE  s \in Int /\ Min(Until(s)) \in Int /\ s < Min(Until(s))
  <2>1. Min(Until(s)) \in Ends(ivs) /\ Min(Until(s)) >= s
    BY <1>4
  <2>2. s \notin Ends(ivs)
    <3>1. PICK i \in ivs : i.start = s
      BY DEF Begins
    <3> QED BY <3>1 DEF Ends
  <2> HIDE DEF Until
  <2> QED BY <1>1, <2>1, <2>2
<1>6. ASSUME NEW s \in Begins(ivs), NEW r \in Begins(ivs), s < r
      PROVE  Min(Until(s)) < r
  <2>1. r \in Int /\ s \in Int /\ Min(Until(s)) \in Int
    BY <1>5
  <2>2. \A j \in ivs : ~(j.start < r /\ r <= j.end)
    BY DEF Begins
  <2>3. \E j \in ivs : j.start = s /\ j.start < r
    BY <1>6 DEF Begins
  <2>4. PICK e \in Until(s) : e < r
    BY <1>3, <2>1, <2>2, <2>3
  <2>5. e \in Int
    BY <1>1
  <2>6. Min(Until(s)) <= e
    <3> HIDE DEF Until
    <3> QED BY <1>4
  <2> HIDE DEF Until
  <2> QED BY <2>1, <2>4, <2>5, <2>6
<1> HIDE DEF Until
<1>7. \A iv \in Merged(ivs) : iv.start \in Int /\ iv.end \in Int /\ iv.start < iv.end
  BY <1>2, <1>5
<1>8. \A iv, jv \in Merged(ivs) : iv.start < jv.start => iv.end < jv.start
  BY <1>2, <1>6
<1> QED BY <1>2, <1>7, <1>8

\* Covered by an interval.
Covered(ivs, u) == \E iv \in ivs : iv.start <= u /\ u < iv.end

\* The last boundary is the last instant at which the intervals turn.
LEMMA BoundaryIsTurn ==
  ASSUME NEW windows, NEW z, NEW t \in Int,
         LET M == Merged(Around(windows, z, t))
         IN  /\ \A iv \in M : iv.start \in Int /\ iv.end \in Int /\ iv.start < iv.end
             /\ \A iv, jv \in M : iv.start < jv.start => iv.end < jv.start
             /\ \A iv, jv \in M : iv.start = jv.start => iv.end = jv.end
  PROVE  LET M == Merged(Around(windows, z, t))
             b == LastBoundary(windows, z, t)
         IN  /\ b # None => /\ b.at \in Int /\ b.at <= t /\ b.off \in BOOLEAN
                            /\ \A u \in b.at..t : Covered(M, u) <=> b.off
                            /\ Covered(M, b.at - 1) <=> ~b.off
             /\ \A u \in Int : u <= t /\ ~(Covered(M, u) <=> Covered(M, u - 1)) => b # None /\ u <= b.at
<1> DEFINE M == Merged(Around(windows, z, t))
           b == LastBoundary(windows, z, t)
           starts == {iv.start : iv \in M}
           past == {x \in starts \cup {iv.end : iv \in M} : x <= t}
<1>1. b = IF past = {} THEN None ELSE [at |-> Max(past), off |-> Max(past) \in starts]
  BY DEF LastBoundary
<1> HIDE DEF b
<1>2. past # {} => Max(past) \in past /\ \A x \in past : x <= Max(past)
  <2>1. \A x \in past : x \in Int /\ x <= t
    OBVIOUS
  <2> HIDE DEF past
  <2> QED BY <2>1, MaxIsGreatest
<1>3. past # {} => /\ b # None /\ b.at = Max(past) /\ b.at \in Int
                   /\ b.off \in BOOLEAN /\ (b.off <=> Max(past) \in starts)
  <2> SUFFICES ASSUME past # {}
               PROVE  /\ b # None /\ b.at = Max(past) /\ b.at \in Int
                      /\ b.off \in BOOLEAN /\ (b.off <=> Max(past) \in starts)
    OBVIOUS
  <2> DEFINE m == Max(past)
             o == m \in starts
  <2>1. m \in Int /\ o \in BOOLEAN
    BY <1>2
  <2>2. b = [at |-> m, off |-> o]
    BY <1>1
  <2> HIDE DEF m, o
  <2>3. b \in [at : Int, off : BOOLEAN] /\ b.at = m /\ b.off = o
    BY <2>1, <2>2
  <2>4. b # None
    BY <2>3, OffHoursAssumption
  <2> QED BY <2>1, <2>3, <2>4 DEF m, o
<1>4. ASSUME b # None
      PROVE  /\ b.at \in Int /\ b.at <= t /\ b.off \in BOOLEAN
             /\ \A u \in b.at..t : Covered(M, u) <=> b.off
             /\ Covered(M, b.at - 1) <=> ~b.off
  <2>1. past # {}
    <3> HIDE DEF past, starts
    <3> QED BY <1>1, <1>4
  <2>2. b.at \in past /\ \A x \in past : x <= b.at
    BY <1>2, <1>3, <2>1
  <2>3. b.at \in Int /\ b.at <= t /\ b.off \in BOOLEAN /\ (b.off <=> b.at \in starts)
    BY <1>3, <2>1, <2>2
  <2>4. CASE b.at \in starts
    <3>1. PICK iv \in M : iv.start = b.at
      BY <2>4
    <3>2. ~(iv.end <= t)
      BY <2>2, <2>3, <3>1
    <3>3. \A u \in b.at..t : Covered(M, u)
      <4> SUFFICES ASSUME NEW u \in b.at..t PROVE iv.start <= u /\ u < iv.end
        BY DEF Covered
      <4> QED BY <2>3, <3>1, <3>2
    <3>4. ~Covered(M, b.at - 1)
      <4> SUFFICES ASSUME NEW jv \in M, jv.start <= b.at - 1, b.at - 1 < jv.end PROVE FALSE
        BY DEF Covered
      <4>1. jv.start < iv.start
        BY <2>3, <3>1
      <4> QED BY <2>3, <3>1, <4>1
    <3> QED BY <2>3, <2>4, <3>3, <3>4
  <2>5. CASE b.at \notin starts
    <3>1. PICK iv \in M : iv.end = b.at
      BY <2>2, <2>5
    <3>2. Covered(M, b.at - 1)
      <4>1. iv.start <= b.at - 1 /\ b.at - 1 < iv.end
        BY <2>3, <3>1
      <4> QED BY <4>1 DEF Covered
    <3>3. \A u \in b.at..t : ~Covered(M, u)
      <4> SUFFICES ASSUME NEW u \in b.at..t, NEW jv \in M, jv.start <= u, u < jv.end PROVE FALSE
        BY DEF Covered
      <4>1. jv.start \in past
        BY <2>3
      <4>2. jv.start < b.at
        BY <2>2, <2>3, <2>5, <4>1
      <4>3. jv.start = iv.start => jv.end = b.at
        BY <3>1
      <4>4. jv.start < iv.start => jv.end < iv.start
        OBVIOUS
      <4>5. iv.start < jv.start => iv.end < jv.start
        OBVIOUS
      <4>6. jv.start \in Int /\ jv.end \in Int /\ iv.start \in Int /\ iv.start < b.at /\ b.at <= u /\ u \in Int
        BY <2>3, <3>1
      <4> HIDE DEF M
      <4> QED BY <2>3, <3>1, <4>2, <4>3, <4>4, <4>5, <4>6
    <3> HIDE DEF past, starts, M
    <3>4. ~b.off
      BY <2>3, <2>5
    <3> QED BY <2>3, <3>2, <3>3, <3>4
  <2> QED BY <2>4, <2>5
<1>5. ASSUME NEW u \in Int, u <= t, ~(Covered(M, u) <=> Covered(M, u - 1))
      PROVE  b # None /\ u <= b.at
  <2>1. u \in past
    <3>1. CASE Covered(M, u) /\ ~Covered(M, u - 1)
      <4>1. PICK iv \in M : iv.start <= u /\ u < iv.end
        BY <3>1 DEF Covered
      <4>2. ~(iv.start <= u - 1 /\ u - 1 < iv.end)
        BY <3>1 DEF Covered
      <4>3. iv.start = u
        BY <4>1, <4>2
      <4> QED BY <1>5, <4>3
    <3>2. CASE ~Covered(M, u) /\ Covered(M, u - 1)
      <4>1. PICK iv \in M : iv.start <= u - 1 /\ u - 1 < iv.end
        BY <3>2 DEF Covered
      <4>2. ~(iv.start <= u /\ u < iv.end)
        BY <3>2 DEF Covered
      <4>3. iv.end = u
        BY <4>1, <4>2
      <4> QED BY <1>5, <4>3
    <3> QED BY <1>5, <3>1, <3>2
  <2>2. past # {}
    BY <2>1
  <2> HIDE DEF past
  <2> QED BY <1>2, <1>3, <2>1, <2>2
<1> QED BY <1>4, <1>5 DEF b

-----------------------------------------------------------------------------
(* Turns. *)

\* The first instant of a later time is later, unless both are skipped.
LEMMA FirstStrict ==
  ASSUME NEW z \in Zone, NEW w1 \in Int, NEW w2 \in Int, w1 < w2,
         ~(z.at + z.before <= w1 /\ w2 <= z.at + z.after)
  PROVE  First(z, w1) \in Int /\ First(z, w2) \in Int /\ First(z, w1) < First(z, w2)
<1>1. z.at \in Int /\ z.before \in Int /\ z.after \in Int
  BY DEF Zone
<1> QED BY <1>1, FirstIs

\* No midnight is where the skipped hour ends, or in it.
LEMMA GapEndsByDay ==
  ASSUME NEW z \in Zone, OnTheHour(z), Apart(z), NEW d \in Int
  PROVE  ~(z.at + z.before <= d * Day /\ d * Day <= z.at + z.after)
<1>1. d * Day \in Int /\ (d * Day) % Day = 0
  <2> HIDE DEF Day
  <2>1. 0 \in 0..(Day - 1) /\ d * Day \in Int /\ d * Day + 0 = d * Day
    BY DayIsPositive
  <2>2. (d * Day + 0) % Day = 0
    BY <2>1, WallParts
  <2> QED BY <2>1, <2>2
<1>2. d * Day # z.at + z.after
  <2> HIDE DEF Day
  <2> QED BY <1>1 DEF Apart
<1> HIDE DEF Day
<1>3. z.at + z.before \in Int /\ z.at + z.after \in Int
  BY DEF Zone
<1> QED BY <1>1, <1>2, <1>3, MidnightIsPlain

\* What is before a midnight on the clock is before it.
LEMMA BeforeMidnight ==
  ASSUME NEW z \in Zone, OnTheHour(z), Apart(z), NEW d \in Int, NEW c \in Int, c < d * Day
  PROVE  First(z, c) \in Int /\ First(z, d * Day) \in Int /\ First(z, c) < First(z, d * Day)
<1> HIDE DEF Day
<1>1. z.at + z.before \in Int /\ z.at + z.after \in Int /\ d * Day \in Int
  BY DayIsPositive DEF Zone
<1>2. ~(z.at + z.before <= c /\ d * Day <= z.at + z.after)
  BY <1>1, GapEndsByDay
<1> QED BY <1>1, <1>2, FirstStrict

\* A window that no change of the clock swallows is not empty.
LEMMA WindowLasts ==
  ASSUME zone \in Zone, OnTheHour(zone), Apart(zone), ws \subseteq Window, ~Swallowed,
         NEW d \in Int, NEW w \in ws
  PROVE  Opens(zone, d, w) < Closes(zone, d, w)
<1> HIDE DEF Day
<1> DEFINE c1 == d * Day + w.from
           c2 == d * Day + w.to
           next == (d + 1) * Day
<1>1. w \in Window
  OBVIOUS
<1>2. /\ c1 \in Int /\ c2 \in Int /\ next \in Int /\ d * Day \in Int /\ d * Day <= c1 /\ c1 < next
      /\ next + w.to \in Int /\ next <= next + w.to /\ w.to \in Int /\ w.from \in Int
  BY <1>1, WallOfDays, DayIsPositive
<1>3. CASE w.to <= w.from
  <2>1. First(zone, c1) \in Int /\ First(zone, next) \in Int /\ First(zone, c1) < First(zone, next)
    <3>1. d + 1 \in Int
      OBVIOUS
    <3> HIDE DEF c1
    <3> QED BY <1>2, <3>1, BeforeMidnight
  <2>2. First(zone, next) <= First(zone, next + w.to) /\ First(zone, next + w.to) \in Int
    <3> HIDE DEF next
    <3> QED BY <1>2, FirstRises
  <2>3. Opens(zone, d, w) = First(zone, c1) /\ Closes(zone, d, w) = First(zone, next + w.to)
    BY <1>3 DEF Opens, Closes
  <2> HIDE DEF c1, next
  <2> QED BY <2>1, <2>2, <2>3
<1>4. CASE ~(w.to <= w.from)
  <2> DEFINE a == DayOf(zone, zone.at)
             A == zone.at + zone.after
             B == zone.at + zone.before
  <2>1. w.from < w.to /\ c1 < c2
    BY <1>2, <1>4
  <2>2. A \in Int /\ B \in Int /\ zone.at \in Int /\ Wall(zone, zone.at) = A /\ a \in Int
    BY DayShown DEF Wall, Offset, Zone
  <2>3. CASE B <= c1 /\ c2 <= A
    <3>1. d <= a
      <4>1. d * Day <= A
        BY <1>2, <2>1, <2>2, <2>3
      <4> QED BY <2>2, <4>1, DayShown
    <3>2. ~(d + 1 <= a)
      <4>1. d + 1 <= a => next <= A
        BY <2>2, DayShown
      <4>2. d + 1 \in Int /\ ~(B <= next /\ next <= A)
        BY GapEndsByDay
      <4> HIDE DEF next, A, B, c1, a
      <4> QED BY <1>2, <2>2, <2>3, <4>1, <4>2
    <3>3. d \in (a - 1)..a
      <4> HIDE DEF a
      <4> QED BY <2>2, <3>1, <3>2
    <3>4. First(zone, c1) # First(zone, c2)
      <4> HIDE DEF c1, c2
      <4> QED BY <2>1, <3>3 DEF Swallowed, c1, c2
    <3>5. First(zone, c1) \in Int /\ First(zone, c2) \in Int /\ First(zone, c1) <= First(zone, c2)
      <4> HIDE DEF c1, c2
      <4> QED BY <1>2, <2>1, FirstRises
    <3>6. Opens(zone, d, w) = First(zone, c1) /\ Closes(zone, d, w) = First(zone, c2)
      BY <1>4 DEF Opens, Closes
    <3> HIDE DEF c1, c2
    <3> QED BY <3>4, <3>5, <3>6
  <2>4. CASE ~(B <= c1 /\ c2 <= A)
    <3>1. First(zone, c1) < First(zone, c2)
      <4> HIDE DEF c1, c2
      <4> QED BY <1>2, <2>1, <2>4, FirstStrict
    <3> QED BY <1>4, <3>1 DEF Opens, Closes
  <2> QED BY <2>3, <2>4
<1> QED BY <1>3, <1>4

\* The last boundary is the last instant, of those the four days see, at which
\* the resource turns on or off.
LEMMA LastBoundaryIs ==
  ASSUME NEW z \in Zone, OnTheHour(z), NEW windows, windows \subseteq Window, NEW t \in Int,
         \A d \in Int, w \in windows : Opens(z, d, w) < Closes(z, d, w)
  PROVE  LET b == LastBoundary(windows, z, t)
             D == DayOf(z, t)
         IN  /\ b # None => /\ b.at \in Int /\ b.at <= t /\ b.off \in BOOLEAN
                            /\ \A u \in b.at..t : Seen(windows, z, D, u) <=> b.off
                            /\ Seen(windows, z, D, b.at - 1) <=> ~b.off
             /\ \A u \in Int : u <= t /\ ~(Seen(windows, z, D, u) <=> Seen(windows, z, D, u - 1))
                                 => b # None /\ u <= b.at
<1> DEFINE M == Merged(Around(windows, z, t))
           b == LastBoundary(windows, z, t)
           D == DayOf(z, t)
<1>1. PICK lo \in Int, hi \in Int : \A iv \in Around(windows, z, t) : iv.start \in lo..hi /\ iv.end \in lo..hi
  BY AroundBounded
<1>2. \A iv \in Around(windows, z, t) : iv.start < iv.end
  <2> SUFFICES ASSUME NEW iv \in Around(windows, z, t) PROVE iv.start < iv.end
    OBVIOUS
  <2>1. PICK d \in Nearby(D), w \in windows : iv = [start |-> Opens(z, d, w), end |-> Closes(z, d, w)]
    BY AroundInterval
  <2>2. d \in Int
    BY DEF Nearby
  <2> QED BY <2>1, <2>2
<1>3. /\ \A iv \in M : iv.start \in Int /\ iv.end \in Int /\ iv.start < iv.end
      /\ \A iv, jv \in M : iv.start < jv.start => iv.end < jv.start
      /\ \A iv, jv \in M : iv.start = jv.start => iv.end = jv.end
  BY <1>1, <1>2, MergedForm
<1>4. /\ b # None => /\ b.at \in Int /\ b.at <= t /\ b.off \in BOOLEAN
                     /\ \A u \in b.at..t : Covered(M, u) <=> b.off
                     /\ Covered(M, b.at - 1) <=> ~b.off
      /\ \A u \in Int : u <= t /\ ~(Covered(M, u) <=> Covered(M, u - 1)) => b # None /\ u <= b.at
  BY <1>3, BoundaryIsTurn
<1>5. \A u \in Int : Covered(M, u) <=> Seen(windows, z, D, u)
  BY MergedSeen DEF Covered
<1> HIDE DEF M, b, D
<1>6. \A u \in Int : u - 1 \in Int
  OBVIOUS
<1>7. b # None => b.at - 1 \in Int /\ b.at..t \subseteq Int
  BY <1>4
<1>8. b # None => /\ b.at \in Int /\ b.at <= t /\ b.off \in BOOLEAN
                  /\ \A u \in b.at..t : Seen(windows, z, D, u) <=> b.off
                  /\ Seen(windows, z, D, b.at - 1) <=> ~b.off
  BY <1>4, <1>5, <1>7
<1>9. \A u \in Int : u <= t /\ ~(Seen(windows, z, D, u) <=> Seen(windows, z, D, u - 1)) => b # None /\ u <= b.at
  BY <1>4, <1>5, <1>6
<1> QED BY <1>8, <1>9 DEF b, D

\* Whether the resource turns on or off at an instant.
TurnsAt(windows, z, u) == ~(IsOff(windows, z, u) <=> IsOff(windows, z, u - 1))

\* The last boundary is not older than a turn since the midnight before.
LEMMA TurnIsSeen ==
  ASSUME NEW z \in Zone, OnTheHour(z), Apart(z), NEW windows, windows \subseteq Window, NEW t \in Int,
         \A d \in Int, w \in windows : Opens(z, d, w) < Closes(z, d, w),
         NEW u \in Int, u <= t, First(z, (DayOf(z, t) - 1) * Day) <= u, TurnsAt(windows, z, u)
  PROVE  LastBoundary(windows, z, t) # None /\ u <= LastBoundary(windows, z, t).at
<1> HIDE DEF Day
<1> DEFINE D == DayOf(z, t)
           mid == (D - 1) * Day
<1>1. D \in Int /\ u - 1 \in Int /\ mid \in Int /\ DayOf(z, u) \in Int /\ DayOf(z, u) <= D
      /\ DayOf(z, u - 1) \in Int /\ DayOf(z, u - 1) <= DayOf(z, u)
  BY DayShown, DaysPass, DayIsPositive
<1>2. DayOf(z, u) \in (D - 1)..D
  <2>1. D - 1 \in Int /\ First(z, (D - 1) * Day) <= u
    BY <1>1
  <2>2. D - 1 <= DayOf(z, u)
    <3> HIDE DEF D
    <3> QED BY <2>1, MidnightPassed
  <2> HIDE DEF D
  <2> QED BY <1>1, <2>2
<1>3. Seen(windows, z, D, u) <=> IsOff(windows, z, u)
  <2> HIDE DEF D
  <2> QED BY <1>1, <1>2, SeenIsOff
<1>4. Seen(windows, z, D, u - 1) <=> IsOff(windows, z, u - 1)
  <2>1. CASE D - 1 <= DayOf(z, u - 1)
    <3>1. DayOf(z, u - 1) \in (D - 1)..D
      BY <1>1, <2>1
    <3> HIDE DEF D
    <3> QED BY <1>1, <3>1, SeenIsOff
  <2>2. CASE ~(D - 1 <= DayOf(z, u - 1))
    <3>1. ~(First(z, mid) <= u - 1)
      <4>1. D - 1 \in Int
        BY <1>1
      <4> HIDE DEF D
      <4> QED BY <1>1, <2>2, <4>1, MidnightPassed
    <3>2. Nearby(D) \subseteq Int /\ \A d \in Int : d \in Nearby(D) <=> D - 2 <= d /\ d <= D + 1
      BY <1>1 DEF Nearby
    <3>3. ASSUME NEW d \in Int, OffOn(windows, z, u - 1, d) PROVE d \in Nearby(D)
      <4>1. d <= D - 2
        <5> HIDE DEF D
        <5> QED BY <1>1, <2>2, <3>3, OffOnDay
      <4>2. PICK w \in windows : u - 1 < Closes(z, d, w)
        BY <3>3 DEF OffOn
      <4>3. d >= D - 2
        <5> SUFFICES ASSUME d < D - 2 PROVE FALSE
          BY <1>1
        <5> DEFINE closes == (IF w.to <= w.from THEN d + 1 ELSE d) * Day + w.to
        <5>1. w \in Window
          OBVIOUS
        <5>2. closes \in Int /\ closes < (d + 2) * Day /\ (d + 2) * Day \in Int
          BY <5>1, WallOfDays, DayIsPositive
        <5>3. (d + 2) * Day <= mid
          <6>1. d + 2 < D - 1 => (d + 2) * Day + Day <= (D - 1) * Day
            BY <1>1, Multiple, DayIsPositive
          <6>2. d + 2 = D - 1 => (d + 2) * Day = mid
            OBVIOUS
          <6>3. d + 2 < D - 1 \/ d + 2 = D - 1
            BY <1>1, <4>1
          <6> QED BY <1>1, <5>2, <6>1, <6>2, <6>3, DayIsPositive
        <5>4. closes < mid
          <6> HIDE DEF closes, mid
          <6> QED BY <1>1, <5>2, <5>3
        <5>5. First(z, closes) \in Int /\ First(z, mid) \in Int /\ First(z, closes) < First(z, mid)
          <6>1. D - 1 \in Int
            BY <1>1
          <6> HIDE DEF closes, D
          <6> QED BY <5>2, <5>4, <6>1, BeforeMidnight
        <5>6. First(z, mid) = u
          <6> HIDE DEF mid
          <6> QED BY <3>1, <5>5 DEF mid
        <5> QED BY <4>2, <5>5, <5>6 DEF Closes
      <4> HIDE DEF D
      <4> QED BY <1>1, <3>2, <4>1, <4>3
    <3> QED BY <3>2, <3>3 DEF Seen, IsOff
  <2> QED BY <2>1, <2>2
<1>5. ~(Seen(windows, z, D, u) <=> Seen(windows, z, D, u - 1))
  BY <1>3, <1>4 DEF TurnsAt
<1> QED BY <1>5, LastBoundaryIs

\* Of the same day, the last boundary does not go back.
LEMMA SameDay ==
  ASSUME NEW z \in Zone, OnTheHour(z), NEW windows, windows \subseteq Window, NEW s \in Int, NEW t \in Int,
         \A d \in Int, w \in windows : Opens(z, d, w) < Closes(z, d, w),
         DayOf(z, s) = DayOf(z, t),
         LastBoundary(windows, z, t) # None, LastBoundary(windows, z, t).at <= s
  PROVE  /\ LastBoundary(windows, z, s) # None
         /\ LastBoundary(windows, z, t).at <= LastBoundary(windows, z, s).at
<1> DEFINE b == LastBoundary(windows, z, t)
           D == DayOf(z, t)
<1>1. b.at \in Int /\ b.at <= t /\ (\A u \in b.at..t : Seen(windows, z, D, u) <=> b.off)
      /\ (Seen(windows, z, D, b.at - 1) <=> ~b.off)
  BY LastBoundaryIs
<1>2. b.at \in b.at..t
  BY <1>1
<1>3. ~(Seen(windows, z, D, b.at) <=> Seen(windows, z, D, b.at - 1))
  BY <1>1, <1>2
<1> HIDE DEF b
<1> QED BY <1>1, <1>3, LastBoundaryIs DEF b

\* Whenever the resource has not been off since the midnight of two days ago, it
\* has turned since the last boundary, and the boundary is not older than that.
LEMMA BoundaryIsMeant ==
  ASSUME NEW z \in Zone, OnTheHour(z), Apart(z), NEW windows, windows \subseteq Window, NEW t \in Int,
         \A d \in Int, w \in windows : Opens(z, d, w) < Closes(z, d, w),
         LastBoundary(windows, z, t) # None,
         \E u \in (First(z, (DayOf(z, t) - 2) * Day) - 1)..t : ~IsOff(windows, z, u)
  PROVE  /\ First(z, (DayOf(z, t) - 2) * Day) <= LastBoundary(windows, z, t).at
         /\ \E v \in LastBoundary(windows, z, t).at..t : TurnsAt(windows, z, v)
<1> HIDE DEF Day
<1> DEFINE b == LastBoundary(windows, z, t)
           D == DayOf(z, t)
           mid == (D - 2) * Day
<1>1. b.at \in Int /\ b.at <= t /\ (\A u \in b.at..t : Seen(windows, z, D, u) <=> b.off)
      /\ (Seen(windows, z, D, b.at - 1) <=> ~b.off)
  BY LastBoundaryIs
<1> HIDE DEF b
<1>2. D \in Int /\ mid \in Int /\ D - 2 \in Int
  BY DayShown, DayIsPositive
<1>3. First(z, mid) \in Int
  <2> HIDE DEF mid
  <2> QED BY <1>2, FirstRises
<1>4. Nearby(D) \subseteq Int /\ \A d \in Int : d \in Nearby(D) <=> D - 2 <= d /\ d <= D + 1
  BY <1>2 DEF Nearby
<1>5. ASSUME NEW u \in Int, Seen(windows, z, D, u) PROVE First(z, mid) <= u /\ IsOff(windows, z, u)
  <2>1. PICK d \in Nearby(D) : OffOn(windows, z, u, d)
    BY <1>5 DEF Seen
  <2>2. d \in Int /\ D - 2 <= d /\ d <= DayOf(z, u) /\ DayOf(z, u) \in Int
    BY <1>4, <2>1, OffOnDay, DayShown
  <2>3. D - 2 <= DayOf(z, u)
    <3> HIDE DEF D
    <3> QED BY <1>2, <2>2
  <2>4. First(z, mid) <= u
    <3> HIDE DEF D
    <3> QED BY <1>2, <2>3, MidnightPassed
  <2> QED BY <2>1, <2>2, <2>4 DEF IsOff
<1>6. CASE b.off
  <2>1. \A u \in b.at..t : Seen(windows, z, D, u)
    BY <1>1, <1>6
  <2>2. Seen(windows, z, D, b.at) /\ ~Seen(windows, z, D, b.at - 1) /\ b.at \in b.at..t /\ b.at - 1 \in Int
    BY <1>1, <1>6, <2>1
  <2>3. First(z, mid) <= b.at /\ IsOff(windows, z, b.at)
    BY <1>1, <1>5, <2>2
  <2>4. ~IsOff(windows, z, b.at - 1)
    <3> SUFFICES ASSUME IsOff(windows, z, b.at - 1) PROVE FALSE
      OBVIOUS
    <3>1. PICK u \in (First(z, mid) - 1)..t : ~IsOff(windows, z, u)
      OBVIOUS
    <3>2. u \in Int /\ First(z, mid) - 1 <= u /\ u <= t /\ t \in Int
      BY <1>3
    <3>3. u < b.at
      <4>1. u \in b.at..t => FALSE
        BY <1>5, <2>1, <3>1, <3>2
      <4> QED BY <1>1, <3>2, <4>1
    <3>4. u # b.at - 1
      BY <3>1
    <3>5. u < b.at - 1 /\ First(z, mid) <= b.at - 1
      <4> HIDE DEF mid
      <4> QED BY <1>1, <1>3, <3>2, <3>3, <3>4
    <3>6. D - 2 <= DayOf(z, b.at - 1) /\ DayOf(z, b.at - 1) \in Int
      <4> HIDE DEF D
      <4> QED BY <1>2, <2>2, <3>5, MidnightPassed, DayShown
    <3>7. PICK d \in Int : OffOn(windows, z, b.at - 1, d)
      BY DEF IsOff
    <3>8. d \notin Nearby(D) /\ d \in (DayOf(z, b.at - 1) - 1)..DayOf(z, b.at - 1) /\ DayOf(z, b.at - 1) <= D
      <4>1. b.at - 1 <= t
        BY <1>1
      <4> QED BY <2>2, <3>7, <4>1, OffOnDay, DaysPass DEF Seen
    <3>9. d + 1 = D - 2
      <4> HIDE DEF D
      <4> QED BY <1>2, <1>4, <3>6, <3>8
    <3>10. PICK w \in windows : Weekday(d) \in w.days /\ Opens(z, d, w) <= b.at - 1 /\ b.at - 1 < Closes(z, d, w)
      BY <3>7 DEF OffOn
    <3>11. Opens(z, d, w) \in Int /\ Opens(z, d, w) < First(z, mid) /\ Closes(z, d, w) \in Int
      <4> DEFINE opens == d * Day + w.from
      <4>1. w \in Window
        OBVIOUS
      <4>2. opens \in Int /\ opens < (d + 1) * Day /\ d + 1 \in Int
        BY <4>1, WallOfDays, DayIsPositive
      <4>3. First(z, opens) \in Int /\ First(z, opens) < First(z, (d + 1) * Day)
        <5> HIDE DEF opens
        <5> QED BY <4>2, BeforeMidnight
      <4> QED BY <3>9, <4>1, <4>3, WindowSpan DEF Opens
    <3>12. Opens(z, d, w) <= u /\ u < Closes(z, d, w)
      <4> HIDE DEF mid
      <4> QED BY <1>1, <1>3, <3>2, <3>5, <3>10, <3>11
    <3>13. IsOff(windows, z, u)
      BY <3>10, <3>12 DEF IsOff, OffOn
    <3> QED BY <3>1, <3>13
  <2>5. TurnsAt(windows, z, b.at)
    BY <2>3, <2>4 DEF TurnsAt
  <2> QED BY <2>2, <2>3, <2>5 DEF b
<1>7. CASE ~b.off
  <2>1. \A u \in b.at..t : ~Seen(windows, z, D, u)
    BY <1>1, <1>7
  <2>2. Seen(windows, z, D, b.at - 1) /\ b.at \in b.at..t /\ b.at - 1 \in Int
    BY <1>1, <1>7
  <2>3. First(z, mid) <= b.at - 1 /\ IsOff(windows, z, b.at - 1)
    BY <1>5, <2>2
  <2>4. ~IsOff(windows, z, t)
    <3>1. t \in b.at..t /\ D \in (D - 1)..D
      BY <1>1, <1>2
    <3>2. ~Seen(windows, z, D, t)
      BY <2>1, <3>1
    <3> QED BY <1>2, <3>1, <3>2, SeenIsOff
  <2>5. \E v \in b.at..t : TurnsAt(windows, z, v)
    <3> DEFINE On == {u \in b.at..t : ~IsOff(windows, z, u)}
    <3>1. Min(On) \in On /\ \A x \in On : Min(On) <= x
      <4>1. t \in On /\ \A x \in On : x \in Int /\ b.at <= x
        BY <1>1, <2>4
      <4> HIDE DEF On
      <4> QED BY <1>1, <4>1, MinIsLeast
    <3>2. PICK v \in On : v = Min(On)
      BY <3>1
    <3>3. v \in Int /\ b.at <= v /\ v <= t /\ ~IsOff(windows, z, v)
      BY <1>1
    <3>4. IsOff(windows, z, v - 1)
      <4>1. CASE v = b.at
        BY <2>3, <4>1
      <4>2. CASE v # b.at
        <5>1. v - 1 \in b.at..t /\ ~(v <= v - 1)
          BY <1>1, <3>3, <4>2
        <5>2. v - 1 \notin On
          <6> HIDE DEF On
          <6> QED BY <3>1, <3>2, <5>1
        <5> QED BY <5>1, <5>2
      <4> QED BY <4>1, <4>2
    <3>5. v \in b.at..t /\ TurnsAt(windows, z, v)
      BY <3>3, <3>4 DEF TurnsAt
    <3> QED BY <3>5
  <2>6. First(z, mid) <= b.at
    <3> HIDE DEF mid
    <3> QED BY <1>1, <1>3, <2>3
  <2> QED BY <2>5, <2>6 DEF b
<1> QED BY <1>6, <1>7

-----------------------------------------------------------------------------
(* The second theorem. *)

\* The changes and windows the second theorem is about.
Plain == OnTheHour(zone) /\ Apart(zone) /\ ~Swallowed

\* What was recorded is not older than the last boundary when the hub last looked.
Acted ==
  last # None =>
    /\ last \in Int /\ last <= since
    /\ LastBoundary(ws, zone, since) # None => LastBoundary(ws, zone, since).at <= last

\* The turns of the schedule, where the model looks.
LEMMA HoursAre ==
  ASSUME Steady, OnTheHour(zone), NEW u \in Int, DayOf(zone, From) - 3 <= DayOf(zone, u), u <= Horizon
  PROVE  u \in hours <=> IsOff(ws, zone, u)
BY SteadyFacts, MeantIs DEF Steady

\* ... in terms of windows.
LEMMA TurnsAre ==
  ASSUME Steady, OnTheHour(zone), NEW t \in Int, t <= Horizon, NEW u \in (since + 1)..t
  PROVE  u \in Turns(since + 1, t) <=> TurnsAt(ws, zone, u)
<1>1. u \in Int /\ u - 1 \in Int /\ From <= u - 1 /\ From <= u /\ u <= Horizon /\ u - 1 <= Horizon
      /\ From \in Int /\ zone \in Zone
  BY SteadyFacts DEF Steady
<1>2. DayOf(zone, From) - 3 <= DayOf(zone, u) /\ DayOf(zone, From) - 3 <= DayOf(zone, u - 1)
  BY <1>1, DaysPass
<1>3. (u \in hours <=> IsOff(ws, zone, u)) /\ (u - 1 \in hours <=> IsOff(ws, zone, u - 1))
  BY <1>1, <1>2, HoursAre
<1>4. ((u \in hours) # (u - 1 \in hours)) <=> TurnsAt(ws, zone, u)
  BY <1>3 DEF TurnsAt
<1>5. u \in Turns(since + 1, t) <=> ((u \in hours) # (u - 1 \in hours))
  BY DEF Turns
<1> QED BY <1>4, <1>5

\* When the resource was not off for long, there is an instant at which it was on.
LEMMA NotLongOff ==
  ASSUME Steady, OnTheHour(zone), Apart(zone), NEW t \in Int, From <= t, t <= Horizon, ~LongOff(t)
  PROVE  \E u \in (First(zone, (DayOf(zone, t) - 2) * Day) - 1)..t : ~IsOff(ws, zone, u)
<1> HIDE DEF Day
<1> DEFINE D == DayOf(zone, t)
           F == DayOf(zone, From)
           mid == (D - 2) * Day
           low == (F - 3) * Day
<1>1. zone \in Zone /\ From \in Int /\ D \in Int /\ F \in Int /\ F <= D /\ Horizon \in Int
  BY SteadyFacts, DaysPass
<1>2. mid \in Int /\ low \in Int /\ F - 3 < D - 2 /\ D - 2 \in Int /\ F - 3 \in Int
  BY <1>1, DayIsPositive
<1>3. low < mid
  <2>1. low + Day <= mid
    <3> HIDE DEF D, F
    <3> QED BY <1>2, Multiple, DayIsPositive
  <2> HIDE DEF low, mid
  <2> QED BY <1>2, <2>1, DayIsPositive
<1>4. First(zone, low) \in Int /\ First(zone, mid) \in Int /\ First(zone, low) < First(zone, mid)
  <2> HIDE DEF low, D
  <2> QED BY <1>1, <1>2, <1>3, BeforeMidnight
<1>5. PICK u \in (First(zone, mid) - 1)..t : u \notin hours
  BY DEF LongOff
<1>6. u \in Int /\ First(zone, low) <= u /\ u <= Horizon
  <2> HIDE DEF low, mid
  <2> QED BY <1>1, <1>4
<1>7. F - 3 <= DayOf(zone, u)
  <2> HIDE DEF F
  <2> QED BY <1>1, <1>2, <1>6, MidnightPassed
<1>8. ~IsOff(ws, zone, u)
  BY <1>5, <1>6, <1>7, HoursAre
<1> QED BY <1>8

\* A look at the schedule keeps what is recorded in step with the boundaries,
\* does nothing when nothing turned, and otherwise acts on the last turn.
LEMMA EvaluateActs ==
  ASSUME Steady, Plain, Acted, NEW t \in Int, since <= t, t <= Horizon, NEW maxAge, Evaluate(t, maxAge)
  PROVE  LET turns == Turns(since + 1, t)
             recent == Turns(First(zone, (DayOf(zone, t) - 1) * Day), t) \cap turns
             wanted == IF t \in hours THEN "stop" ELSE "start"
         IN  /\ Acted'
             /\ last # None /\ ~LongOff(t) /\ turns = {} => act' = "none"
             /\ last # None /\ recent # {} =>
                  \E at \in Int : /\ Max(recent) \in Int /\ Max(recent) <= at /\ at <= t /\ since < at
                                  /\ act' = IF t - at <= maxAge THEN wanted ELSE "none"
<1> HIDE DEF Day
<1> DEFINE b == LastBoundary(ws, zone, t)
           a == LastBoundary(ws, zone, since)
           D == DayOf(zone, t)
           due == b # None /\ (last # None => b.at > last)
           turns == Turns(since + 1, t)
           recent == Turns(First(zone, (D - 1) * Day), t) \cap turns
           wanted == IF t \in hours THEN "stop" ELSE "start"
<1>1. /\ zone \in Zone /\ ws \subseteq Window /\ since \in Int /\ From \in Int /\ From <= since /\ From <= t
      /\ OnTheHour(zone) /\ Apart(zone) /\ ~Swallowed /\ D \in Int
  BY SteadyFacts, DayShown DEF Steady, Plain
<1>2. \A d \in Int, w \in ws : Opens(zone, d, w) < Closes(zone, d, w)
  BY <1>1, WindowLasts
<1>3. b # None => /\ b.at \in Int /\ b.at <= t /\ b.off \in BOOLEAN
                  /\ \A u \in b.at..t : Seen(ws, zone, D, u) <=> b.off
  BY <1>1, <1>2, LastBoundaryIs
<1>4. /\ last' = IF due THEN b.at ELSE last
      /\ act' = IF due /\ t - b.at <= maxAge THEN IF b.off THEN "stop" ELSE "start" ELSE "none"
      /\ since' = t /\ ws' = ws /\ zone' = zone
  BY DEF Evaluate
<1>5. Acted'
  <2>1. LastBoundary(ws', zone', since') = b
    BY <1>4
  <2> HIDE DEF b
  <2>2. last' # None => last' \in Int /\ last' <= t /\ (b # None => b.at <= last')
    BY <1>1, <1>3, <1>4 DEF Acted
  <2> QED BY <1>4, <2>1, <2>2 DEF Acted
<1>6. ASSUME last # None, ~LongOff(t), turns = {} PROVE act' = "none"
  <2> SUFFICES ASSUME due PROVE FALSE
    BY <1>4
  <2>1. b # None /\ last < b.at /\ last \in Int /\ last <= since /\ (a # None => a.at <= last)
    BY <1>3, <1>6 DEF Acted
  <2>2. \E u \in (First(zone, (D - 2) * Day) - 1)..t : ~IsOff(ws, zone, u)
    BY <1>1, <1>6, NotLongOff
  <2>3. First(zone, (D - 2) * Day) <= b.at /\ \E v \in b.at..t : TurnsAt(ws, zone, v)
    BY <1>1, <1>2, <2>1, <2>2, BoundaryIsMeant
  <2>4. PICK v \in b.at..t : TurnsAt(ws, zone, v)
    BY <2>3
  <2>5. v \in Int /\ b.at <= v /\ v <= t /\ b.at \in Int
    BY <1>3, <2>1
  <2>6. v <= since
    <3>1. v \in (since + 1)..t => v \in turns
      BY <1>1, <2>4, TurnsAre
    <3> QED BY <1>1, <1>6, <2>5, <3>1
  <2>7. a # None => a.at \in Int
    BY <1>1, <1>2, LastBoundaryIs
  <2>8. CASE DayOf(zone, since) = D
    <3>1. b.at <= since
      <4> HIDE DEF b
      <4> QED BY <1>1, <2>5, <2>6
    <3>2. a # None /\ b.at <= a.at
      BY <1>1, <1>2, <2>1, <2>8, <3>1, SameDay
    <3> HIDE DEF a, b
    <3> QED BY <2>1, <2>5, <2>7, <3>2
  <2>9. CASE DayOf(zone, since) # D
    <3> DEFINE S == DayOf(zone, since)
    <3>1. S \in Int /\ S - 1 <= D - 2
      <4>1. S \in Int /\ S <= D
        BY <1>1, DaysPass
      <4> HIDE DEF S, D
      <4> QED BY <1>1, <2>9, <4>1 DEF S
    <3>2. (S - 1) * Day \in Int /\ (D - 2) * Day \in Int /\ (S - 1) * Day <= (D - 2) * Day
      <4>1. S - 1 \in Int /\ D - 2 \in Int
        BY <1>1, <3>1
      <4>2. (S - 1) * Day \in Int /\ (D - 2) * Day \in Int
        BY <4>1, DayIsPositive
      <4>3. S - 1 < D - 2 => (S - 1) * Day + Day <= (D - 2) * Day
        <5> HIDE DEF S, D
        <5> QED BY <4>1, Multiple, DayIsPositive
      <4>4. S - 1 = D - 2 => (S - 1) * Day = (D - 2) * Day
        OBVIOUS
      <4> HIDE DEF S, D
      <4> QED BY <3>1, <4>1, <4>2, <4>3, <4>4, DayIsPositive
    <3>3. First(zone, (S - 1) * Day) \in Int /\ First(zone, (D - 2) * Day) \in Int
          /\ First(zone, (S - 1) * Day) <= First(zone, (D - 2) * Day)
      <4> HIDE DEF S, D
      <4> QED BY <1>1, <3>2, FirstRises
    <3>4. First(zone, (S - 1) * Day) <= v
      <4> HIDE DEF S, D, b
      <4> QED BY <2>3, <2>5, <3>3
    <3>5. a # None /\ v <= a.at
      BY <1>1, <1>2, <2>4, <2>5, <2>6, <3>4, TurnIsSeen
    <3> HIDE DEF a, b
    <3> QED BY <2>1, <2>5, <2>7, <3>5
  <2> QED BY <2>8, <2>9
<1>7. ASSUME last # None, recent # {}
      PROVE  \E at \in Int : /\ Max(recent) \in Int /\ Max(recent) <= at /\ at <= t /\ since < at
                             /\ act' = IF t - at <= maxAge THEN wanted ELSE "none"
  <2>1. recent \subseteq (since + 1)..t
    BY DEF Turns
  <2>2. Max(recent) \in recent
    <3>1. \A x \in recent : x \in Int /\ x <= t
      BY <1>1, <2>1
    <3> HIDE DEF recent
    <3> QED BY <1>7, <3>1, MaxIsGreatest
  <2>3. PICK m \in recent : m = Max(recent)
    BY <2>2
  <2>4. m \in Int /\ since < m /\ m <= t
    BY <1>1, <2>1
  <2>5. First(zone, (D - 1) * Day) \in Int /\ First(zone, (D - 1) * Day) <= m
    <3>1. (D - 1) * Day \in Int
      BY <1>1, DayIsPositive
    <3>2. First(zone, (D - 1) * Day) \in Int
      <4> HIDE DEF D
      <4> QED BY <1>1, <3>1, FirstRises
    <3>3. m \in First(zone, (D - 1) * Day)..t
      BY DEF Turns
    <3> HIDE DEF D
    <3> QED BY <3>2, <3>3
  <2>6. TurnsAt(ws, zone, m)
    <3>1. m \in turns /\ m \in (since + 1)..t
      BY <2>1
    <3> QED BY <1>1, <3>1, TurnsAre
  <2>7. b # None /\ m <= b.at
    BY <1>1, <1>2, <2>4, <2>5, <2>6, TurnIsSeen
  <2>8. due /\ b.at \in Int /\ b.at <= t /\ since < b.at
    <3>1. last \in Int /\ last <= since
      BY <1>7 DEF Acted
    <3>2. b.at \in Int /\ b.at <= t
      BY <1>3, <2>7
    <3> HIDE DEF b
    <3> QED BY <1>1, <2>4, <2>7, <3>1, <3>2 DEF b
  <2>9. b.off <=> t \in hours
    <3>1. t \in b.at..t /\ D \in (D - 1)..D
      BY <1>1, <2>8
    <3>2. b.off <=> Seen(ws, zone, D, t)
      BY <1>3, <2>7, <3>1
    <3>3. Seen(ws, zone, D, t) <=> IsOff(ws, zone, t)
      BY <1>1, <3>1, SeenIsOff
    <3>4. DayOf(zone, From) - 3 <= DayOf(zone, t)
      BY <1>1, DaysPass
    <3> QED BY <1>1, <3>2, <3>3, <3>4, HoursAre
  <2>10. act' = IF t - b.at <= maxAge THEN wanted ELSE "none"
    <3> HIDE DEF b
    <3> QED BY <1>4, <2>8, <2>9 DEF b
  <2> HIDE DEF b, recent
  <2> QED BY <2>3, <2>4, <2>7, <2>8, <2>10
<1> QED BY <1>5, <1>6, <1>7

\* One case for each action.
LEMMA ActedStep ==
  ASSUME Steady, Plain, Acted, [Next]_vars
  PROVE  Acted' /\ (ActsAsMeant \/ UNCHANGED vars)
<1> HIDE DEF Day
<1>1. since \in Int /\ now \in Int /\ Horizon \in Nat /\ From \in Nat /\ From <= since /\ since <= now /\ now <= Horizon
  BY SteadyFacts DEF Steady
<1>2. CatchUpWindow \in Nat /\ Day \in Int /\ Day > 0
  BY OffHoursAssumption, DayIsPositive
<1>3. CASE Minute
  <2>1. now + 1 \in Int /\ now + 1 <= Horizon /\ since <= now + 1 /\ Evaluate(now + 1, Unlimited) /\ since' = now + 1
    BY <1>1, <1>3 DEF Minute, Evaluate
  <2> DEFINE t == now + 1
             turns == Turns(since + 1, t)
             recent == Turns(First(zone, (DayOf(zone, t) - 1) * Day), t) \cap turns
             wanted == IF t \in hours THEN "stop" ELSE "start"
  <2>2. /\ Acted'
        /\ last # None /\ ~LongOff(t) /\ turns = {} => act' = "none"
        /\ last # None /\ recent # {} =>
             \E at \in Int : /\ Max(recent) \in Int /\ Max(recent) <= at /\ at <= t /\ since < at
                             /\ act' = IF t - at <= Unlimited THEN wanted ELSE "none"
    BY <2>1, EvaluateActs
  <2>3. \A at \in Int : since < at => t - at <= Unlimited
    BY <1>1, <1>2, <2>1 DEF Unlimited
  <2>4. last # None /\ recent # {} => act' = wanted
    <3> HIDE DEF t, recent, wanted
    <3> QED BY <2>2, <2>3
  <2>5. ActsAsMeant
    <3> HIDE DEF recent, turns, wanted
    <3> QED BY <2>1, <2>2, <2>4 DEF ActsAsMeant, recent, turns, wanted
  <2> QED BY <2>2, <2>5
<1>4. CASE CatchUp
  <2>1. now \in Int /\ now <= Horizon /\ since <= now /\ Evaluate(now, CatchUpWindow) /\ since' = now /\ now' = now
    BY <1>1, <1>4 DEF CatchUp, Evaluate
  <2> DEFINE turns == Turns(since + 1, now)
             recent == Turns(First(zone, (DayOf(zone, now) - 1) * Day), now) \cap turns
             wanted == IF now \in hours THEN "stop" ELSE "start"
  <2>2. /\ Acted'
        /\ last # None /\ ~LongOff(now) /\ turns = {} => act' = "none"
        /\ last # None /\ recent # {} =>
             \E at \in Int : /\ Max(recent) \in Int /\ Max(recent) <= at /\ at <= now /\ since < at
                             /\ act' = IF now - at <= CatchUpWindow THEN wanted ELSE "none"
    BY <2>1, EvaluateActs
  <2>3. last # None /\ recent # {} => act' = wanted \/ now - Max(recent) > CatchUpWindow
    <3> HIDE DEF recent, wanted
    <3> QED BY <1>1, <1>2, <2>2
  <2>4. ActsAsMeant
    <3> HIDE DEF recent, turns, wanted
    <3> QED BY <2>1, <2>2, <2>3 DEF ActsAsMeant, recent, turns, wanted
  <2> QED BY <2>2, <2>4
<1>5. CASE Sleep
  <2>1. UNCHANGED <<ws, zone, last, since>>
    BY <1>5 DEF Sleep
  <2> QED BY <2>1 DEF Acted, ActsAsMeant
<1>6. CASE UNCHANGED vars
  <2>1. UNCHANGED <<ws, zone, last, since>>
    BY <1>6 DEF vars
  <2> QED BY <1>6, <2>1 DEF Acted
<1> QED BY <1>3, <1>4, <1>5, <1>6 DEF Next

\* The inductive invariant: a window that is swallowed excepts everything.
ActedIfPlain == Steady /\ OnTheHour(zone) /\ Apart(zone) /\ (~Swallowed => Acted)

\* It is one.
LEMMA ActedIfPlainStep ==
  ASSUME ActedIfPlain, [Next]_vars
  PROVE  ActedIfPlain' /\ (ActsAsMeant \/ UNCHANGED vars)
<1>1. Steady' /\ UNCHANGED <<zone, ws>>
  BY SteadyStep DEF ActedIfPlain
<1>2. OnTheHour(zone)' /\ Apart(zone)' /\ (Swallowed' <=> Swallowed)
  BY <1>1 DEF ActedIfPlain, OnTheHour, Apart, Swallowed
<1>3. ~Swallowed => Acted' /\ (ActsAsMeant \/ UNCHANGED vars)
  BY ActedStep DEF ActedIfPlain, Plain
<1>4. Swallowed => ActsAsMeant
  BY DEF ActsAsMeant
<1> QED BY <1>1, <1>2, <1>3, <1>4 DEF ActedIfPlain

\* There, and where no day begins with the change, the minute tick and the boot act
\* on every turn of the schedule since they last looked, and on nothing else.
THEOREM TurnsAreActedOn == Spec /\ OnTheHour(zone) /\ Apart(zone) => ActsOnItsTurns
<1>1. Init /\ OnTheHour(zone) /\ Apart(zone) => ActedIfPlain
  BY SteadyInit DEF Init, ActedIfPlain, Acted
<1>2. ActedIfPlain /\ [Next]_vars => ActedIfPlain'
  BY ActedIfPlainStep
<1>3. ActedIfPlain /\ [Next]_vars => [ActsAsMeant]_vars
  BY ActedIfPlainStep
<1> QED BY <1>1, <1>2, <1>3, PTL DEF Spec, ActsOnItsTurns, ActsAsMeant
=============================================================================

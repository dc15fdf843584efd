------------------------------ MODULE OffHours ------------------------------
(***************************************************************************)
(* The off windows of a schedule (guardrails/schedule.go) and what the hub *)
(* does of them every minute and at its boot (Hub.runSchedules): windows of *)
(* weekdays and wall-clock times, in a zone whose offset changes once.     *)
(*                                                                         *)
(* An instant is a minute of UTC, a wall-clock time a minute since the     *)
(* midnight that begins a Monday in the zone.  Days and hours may be       *)
(* shorter than ours.                                                      *)
(***************************************************************************)
EXTENDS Integers, FiniteSets, FiniteSetsExt

CONSTANTS
  MinutesPerHour, HoursPerDay, DaysPerWeek,
  Lookback,      \* how far before a boundary its zone is compared: six hours
  CatchUpWindow, \* the oldest boundary the boot acts on
  Schedules,     \* the window lists a person may have stored
  Zones,         \* the offset before and after an instant
  From, Horizon, \* bounds: the instants at which the model begins and ends
  MaxSleep,      \* bound: minutes in a row without an evaluation
  None

Day == MinutesPerHour * HoursPerDay

\* What ParseWindows accepts: a time of day, "24:00" as an end only.
Window == [days : (SUBSET (1..DaysPerWeek)) \ {{}}, from : 0..(Day - 1), to : 0..Day]

ASSUME OffHoursAssumption ==
  /\ {MinutesPerHour, HoursPerDay, DaysPerWeek} \subseteq Nat \ {0}
  /\ {Lookback, CatchUpWindow, MaxSleep, From, Horizon} \subseteq Nat /\ From <= Horizon
  /\ Zones \subseteq [before : Int, after : Int, at : Int]
  /\ \A ws \in Schedules : ws # {} /\ ws \subseteq Window
  /\ None \notin Int /\ None \notin [at : Int, off : BOOLEAN]

VARIABLES
  now,
  ws, zone,    \* the schedule and its zone
  last,        \* azure_schedules.last_boundary
  since,       \* when the schedule was last looked at
  act,         \* what the hub did of it then
  hours        \* what the schedule means: the instants at which the resource is off

vars == <<now, ws, zone, last, since, act, hours>>

-----------------------------------------------------------------------------
(* Wall clocks. *)

Offset(z, u) == IF u < z.at THEN z.before ELSE z.after
Wall(z, u) == u + Offset(z, u)
DayOf(z, u) == Wall(z, u) \div Day
Weekday(d) == (d % DaysPerWeek) + 1

\* time.Date: the offset is the one found at the wall-clock time read as UTC, or
\* at the instant that gives when it is on the other side of the change.  A time
\* that is skipped or repeated gets one of the two instants.
TimeDate(z, wall) ==
  LET guess == wall - Offset(z, wall)
  IN  IF (wall < z.at) = (guess < z.at) THEN guess ELSE wall - Offset(z, guess)

\* time.Date of a midnight may be of the day before: day.Day() is asked again.
DayAt(z, d) == DayOf(z, TimeDate(z, d * Day))

\* Mutant: what time.Date answers for a time that happens twice.
ClockSecond(z, d, mins) ==
  LET t == TimeDate(z, d * Day + mins)
  IN  IF mins >= Day \/ Wall(z, t) % Day = mins THEN t
      ELSE TimeDate(z, d * Day + ((mins \div MinutesPerHour) + 1) * MinutesPerHour)

\* clock: a skipped time is moved to the next hour, a repeated one is the first.
Clock(z, d, mins) ==
  LET t == TimeDate(z, d * Day + mins)
      delta == Offset(z, t - Lookback) - Offset(z, t)
  IN  IF mins >= Day THEN TimeDate(z, (d + 1) * Day)
      ELSE IF Wall(z, t) % Day # mins
           THEN TimeDate(z, d * Day + ((mins \div MinutesPerHour) + 1) * MinutesPerHour)
      ELSE IF delta > 0 /\ Wall(z, t - delta) % Day = mins THEN t - delta
      ELSE t

-----------------------------------------------------------------------------
(* Intervals and boundaries. *)

\* The intervals that begin on one of the days around t.
Around(windows, z, t) ==
  LET days == {DayAt(z, DayOf(z, t) + k) : k \in (-2)..1}
      ends(d, w) == IF w.to <= w.from THEN Clock(z, DayAt(z, d + 1), w.to) ELSE Clock(z, d, w.to)
  IN  {[start |-> Clock(z, p[1], p[2].from), end |-> ends(p[1], p[2])] :
         p \in {q \in days \X windows : Weekday(q[1]) \in q[2].days}}

\* Mutant: intervals that touch are two.
MergedApart(ivs) == ivs

\* merge: intervals that overlap or touch become one.
Merged(ivs) ==
  LET starts == {iv.start : iv \in {i \in ivs : ~\E j \in ivs : j.start < i.start /\ i.start <= j.end}}
      ends == {iv.end : iv \in {i \in ivs : ~\E j \in ivs : j.start <= i.end /\ i.end < j.end}}
  IN  {[start |-> s, end |-> Min({e \in ends : e >= s})] : s \in starts}

Off(windows, z, t) == \E iv \in Merged(Around(windows, z, t)) : iv.start <= t /\ t < iv.end

\* The most recent boundary and what it says; of an interval that is empty, its start.
LastBoundary(windows, z, t) ==
  LET ivs == Merged(Around(windows, z, t))
      starts == {iv.start : iv \in ivs}
      past == {b \in starts \cup {iv.end : iv \in ivs} : b <= t}
  IN  IF past = {} THEN None ELSE [at |-> Max(past), off |-> Max(past) \in starts]

-----------------------------------------------------------------------------
(* The hub. *)

\* runSchedules: a boundary newer than the recorded one is recorded and acted
\* on, unless it is older than maxAge.
Evaluate(t, maxAge) ==
  LET b == LastBoundary(ws, zone, t)
      due == b # None /\ (last # None => b.at > last)
  IN  /\ last' = IF due THEN b.at ELSE last
      /\ act' = IF due /\ t - b.at <= maxAge THEN IF b.off THEN "stop" ELSE "start" ELSE "none"
      /\ since' = t
      /\ UNCHANGED <<ws, zone, hours>>

Unlimited == Horizon + 8 * Day

\* The minute tick.
Minute == now < Horizon /\ now' = now + 1 /\ Evaluate(now + 1, Unlimited)

\* The hub is down, or Azure is not configured.
Sleep == /\ now < Horizon /\ now - since < MaxSleep /\ now' = now + 1
         /\ UNCHANGED <<ws, zone, last, since, act, hours>>

\* The boot.
CatchUp == UNCHANGED now /\ Evaluate(now, CatchUpWindow)

\* The first instant at which the clock on the wall shows this time or a later one.
First(z, wall) ==
  Min({u \in {wall - z.before, wall - z.after, z.at} : Wall(z, u) >= wall})

\* What the windows say, of every day and without clock: off from the first
\* time the clock shows the start to the first time it shows the end.
Meant(windows, z) ==
  LET days == (DayOf(z, From) - 4)..(DayOf(z, Horizon) + 1)
      until(d, w) == First(z, (IF w.to <= w.from THEN d + 1 ELSE d) * Day + w.to)
  IN  UNION {First(z, p[1] * Day + p[2].from)..(until(p[1], p[2]) - 1) :
               p \in {q \in days \X windows : Weekday(q[1]) \in q[2].days}}

Init ==
  /\ ws \in Schedules /\ zone \in Zones /\ hours = Meant(ws, zone)
  /\ now = From /\ last = None /\ since = From /\ act = "none"

Next == Minute \/ Sleep \/ CatchUp

Spec == Init /\ [][Next]_vars

-----------------------------------------------------------------------------
(* Properties. *)

\* The changes clock is written for (schedule.go:124): what is skipped ends on a
\* full hour and is an hour at most, what is repeated is within the look-back, and
\* no midnight is skipped or repeated.
OnTheHour(z) ==
  LET skipped == (z.at + z.before)..(z.at + z.after - 1)
      repeated == (z.at + z.after)..(z.at + z.before - 1)
  IN  /\ z.after > z.before => z.after - z.before <= MinutesPerHour /\ (z.at + z.after) % MinutesPerHour = 0
      /\ z.before - z.after <= Lookback
      /\ \A w \in skipped \cup repeated : w % Day # 0

\* No day begins with the change.
Apart(z) == (z.at + z.after) % Day # 0

\* The resource is off exactly when its windows say so on the wall clock of its
\* zone (schedule.go:194), through midnights, weekends and changes of the clock.
OffIsMeant == Off(ws, zone, now) <=> now \in hours

Turns(from, to) == {u \in from..to : (u \in hours) # (u - 1 \in hours)}

\* Off without a break since before the midnight LastBoundary looks back to: from
\* Friday evening to Monday morning is enough.
LongOff(t) == (First(zone, (DayOf(zone, t) - 2) * Day) - 1)..t \subseteq hours

\* A window swallowed by the hour that is skipped, from and to at one instant.
Swallowed == \E w \in ws : w.from < w.to /\ \E d \in (DayOf(zone, zone.at) - 1)..DayOf(zone, zone.at) :
               First(zone, d * Day + w.from) = First(zone, d * Day + w.to)

\* "Act on boundaries only" (docs/ARCHITECTURE_EN.md:360): when the hub looks at
\* a schedule it acts exactly when the resource was to turn on or off since it
\* last looked, and does what the windows say now; at boot not on what is too
\* old.  Excepted are an off time that began before the midnight of two days ago,
\* whose start is then seen again every midnight, and a window the change of the
\* clock swallows.
ActsAsMeant ==
  last # None /\ since' # since /\ ~LongOff(since') /\ ~Swallowed =>
    LET turns == Turns(since + 1, since')
        recent == Turns(First(zone, (DayOf(zone, since') - 1) * Day), since') \cap turns
        wanted == IF since' \in hours THEN "stop" ELSE "start"
    IN  /\ turns = {} => act' = "none"
        /\ recent # {} => act' = wanted \/ (now' = now /\ since' - Max(recent) > CatchUpWindow)

\* The hub acts on the turns of a schedule and on nothing else.
ActsOnItsTurns == [][ActsAsMeant]_vars
=============================================================================

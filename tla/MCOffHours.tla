----------------------------- MODULE MCOffHours -----------------------------
(* Windows and zones for OffHours: a day of six hours of two minutes.        *)
EXTENDS OffHours

\* A clock that reads `hour' on day 5 goes from one offset to the other.
Change(before, after, hour) ==
  [before |-> before, after |-> after, at |-> 5 * Day + hour * MinutesPerHour - before]

MCZones == {Change(2, 4, 2), Change(4, 2, 3), Change(-4, -2, 2), Change(-2, -4, 2), Change(4, 3, 2)}

ASSUME ZonesAreOnTheHour == \A z \in MCZones : OnTheHour(z) /\ Apart(z)

Daily(from, to) == {[days |-> 1..DaysPerWeek, from |-> from, to |-> to]}
Twice(from, to) == {[days |-> {4, 6}, from |-> from, to |-> to], [days |-> {5}, from |-> 5, to |-> 1]}

\* EveningsAndWeekends, and a weekend of four days.
Weekend == {[days |-> {1, 2, 3, 4, 5}, from |-> 10, to |-> 3], [days |-> {6, 7}, from |-> 0, to |-> Day]}
Long == {[days |-> {4, 5, 6, 7}, from |-> 0, to |-> Day]}

MCSchedules == {Weekend, Long} \cup {Daily(from, to) : from \in {0, 4, 5, 8, 11}, to \in 0..Day}
               \cup {Twice(from, to) : from \in {0, 5, 9}, to \in {0, 5, 9}}
=============================================================================

------------------------------ MODULE AzureOps ------------------------------
(***************************************************************************)
(* What the hub does to Azure: azure_action.go (start, stop), the schedule *)
(* half of guardrails_hub.go, the inventory sweep and the reload of the    *)
(* settings of azure_sync.go, and the tables they share.                   *)
(*                                                                         *)
(* Actors: the run loop, which applies the schedules; one goroutine per    *)
(* action; one sweep at a time; the HTTP handlers, which are up before the *)
(* loop is; Azure, which runs an accepted operation when it likes, whether *)
(* or not the hub still listens; people, who use Azure by hand.  The hub   *)
(* may crash at any step: the goroutines die, the tables and Azure do not. *)
(*                                                                         *)
(* Two scopes can be watched, home and away; every resource is in home.    *)
(* The windows of every schedule have a boundary every Period, the first   *)
(* at Period.  Left out: whether an action starts or stops, the state a    *)
(* row shows (so also the read-back that refreshes it), errors of the      *)
(* database, and two saves of the settings at once.                        *)
(***************************************************************************)
EXTENDS Integers, Sequences

CONSTANTS
  Resources,
  Period,      \* between two boundaries of a schedule
  CatchUp,     \* catchUpWindow: the oldest boundary a boot still applies
  NoSchedule,  \* not in azure_schedules
  MaxTime, MaxActions, MaxChanges   \* bounds

ASSUME AzureAssumption ==
  /\ Resources # {} /\ Period \in Nat \ {0} /\ CatchUp \in Nat
  /\ {MaxTime, MaxActions, MaxChanges} \subseteq Nat

ActionIds == 1..MaxActions
RowStates == {"absent", "live", "deleted"}
Schedule == [enabled : BOOLEAN, last : 0..MaxTime]     \* 0: last_boundary is NULL
ASSUME NoScheduleAssumption == NoSchedule \notin Schedule
Origins == {"user", "schedule"}
Statuses == {"pending", "running", "succeeded", "failed", "interrupted"}
Action == [res : Resources, origin : Origins, status : Statuses]
GuardrailEvent == [res : Resources, kind : {"fired", "resolved"}]
Configs == {"off", "home", "away"}                     \* the mode and the scope
On(c) == c # "off"
Scope(c) == IF c = "away" THEN "away" ELSE "home"
TaskSteps == {"none", "mark", "post", "await", "close", "journal", "insert"}
Task == [pc : TaskSteps, ok : BOOLEAN]
LoopSteps == {"interrupt", "catchup", "idle", "sched", "act", "refused", "insert"}
Loop == [pc : LoopSteps, at : 0..MaxTime, first : BOOLEAN, res : Resources]
Copy == [res : Resources, last : 0..MaxTime]
SweepState == [pc : {"idle", "storing"}, scope : {"home", "away"}, seen : SUBSET Resources]

VARIABLES
  clock,
  cloud,      \* Azure: the resources that exist
  ops,        \* Azure: the operation each action asked for
  rows,       \* azure_resources
  schedules,  \* azure_schedules
  actions,    \* azure_actions, by id
  journal,    \* azure_guardrail_events of the rule schedule_failed
  saved,      \* the settings, as stored
  cfg,        \* the settings the process uses
  reload,     \* where a save of the settings is
  task,       \* the goroutine of each action
  loop,       \* where the run loop is: step, time it has read, first pass, resource in hand
  todo,       \* the enabled schedules it has read: resource and last boundary
  sweep,      \* the inventory sweep: step, scope, what it has seen
  changes,    \* counts the restarts and what people change, for the bound
  decided,    \* history: the boundaries decided since a schedule was created
  overtaken,  \* history: actions interrupted by a boot whose goroutine they belong to
  overlap     \* history: resources two writers journalled at once

azure == <<cloud, ops>>
settings == <<saved, cfg, reload>>
history == <<decided, overtaken, overlap>>
vars == <<clock, azure, rows, schedules, actions, journal, settings, task, loop, todo, sweep,
          changes, history>>

NoTask == [pc |-> "none", ok |-> FALSE]
NoSweep == [pc |-> "idle", scope |-> "home", seen |-> {}]
LoopAt(step, at, first, res) == [pc |-> step, at |-> at, first |-> first, res |-> res]
AnyResource == CHOOSE r \in Resources : TRUE
AtRest == LoopAt("idle", 0, FALSE, AnyResource)

Goto(a, step) == task' = [task EXCEPT ![a].pc = step]

-----------------------------------------------------------------------------
(* Starting an action: the page's button and the schedules. *)

\* The inventory is the allow-list: a row the last sweep still saw.
Actionable(r) == On(cfg) /\ rows[r] = "live"

\* Mutant: an action that has not begun does not hold its resource.
InFlightRunning(r) == \E a \in DOMAIN actions : actions[a].res = r /\ actions[a].status = "running"

\* The partial unique index of azure_actions.
InFlight(r) == \E a \in DOMAIN actions :
                 actions[a].res = r /\ actions[a].status \in {"pending", "running"}

\* StartActionFrom: the row first, then the goroutine.
Start(r, origin) ==
  /\ Len(actions) < MaxActions
  /\ actions' = Append(actions, [res |-> r, origin |-> origin, status |-> "pending"])
  /\ Goto(Len(actions) + 1, "mark")

UserStarts(r) ==
  /\ Actionable(r) /\ ~InFlight(r) /\ Start(r, "user")
  /\ UNCHANGED <<clock, azure, rows, schedules, journal, settings, loop, todo, sweep, changes,
                 history>>

-----------------------------------------------------------------------------
(* runAction, one goroutine per action. *)

MarkRunning(a) ==
  /\ task[a].pc = "mark" /\ Goto(a, "post")
  /\ actions' = [actions EXCEPT ![a].status = IF @ = "pending" THEN "running" ELSE @]
  /\ UNCHANGED <<clock, azure, rows, schedules, journal, settings, loop, todo, sweep, changes,
                 history>>

Failed(a) == task' = [task EXCEPT ![a].pc = "close", ![a].ok = FALSE]

\* Do: only a throttled request is sent again, so that Azure takes the
\* operation at most once; an answer that is lost may hide one it took.
Post(a) ==
  /\ task[a].pc = "post"
  /\ \/ ops' = [ops EXCEPT ![a] = "queued"] /\ Goto(a, "await")
     \/ ops' \in {ops, [ops EXCEPT ![a] = "queued"]} /\ Failed(a)
  /\ UNCHANGED <<clock, cloud, rows, schedules, actions, journal, settings, loop, todo, sweep, changes,
                 history>>

\* Mutant: an accepted operation is taken for a finished one.
TakenAsDone(a) == ops[a] # "failed"

\* Await: nil only when Azure says the operation succeeded, or, followed by its
\* Location, that it is over, which for an action is the end of the operation.
EndedWell(a) == ops[a] = "done"

\* A poll may fail, or the budget run out, whatever becomes of the operation.
Await(a) ==
  /\ task[a].pc = "await"
  /\ \/ EndedWell(a) /\ task' = [task EXCEPT ![a].pc = "close", ![a].ok = TRUE]
     \/ Failed(a)
  /\ UNCHANGED <<clock, azure, rows, schedules, actions, journal, settings, loop, todo, sweep, changes,
                 history>>

\* finishAction: the row is closed whatever its status is by now.
Close(a) ==
  /\ task[a].pc = "close"
  /\ actions' = [actions EXCEPT ![a].status = IF task[a].ok THEN "succeeded" ELSE "failed"]
  /\ IF actions[a].origin = "schedule" THEN Goto(a, "journal")
                                       ELSE task' = [task EXCEPT ![a] = NoTask]
  /\ UNCHANGED <<clock, azure, rows, schedules, journal, settings, loop, todo, sweep, changes,
                 history>>

-----------------------------------------------------------------------------
(* schedule_failed: each writer reads the last event, then inserts. *)

\* The last event of a resource, among the first n, is a failure.
Firing(r, n) ==
  \E i \in 1..n : /\ journal[i].res = r /\ journal[i].kind = "fired"
                  /\ \A j \in (i + 1)..n : journal[j].res # r

\* Mutant: the last event is not looked at.
NewsAlways(r, ok) == TRUE

\* A failure is news unless it is firing already, a success only when it is.
News(r, ok) == Firing(r, Len(journal)) = ok

Inserting(r) == \/ loop.pc = "insert" /\ loop.res = r
                \/ \E a \in DOMAIN actions : task[a].pc = "insert" /\ actions[a].res = r

Overlapping(r) == overlap' = IF Inserting(r) THEN overlap \cup {r} ELSE overlap

InsertEvent(r, ok) ==
  journal' = Append(journal, [res |-> r, kind |-> IF ok THEN "resolved" ELSE "fired"])

TaskJournal(a) ==
  /\ \/ /\ task[a].pc = "journal" /\ UNCHANGED journal
        /\ Overlapping(actions[a].res)
        /\ IF News(actions[a].res, task[a].ok) THEN Goto(a, "insert")
                                               ELSE task' = [task EXCEPT ![a] = NoTask]
     \/ /\ task[a].pc = "insert" /\ UNCHANGED overlap
        /\ InsertEvent(actions[a].res, task[a].ok)
        /\ task' = [task EXCEPT ![a] = NoTask]
  /\ UNCHANGED <<clock, azure, rows, schedules, actions, settings, loop, todo, sweep, changes,
                 decided, overtaken>>

-----------------------------------------------------------------------------
(* The run loop: the boot, then the schedules, every minute. *)

\* Mutant: what has not begun is not interrupted.
OpenRunning == {a \in DOMAIN actions : actions[a].status = "running"}

Open == {a \in DOMAIN actions : actions[a].status \in {"pending", "running"}}

\* interruptActions: what a previous process left is closed, never replayed.
\* The handlers are up already: an action of this process may be among them.
Interrupt ==
  /\ loop.pc = "interrupt" /\ loop' = [loop EXCEPT !.pc = "catchup"]
  /\ actions' = [a \in DOMAIN actions |->
                   IF a \in Open THEN [actions[a] EXCEPT !.status = "interrupted"] ELSE actions[a]]
  /\ overtaken' = overtaken \cup {a \in Open : task[a].pc # "none"}
  /\ UNCHANGED <<clock, azure, rows, schedules, journal, settings, task, todo, sweep, changes,
                 decided, overlap>>

EnabledSchedules == {r \in Resources : schedules[r] # NoSchedule /\ schedules[r].enabled}

\* runSchedules reads the clock and the schedules; nothing when Azure is off.
ReadSchedules ==
  /\ loop.pc \in {"catchup", "idle"}
  /\ IF On(cfg) THEN /\ loop' = LoopAt("sched", clock, loop.pc = "catchup", AnyResource)
                    /\ todo' = {[res |-> r, last |-> schedules[r].last] : r \in EnabledSchedules}
               ELSE loop.pc = "catchup" /\ loop' = AtRest /\ UNCHANGED todo
  /\ UNCHANGED <<clock, azure, rows, schedules, actions, journal, settings, task, sweep,
                 changes, history>>

SchedulesDone ==
  /\ loop.pc = "sched" /\ todo = {} /\ loop' = AtRest
  /\ UNCHANGED <<clock, azure, rows, schedules, actions, journal, settings, task, todo, sweep, changes,
                 history>>

\* Mutant: the boundary to come is taken for the last one.
NextBoundary == (loop.at \div Period + 1) * Period

\* LastBoundary at the time the loop has read; there is none before Period.
Boundary == (loop.at \div Period) * Period

Due(s) == Boundary > 0 /\ Boundary > s.last

\* Mutant: the boundary is not recorded.
NotMarked(r) == schedules

\* MarkScheduleBoundary: nothing when the schedule was deleted since it was read.
Marked(r) == [schedules EXCEPT ![r] = IF @ = NoSchedule THEN @ ELSE [@ EXCEPT !.last = Boundary]]

\* One schedule, as it was when the loop read it: not due; too old for a boot,
\* which only records it; or recorded first and then acted on.
Decide(s) ==
  /\ loop.pc = "sched" /\ s \in todo /\ todo' = todo \ {s}
  /\ \/ ~Due(s) /\ UNCHANGED <<loop, schedules, decided>>
     \/ /\ Due(s)
        /\ schedules' = Marked(s.res)
        /\ decided' = IF schedules[s.res] = NoSchedule THEN decided
                                                       ELSE decided \cup {<<s.res, Boundary>>}
        /\ IF loop.first /\ loop.at - Boundary > CatchUp
           THEN UNCHANGED loop ELSE loop' = [loop EXCEPT !.pc = "act", !.res = s.res]
  /\ UNCHANGED <<clock, azure, rows, actions, journal, settings, task, sweep, changes,
                 overtaken, overlap>>

\* StartActionFrom: refused, skipped for an action in flight, or started.
Act ==
  /\ loop.pc = "act"
  /\ \/ /\ ~Actionable(loop.res) /\ loop' = [loop EXCEPT !.pc = "refused"]
        /\ UNCHANGED <<actions, task>>
     \/ /\ Actionable(loop.res) /\ loop' = [loop EXCEPT !.pc = "sched"]
        /\ IF InFlight(loop.res) THEN UNCHANGED <<actions, task>>
           ELSE Start(loop.res, "schedule")
  /\ UNCHANGED <<clock, azure, rows, schedules, journal, settings, todo, sweep, changes,
                 history>>

\* journalScheduleFailure, for a boundary that has no action.
LoopJournal ==
  /\ \/ /\ loop.pc = "refused" /\ UNCHANGED journal
        /\ Overlapping(loop.res)
        /\ loop' = [loop EXCEPT !.pc = IF News(loop.res, FALSE) THEN "insert" ELSE "sched"]
     \/ /\ loop.pc = "insert" /\ UNCHANGED overlap
        /\ InsertEvent(loop.res, FALSE) /\ loop' = [loop EXCEPT !.pc = "sched"]
  /\ UNCHANGED <<clock, azure, rows, schedules, actions, settings, task, todo, sweep, changes,
                 decided, overtaken>>

-----------------------------------------------------------------------------
(* The inventory sweep, one at a time, and the settings. *)

\* Inventory: all or nothing, so that a failed read is no step at all.
SweepRead ==
  /\ loop.pc = "idle" /\ On(cfg) /\ sweep.pc = "idle"
  /\ sweep' = [pc |-> "storing", scope |-> Scope(cfg),
               seen |-> IF Scope(cfg) = "home" THEN cloud ELSE {}]
  /\ UNCHANGED <<clock, azure, rows, schedules, actions, journal, settings, task, loop, todo,
                 changes, history>>

\* ReplaceAzureInventory: what was seen is written, what was not is marked
\* deleted, in the groups of the sweep only.
Swept(r) ==
  IF r \in sweep.seen THEN "live"
  ELSE IF sweep.scope = "home" /\ rows[r] = "live" THEN "deleted" ELSE rows[r]

SweepStore ==
  /\ sweep.pc = "storing" /\ sweep' = NoSweep
  /\ rows' = [r \in Resources |-> Swept(r)]
  /\ UNCHANGED <<clock, azure, schedules, actions, journal, settings, task, loop, todo,
                 changes, history>>

Change == changes < MaxChanges /\ changes' = changes + 1

\* The handler of the settings: stored first, reloaded then.
SaveConfig(c) ==
  /\ Change /\ reload = "idle" /\ c # saved
  /\ saved' = c /\ reload' = "saved"
  /\ UNCHANGED <<clock, azure, rows, schedules, actions, journal, cfg, task, loop, todo, sweep, history>>

\* ReloadAzure: a change of scope purges the inventory, and then the new
\* settings are in force.
Reload ==
  /\ \/ /\ reload = "saved" /\ reload' = "purged" /\ UNCHANGED cfg
        /\ rows' = IF Scope(saved) # Scope(cfg) THEN [r \in Resources |-> "absent"] ELSE rows
     \/ reload = "purged" /\ reload' = "idle" /\ cfg' = saved /\ UNCHANGED rows
  /\ UNCHANGED <<clock, azure, schedules, actions, journal, saved, task, loop, todo, sweep, changes,
                 history>>

-----------------------------------------------------------------------------
(* The other handlers, Azure, people, crashes and time. *)

\* An edit of a schedule keeps its last boundary.
PutSchedule(r, on) ==
  /\ Change /\ rows[r] = "live" /\ [enabled |-> on, last |-> 0] # schedules[r]
  /\ schedules' = [schedules EXCEPT
       ![r] = [enabled |-> on, last |-> IF @ = NoSchedule THEN 0 ELSE @.last]]
  /\ UNCHANGED <<clock, azure, rows, actions, journal, settings, task, loop, todo, sweep, history>>

DeleteSchedule(r) ==
  /\ Change /\ schedules[r] # NoSchedule
  /\ schedules' = [schedules EXCEPT ![r] = NoSchedule]
  /\ decided' = {d \in decided : d[1] # r}
  /\ UNCHANGED <<clock, azure, rows, actions, journal, settings, task, loop, todo, sweep,
                 overtaken, overlap>>

\* Azure ends an operation it has accepted.
AzureEnds(a) ==
  /\ ops[a] = "queued"
  /\ \/ ops' = [ops EXCEPT ![a] = "done"] /\ actions[a].res \in cloud
     \/ ops' = [ops EXCEPT ![a] = "failed"]
  /\ UNCHANGED <<clock, cloud, rows, schedules, actions, journal, settings, task, loop, todo, sweep, changes,
                 history>>

\* Somebody creates or deletes the resource in Azure.
ByHand(r) ==
  /\ Change
  /\ cloud' = IF r \in cloud THEN cloud \ {r} ELSE cloud \cup {r}
  /\ UNCHANGED <<clock, ops, rows, schedules, actions, journal, settings, task, loop, todo, sweep, history>>

\* The process ends anywhere; the next one loads the settings that were saved.
Boot ==
  /\ Change
  /\ task' = [a \in ActionIds |-> NoTask] /\ sweep' = NoSweep /\ todo' = {}
  /\ loop' = LoopAt("interrupt", 0, FALSE, AnyResource)
  /\ reload' = "idle" /\ cfg' = saved
  /\ UNCHANGED <<clock, azure, rows, schedules, actions, journal, saved, history>>

Tick ==
  /\ clock < MaxTime /\ clock' = clock + 1
  /\ UNCHANGED <<azure, rows, schedules, actions, journal, settings, task, loop, todo, sweep, changes,
                 history>>

RunAction(a) == MarkRunning(a) \/ Post(a) \/ Await(a) \/ Close(a) \/ TaskJournal(a)
LoopStep == Interrupt \/ ReadSchedules \/ SchedulesDone \/ Act \/ LoopJournal \/ \E s \in todo : Decide(s)
Sweep == SweepRead \/ SweepStore
Handlers ==
  \/ \E r \in Resources : \/ UserStarts(r) \/ DeleteSchedule(r)
                          \/ \E on \in BOOLEAN : PutSchedule(r, on)
  \/ Reload \/ \E c \in Configs : SaveConfig(c)
Outside == \/ \E a \in DOMAIN actions : AzureEnds(a)
           \/ \E r \in Resources : ByHand(r)

\* A first start, or one after a process that had swept and was given a
\* schedule before its first boundary.
Init ==
  /\ clock = 0 /\ cloud = Resources /\ ops = [a \in ActionIds |-> "none"]
  /\ schedules \in [Resources -> {NoSchedule, [enabled |-> TRUE, last |-> 0]}]
  /\ rows = [r \in Resources |-> IF schedules[r] = NoSchedule THEN "absent" ELSE "live"]
  /\ actions = <<>> /\ journal = <<>>
  /\ saved = "home" /\ cfg = saved /\ reload = "idle"
  /\ task = [a \in ActionIds |-> NoTask] /\ loop = LoopAt("interrupt", 0, FALSE, AnyResource)
  /\ todo = {} /\ sweep = NoSweep /\ changes = 0
  /\ decided = {} /\ overtaken = {} /\ overlap = {}

Next == \/ LoopStep \/ Sweep \/ Handlers \/ Outside \/ Boot \/ Tick
        \/ \E a \in DOMAIN actions : RunAction(a)

Spec == Init /\ [][Next]_vars

-----------------------------------------------------------------------------
(* Properties. *)

\* Types of the tables, the goroutines and the loop; ids within their bound.
TypeOK ==
  /\ clock \in 0..MaxTime /\ changes \in 0..MaxChanges
  /\ cloud \subseteq Resources /\ ops \in [ActionIds -> {"none", "queued", "done", "failed"}]
  /\ rows \in [Resources -> RowStates]
  /\ schedules \in [Resources -> Schedule \cup {NoSchedule}]
  /\ actions \in Seq(Action) /\ Len(actions) <= MaxActions
  /\ journal \in Seq(GuardrailEvent)
  /\ saved \in Configs /\ cfg \in Configs /\ reload \in {"idle", "saved", "purged"}
  /\ task \in [ActionIds -> Task]
  /\ loop \in Loop /\ todo \subseteq Copy /\ sweep \in SweepState
  /\ decided \subseteq Resources \X (0..MaxTime)
  /\ overtaken \subseteq DOMAIN actions /\ overlap \subseteq Resources

\* A boundary is decided once: neither a crash, nor a restart, nor a schedule
\* switched off and on again makes the hub act on it a second time, against
\* somebody who has changed the machine by hand since (guardrails_hub.go,
\* runSchedules: "never duplicates it").  A schedule that was deleted has
\* forgotten its boundaries.
BoundaryDecidedOnce ==
  [][loop.pc = "sched" /\ loop'.pc = "act" => <<loop'.res, Boundary>> \notin decided]_vars

\* The goroutine of the action may still ask Azure for it, or has the answer to record.
Busy(a) == task[a].pc \in {"mark", "post", "await", "close"}

\* The hub talks to Azure about a resource from one goroutine at a time, the
\* page's and the schedules' actions together.  Excepted: an action started
\* after a restart and before the loop interrupted those of the last process.
OneCallAtATime ==
  \A a, b \in DOMAIN actions \ overtaken :
    /\ a # b /\ actions[a].res = actions[b].res
    => ~(Busy(a) /\ Busy(b))

\* An action recorded as succeeded was done by Azure, also when its answer came
\* in two parts, or when its row was interrupted and closed again.
SucceededWasDone ==
  \A a \in DOMAIN actions : actions[a].status = "succeeded" => ops[a] = "done"

\* The journal of schedule_failed alternates, across restarts, refused
\* boundaries and failed actions (journalScheduleFailure: "unless it is already
\* firing").  Excepted: two writers that overlapped between read and insert.
FailuresAlternate ==
  \A i \in DOMAIN journal : journal[i].res \notin overlap =>
    (journal[i].kind = "resolved" <=> Firing(journal[i].res, i - 1))

\* No action holds its resource for ever: a row that is pending or running has
\* a goroutine that will close it, or the run loop has yet to interrupt it.
HeldByItsGoroutine ==
  \A a \in DOMAIN actions :
    actions[a].status \in {"pending", "running"}
      => loop.pc = "interrupt" \/ Busy(a)
=============================================================================

---------------------------- MODULE AzureProofs ----------------------------
(***************************************************************************)
(* Proofs about AzureOps: types; who holds a resource and who may talk to  *)
(* Azure about it; what a succeeded action stands for; that a boundary of  *)
(* a schedule is acted on once; that failures and recoveries alternate.    *)
(*                                                                         *)
(* HoldInv: two actions of one resource are never both open, and whoever   *)
(* may still talk to Azure is open, unless a boot overtook it.             *)
(* DoneInv: an action asks Azure once, from a fresh operation, and brings  *)
(* home a success only when it has seen the operation done.                *)
(* BoundaryInv: what was decided for a schedule is at most its recorded    *)
(* boundary, also in the copy the run loop works from.                     *)
(* AltInv: who has read the journal of a resource and has yet to insert is *)
(* alone, and what it read is still so, unless writers overlapped.         *)
(***************************************************************************)
EXTENDS AzureOps, TLAPS

\* The last boundary is a time the loop has seen (runSchedules, LastBoundary).
LEMMA BoundaryInPast ==
  ASSUME NEW t \in Nat, NEW p \in Nat \ {0}
  PROVE  (t \div p) * p \in 0..t
<1>1. t \div p \in Nat
  OBVIOUS
<1>2. (t \div p) * p \in Nat /\ (t \div p) * p <= t
  BY <1>1, Z3T(30)
<1> QED
  BY <1>2

\* The boundary the loop compares with is a time of the model.
LEMMA BoundaryBounded ==
  ASSUME loop \in Loop PROVE Boundary \in 0..MaxTime
<1>1. loop.at \in 0..MaxTime
  BY DEF Loop
<1>2. Period \in Nat \ {0} /\ MaxTime \in Nat /\ loop.at \in Nat /\ loop.at <= MaxTime
  BY <1>1, AzureAssumption
<1>3. Boundary \in 0..loop.at
  BY <1>2, BoundaryInPast DEF Boundary
<1> QED BY <1>2, <1>3

\* What the goroutine of an action does to its own state.
LEMMA TaskTyped ==
  ASSUME NEW f \in [ActionIds -> Task], NEW a \in ActionIds, NEW p \in TaskSteps, NEW ok \in BOOLEAN
  PROVE  /\ [f EXCEPT ![a].pc = p] \in [ActionIds -> Task]
         /\ [f EXCEPT ![a].pc = p, ![a].ok = ok] \in [ActionIds -> Task]
         /\ [f EXCEPT ![a] = NoTask] \in [ActionIds -> Task]
<1>1. NoTask \in Task
  BY DEF NoTask, Task, TaskSteps
<1>2. f[a] \in Task
  OBVIOUS
<1>3. [f[a] EXCEPT !.pc = p] \in Task /\ [f[a] EXCEPT !.pc = p, !.ok = ok] \in Task
  BY <1>2 DEF Task
<1> QED
  BY <1>1, <1>2, <1>3

\* What happens to the rows of azure_actions: one is closed or marked, all that
\* are open are interrupted, one is added.
LEMMA ActionsTyped ==
  ASSUME NEW s \in Seq(Action), NEW a \in DOMAIN s, NEW st \in Statuses
  PROVE  LET t == [s EXCEPT ![a].status = st]
         IN  t \in Seq(Action) /\ Len(t) = Len(s) /\ DOMAIN t = DOMAIN s
<1>1. s[a] \in Action
  OBVIOUS
<1>2. [s[a] EXCEPT !.status = st] \in Action
  BY <1>1 DEF Action
<1> QED
  BY <1>2

\* The rows a boot interrupts stay rows (InterruptAzureActions).
LEMMA InterruptedTyped ==
  ASSUME NEW s \in Seq(Action), NEW O \in SUBSET DOMAIN s
  PROVE  LET t == [a \in DOMAIN s |-> IF a \in O THEN [s[a] EXCEPT !.status = "interrupted"] ELSE s[a]]
         IN  t \in Seq(Action) /\ Len(t) = Len(s) /\ DOMAIN t = DOMAIN s
<1>1. \A a \in DOMAIN s : s[a] \in Action
  OBVIOUS
<1>2. \A a \in DOMAIN s : [s[a] EXCEPT !.status = "interrupted"] \in Action
  BY <1>1 DEF Action, Statuses
<1> QED
  BY <1>1, <1>2

\* An action that starts is one more row with one more goroutine (StartActionFrom).
LEMMA StartTyped ==
  ASSUME TypeOK, NEW r \in Resources, NEW o \in Origins, Start(r, o)
  PROVE  /\ actions' \in Seq(Action) /\ Len(actions') = Len(actions) + 1 /\ Len(actions') <= MaxActions
         /\ DOMAIN actions \subseteq DOMAIN actions' /\ DOMAIN actions' \subseteq ActionIds
         /\ DOMAIN actions' = DOMAIN actions \cup {Len(actions) + 1}
         /\ Len(actions) + 1 \in ActionIds /\ task' \in [ActionIds -> Task]
<1>1. Len(actions) \in Nat /\ Len(actions) < MaxActions /\ MaxActions \in Nat
  BY AzureAssumption DEF TypeOK, Start
<1>2. Len(actions) + 1 \in ActionIds
  BY <1>1 DEF ActionIds
<1>3. [res |-> r, origin |-> o, status |-> "pending"] \in Action
  BY DEF Action, Statuses
<1>4. actions' \in Seq(Action) /\ Len(actions') = Len(actions) + 1
  BY <1>3 DEF TypeOK, Start
<1>5. task' \in [ActionIds -> Task]
  BY <1>2, TaskTyped DEF TypeOK, Start, Goto, TaskSteps
<1> QED
  BY <1>1, <1>2, <1>4, <1>5 DEF ActionIds

\* Actions are numbered from 1.
LEMMA ActionsBounded ==
  ASSUME TypeOK PROVE DOMAIN actions \subseteq ActionIds
BY AzureAssumption DEF TypeOK, ActionIds

\* A failure or a recovery is an event (journalScheduleFailure).
LEMMA JournalTyped ==
  ASSUME NEW j \in Seq(GuardrailEvent), NEW r \in Resources, NEW ok \in BOOLEAN
  PROVE  Append(j, [res |-> r, kind |-> IF ok THEN "resolved" ELSE "fired"]) \in Seq(GuardrailEvent)
BY DEF GuardrailEvent

\* Every step keeps the types, given those before it.
LEMMA TypeStep ==
  ASSUME TypeOK, [Next]_vars
  PROVE  TypeOK'
<1> USE DEF vars, azure, settings, history
<1>1. AnyResource \in Resources /\ \A p \in LoopSteps, t \in 0..MaxTime, f \in BOOLEAN, r \in Resources :
        LoopAt(p, t, f, r) \in Loop
  BY AzureAssumption DEF AnyResource, LoopAt, Loop
<1>2. NoSweep \in SweepState /\ DOMAIN actions \subseteq ActionIds /\ 0 \in 0..MaxTime
  BY AzureAssumption, ActionsBounded DEF NoSweep, SweepState, TypeOK
<1>3. ASSUME NEW r \in Resources, UserStarts(r) PROVE TypeOK'
  BY <1>3, StartTyped DEF UserStarts, Origins, TypeOK
<1>4. ASSUME NEW a \in DOMAIN actions, RunAction(a) PROVE TypeOK'
  <2>1. a \in ActionIds /\ actions[a] \in Action /\ task[a] \in Task
    BY <1>2 DEF TypeOK
  <2>2. actions[a].res \in Resources /\ actions[a].status \in Statuses /\ task[a].ok \in BOOLEAN
    BY <2>1 DEF Action, Task
  <2>3. /\ \A p \in TaskSteps : [task EXCEPT ![a].pc = p] \in [ActionIds -> Task]
        /\ \A p \in TaskSteps, ok \in BOOLEAN : [task EXCEPT ![a].pc = p, ![a].ok = ok] \in [ActionIds -> Task]
        /\ [task EXCEPT ![a] = NoTask] \in [ActionIds -> Task]
    <3>1. task \in [ActionIds -> Task] /\ "none" \in TaskSteps
      BY DEF TypeOK, TaskSteps
    <3> QED BY <2>1, <3>1, TaskTyped
  <2>4. CASE MarkRunning(a)
    <3>1. (IF actions[a].status = "pending" THEN "running" ELSE actions[a].status) \in Statuses
      BY <2>2 DEF Statuses
    <3>2. actions' \in Seq(Action) /\ Len(actions') = Len(actions) /\ DOMAIN actions' = DOMAIN actions
      BY <2>4, <3>1, ActionsTyped DEF MarkRunning, TypeOK
    <3>3. task' \in [ActionIds -> Task]
      BY <2>3, <2>4 DEF MarkRunning, Goto, TaskSteps
    <3> QED BY <2>4, <3>2, <3>3 DEF MarkRunning, TypeOK
  <2>5. CASE Post(a)
    <3>1. task' \in [ActionIds -> Task]
      BY <2>3, <2>5 DEF Post, Goto, Failed, TaskSteps
    <3>2. ops' \in [ActionIds -> {"none", "queued", "done", "failed"}]
      BY <2>5 DEF Post, TypeOK
    <3> QED BY <2>5, <3>1, <3>2 DEF Post, TypeOK
  <2>6. CASE Await(a)
    <3>1. task' \in [ActionIds -> Task]
      BY <2>3, <2>6 DEF Await, Failed, TaskSteps
    <3> QED BY <2>6, <3>1 DEF Await, TypeOK
  <2>7. CASE Close(a)
    <3>1. (IF task[a].ok THEN "succeeded" ELSE "failed") \in Statuses
      BY DEF Statuses
    <3>2. actions' \in Seq(Action) /\ Len(actions') = Len(actions) /\ DOMAIN actions' = DOMAIN actions
      BY <2>7, <3>1, ActionsTyped DEF Close, TypeOK
    <3>3. task' \in [ActionIds -> Task]
      BY <2>3, <2>7 DEF Close, Goto, TaskSteps
    <3> QED BY <2>7, <3>2, <3>3 DEF Close, TypeOK
  <2>8. CASE TaskJournal(a)
    <3>1. task' \in [ActionIds -> Task]
      BY <2>3, <2>8 DEF TaskJournal, Goto, TaskSteps
    <3>2. journal' \in Seq(GuardrailEvent)
      <4>1. journal \in Seq(GuardrailEvent) /\ task[a].ok \in BOOLEAN
        BY <2>2 DEF TypeOK, Task
      <4>2. CASE journal' = journal
        BY <4>1, <4>2
      <4>3. CASE InsertEvent(actions[a].res, task[a].ok)
        BY <2>2, <4>1, <4>3, JournalTyped DEF InsertEvent
      <4> QED BY <2>8, <4>2, <4>3 DEF TaskJournal
    <3>3. overlap' \subseteq Resources
      BY <2>2, <2>8 DEF TaskJournal, Overlapping, TypeOK
    <3> QED BY <2>8, <3>1, <3>2, <3>3 DEF TaskJournal, TypeOK
  <2> QED BY <1>4, <2>4, <2>5, <2>6, <2>7, <2>8 DEF RunAction
<1>5. CASE LoopStep
  <2>1. /\ loop.pc \in LoopSteps /\ loop.at \in 0..MaxTime /\ loop.res \in Resources
        /\ \A p \in LoopSteps, r \in Resources :
             [loop EXCEPT !.pc = p] \in Loop /\ [loop EXCEPT !.pc = p, !.res = r] \in Loop
    BY DEF TypeOK, Loop
  <2>2. CASE Interrupt
    <3>1. Open \in SUBSET DOMAIN actions
      BY DEF Open
    <3> HIDE DEF Open
    <3> QED BY <2>1, <2>2, <3>1, InterruptedTyped DEF Interrupt, LoopSteps, TypeOK
  <2>3. CASE ReadSchedules
    <3>1. \A r \in EnabledSchedules : [res |-> r, last |-> schedules[r].last] \in Copy
      BY DEF EnabledSchedules, Copy, TypeOK, Schedule
    <3>2. AtRest \in Loop /\ LoopAt("sched", clock, loop.pc = "catchup", AnyResource) \in Loop
      BY <1>1, <1>2 DEF AtRest, LoopSteps, TypeOK
    <3>3. loop' \in Loop /\ todo' \subseteq Copy
      BY <2>3, <3>1, <3>2 DEF ReadSchedules, TypeOK
    <3> QED BY <2>3, <3>3 DEF ReadSchedules, TypeOK
  <2>4. CASE SchedulesDone
    BY <1>1, <1>2, <2>4 DEF SchedulesDone, AtRest, LoopSteps, TypeOK
  <2>5. CASE Act
    <3>1. loop' \in Loop
      BY <2>1, <2>5 DEF Act, LoopSteps
    <3>2. CASE UNCHANGED <<actions, task>>
      BY <2>5, <3>1, <3>2 DEF Act, TypeOK
    <3>3. CASE Start(loop.res, "schedule")
      BY <2>1, <2>5, <3>1, <3>3, StartTyped DEF Act, Origins, TypeOK
    <3> QED BY <2>5, <3>2, <3>3 DEF Act
  <2>6. CASE LoopJournal
    BY <2>1, <2>6, JournalTyped DEF LoopJournal, InsertEvent, Overlapping, LoopSteps, TypeOK
  <2>7. ASSUME NEW s \in todo, Decide(s) PROVE TypeOK'
    <3>1. Boundary \in 0..MaxTime
      BY BoundaryBounded DEF TypeOK
    <3>2. s.res \in Resources
      BY DEF TypeOK, Copy
    <3>3. Marked(s.res) \in [Resources -> Schedule \cup {NoSchedule}]
      <4>1. ASSUME schedules[s.res] # NoSchedule
            PROVE  [schedules[s.res] EXCEPT !.last = Boundary] \in Schedule
        BY <3>1, <3>2, <4>1 DEF TypeOK, Schedule
      <4> QED BY <3>2, <4>1 DEF Marked, TypeOK
    <3>4. loop' \in Loop
      BY <2>1, <2>7, <3>2 DEF Decide, LoopSteps, TypeOK
    <3>5. schedules' \in [Resources -> Schedule \cup {NoSchedule}]
      BY <2>7, <3>3 DEF Decide, TypeOK
    <3>6. decided' \subseteq Resources \X (0..MaxTime)
      BY <2>7, <3>1, <3>2 DEF Decide, TypeOK
    <3> QED BY <2>7, <3>4, <3>5, <3>6 DEF Decide, TypeOK
  <2> QED BY <1>5, <2>2, <2>3, <2>4, <2>5, <2>6, <2>7 DEF LoopStep
<1>6. CASE Sweep
  <2>1. CASE SweepRead
    <3>1. sweep' \in SweepState
      BY <2>1 DEF SweepRead, SweepState, Scope, TypeOK
    <3> QED BY <2>1, <3>1 DEF SweepRead, TypeOK
  <2>2. CASE SweepStore
    <3>1. \A r \in Resources : Swept(r) \in RowStates
      BY DEF Swept, RowStates, TypeOK
    <3> QED BY <1>2, <2>2, <3>1 DEF SweepStore, TypeOK
  <2> QED BY <1>6, <2>1, <2>2 DEF Sweep
<1>7. ASSUME NEW c \in Configs, SaveConfig(c) PROVE TypeOK'
  BY <1>7, AzureAssumption DEF SaveConfig, Change, TypeOK
<1>8. CASE Reload
  BY <1>8 DEF Reload, RowStates, TypeOK
<1>9. ASSUME NEW r \in Resources, NEW on \in BOOLEAN, PutSchedule(r, on) PROVE TypeOK'
  <2>1. [enabled |-> on, last |-> IF schedules[r] = NoSchedule THEN 0 ELSE schedules[r].last] \in Schedule
    BY <1>2 DEF TypeOK, Schedule
  <2> QED BY <1>9, <2>1, AzureAssumption DEF PutSchedule, Change, TypeOK
<1>10. ASSUME NEW r \in Resources, DeleteSchedule(r) PROVE TypeOK'
  BY <1>10, AzureAssumption DEF DeleteSchedule, Change, TypeOK
<1>11. CASE Outside
  <2>1. ASSUME NEW a \in DOMAIN actions, AzureEnds(a) PROVE TypeOK'
    BY <1>2, <2>1, AzureAssumption DEF AzureEnds, Change, TypeOK
  <2>2. ASSUME NEW r \in Resources, ByHand(r) PROVE TypeOK'
    BY <1>2, <2>2, AzureAssumption DEF ByHand, Change, TypeOK
  <2> QED BY <1>11, <2>1, <2>2 DEF Outside
<1>12. CASE Boot
  <2>1. NoTask \in Task
    BY DEF NoTask, Task, TaskSteps
  <2>2. loop' \in Loop
    BY <1>1, <1>2, <1>12 DEF Boot, LoopSteps
  <2>3. task' \in [ActionIds -> Task] /\ changes' \in 0..MaxChanges
    BY <1>12, <2>1, AzureAssumption DEF Boot, Change, TypeOK
  <2> QED BY <1>2, <1>12, <2>2, <2>3 DEF Boot, TypeOK
<1>13. CASE Tick
  BY <1>13, AzureAssumption DEF Tick, TypeOK
<1>14. CASE UNCHANGED vars
  BY <1>14 DEF TypeOK
<1> QED
  BY <1>3, <1>4, <1>5, <1>6, <1>7, <1>8, <1>9, <1>10, <1>11, <1>12, <1>13, <1>14 DEF Next, Handlers

\* Every behaviour keeps every variable typed, for every set of resources,
\* period of the schedules, and bounds.
THEOREM TypeCorrect == Spec => []TypeOK
<1>1. ASSUME Init PROVE TypeOK
  <2>1. 0 \in 0..MaxTime /\ 0 \in 0..MaxChanges /\ MaxActions \in Nat
    BY AzureAssumption
  <2>2. loop \in Loop
    BY <1>1, <2>1, AzureAssumption DEF Init, LoopAt, Loop, LoopSteps, AnyResource
  <2>3. schedules \in [Resources -> Schedule \cup {NoSchedule}] /\ rows \in [Resources -> RowStates]
    <3>1. [enabled |-> TRUE, last |-> 0] \in Schedule
      BY <2>1 DEF Schedule
    <3>2. schedules \in [Resources -> Schedule \cup {NoSchedule}]
      BY <1>1, <3>1 DEF Init
    <3> QED BY <1>1, <3>2 DEF Init, RowStates
  <2>4. task \in [ActionIds -> Task] /\ sweep \in SweepState
    BY <1>1 DEF Init, NoTask, Task, TaskSteps, NoSweep, SweepState
  <2>5. actions \in Seq(Action) /\ Len(actions) <= MaxActions /\ journal \in Seq(GuardrailEvent)
    BY <1>1, <2>1 DEF Init
  <2> QED BY <1>1, <2>1, <2>2, <2>3, <2>4, <2>5 DEF Init, TypeOK, Configs
<1> QED
  BY <1>1, TypeStep, PTL DEF Spec
-----------------------------------------------------------------------------
(* Who holds a resource. *)

\* Two actions of one resource are never both open.
OneOpen ==
  \A a, b \in DOMAIN actions : a # b /\ actions[a].res = actions[b].res => a \notin Open \/ b \notin Open

BusyIsOpen == \A a \in DOMAIN actions \ overtaken : Busy(a) => a \in Open

Holding == OneOpen /\ BusyIsOpen /\ HeldByItsGoroutine
HoldInv == TypeOK /\ Holding

\* A step that leaves the actions, their goroutines and the boot alone.
LEMMA HoldFrame ==
  ASSUME HoldInv, UNCHANGED <<actions, task, overtaken>>, loop.pc = "interrupt" => loop'.pc = "interrupt"
  PROVE  Holding'
BY DEF HoldInv, Holding, OneOpen, BusyIsOpen, HeldByItsGoroutine, Open, Busy

\* A new action, on a resource that none holds.
LEMMA HoldStart ==
  ASSUME HoldInv, NEW r \in Resources, NEW o \in Origins, Start(r, o), ~InFlight(r),
         UNCHANGED overtaken, loop.pc = "interrupt" => loop'.pc = "interrupt"
  PROVE  Holding'
<1>0. PICK n \in ActionIds : n = Len(actions) + 1
  BY StartTyped DEF HoldInv
<1>1. /\ DOMAIN actions' = DOMAIN actions \cup {n} /\ n \in ActionIds /\ n \notin DOMAIN actions
      /\ DOMAIN actions \subseteq ActionIds
  <2>1. TypeOK /\ Len(actions) \in Nat /\ DOMAIN actions = 1..Len(actions)
    BY DEF HoldInv, TypeOK
  <2>2. n \notin DOMAIN actions
    BY <1>0, <2>1
  <2>3. DOMAIN actions' = DOMAIN actions \cup {n} /\ n \in ActionIds
    BY <1>0, <2>1, StartTyped
  <2> QED BY <2>1, <2>2, <2>3, ActionsBounded
<1>2. /\ \A a \in DOMAIN actions : actions'[a] = actions[a]
      /\ actions'[n] = [res |-> r, origin |-> o, status |-> "pending"]
  BY <1>0 DEF HoldInv, TypeOK, Start
<1>3. /\ \A a \in DOMAIN actions : task'[a] = task[a]
      /\ task'[n].pc = "mark"
  BY <1>0, <1>1 DEF HoldInv, TypeOK, Start, Goto, Task
<1>4. /\ Open' = Open \cup {n}
      /\ Busy(n)'
      /\ \A a \in DOMAIN actions : Busy(a)' <=> Busy(a)
  <2>1. Open' = Open \cup {n}
    BY <1>1, <1>2 DEF Open
  <2>2. Busy(n)'
    BY <1>3 DEF Busy
  <2>3. ASSUME NEW a \in DOMAIN actions PROVE Busy(a)' <=> Busy(a)
    BY <1>3 DEF Busy
  <2> QED BY <2>1, <2>2, <2>3
<1>5. \A a \in DOMAIN actions : actions[a].res = r => a \notin Open
  BY DEF InFlight, Open
<1>6. OneOpen'
  BY <1>1, <1>2, <1>4, <1>5 DEF HoldInv, Holding, OneOpen
<1>7. BusyIsOpen'
  BY <1>1, <1>4 DEF HoldInv, Holding, BusyIsOpen
<1>8. HeldByItsGoroutine'
  <2>1. \A a \in DOMAIN actions : a \in Open => loop.pc = "interrupt" \/ Busy(a)
    BY DEF HoldInv, Holding, HeldByItsGoroutine, Open
  <2>2. ASSUME NEW a \in DOMAIN actions', a \in Open' PROVE loop'.pc = "interrupt" \/ Busy(a)'
    <3>1. CASE a = n BY <1>4, <3>1
    <3>2. CASE a \in DOMAIN actions BY <1>1, <1>4, <2>1, <2>2, <3>2
    <3> QED BY <1>1, <3>1, <3>2
  <2> QED BY <2>2 DEF HeldByItsGoroutine, Open
<1> QED BY <1>6, <1>7, <1>8 DEF Holding

\* A step of the goroutine of one action.
LEMMA HoldTask ==
  ASSUME HoldInv, NEW a \in DOMAIN actions, RunAction(a)
  PROVE  Holding'
<1>1. /\ a \in ActionIds /\ DOMAIN actions' = DOMAIN actions /\ UNCHANGED <<loop, overtaken>>
      /\ DOMAIN actions \subseteq ActionIds
  <2>1. DOMAIN actions \subseteq ActionIds
    BY ActionsBounded DEF HoldInv
  <2>2. DOMAIN actions' = DOMAIN actions
    BY DEF HoldInv, TypeOK, RunAction, MarkRunning, Post, Await, Close, TaskJournal
  <2>3. UNCHANGED <<loop, overtaken>>
    BY DEF RunAction, MarkRunning, Post, Await, Close, TaskJournal, history
  <2> QED BY <2>1, <2>2, <2>3
<1>2. \A b \in DOMAIN actions : /\ actions'[b].res = actions[b].res
                                /\ b # a => task'[b] = task[b] /\ actions'[b] = actions[b]
  <2> SUFFICES ASSUME NEW b \in DOMAIN actions
               PROVE  /\ actions'[b].res = actions[b].res
                      /\ b # a => task'[b] = task[b] /\ actions'[b] = actions[b]
    OBVIOUS
  <2>1. actions[b] \in Action /\ b \in ActionIds /\ task \in [ActionIds -> Task]
    BY <1>1 DEF HoldInv, TypeOK
  <2>2. b # a => task'[b] = task[b]
    BY <1>1, <2>1 DEF RunAction, MarkRunning, Post, Await, Close, TaskJournal, Goto, Failed
  <2>3. b # a => actions'[b] = actions[b]
    BY DEF RunAction, MarkRunning, Post, Await, Close, TaskJournal
  <2>4. actions'[b].res = actions[b].res
    BY <2>1 DEF Action, RunAction, MarkRunning, Post, Await, Close, TaskJournal
  <2> QED BY <2>2, <2>3, <2>4
<1>3. /\ a \in Open' => a \in Open
      /\ a \in Open' /\ Busy(a) => Busy(a)'
      /\ Busy(a)' => Busy(a) /\ (a \in Open => a \in Open')
  <2>1. CASE MarkRunning(a) BY <1>1, <2>1 DEF HoldInv, TypeOK, Task, Action, MarkRunning, Goto, Open, Busy
  <2>2. CASE Post(a) BY <1>1, <2>2 DEF HoldInv, TypeOK, Task, Post, Goto, Failed, Open, Busy
  <2>3. CASE Await(a) BY <1>1, <2>3 DEF HoldInv, TypeOK, Task, Await, Goto, Failed, Open, Busy
  <2>4. CASE Close(a) BY <1>1, <2>4 DEF HoldInv, TypeOK, Task, Action, Close, Goto, NoTask, Open, Busy
  <2>5. CASE TaskJournal(a) BY <1>1, <2>5 DEF HoldInv, TypeOK, Task, TaskJournal, Goto, NoTask, Open, Busy
  <2> QED BY <2>1, <2>2, <2>3, <2>4, <2>5 DEF RunAction
<1>4. \A b \in DOMAIN actions : b # a => (b \in Open' <=> b \in Open) /\ (Busy(b)' <=> Busy(b))
  <2>1. ASSUME NEW b \in DOMAIN actions, b # a
        PROVE  (b \in Open' <=> b \in Open) /\ (Busy(b)' <=> Busy(b))
    <3>1. task'[b] = task[b] /\ actions'[b] = actions[b]
      BY <1>2, <2>1
    <3>2. b \in Open' <=> b \in Open
      BY <1>1, <3>1 DEF Open
    <3> QED BY <3>1, <3>2 DEF Busy
  <2> QED BY <2>1
<1>5. OneOpen'
  <2>1. Open' \subseteq Open
    <3>1. Open' \subseteq DOMAIN actions
      BY <1>1 DEF Open
    <3> QED BY <3>1, <1>3, <1>4
  <2>2. \A b \in DOMAIN actions : actions'[b].res = actions[b].res
    BY <1>2
  <2> QED BY <1>1, <2>1, <2>2 DEF HoldInv, Holding, OneOpen
<1>6. BusyIsOpen'
  BY <1>1, <1>3, <1>4 DEF HoldInv, Holding, BusyIsOpen
<1>7. HeldByItsGoroutine'
  <2>1. \A b \in DOMAIN actions' : actions'[b].status \in {"pending", "running"} <=> b \in Open'
    BY DEF Open
  <2>2. \A b \in DOMAIN actions : b \in Open => loop.pc = "interrupt" \/ Busy(b)
    BY DEF HoldInv, Holding, HeldByItsGoroutine, Open
  <2> QED BY <1>1, <1>3, <1>4, <2>1, <2>2 DEF HeldByItsGoroutine
<1> QED BY <1>5, <1>6, <1>7 DEF Holding

\* No step opens a second action of a resource, nor leaves an open one to nobody.
LEMMA HoldStep ==
  ASSUME HoldInv, [Next]_vars
  PROVE  HoldInv'
<1> USE DEF vars, azure, settings, history
<1>1. TypeOK /\ TypeOK' /\ loop \in Loop
  BY TypeStep DEF HoldInv, TypeOK
<1> SUFFICES Holding'
  BY <1>1 DEF HoldInv
<1>2. ASSUME NEW r \in Resources, UserStarts(r) PROVE Holding'
  BY <1>2, HoldStart DEF UserStarts, Origins
<1>3. CASE Interrupt
  <2>1. DOMAIN actions' = DOMAIN actions /\ Open' = {} /\ UNCHANGED task
    BY <1>3 DEF Interrupt, Open
  <2>2. BusyIsOpen'
    BY <1>3, <2>1 DEF Interrupt, HoldInv, Holding, BusyIsOpen, Busy
  <2> QED BY <2>1, <2>2 DEF Holding, OneOpen, HeldByItsGoroutine, Open
<1>4. CASE Act
  <2>1. loop.pc # "interrupt" /\ loop.res \in Resources
    BY <1>1, <1>4 DEF Act, Loop
  <2>2. CASE UNCHANGED <<actions, task>>
    BY <1>4, <2>1, <2>2, HoldFrame DEF Act
  <2>3. CASE Start(loop.res, "schedule") /\ ~InFlight(loop.res)
    BY <1>4, <2>1, <2>3, HoldStart DEF Act, Origins
  <2> QED BY <1>4, <2>2, <2>3 DEF Act
<1>5. CASE Boot
  <2>1. DOMAIN actions \subseteq ActionIds /\ loop'.pc = "interrupt"
    BY <1>1, <1>5, ActionsBounded DEF Boot, LoopAt
  <2>2. Open' = Open /\ \A a \in DOMAIN actions : ~Busy(a)'
    BY <1>5, <2>1 DEF Boot, Open, Busy, NoTask
  <2> QED BY <1>5, <2>1, <2>2 DEF Boot, HoldInv, Holding, OneOpen, BusyIsOpen, HeldByItsGoroutine
<1>6. CASE LoopStep /\ ~Interrupt /\ ~Act
  <2>1. UNCHANGED <<actions, task, overtaken>> /\ loop.pc # "interrupt"
    BY <1>6 DEF LoopStep, ReadSchedules, SchedulesDone, LoopJournal, Decide
  <2> QED BY <2>1, HoldFrame
<1>7. CASE Sweep \/ Reload \/ Outside \/ Tick \/ (\E c \in Configs : SaveConfig(c))
            \/ (\E r \in Resources : DeleteSchedule(r) \/ \E on \in BOOLEAN : PutSchedule(r, on))
  <2>1. UNCHANGED <<actions, task, overtaken, loop>>
    BY <1>7 DEF Sweep, SweepRead, SweepStore, Reload, Outside, AzureEnds, ByHand, Tick, SaveConfig,
       DeleteSchedule, PutSchedule
  <2> QED BY <2>1, HoldFrame
<1>8. CASE UNCHANGED vars
  BY <1>8, HoldFrame
<1> QED
  BY <1>2, <1>3, <1>4, <1>5, <1>6, <1>7, <1>8, HoldTask DEF Next, Handlers

\* Whoever is busy is open, and what is open has somebody.
LEMMA HoldAlways == Spec => []HoldInv
<1>1. ASSUME Init, TypeOK PROVE HoldInv
  BY <1>1 DEF Init, HoldInv, Holding, OneOpen, BusyIsOpen, HeldByItsGoroutine
<1> QED
  BY <1>1, TypeCorrect, HoldStep, PTL DEF Spec

\* At most one goroutine talks to Azure about a resource, whatever the number
\* of handlers, schedules and restarts.
THEOREM OneCaller == Spec => []OneCallAtATime
<1>1. HoldInv => OneCallAtATime
  BY DEF HoldInv, Holding, OneOpen, BusyIsOpen, OneCallAtATime
<1> QED
  BY <1>1, HoldAlways, PTL

\* No row stays open without a goroutine once the boot has interrupted what
\* it found.
THEOREM NeverHeldByNobody == Spec => []HeldByItsGoroutine
<1>1. HoldInv => HeldByItsGoroutine
  BY DEF HoldInv, Holding
<1> QED
  BY <1>1, HoldAlways, PTL
-----------------------------------------------------------------------------
(* What a success stands for. *)

\* Ids not yet given are fresh, and an action asks Azure from a fresh operation.
AsksOnce ==
  /\ \A a \in ActionIds \ DOMAIN actions : ops[a] = "none" /\ task[a].pc = "none"
  /\ \A a \in DOMAIN actions : task[a].pc \in {"mark", "post"} => ops[a] = "none"

ClosesWell == \A a \in DOMAIN actions : task[a].pc = "close" /\ task[a].ok => ops[a] = "done"

Doing == AsksOnce /\ ClosesWell /\ SucceededWasDone
DoneInv == TypeOK /\ Doing

\* A step that leaves the actions, their goroutines and Azure's operations alone.
LEMMA DoneFrame ==
  ASSUME DoneInv, UNCHANGED <<actions, task, ops>>
  PROVE  Doing'
BY DEF DoneInv, Doing, AsksOnce, ClosesWell, SucceededWasDone

\* An action that starts asks with an operation of its own.
LEMMA DoneStart ==
  ASSUME DoneInv, NEW r \in Resources, NEW o \in Origins, Start(r, o), UNCHANGED ops
  PROVE  Doing'
<1>1. PICK n \in ActionIds : n = Len(actions) + 1
  BY StartTyped DEF DoneInv
<1>2. DOMAIN actions' = DOMAIN actions \cup {n} /\ n \notin DOMAIN actions /\ DOMAIN actions \subseteq ActionIds
  <2>1. TypeOK /\ Len(actions) \in Nat /\ DOMAIN actions = 1..Len(actions)
    BY DEF DoneInv, TypeOK
  <2>2. n \notin DOMAIN actions
    BY <1>1, <2>1
  <2>3. DOMAIN actions' = DOMAIN actions \cup {n}
    BY <1>1, <2>1, StartTyped
  <2> QED BY <2>1, <2>2, <2>3, ActionsBounded
<1>3. /\ \A a \in DOMAIN actions : actions'[a] = actions[a]
      /\ actions'[n].status = "pending"
  BY <1>1 DEF DoneInv, TypeOK, Start
<1>4. /\ \A a \in ActionIds : a # n => task'[a] = task[a]
      /\ task'[n].pc = "mark"
  BY <1>1 DEF DoneInv, TypeOK, Start, Goto, Task
<1>5. AsksOnce'
  BY <1>2, <1>4 DEF DoneInv, Doing, AsksOnce
<1>6. ClosesWell'
  BY <1>2, <1>4 DEF DoneInv, Doing, ClosesWell
<1>7. SucceededWasDone'
  BY <1>2, <1>3 DEF DoneInv, Doing, SucceededWasDone
<1> QED BY <1>5, <1>6, <1>7 DEF Doing

\* The goroutine of an action asks once and comes home with what it saw (runAction).
LEMMA DoneTask ==
  ASSUME DoneInv, NEW a \in DOMAIN actions, RunAction(a)
  PROVE  Doing'
<1>1. /\ a \in ActionIds /\ DOMAIN actions \subseteq ActionIds /\ task \in [ActionIds -> Task]
      /\ ops \in [ActionIds -> {"none", "queued", "done", "failed"}] /\ actions[a] \in Action
      /\ DOMAIN actions' = DOMAIN actions
  <2>1. DOMAIN actions \subseteq ActionIds
    BY ActionsBounded DEF DoneInv
  <2>2. DOMAIN actions' = DOMAIN actions
    BY DEF DoneInv, TypeOK, RunAction, MarkRunning, Post, Await, Close, TaskJournal
  <2> QED BY <2>1, <2>2 DEF DoneInv, TypeOK
<1>2. \A b \in ActionIds : b # a => task'[b] = task[b] /\ ops'[b] = ops[b]
  <2> SUFFICES ASSUME NEW b \in ActionIds, b # a PROVE task'[b] = task[b] /\ ops'[b] = ops[b]
    OBVIOUS
  <2>1. task'[b] = task[b]
    BY <1>1 DEF RunAction, MarkRunning, Post, Await, Close, TaskJournal, Goto, Failed
  <2>2. ops'[b] = ops[b]
    BY <1>1 DEF RunAction, MarkRunning, Post, Await, Close, TaskJournal, azure
  <2> QED BY <2>1, <2>2
<1>3. \A b \in DOMAIN actions : b # a => actions'[b] = actions[b]
  BY DEF RunAction, MarkRunning, Post, Await, Close, TaskJournal
<1>4. /\ task[a].pc \in {"mark", "post"} => ops[a] = "none"
      /\ task[a].pc = "close" /\ task[a].ok => ops[a] = "done"
      /\ actions[a].status = "succeeded" => ops[a] = "done"
  BY DEF DoneInv, Doing, AsksOnce, ClosesWell, SucceededWasDone
<1>5. /\ task'[a].pc \in {"mark", "post"} => ops'[a] = "none"
      /\ task'[a].pc = "close" /\ task'[a].ok => ops'[a] = "done"
      /\ actions'[a].status = "succeeded" => ops'[a] = "done"
  <2> USE <1>1, <1>4
  <2>1. CASE MarkRunning(a) BY <2>1 DEF Task, Action, MarkRunning, Goto, azure
  <2>2. CASE Post(a) BY <2>2 DEF Task, Post, Goto, Failed
  <2>3. CASE Await(a) BY <2>3 DEF Task, Await, EndedWell, Failed, azure
  <2>4. CASE Close(a) BY <2>4 DEF Task, Action, Close, Goto, NoTask, azure
  <2>5. CASE TaskJournal(a) BY <2>5 DEF Task, TaskJournal, Goto, NoTask, azure
  <2> QED BY <2>1, <2>2, <2>3, <2>4, <2>5 DEF RunAction
<1>6. AsksOnce'
  BY <1>1, <1>2, <1>5 DEF DoneInv, Doing, AsksOnce
<1>7. ClosesWell'
  BY <1>1, <1>2, <1>5 DEF DoneInv, Doing, ClosesWell
<1>8. SucceededWasDone'
  BY <1>1, <1>2, <1>3, <1>5 DEF DoneInv, Doing, SucceededWasDone
<1> QED BY <1>6, <1>7, <1>8 DEF Doing

\* Every step keeps what an action knows of its operation true.
LEMMA DoneStep ==
  ASSUME DoneInv, [Next]_vars
  PROVE  DoneInv'
<1> USE DEF vars, azure, settings, history
<1>1. TypeOK /\ TypeOK' /\ loop.res \in Resources /\ DOMAIN actions \subseteq ActionIds
  BY TypeStep, ActionsBounded DEF DoneInv, TypeOK, Loop
<1> SUFFICES Doing'
  BY <1>1 DEF DoneInv
<1>2. ASSUME NEW r \in Resources, UserStarts(r) PROVE Doing'
  BY <1>2, DoneStart DEF UserStarts, Origins
<1>3. CASE Interrupt
  <2>1. DOMAIN actions' = DOMAIN actions /\ UNCHANGED <<task, ops>>
    BY <1>3 DEF Interrupt
  <2>2. \A a \in DOMAIN actions : actions'[a].status = "succeeded" => actions[a].status = "succeeded"
    <3>1. ASSUME NEW a \in DOMAIN actions PROVE actions[a] \in Action
      BY <1>1 DEF TypeOK
    <3> QED BY <1>3, <3>1 DEF Interrupt, Action
  <2> QED BY <2>1, <2>2 DEF DoneInv, Doing, AsksOnce, ClosesWell, SucceededWasDone
<1>4. CASE Act
  <2>1. CASE UNCHANGED <<actions, task>>
    BY <1>4, <2>1, DoneFrame DEF Act
  <2>2. CASE Start(loop.res, "schedule")
    BY <1>1, <1>4, <2>2, DoneStart DEF Act, Origins
  <2> QED BY <1>4, <2>1, <2>2 DEF Act
<1>5. CASE Boot
  <2>1. UNCHANGED <<actions, ops>> /\ \A a \in ActionIds : task'[a].pc = "none"
    BY <1>5 DEF Boot, NoTask
  <2> QED BY <1>1, <2>1 DEF DoneInv, Doing, AsksOnce, ClosesWell, SucceededWasDone
<1>6. ASSUME NEW a \in DOMAIN actions, AzureEnds(a) PROVE Doing'
  <2>1. /\ UNCHANGED <<actions, task>> /\ ops[a] = "queued"
        /\ \A b \in ActionIds : b # a => ops'[b] = ops[b]
    BY <1>1, <1>6 DEF AzureEnds, TypeOK
  <2> QED BY <1>1, <2>1 DEF DoneInv, Doing, AsksOnce, ClosesWell, SucceededWasDone
<1>7. CASE \/ LoopStep /\ ~Interrupt /\ ~Act
           \/ Sweep \/ Reload \/ Tick \/ (\E c \in Configs : SaveConfig(c))
           \/ (\E r \in Resources : ByHand(r) \/ DeleteSchedule(r) \/ \E on \in BOOLEAN : PutSchedule(r, on))
  <2>1. UNCHANGED <<actions, task, ops>>
    BY <1>7 DEF LoopStep, ReadSchedules, SchedulesDone, LoopJournal, Decide, Sweep, SweepRead, SweepStore,
       Reload, ByHand, Tick, SaveConfig, DeleteSchedule, PutSchedule
  <2> QED BY <2>1, DoneFrame
<1>8. CASE UNCHANGED vars
  BY <1>8, DoneFrame
<1> QED
  BY <1>2, <1>3, <1>4, <1>5, <1>6, <1>7, <1>8, DoneTask DEF Next, Handlers, Outside

\* No action is recorded as succeeded that Azure has not done.
THEOREM SuccessIsAzures == Spec => []SucceededWasDone
<1>1. ASSUME Init, TypeOK PROVE DoneInv
  BY <1>1 DEF Init, DoneInv, Doing, AsksOnce, ClosesWell, SucceededWasDone, NoTask
<1>2. DoneInv => SucceededWasDone
  BY DEF DoneInv, Doing
<1> QED
  BY <1>1, <1>2, TypeCorrect, DoneStep, PTL DEF Spec
-----------------------------------------------------------------------------
(* Boundaries are acted on once. *)

\* A boundary that was decided is at most the recorded one.
DecidedRecorded ==
  \A d \in decided : schedules[d[1]] # NoSchedule /\ d[2] <= schedules[d[1]].last

\* The run loop has one copy of a schedule, and it is as recent.
CopiesRecent ==
  /\ \A s, t \in todo : s.res = t.res => s = t
  /\ \A s \in todo, d \in decided : d[1] = s.res => d[2] <= s.last

BoundaryInv == TypeOK /\ DecidedRecorded /\ CopiesRecent

\* A step that leaves the schedules, their copies and the history alone.
LEMMA BoundaryFrame ==
  ASSUME BoundaryInv, UNCHANGED <<schedules, decided>>, todo' \in {todo, {}}
  PROVE  (DecidedRecorded /\ CopiesRecent)'
BY DEF BoundaryInv, DecidedRecorded, CopiesRecent

\* The decision of one schedule.
LEMMA BoundaryDecide ==
  ASSUME BoundaryInv, NEW s \in todo, Decide(s)
  PROVE  /\ (DecidedRecorded /\ CopiesRecent)'
         /\ loop'.pc = "act" => loop'.res = s.res /\ <<s.res, Boundary>> \notin decided
<1>1. /\ s.res \in Resources /\ s.last \in 0..MaxTime /\ loop \in Loop
      /\ schedules \in [Resources -> Schedule \cup {NoSchedule}]
      /\ decided \subseteq Resources \X (0..MaxTime)
      /\ todo' = todo \ {s} /\ loop.pc = "sched"
      /\ \A t \in todo : t # s => t.res # s.res
  BY DEF BoundaryInv, TypeOK, Copy, CopiesRecent, Decide
<1>2. \A d \in decided : d[1] = s.res => d[2] <= s.last
  BY DEF BoundaryInv, CopiesRecent
<1>3. CASE ~Due(s) /\ UNCHANGED <<loop, schedules, decided>>
  BY <1>1, <1>3 DEF BoundaryInv, DecidedRecorded, CopiesRecent
<1>4. CASE Due(s) /\ schedules' = Marked(s.res)
          /\ decided' = (IF schedules[s.res] = NoSchedule THEN decided
                                                          ELSE decided \cup {<<s.res, Boundary>>})
          /\ (loop' = loop \/ loop' = [loop EXCEPT !.pc = "act", !.res = s.res])
  <2>1. Boundary \in Int /\ Boundary > s.last
    <3>1. Boundary \in Int
      BY <1>1, BoundaryInPast, AzureAssumption DEF Boundary, Loop
    <3> QED BY <1>4, <3>1 DEF Due
  <2>2. \A d \in decided : d[1] = s.res => d[2] < Boundary
    BY <1>1, <1>2, <2>1, AzureAssumption
  <2>3. <<s.res, Boundary>> \notin decided
    BY <2>1, <2>2
  <2>4. CopiesRecent'
    <3>1. ASSUME NEW t \in todo', NEW d \in decided', d[1] = t.res PROVE d[2] <= t.last
      BY <1>1, <1>4, <3>1 DEF BoundaryInv, CopiesRecent
    <3> QED BY <1>1, <3>1 DEF BoundaryInv, CopiesRecent
  <2>5. DecidedRecorded'
    <3> SUFFICES ASSUME NEW d \in decided'
                 PROVE  schedules'[d[1]] # NoSchedule /\ d[2] <= schedules'[d[1]].last
      BY DEF DecidedRecorded
    <3>1. CASE d[1] # s.res
      <4>1. d \in decided /\ d[1] \in Resources
        BY <1>1, <1>4, <3>1
      <4>2. schedules'[d[1]] = schedules[d[1]]
        BY <1>1, <1>4, <3>1, <4>1 DEF Marked
      <4> QED BY <4>1, <4>2 DEF BoundaryInv, DecidedRecorded
    <3>2. CASE d[1] = s.res
      <4>1. schedules[s.res] # NoSchedule
        BY <1>4, <3>2 DEF BoundaryInv, DecidedRecorded
      <4>2. schedules'[s.res] = [schedules[s.res] EXCEPT !.last = Boundary] /\ schedules[s.res] \in Schedule
        BY <1>1, <1>4, <4>1 DEF Marked
      <4>3. d[2] <= Boundary /\ schedules'[s.res].last = Boundary
        <5>1. d \in decided \/ d[2] = Boundary
          BY <1>4, <4>1
        <5>2. schedules'[s.res].last = Boundary
          BY <4>2 DEF Schedule
        <5>3. d[2] <= Boundary
          <6>1. CASE d \in decided
            <7>1. d[2] \in 0..MaxTime
              BY <1>1, <6>1
            <7> QED BY <2>1, <2>2, <3>2, <6>1, <7>1, AzureAssumption
          <6> QED BY <2>1, <5>1, <6>1
        <5> QED BY <5>2, <5>3
      <4>4. schedules'[s.res] # NoSchedule
        <5>1. [schedules[s.res] EXCEPT !.last = Boundary] \in Schedule
          <6>1. Boundary \in 0..MaxTime
            BY <1>1, BoundaryBounded
          <6> QED BY <4>2, <6>1 DEF Schedule
        <5> QED BY <4>2, <5>1, NoScheduleAssumption
      <4> QED BY <3>2, <4>3, <4>4
    <3> QED BY <3>1, <3>2
  <2> QED BY <1>1, <1>4, <2>3, <2>4, <2>5 DEF Loop
<1> QED
  BY <1>3, <1>4 DEF Decide

\* No copy of a schedule is ahead of the table, so no boundary is decided again.
LEMMA BoundaryStep ==
  ASSUME BoundaryInv, [Next]_vars
  PROVE  /\ BoundaryInv'
         /\ loop.pc = "sched" /\ loop'.pc = "act" => <<loop'.res, Boundary>> \notin decided
<1> USE DEF vars, azure, settings, history
<1> DEFINE Once == loop.pc = "sched" /\ loop'.pc = "act" => <<loop'.res, Boundary>> \notin decided
<1>1. TypeOK /\ TypeOK' /\ loop \in Loop /\ decided \subseteq Resources \X (0..MaxTime)
      /\ schedules \in [Resources -> Schedule \cup {NoSchedule}]
  BY TypeStep DEF BoundaryInv, TypeOK
<1> SUFFICES (DecidedRecorded /\ CopiesRecent)' /\ Once
  BY <1>1 DEF BoundaryInv
<1>2. ASSUME NEW s \in todo, Decide(s) PROVE (DecidedRecorded /\ CopiesRecent)' /\ Once
  BY <1>2, BoundaryDecide
<1>3. CASE ReadSchedules
  <2>1. Once
    BY <1>3 DEF ReadSchedules, LoopAt, AtRest
  <2>2. CASE On(cfg)
    <3>1. /\ todo' = {[res |-> r, last |-> schedules[r].last] : r \in EnabledSchedules}
          /\ UNCHANGED <<schedules, decided>>
      BY <1>3, <2>2 DEF ReadSchedules
    <3>2. ASSUME NEW s \in todo', NEW d \in decided, d[1] = s.res PROVE d[2] <= s.last
      <4>1. PICK r \in EnabledSchedules : s = [res |-> r, last |-> schedules[r].last]
        BY <3>1
      <4> QED BY <3>2, <4>1 DEF BoundaryInv, DecidedRecorded
    <3>3. \A s, t \in todo' : s.res = t.res => s = t
      BY <3>1
    <3> QED BY <2>1, <3>1, <3>2, <3>3 DEF BoundaryInv, DecidedRecorded, CopiesRecent
  <2>3. CASE ~On(cfg)
    BY <1>3, <2>1, <2>3, BoundaryFrame DEF ReadSchedules
  <2> QED BY <2>2, <2>3
<1>4. ASSUME NEW r \in Resources, NEW on \in BOOLEAN, PutSchedule(r, on)
      PROVE  (DecidedRecorded /\ CopiesRecent)' /\ Once
  <2>1. UNCHANGED <<decided, todo, loop>>
    BY <1>4 DEF PutSchedule
  <2>2. ASSUME NEW d \in decided PROVE schedules'[d[1]] # NoSchedule /\ d[2] <= schedules'[d[1]].last
    <3>1. d[1] \in Resources /\ schedules[d[1]] # NoSchedule /\ d[2] <= schedules[d[1]].last
      BY <1>1 DEF BoundaryInv, DecidedRecorded
    <3>2. CASE d[1] # r
      BY <1>1, <1>4, <3>1, <3>2 DEF PutSchedule
    <3>3. CASE d[1] = r
      <4>1. schedules'[r] = [enabled |-> on, last |-> schedules[r].last] /\ schedules[r] \in Schedule
        BY <1>1, <1>4, <3>1, <3>3 DEF PutSchedule
      <4>2. schedules'[r] \in Schedule
        BY <4>1 DEF Schedule
      <4> QED BY <3>1, <3>3, <4>1, <4>2, NoScheduleAssumption
    <3> QED BY <3>2, <3>3
  <2> QED BY <2>1, <2>2 DEF BoundaryInv, DecidedRecorded, CopiesRecent
<1>5. ASSUME NEW r \in Resources, DeleteSchedule(r) PROVE (DecidedRecorded /\ CopiesRecent)' /\ Once
  <2>1. UNCHANGED <<todo, loop>> /\ decided' = {d \in decided : d[1] # r}
        /\ \A q \in Resources : q # r => schedules'[q] = schedules[q]
    BY <1>1, <1>5 DEF DeleteSchedule
  <2>2. \A d \in decided : d[1] \in Resources
    BY <1>1
  <2> QED BY <2>1, <2>2 DEF BoundaryInv, DecidedRecorded, CopiesRecent
<1>6. CASE Boot
  <2>1. UNCHANGED <<schedules, decided>> /\ todo' = {} /\ Once
    BY <1>6 DEF Boot, LoopAt
  <2> QED BY <2>1, BoundaryFrame
<1>7. CASE \/ Interrupt \/ SchedulesDone \/ Act \/ LoopJournal \/ Sweep \/ Reload \/ Outside \/ Tick
           \/ (\E a \in DOMAIN actions : RunAction(a))
           \/ (\E c \in Configs : SaveConfig(c)) \/ (\E r \in Resources : UserStarts(r))
           \/ UNCHANGED vars
  <2>1. UNCHANGED <<schedules, decided, todo>>
    BY <1>7 DEF Interrupt, SchedulesDone, Act, LoopJournal, Sweep, SweepRead, SweepStore, Reload, Outside,
       AzureEnds, ByHand, Tick, RunAction, MarkRunning, Post, Await, Close, TaskJournal, SaveConfig, UserStarts
  <2>2. Once
    <3>1. CASE UNCHANGED loop
      BY <3>1
    <3>2. CASE Interrupt \/ SchedulesDone \/ Act \/ LoopJournal
      BY <3>2 DEF Interrupt, SchedulesDone, AtRest, LoopAt, Act, LoopJournal
    <3> QED BY <1>7, <3>1, <3>2 DEF Sweep, SweepRead, SweepStore, Reload, Outside, AzureEnds, ByHand, Tick,
          RunAction, MarkRunning, Post, Await, Close, TaskJournal, SaveConfig, UserStarts
  <2> QED BY <2>1, <2>2, BoundaryFrame
<1> QED
  BY <1>2, <1>3, <1>4, <1>5, <1>6, <1>7 DEF Next, Handlers, LoopStep

\* No boundary of a schedule is acted on twice, through restarts, edits and
\* copies of the schedules read before them.
THEOREM ActsOncePerBoundary == Spec => BoundaryDecidedOnce
<1>1. ASSUME Init, TypeOK PROVE BoundaryInv
  BY <1>1 DEF Init, BoundaryInv, DecidedRecorded, CopiesRecent
<1>2. ASSUME BoundaryInv, [Next]_vars
      PROVE  [loop.pc = "sched" /\ loop'.pc = "act" => <<loop'.res, Boundary>> \notin decided]_vars
  BY <1>2, BoundaryStep
<1>3. BoundaryInv /\ [Next]_vars => BoundaryInv'
  BY BoundaryStep
<1> QED
  BY <1>1, <1>2, <1>3, TypeCorrect, PTL DEF Spec, BoundaryDecidedOnce

-----------------------------------------------------------------------------
(* The journal of schedule_failed. *)

TaskInserts(a, r) == task[a].pc = "insert" /\ actions[a].res = r
LoopInserts(r) == loop.pc = "insert" /\ loop.res = r

\* Writers of one resource that did not overlap: there is one at a time, and
\* what it read of the journal still holds when it inserts.
OneWriter ==
  \A r \in Resources \ overlap : \A a, b \in DOMAIN actions :
    TaskInserts(a, r) => ~LoopInserts(r) /\ (TaskInserts(b, r) => a = b)

StillNews ==
  \A r \in Resources \ overlap :
    /\ LoopInserts(r) => News(r, FALSE)
    /\ \A a \in DOMAIN actions : TaskInserts(a, r) => News(r, task[a].ok)

Alternating == OneWriter /\ StillNews /\ FailuresAlternate
AltInv == TypeOK /\ Alternating

\* News compares two truth values.
LEMMA NewsIs ==
  ASSUME NEW r, NEW ok \in BOOLEAN
  PROVE  /\ News(r, ok) <=> (Firing(r, Len(journal)) <=> ok)
         /\ News(r, ok)' <=> (Firing(r, Len(journal))' <=> ok)
BY DEF News, Firing

\* A new event, the nth, decides what fires for its resource, and for no other.
Inserted(r, ok, n) ==
  /\ Len(journal) = n - 1 /\ Len(journal') = n /\ DOMAIN journal' = DOMAIN journal \cup {n}
  /\ journal'[n].res = r /\ (journal'[n].kind = "resolved" <=> ok)
  /\ \A i \in DOMAIN journal : i \in 1..(n - 1) /\ journal'[i] = journal[i]
  /\ \A s : \A m \in 0..(n - 1) : Firing(s, m)' <=> Firing(s, m)
  /\ \A s \in Resources \ {r} : Firing(s, n)' <=> Firing(s, n - 1)

\* That is what an insert does (store/guardrails.go, InsertGuardrailEvent).
LEMMA FiringInserted ==
  ASSUME TypeOK, NEW r \in Resources, NEW ok \in BOOLEAN, InsertEvent(r, ok)
  PROVE  \E n \in Nat \ {0} : Inserted(r, ok, n)
<1> DEFINE e == [res |-> r, kind |-> IF ok THEN "resolved" ELSE "fired"]
<1>0. PICK n \in Nat \ {0} : n = Len(journal) + 1
  BY DEF TypeOK
<1>1. e \in GuardrailEvent /\ journal \in Seq(GuardrailEvent) /\ e.res = r /\ (e.kind = "resolved" <=> ok)
  BY DEF TypeOK, GuardrailEvent
<1>2. journal' = Append(journal, e)
  BY DEF InsertEvent
<1> HIDE DEF e
<1>3. /\ Len(journal) = n - 1 /\ Len(journal') = n /\ DOMAIN journal' = DOMAIN journal \cup {n} /\ journal'[n] = e
      /\ \A i \in 1..(n - 1) : journal'[i] = journal[i]
      /\ \A i \in DOMAIN journal : i \in 1..(n - 1)
  BY <1>0, <1>1, <1>2
<1>4. ASSUME NEW s, NEW m \in 0..(n - 1) PROVE Firing(s, m)' <=> Firing(s, m)
  <2>1. \A i \in 1..m : i \in 1..(n - 1) /\ (i + 1)..m \subseteq 1..(n - 1)
    BY <1>3
  <2> QED BY <1>3, <2>1 DEF Firing
<1>5. ASSUME NEW s \in Resources \ {r} PROVE Firing(s, n)' <=> Firing(s, n - 1)
  <2>1. ASSUME Firing(s, n)' PROVE Firing(s, n - 1)
    <3>1. PICK i \in 1..n : /\ journal'[i].res = s /\ journal'[i].kind = "fired"
                            /\ \A j \in (i + 1)..n : journal'[j].res # s
      BY <2>1 DEF Firing
    <3>2. i \in 1..(n - 1)
      BY <1>1, <1>3, <3>1
    <3>3. \A j \in (i + 1)..(n - 1) : j \in (i + 1)..n /\ j \in 1..(n - 1)
      BY <1>3, <3>2
    <3> QED BY <1>3, <3>1, <3>2, <3>3 DEF Firing
  <2>2. ASSUME Firing(s, n - 1) PROVE Firing(s, n)'
    <3>1. PICK i \in 1..(n - 1) : /\ journal[i].res = s /\ journal[i].kind = "fired"
                                  /\ \A j \in (i + 1)..(n - 1) : journal[j].res # s
      BY <2>2 DEF Firing
    <3>2. i \in 1..n /\ \A j \in (i + 1)..n : j = n \/ (j \in (i + 1)..(n - 1) /\ j \in 1..(n - 1))
      BY <1>3, <3>1
    <3>3. journal'[n].res # s
      BY <1>1, <1>3
    <3>4. journal'[i].res = s /\ journal'[i].kind = "fired" /\ \A j \in (i + 1)..n : journal'[j].res # s
      BY <1>3, <3>1, <3>2, <3>3
    <3> QED BY <3>2, <3>4 DEF Firing
  <2> QED BY <2>1, <2>2
<1>6. \A i \in DOMAIN journal : i \in 1..(n - 1) /\ journal'[i] = journal[i]
  BY <1>3
<1> QED BY <1>1, <1>3, <1>4, <1>5, <1>6 DEF Inserted

\* A step that inserts nothing and reads nothing of the journal: goroutines may
\* end, and actions start.
LEMMA AltFrame ==
  ASSUME AltInv, journal' = journal, overlap \subseteq overlap',
         loop'.pc = "insert" => loop' = loop,
         \A a \in DOMAIN actions' : task'[a].pc = "insert" =>
           a \in DOMAIN actions /\ task'[a] = task[a] /\ actions'[a].res = actions[a].res
  PROVE  Alternating'
<1>1. \A r : LoopInserts(r)' => LoopInserts(r)
  BY DEF LoopInserts
<1>2. \A r : \A a \in DOMAIN actions' : TaskInserts(a, r)' => a \in DOMAIN actions /\ TaskInserts(a, r) /\ task'[a] = task[a]
  BY DEF TaskInserts
<1>3. \A r, ok : News(r, ok)' <=> News(r, ok)
  BY DEF News, Firing
<1>4. OneWriter'
  BY <1>1, <1>2 DEF AltInv, Alternating, OneWriter
<1>5. StillNews'
  BY <1>1, <1>2, <1>3 DEF AltInv, Alternating, StillNews
<1>6. FailuresAlternate'
  BY DEF AltInv, Alternating, FailuresAlternate, Firing
<1> QED BY <1>4, <1>5, <1>6 DEF Alternating

\* Between the read and the insert: who reads while somebody else is there is
\* recorded in overlap.
LEMMA AltRead ==
  ASSUME AltInv, NEW r \in Resources, journal' = journal, actions' = actions, Overlapping(r),
         NEW ok \in BOOLEAN, News(r, ok),
         \/ loop' = [loop EXCEPT !.pc = "insert"] /\ loop.res = r /\ ok = FALSE /\ task' = task /\ loop.pc = "refused"
         \/ \E a \in DOMAIN actions : /\ actions[a].res = r /\ task[a].ok = ok /\ task[a].pc = "journal"
                                      /\ task' = [task EXCEPT ![a].pc = "insert"] /\ loop' = loop
  PROVE  Alternating'
<1>0. TypeOK /\ loop \in Loop /\ task \in [ActionIds -> Task] /\ DOMAIN actions \subseteq ActionIds
  BY ActionsBounded DEF AltInv, TypeOK
<1>1. \A s, b : News(s, b)' <=> News(s, b)
  BY DEF News, Firing
<1>2. FailuresAlternate'
  BY DEF AltInv, Alternating, FailuresAlternate, Firing, Overlapping
<1>3. overlap \subseteq overlap' /\ (r \notin overlap' => ~LoopInserts(r) /\ \A a \in DOMAIN actions : ~TaskInserts(a, r))
  BY DEF Overlapping, Inserting, LoopInserts, TaskInserts
<1>4. CASE loop' = [loop EXCEPT !.pc = "insert"] /\ loop.res = r /\ ok = FALSE /\ task' = task /\ loop.pc = "refused"
  <2>1. \A s : (LoopInserts(s)' <=> s = r) /\ ~LoopInserts(s)
    BY <1>0, <1>4 DEF LoopInserts, Loop
  <2>2. \A s, a : TaskInserts(a, s)' <=> TaskInserts(a, s)
    BY <1>4 DEF TaskInserts
  <2>3. OneWriter'
    BY <1>3, <2>1, <2>2 DEF AltInv, Alternating, OneWriter
  <2>4. StillNews'
    BY <1>1, <1>3, <1>4, <2>1, <2>2 DEF AltInv, Alternating, StillNews
  <2> QED BY <1>2, <2>3, <2>4 DEF Alternating
<1>5. ASSUME NEW a \in DOMAIN actions, actions[a].res = r, task[a].ok = ok, task[a].pc = "journal",
             task' = [task EXCEPT ![a].pc = "insert"], loop' = loop
      PROVE  Alternating'
  <2>1. \A s : LoopInserts(s)' <=> LoopInserts(s)
    BY <1>5 DEF LoopInserts
  <2>2. /\ task'[a].pc = "insert" /\ task'[a].ok = ok
        /\ \A b \in DOMAIN actions \ {a} : task'[b] = task[b]
    BY <1>0, <1>5 DEF Task
  <2>3. \A s : /\ TaskInserts(a, s)' <=> s = r
               /\ \A b \in DOMAIN actions \ {a} : TaskInserts(b, s)' <=> TaskInserts(b, s)
    BY <1>5, <2>2 DEF TaskInserts
  <2>4. OneWriter'
    BY <1>3, <2>1, <2>3 DEF AltInv, Alternating, OneWriter
  <2>5. StillNews'
    BY <1>1, <1>3, <2>1, <2>2, <2>3 DEF AltInv, Alternating, StillNews
  <2> QED BY <1>2, <2>4, <2>5 DEF Alternating
<1> QED BY <1>4, <1>5

\* The insert itself, of what is still news unless somebody overlapped.
LEMMA AltInsert ==
  ASSUME AltInv, NEW r \in Resources, NEW ok \in BOOLEAN, InsertEvent(r, ok), overlap' = overlap, actions' = actions,
         \/ /\ LoopInserts(r) /\ ok = FALSE /\ loop' = [loop EXCEPT !.pc = "sched"] /\ task' = task
         \/ \E a \in DOMAIN actions : /\ TaskInserts(a, r) /\ task[a].ok = ok
                                      /\ task' = [task EXCEPT ![a] = NoTask] /\ loop' = loop
  PROVE  Alternating'
<1>0. TypeOK /\ loop \in Loop /\ task \in [ActionIds -> Task] /\ DOMAIN actions \subseteq ActionIds
  BY ActionsBounded DEF AltInv, TypeOK
<1>7. PICK n \in Nat \ {0} : Inserted(r, ok, n)
  BY <1>0, FiringInserted
<1>1. /\ Len(journal) = n - 1 /\ Len(journal') = n /\ DOMAIN journal' = DOMAIN journal \cup {n}
      /\ journal'[n].res = r /\ (journal'[n].kind = "resolved" <=> ok)
      /\ \A i \in DOMAIN journal : i \in 1..(n - 1) /\ journal'[i] = journal[i]
      /\ \A s : \A m \in 0..(n - 1) : Firing(s, m)' <=> Firing(s, m)
      /\ \A s \in Resources \ {r} : Firing(s, n)' <=> Firing(s, n - 1)
  BY <1>7 DEF Inserted
<1>2. r \notin overlap => (Firing(r, n - 1) <=> ok)
  <2>1. r \notin overlap => News(r, ok)
    BY DEF AltInv, Alternating, StillNews
  <2> QED BY <1>1, <2>1, NewsIs
<1>3. FailuresAlternate'
  <2> SUFFICES ASSUME NEW i \in DOMAIN journal', journal'[i].res \notin overlap
               PROVE  (journal[i].kind = "resolved" <=> Firing(journal[i].res, i - 1))'
    BY DEF FailuresAlternate
  <2>1. CASE i = n
    <3>1. n - 1 \in 0..(n - 1)
      BY <1>1
    <3> QED BY <1>1, <1>2, <2>1, <3>1
  <2>2. CASE i \in DOMAIN journal
    <3>1. i - 1 \in 0..(n - 1) /\ journal'[i] = journal[i]
      BY <1>1, <2>2
    <3>2. journal[i].kind = "resolved" <=> Firing(journal[i].res, i - 1)
      BY <2>2, <3>1 DEF AltInv, Alternating, FailuresAlternate
    <3> QED BY <1>1, <3>1, <3>2
  <2> QED BY <1>1, <2>1, <2>2
<1>4. \A s \in Resources \ {r} : \A b : News(s, b)' <=> News(s, b)
  <2>1. \A s \in Resources \ {r} : Firing(s, Len(journal))' <=> Firing(s, Len(journal))
    BY <1>1 DEF Firing
  <2> QED BY <2>1, Zenon DEF News, Firing
<1>5. CASE LoopInserts(r) /\ ok = FALSE /\ loop' = [loop EXCEPT !.pc = "sched"] /\ task' = task
  <2>1. \A s : ~LoopInserts(s)' /\ \A a : TaskInserts(a, s)' <=> TaskInserts(a, s)
    BY <1>0, <1>5 DEF LoopInserts, TaskInserts, Loop
  <2>2. r \notin overlap => \A a \in DOMAIN actions : ~TaskInserts(a, r)
    BY <1>5 DEF AltInv, Alternating, OneWriter
  <2>3. OneWriter'
    BY <2>1 DEF AltInv, Alternating, OneWriter
  <2>4. StillNews'
    BY <1>0, <1>4, <1>5, <2>1, <2>2 DEF AltInv, Alternating, StillNews, Task
  <2> QED BY <1>3, <2>3, <2>4 DEF Alternating
<1>6. ASSUME NEW a \in DOMAIN actions, TaskInserts(a, r), task[a].ok = ok,
             task' = [task EXCEPT ![a] = NoTask], loop' = loop
      PROVE  Alternating'
  <2>1. \A s : LoopInserts(s)' <=> LoopInserts(s)
    BY <1>6 DEF LoopInserts
  <2>2. \A s : /\ ~TaskInserts(a, s)'
               /\ \A b \in DOMAIN actions \ {a} : task'[b] = task[b] /\ (TaskInserts(b, s)' <=> TaskInserts(b, s))
    BY <1>0, <1>6 DEF TaskInserts, NoTask
  <2>3. r \notin overlap => ~LoopInserts(r) /\ \A b \in DOMAIN actions \ {a} : ~TaskInserts(b, r)
    BY <1>6 DEF AltInv, Alternating, OneWriter
  <2>4. OneWriter'
    BY <2>1, <2>2 DEF AltInv, Alternating, OneWriter
  <2>5. StillNews'
    BY <1>0, <1>4, <2>1, <2>2, <2>3 DEF AltInv, Alternating, StillNews, Task
  <2> QED BY <1>3, <2>4, <2>5 DEF Alternating
<1> QED BY <1>5, <1>6

\* Every step keeps the journal alternating.
LEMMA AltStep ==
  ASSUME AltInv, [Next]_vars
  PROVE  AltInv'
<1> USE DEF vars, azure, settings, history
<1>1. /\ TypeOK /\ TypeOK' /\ loop \in Loop /\ task \in [ActionIds -> Task] /\ actions \in Seq(Action)
      /\ DOMAIN actions \subseteq ActionIds
  BY TypeStep, ActionsBounded DEF AltInv, TypeOK
<1> SUFFICES Alternating'
  BY <1>1 DEF AltInv
<1>2. ASSUME NEW a \in DOMAIN actions, MarkRunning(a) \/ Post(a) \/ Await(a) \/ Close(a)
      PROVE  Alternating'
  <2>1. a \in ActionIds /\ task[a] \in Task
    BY <1>1
  <2>2. task'[a].pc # "insert" /\ \A b \in DOMAIN actions \ {a} : task'[b] = task[b]
    BY <1>1, <1>2, <2>1 DEF MarkRunning, Post, Await, Close, Goto, Failed, NoTask, Task
  <2>3. DOMAIN actions' = DOMAIN actions /\ \A b \in DOMAIN actions : actions'[b].res = actions[b].res
    <3>1. CASE UNCHANGED actions
      BY <3>1
    <3>2. ASSUME NEW st, actions' = [actions EXCEPT ![a].status = st]
          PROVE  DOMAIN actions' = DOMAIN actions /\ \A b \in DOMAIN actions : actions'[b].res = actions[b].res
      BY <1>1, <3>2 DEF Action
    <3>3. UNCHANGED actions \/ \E st : actions' = [actions EXCEPT ![a].status = st]
      BY <1>2 DEF MarkRunning, Post, Await, Close
    <3> QED BY <3>1, <3>2, <3>3
  <2>4. journal' = journal /\ overlap' = overlap /\ loop' = loop
    BY <1>2 DEF MarkRunning, Post, Await, Close
  <2> QED BY <2>2, <2>3, <2>4, AltFrame
<1>3. ASSUME NEW a \in DOMAIN actions, TaskJournal(a)
      PROVE  Alternating'
  <2>0. actions[a].res \in Resources /\ task[a].ok \in BOOLEAN /\ task[a] \in Task
    <3>1. actions[a] \in Action /\ a \in ActionIds
      BY <1>1
    <3> QED BY <1>1, <3>1 DEF Action, Task
  <2>1. CASE task[a].pc = "journal" /\ News(actions[a].res, task[a].ok)
    BY <1>3, <2>0, <2>1, AltRead DEF TaskJournal, Goto
  <2>2. CASE task[a].pc = "journal" /\ ~News(actions[a].res, task[a].ok)
    <3>1. task' = [task EXCEPT ![a] = NoTask] /\ journal' = journal /\ overlap \subseteq overlap' /\ loop' = loop
          /\ actions' = actions
      BY <1>3, <2>2 DEF TaskJournal, Overlapping
    <3> QED BY <1>1, <3>1, AltFrame DEF NoTask
  <2>3. CASE task[a].pc = "insert"
    <3>1. TaskInserts(a, actions[a].res)
      BY <2>3 DEF TaskInserts
    <3> QED BY <1>3, <2>0, <2>3, <3>1, AltInsert DEF TaskJournal
  <2> QED BY <1>3, <2>1, <2>2, <2>3 DEF TaskJournal
<1>4. CASE LoopJournal
  <2>0. loop.res \in Resources
    BY <1>1 DEF Loop
  <2>1. CASE loop.pc = "refused" /\ News(loop.res, FALSE)
    BY <1>4, <2>0, <2>1, AltRead DEF LoopJournal
  <2>2. CASE loop.pc = "refused" /\ ~News(loop.res, FALSE)
    <3>1. loop'.pc # "insert" /\ journal' = journal /\ overlap \subseteq overlap' /\ task' = task /\ actions' = actions
      BY <1>1, <1>4, <2>2 DEF LoopJournal, Overlapping, Loop
    <3> QED BY <3>1, AltFrame
  <2>3. CASE loop.pc = "insert"
    <3>1. LoopInserts(loop.res)
      BY <2>3 DEF LoopInserts
    <3> QED BY <1>4, <2>0, <2>3, <3>1, AltInsert DEF LoopJournal
  <2> QED BY <1>4, <2>1, <2>2, <2>3 DEF LoopJournal
<1>5. ASSUME NEW r \in Resources, NEW o \in Origins, Start(r, o), journal' = journal, overlap' = overlap,
             loop'.pc = "insert" => loop' = loop
      PROVE  Alternating'
  <2> DEFINE n == Len(actions) + 1
             x == [res |-> r, origin |-> o, status |-> "pending"]
  <2>1. n \in ActionIds /\ task'[n].pc = "mark" /\ \A b \in ActionIds \ {n} : task'[b] = task[b]
    BY <1>1, <1>5, AzureAssumption DEF Start, Goto, ActionIds, Task
  <2>2. actions' = Append(actions, x)
    BY <1>5 DEF Start
  <2> HIDE DEF x
  <2>3. DOMAIN actions' = DOMAIN actions \cup {n} /\ \A b \in DOMAIN actions : actions'[b] = actions[b]
    BY <1>1, <2>2
  <2> HIDE DEF n
  <2> QED BY <1>1, <1>5, <2>1, <2>3, AltFrame
<1>6. ASSUME NEW r \in Resources, UserStarts(r) PROVE Alternating'
  BY <1>5, <1>6 DEF UserStarts, Origins
<1>7. CASE Act
  <2>1. loop.res \in Resources /\ loop'.pc # "insert" /\ journal' = journal /\ overlap' = overlap
    BY <1>1, <1>7 DEF Act, Loop
  <2>2. CASE UNCHANGED <<actions, task>>
    BY <2>1, <2>2, AltFrame
  <2>3. CASE Start(loop.res, "schedule")
    BY <1>5, <2>1, <2>3 DEF Origins
  <2> QED BY <1>7, <2>2, <2>3 DEF Act
<1>8. CASE Interrupt
  <2>1. \A a \in DOMAIN actions : actions[a] \in Action
    BY <1>1
  <2>2. DOMAIN actions' = DOMAIN actions /\ \A a \in DOMAIN actions : actions'[a].res = actions[a].res
    BY <1>8, <2>1 DEF Interrupt, Action
  <2>3. loop'.pc # "insert" /\ journal' = journal /\ overlap' = overlap /\ task' = task
    BY <1>1, <1>8 DEF Interrupt, Loop
  <2> QED BY <2>2, <2>3, AltFrame
<1>9. CASE Boot
  <2>1. loop'.pc # "insert" /\ journal' = journal /\ overlap' = overlap /\ actions' = actions
        /\ \A a \in ActionIds : task'[a].pc # "insert"
    BY <1>9 DEF Boot, LoopAt, NoTask
  <2> QED BY <1>1, <2>1, AltFrame
<1>10. CASE ReadSchedules \/ SchedulesDone \/ \E s \in todo : Decide(s)
  <2>1. journal' = journal /\ overlap' = overlap /\ actions' = actions /\ task' = task
    BY <1>10 DEF ReadSchedules, SchedulesDone, Decide
  <2>2. ReadSchedules \/ SchedulesDone => loop'.pc # "insert"
    BY DEF ReadSchedules, SchedulesDone, LoopAt, AtRest
  <2>3. ASSUME NEW s \in todo, Decide(s) PROVE loop'.pc # "insert"
    <3>1. loop.pc = "sched" /\ (loop' = loop \/ loop' = [loop EXCEPT !.pc = "act", !.res = s.res])
      BY <2>3 DEF Decide
    <3> QED BY <1>1, <3>1 DEF Loop
  <2> QED BY <1>10, <2>1, <2>2, <2>3, AltFrame
<1>11. CASE Sweep \/ Reload \/ Outside \/ Tick \/ (\E c \in Configs : SaveConfig(c)) \/ UNCHANGED vars
            \/ (\E r \in Resources : DeleteSchedule(r) \/ \E on \in BOOLEAN : PutSchedule(r, on))
  <2>1. UNCHANGED <<actions, task, overlap, journal, loop>>
    BY <1>11 DEF Sweep, SweepRead, SweepStore, Reload, Outside, AzureEnds, ByHand, Tick, SaveConfig,
       DeleteSchedule, PutSchedule
  <2> QED BY <2>1, AltFrame
<1> QED BY <1>2, <1>3, <1>4, <1>6, <1>7, <1>8, <1>9, <1>10, <1>11 DEF Next, Handlers, LoopStep, RunAction

\* The failures of a schedule alternate with its recoveries in the journal,
\* whatever number of writers, restarts and refused boundaries, for the
\* resources of which no two writers overlapped (journalScheduleFailure,
\* finishAction).
THEOREM NoFailureTwice == Spec => []FailuresAlternate
<1>1. ASSUME Init, TypeOK PROVE AltInv
  <2>1. actions = <<>> /\ journal = <<>> /\ loop.pc = "interrupt"
    BY <1>1 DEF Init, LoopAt
  <2> QED BY <1>1, <2>1 DEF AltInv, Alternating, OneWriter, StillNews, FailuresAlternate, LoopInserts
<1>2. AltInv => FailuresAlternate
  BY DEF AltInv, Alternating
<1> QED BY <1>1, <1>2, AltStep, TypeCorrect, PTL DEF Spec
=============================================================================

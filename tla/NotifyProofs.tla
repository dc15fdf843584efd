---------------------------- MODULE NotifyProofs ----------------------------
(***************************************************************************)
(* Proofs about Notify: its type invariant, that nothing is recorded as    *)
(* sent that its channel did not take, that a pending delivery has one     *)
(* carrier, that a full queue drops recoveries last, that reminders are    *)
(* spaced, that who heard an alert hears its end, and hears it last.       *)
(*                                                                         *)
(* A row is settled by whoever carries its job, long after the job was     *)
(* built, so SentWasHeard is not inductive: HeardInv adds that a job still *)
(* matches the row its id names (JobsMatchRows), unless that row was       *)
(* deleted meanwhile, and what the worker knows of the channel's answer    *)
(* (AcceptedWasHeard).                                                     *)
(*                                                                         *)
(* PendingCarriedOnce is about rows only, and a new row takes the id of a  *)
(* deleted one: CarriedInv says of every id that the queue, the worker,    *)
(* the processes and the replay carry it at most once, and not at all when *)
(* no row has it (Once); that nobody moves before the replay (QuietBoot);  *)
(* and that a release still finds held what it read (ReleaseReads).        *)
(*                                                                         *)
(* What is said of reminders and of ends relates rows to what the          *)
(* processes still hold.  HandInv says what each has in hand where it is.  *)
(* RemindersSpaced needs that what is planned is due, and for each channel *)
(* once (PlannedAreDue); ListenersHearTheEnd that the loop tells of the    *)
(* last event of an alert, so that nobody is owed its start any more       *)
(* (TellsTheLast), that it excuses what its view lacks (OffIsExcused), and *)
(* the property itself for an end planned and not yet written (EndIsTold). *)
(*                                                                         *)
(* OfflineInOrder is about what was heard and what is left to send, so     *)
(* OrderInv follows the rows of a key from the loop to the worker: written *)
(* in the order of their events (RowsInOrder), with a carrier while they   *)
(* are pending (OnItsWay), and never behind a later one of their key, with *)
(* the loop, in the queue or at the worker (LoopInOrder, QueueInOrder,     *)
(* WorkerInOrder).                                                         *)
(***************************************************************************)
EXTENDS Notify, WellFoundedInduction, SequenceTheorems, FiniteSetTheorems, TLAPS

\* The victim of a full queue is one of its jobs (dispatcher.go, victim).
LEMMA VictimInQueue ==
  ASSUME NEW q \in Seq(Job), q # <<>>
  PROVE  Victim(q) \in 1..Len(q)
<1>1. \A kind \in Kinds : Oldest(q, kind) \subseteq 1..Len(q)
  BY DEF Oldest
<1>2. 1 \in 1..Len(q)
  BY SMT
<1> QED
  BY <1>1, <1>2, Zenon DEF Victim, Kinds

\* RemoveAt leaves the elements before the place where they are and moves the
\* others one place down.
LEMMA RemoveAtIs ==
  ASSUME NEW q \in Seq(Job), NEW i \in 1..Len(q)
  PROVE  /\ RemoveAt(q, i) \in Seq(Job) /\ Len(RemoveAt(q, i)) = Len(q) - 1
         /\ \A j \in 1..(Len(q) - 1) : RemoveAt(q, i)[j] = IF j < i THEN q[j] ELSE q[j + 1]
<1> DEFINE a == SubSeq(q, 1, i - 1)
           b == SubSeq(q, i + 1, Len(q))
<1>1. /\ a \in Seq(Job) /\ Len(a) = i - 1 /\ \A j \in 1..(i - 1) : a[j] = q[j]
  OBVIOUS
<1>2. /\ b \in Seq(Job) /\ Len(b) = Len(q) - i /\ \A j \in 1..(Len(q) - i) : b[j] = q[i + j]
  OBVIOUS
<1>3. RemoveAt(q, i) = a \o b
  BY DEF RemoveAt
<1> HIDE DEF a, b
<1>4. /\ a \o b \in Seq(Job) /\ Len(a \o b) = Len(a) + Len(b)
      /\ \A j \in 1..(Len(a) + Len(b)) : (a \o b)[j] = IF j <= Len(a) THEN a[j] ELSE b[j - Len(a)]
  BY <1>1, <1>2, ConcatProperties
<1>5. ASSUME NEW j \in 1..(Len(q) - 1) PROVE (a \o b)[j] = IF j < i THEN q[j] ELSE q[j + 1]
  <2>1. CASE j < i
    BY <1>1, <1>2, <1>4, <2>1
  <2>2. CASE ~(j < i)
    <3>1. (a \o b)[j] = b[j - (i - 1)] /\ j - (i - 1) \in 1..(Len(q) - i)
      BY <1>1, <1>2, <1>4, <2>2
    <3>2. b[j - (i - 1)] = q[i + (j - (i - 1))] /\ i + (j - (i - 1)) = j + 1
      BY <1>2, <3>1
    <3> QED BY <2>2, <3>1, <3>2
  <2> QED BY <2>1, <2>2
<1> QED BY <1>1, <1>2, <1>3, <1>4, <1>5

\* Dropping the victim keeps the other jobs and only them.
LEMMA RemoveAtKeeps ==
  ASSUME NEW q \in Seq(Job), NEW i \in 1..Len(q)
  PROVE  /\ RemoveAt(q, i) \in Seq(Job) /\ Len(RemoveAt(q, i)) = Len(q) - 1
         /\ \A j \in DOMAIN RemoveAt(q, i) : \E k \in DOMAIN q : RemoveAt(q, i)[j] = q[k]
<1>1. /\ RemoveAt(q, i) \in Seq(Job) /\ Len(RemoveAt(q, i)) = Len(q) - 1
      /\ \A j \in 1..(Len(q) - 1) : RemoveAt(q, i)[j] = IF j < i THEN q[j] ELSE q[j + 1]
  BY RemoveAtIs
<1>2. ASSUME NEW j \in 1..(Len(q) - 1)
      PROVE  j \in DOMAIN q /\ j + 1 \in DOMAIN q
  OBVIOUS
<1>3. DOMAIN RemoveAt(q, i) = 1..(Len(q) - 1)
  BY <1>1
<1> QED BY <1>1, <1>2, <1>3

\* What a process reads of the settings has the type of a view.
LEMMA ViewsTyped ==
  ASSUME TypeOK
  PROVE  CurrentView \in View /\ NoView \in View
BY NotifyAssumption DEF TypeOK, TablesOK, SettingsOK, CurrentView, NoView, View

\* A transition or a reminder plans rows for channels the hub knows (notify.go,
\* reminders.go).
LEMMA EntriesTyped ==
  ASSUME NEW v \in View, NEW e \in EventIds
  PROVE  TransitionEntries(v, e) \subseteq Entry /\ ReminderEntries(v, e) \subseteq Entry
<1>1. \A k, also : Route(v, k, also) \subseteq Channels
  BY DEF Route, View
<1>2. \A k, c : HoldFor(v, k, c) \in BOOLEAN
  BY DEF HoldFor
<1>3. ASSUME NEW c \in Channels, NEW h \in BOOLEAN, NEW m \in BOOLEAN
      PROVE  [event |-> e, ch |-> c, held |-> h, reminder |-> m] \in Entry
  BY DEF Entry
<1>4. ASSUME NEW x \in TransitionEntries(v, e) PROVE x \in Entry
  <2>1. PICK c \in Channels : x = [event |-> e, ch |-> c, reminder |-> FALSE,
                                   held |-> HoldFor(v, events[e].key, c)]
    BY <1>1 DEF TransitionEntries
  <2> QED
    BY <2>1, <1>2, <1>3
<1>5. ASSUME NEW x \in ReminderEntries(v, e) PROVE x \in Entry
  <2>1. PICK c \in Channels : x = [event |-> e, ch |-> c, held |-> FALSE, reminder |-> TRUE]
    BY <1>1 DEF ReminderEntries
  <2> QED
    BY <2>1, <1>3
<1> QED
  BY <1>4, <1>5

\* A position of the journal holds an event.
LEMMA EventsTyped ==
  ASSUME TypeOK, NEW e \in DOMAIN events
  PROVE  events[e] \in Event /\ e \in EventIds
<1>1. /\ events \in Seq(Event) /\ DOMAIN events = 1..Len(events)
      /\ Len(events) \in Nat /\ Len(events) <= MaxEvents /\ MaxEvents \in Nat
  BY NotifyAssumption, LenProperties DEF TypeOK, TablesOK
<1> QED
  BY <1>1, ElementOfSeq DEF EventIds

\* The job of a row whose event is journalled is a job.
LEMMA JobsTyped ==
  ASSUME TypeOK, NEW r \in Row, r.event \in DOMAIN events, NEW id \in RowIds
  PROVE  JobOf(id, r) \in Job
<1>1. events[r.event].kind \in {"fired", "resolved"} /\ r.event \in EventIds
  BY EventsTyped DEF Event
<1>2. r.ch \in Channels /\ r.reminder \in BOOLEAN
  BY DEF Row
<1> QED
  BY <1>1, <1>2 DEF JobOf, Job, Kinds

\* MarkDeliverySent, MarkDeliveryFailed and ReleaseDelivery change the state of
\* one row, and never the job the row stands for.
LEMMA SetStateTyped ==
  ASSUME TypeOK, NEW id, NEW s \in {"pending", "held", "sent", "failed"}
  PROVE  /\ DOMAIN SetState(id, s) = DOMAIN rows
         /\ \A i \in DOMAIN rows : /\ SetState(id, s)[i] \in Row
                                   /\ \A j : JobOf(j, SetState(id, s)[i]) = JobOf(j, rows[i])
                                   /\ SetState(id, s)[i].event = rows[i].event
                                   /\ i # id => SetState(id, s)[i] = rows[i]
                                   /\ i = id => SetState(id, s)[i].state = s
<1>1. now \in 0..MaxTime /\ \A i \in DOMAIN rows : rows[i] \in Row
  BY DEF TypeOK, TablesOK
<1>2. ASSUME NEW i \in DOMAIN rows
      PROVE  [rows[i] EXCEPT !.state = s, !.upd = now] \in Row
  BY <1>1 DEF Row
<1>3. ASSUME NEW i \in DOMAIN rows
      PROVE  /\ [rows[i] EXCEPT !.state = s, !.upd = now].state = s
             /\ [rows[i] EXCEPT !.state = s, !.upd = now].event = rows[i].event
             /\ [rows[i] EXCEPT !.state = s, !.upd = now].ch = rows[i].ch
             /\ [rows[i] EXCEPT !.state = s, !.upd = now].reminder = rows[i].reminder
  BY <1>1 DEF Row
<1>4. DOMAIN SetState(id, s) = DOMAIN rows
  BY DEF SetState
<1>5. ASSUME NEW i \in DOMAIN rows, i # id PROVE SetState(id, s)[i] = rows[i]
  BY <1>5 DEF SetState
<1>6. ASSUME NEW i \in DOMAIN rows, i = id
      PROVE  SetState(id, s)[i] = [rows[i] EXCEPT !.state = s, !.upd = now]
  BY <1>6 DEF SetState
<1>7. \A q, r : q.event = r.event /\ q.ch = r.ch /\ q.reminder = r.reminder
               => \A j : JobOf(j, q) = JobOf(j, r)
  BY DEF JobOf
<1>8. ASSUME NEW i \in DOMAIN rows
      PROVE  /\ SetState(id, s)[i] \in Row /\ (i = id => SetState(id, s)[i].state = s)
             /\ SetState(id, s)[i].event = rows[i].event
             /\ SetState(id, s)[i].ch = rows[i].ch
             /\ SetState(id, s)[i].reminder = rows[i].reminder
  <2>1. CASE i = id
    BY <1>2, <1>3, <1>6, <2>1
  <2>2. CASE i # id
    BY <1>1, <1>5, <2>2
  <2> QED
    BY <2>1, <2>2
<1>9. ASSUME NEW i \in DOMAIN rows
      PROVE  \A j : JobOf(j, SetState(id, s)[i]) = JobOf(j, rows[i])
  BY <1>7, <1>8
<1> QED
  BY <1>4, <1>5, <1>8, <1>9

-----------------------------------------------------------------------------
(* What the steps that touch rows, jobs and the queue do to them. *)

\* AddDelivery takes an id no row has, and never writes a sent row.
LEMMA AddRowEffect ==
  ASSUME TypeOK, ReferencesExist, NEW p \in Procs, NEW x \in plan[p], AddRow(p, x), x.event \notin gone
  PROVE  \E id \in RowIds, r \in Row :
           /\ id \notin DOMAIN rows /\ r.state # "sent" /\ r.event = x.event
           /\ rows' = [i \in DOMAIN rows \cup {id} |-> IF i = id THEN r ELSE rows[i]]
           /\ jobs' \in {jobs, [jobs EXCEPT ![p] = Append(@, JobOf(id, r))]}
<1> DEFINE r == [event |-> x.event, ch |-> x.ch, at |-> view[p].at, upd |-> view[p].at,
                 reminder |-> x.reminder, state |-> IF x.held THEN "held" ELSE "pending"]
<1>1. x \in Entry /\ view[p] \in View
  BY DEF TypeOK, ProcsOK
<1>2. r \in Row /\ r.state # "sent" /\ r.event = x.event
  BY <1>1 DEF Row, Entry, View
<1>3. PICK id \in RowIds :
        /\ NextRow(id)
        /\ rows' = [i \in DOMAIN rows \cup {id} |-> IF i = id THEN r ELSE rows[i]]
        /\ jobs' = IF x.held THEN jobs ELSE [jobs EXCEPT ![p] = Append(@, JobOf(id, r))]
  BY DEF AddRow
<1>4. id \notin DOMAIN rows
  BY <1>3 DEF NextRow, RowIds
<1> HIDE DEF r
<1> QED
  BY <1>2, <1>3, <1>4

\* Enqueue moves the first job of the process to the queue, whatever it drops.
LEMMA EnqueueEffect ==
  ASSUME TypeOK, NEW p \in Procs, EnqueueOne(p)
  PROVE  /\ jobs[p] # <<>> /\ jobs' = [jobs EXCEPT ![p] = Tail(@)] /\ Tail(jobs[p]) \in Seq(Job)
         /\ Len(Tail(jobs[p])) = Len(jobs[p]) - 1
         /\ \A j \in DOMAIN Tail(jobs[p]) : Tail(jobs[p])[j] = jobs[p][j + 1] /\ j + 1 \in DOMAIN jobs[p]
         /\ queue' \in Seq(Job) /\ Len(queue') <= QueueCap
         /\ \A j \in DOMAIN queue' : \/ queue'[j] = jobs[p][1]
                                     \/ \E k \in DOMAIN queue : queue'[j] = queue[k]
         /\ drops' \in [Procs -> SUBSET RowIds]
<1>1. /\ jobs \in [Procs -> Seq(Job)] /\ jobs[p] \in Seq(Job) /\ jobs[p] # <<>>
      /\ drops \in [Procs -> SUBSET RowIds]
      /\ queue \in Seq(Job) /\ Len(queue) <= QueueCap /\ QueueCap \in Nat \ {0}
  BY NotifyAssumption DEF TypeOK, ProcsOK, DispatcherOK, EnqueueOne
<1>2. /\ Head(jobs[p]) \in Job /\ Head(jobs[p]) = jobs[p][1]
      /\ Tail(jobs[p]) \in Seq(Job) /\ Len(Tail(jobs[p])) = Len(jobs[p]) - 1
      /\ \A j \in DOMAIN Tail(jobs[p]) : Tail(jobs[p])[j] = jobs[p][j + 1] /\ j + 1 \in DOMAIN jobs[p]
  BY <1>1
<1>3. jobs' = [jobs EXCEPT ![p] = Tail(@)]
  BY DEF EnqueueOne
<1>4. CASE Len(queue) >= QueueCap
  <2> DEFINE v == Victim(queue)
             kept == RemoveAt(queue, v)
  <2>1. queue' = Append(kept, Head(jobs[p])) /\ drops' = [drops EXCEPT ![p] = @ \cup {queue[v].id}]
    BY <1>4 DEF EnqueueOne
  <2>2. v \in 1..Len(queue)
    BY <1>1, <1>4, VictimInQueue
  <2>3. /\ kept \in Seq(Job) /\ Len(kept) = Len(queue) - 1
        /\ \A j \in DOMAIN kept : \E k \in DOMAIN queue : kept[j] = queue[k]
    BY <1>1, <2>2, RemoveAtKeeps
  <2>4. queue[v].id \in RowIds
    <3>1. queue[v] \in Job
      BY <1>1, <2>2, ElementOfSeq
    <3> QED
      BY <3>1 DEF Job
  <2> HIDE DEF v, kept
  <2>5. /\ queue' \in Seq(Job) /\ Len(queue') = Len(kept) + 1
        /\ \A j \in 1..Len(kept) : queue'[j] = kept[j]
        /\ queue'[Len(kept) + 1] = Head(jobs[p])
    BY <1>2, <2>1, <2>3, AppendProperties
  <2>6. \A j \in DOMAIN queue' : j = Len(kept) + 1 \/ j \in DOMAIN kept
    BY <2>3, <2>5
  <2>7. drops' \in [Procs -> SUBSET RowIds]
    BY <1>1, <2>1, <2>4
  <2>8. Len(queue') <= QueueCap
    BY <1>1, <2>3, <2>5
  <2>9. \A j \in DOMAIN kept : queue'[j] = kept[j]
    BY <2>3, <2>5
  <2>10. \A j \in DOMAIN queue' : \/ queue'[j] = jobs[p][1]
                                  \/ \E k \in DOMAIN queue : queue'[j] = queue[k]
    <3>1. ASSUME NEW j \in DOMAIN queue', j = Len(kept) + 1 PROVE queue'[j] = jobs[p][1]
      BY <1>2, <2>5, <3>1
    <3>2. ASSUME NEW j \in DOMAIN kept PROVE \E k \in DOMAIN queue : queue'[j] = queue[k]
      BY <2>3, <2>9
    <3> QED
      BY <2>6, <3>1, <3>2
  <2> QED
    BY <1>1, <1>2, <1>3, <2>5, <2>7, <2>8, <2>10
<1>5. CASE ~(Len(queue) >= QueueCap)
  <2>1. queue' = Append(queue, Head(jobs[p])) /\ drops' = drops
    BY <1>5 DEF EnqueueOne
  <2>2. /\ queue' \in Seq(Job) /\ Len(queue') = Len(queue) + 1
        /\ \A j \in 1..Len(queue) : queue'[j] = queue[j]
        /\ queue'[Len(queue) + 1] = Head(jobs[p])
    BY <1>1, <1>2, <2>1, AppendProperties
  <2>3. Len(queue') <= QueueCap
    BY <1>1, <1>5, <2>2
  <2>4. \A j \in DOMAIN queue' : j = Len(queue) + 1 \/ (j \in DOMAIN queue /\ queue'[j] = queue[j])
    BY <1>1, <2>2
  <2> QED
    BY <1>1, <1>2, <1>3, <2>1, <2>2, <2>3, <2>4
<1> QED
  BY <1>4, <1>5

\* A row of a replay or a release: left alone, retired, or given a job.
LEMMA SettleEffect ==
  ASSUME TypeOK, ReferencesExist, NEW id \in RowIds, Settle(id)
  PROVE  /\ \/ rows' = rows
            \/ \E s \in {"pending", "failed"} : rows' = SetState(id, s)
         /\ \/ jobs' = jobs
            \/ /\ id \in DOMAIN rows /\ JobOf(id, rows[id]) \in Job
               /\ jobs' = [jobs EXCEPT ![Loop] = Append(@, JobOf(id, rows[id]))]
<1>1. id \in DOMAIN rows => JobOf(id, rows[id]) \in Job
  BY JobsTyped DEF TypeOK, TablesOK, ReferencesExist
<1>2. \/ rows' = rows
      \/ \E s \in {"pending", "failed"} : rows' = SetState(id, s)
  BY DEF Settle
<1>3. \/ jobs' = jobs
      \/ id \in DOMAIN rows /\ jobs' = [jobs EXCEPT ![Loop] = Append(@, JobOf(id, rows[id]))]
  BY DEF Settle
<1> QED
  BY <1>1, <1>2, <1>3

-----------------------------------------------------------------------------
(* Types. *)

\* Journalling, planning and writing rows.
LEMMA NotifyingTypes ==
  ASSUME TypeOK, ReferencesExist, NEW p \in Procs,
         (\E k \in Keys : Journal(p, k)) \/ Notifying(p)
  PROVE  TypeOK'
<1>1. CASE \E k \in Keys : Journal(p, k)
  <2>1. PICK k \in Keys : Journal(p, k)
    BY <1>1
  <2>2. TablesOK'
    <3>1. [key |-> k, kind |-> NextKind(k), at |-> now] \in Event
      BY DEF TypeOK, TablesOK, Event, NextKind
    <3>2. /\ events' \in Seq(Event) /\ Len(events') = Len(events) + 1
          /\ DOMAIN events \subseteq DOMAIN events'
      BY <2>1, <3>1 DEF Journal, TypeOK, TablesOK
    <3> QED
      BY <2>1, <3>2, NotifyAssumption DEF Journal, TypeOK, TablesOK
  <2>3. ProcsOK'
    BY <2>1, NotifyAssumption DEF Journal, TypeOK, TablesOK, ProcsOK, EventIds, Steps
  <2> QED
    BY <2>1, <2>2, <2>3
       DEF Journal, TypeOK, SettingsOK, DispatcherOK, HistoryOK, settings, dispatcher, counters, history
<1>2. CASE NotifyStart(p)
  <2>1. ProcsOK'
    BY <1>2, ViewsTyped DEF NotifyStart, TypeOK, ProcsOK, Steps
  <2>2. unowed' \subseteq EventIds \X Channels
    <3>1. batch[p] \subseteq EventIds
      BY DEF TypeOK, ProcsOK
    <3>2. unowed' = unowed \cup (batch[p] \X (Channels \ enabled))
      BY <1>2 DEF NotifyStart
    <3> QED BY <3>1, <3>2 DEF TypeOK, HistoryOK
  <2> QED
    BY <1>2, <2>1, <2>2 DEF NotifyStart, TypeOK, TablesOK, SettingsOK, DispatcherOK, HistoryOK,
                      tables, settings, dispatcher, counters
<1>3. CASE \E e \in EventIds : NextEvent(p, e)
  <2>1. PICK e \in EventIds : NextEvent(p, e)
    BY <1>3
  <2>2. \E S \in SUBSET Entry : plan' = [plan EXCEPT ![p] = S]
    <3>1. view[p] \in View
      BY DEF TypeOK, ProcsOK
    <3>2. {} \in SUBSET Entry /\ TransitionEntries(view[p], e) \in SUBSET Entry
          /\ ReminderEntries(view[p], e) \in SUBSET Entry
      BY <3>1, EntriesTyped
    <3> QED
      BY <2>1, <3>2, Zenon DEF NextEvent
  <2>3. ProcsOK'
    BY <2>1, <2>2 DEF NextEvent, TypeOK, ProcsOK
  <2> QED
    BY <2>1, <2>3 DEF NextEvent, TypeOK, TablesOK, SettingsOK, DispatcherOK, HistoryOK,
                      tables, settings, dispatcher, counters, history
<1>4. CASE \E x \in plan[p] : AddRow(p, x)
  <2>1. PICK x \in plan[p] : AddRow(p, x)
    BY <1>4
  <2>2. SettingsOK' /\ DispatcherOK' /\ HistoryOK'
    BY <2>1 DEF AddRow, TypeOK, SettingsOK, DispatcherOK, HistoryOK,
                settings, dispatcher, counters, history
  <2>3. plan' \in [Procs -> SUBSET Entry]
    BY <2>1 DEF AddRow, TypeOK, ProcsOK
  <2>4. CASE x.event \in gone
    <3>1. rows' = rows /\ jobs' = jobs
      BY <2>1, <2>4 DEF AddRow
    <3> QED
      BY <2>1, <2>2, <2>3, <3>1 DEF AddRow, TypeOK, TablesOK, ProcsOK
  <2>5. CASE x.event \notin gone
    <3>1. PICK id \in RowIds, r \in Row :
            /\ r.event = x.event
            /\ rows' = [i \in DOMAIN rows \cup {id} |-> IF i = id THEN r ELSE rows[i]]
            /\ jobs' \in {jobs, [jobs EXCEPT ![p] = Append(@, JobOf(id, r))]}
      BY <2>1, <2>5, AddRowEffect
    <3>2. JobOf(id, r) \in Job
      BY <3>1, JobsTyped DEF ReferencesExist
    <3>3. jobs' \in [Procs -> Seq(Job)]
      <4>1. jobs \in [Procs -> Seq(Job)] /\ Append(jobs[p], JobOf(id, r)) \in Seq(Job)
        BY <3>2, AppendProperties DEF TypeOK, ProcsOK
      <4> QED
        BY <3>1, <4>1
    <3>4. DOMAIN rows' \subseteq RowIds /\ \A i \in DOMAIN rows' : rows'[i] \in Row
      BY <3>1 DEF TypeOK, TablesOK
    <3> QED
      BY <2>1, <2>2, <2>3, <3>3, <3>4 DEF AddRow, TypeOK, TablesOK, ProcsOK
  <2> QED
    BY <2>4, <2>5
<1> QED
  BY <1>1, <1>2, <1>3, <1>4 DEF Notifying

\* Enqueue and what follows it.
LEMMA EnqueuingTypes ==
  ASSUME TypeOK, NEW p \in Procs, Enqueuing(p)
  PROVE  TypeOK'
<1>1. CASE Lock(p)
  <2>1. ProcsOK'
    BY <1>1, ViewsTyped DEF Lock, TypeOK, ProcsOK, Steps
  <2> QED
    BY <1>1, <2>1 DEF Lock, TypeOK, TablesOK, SettingsOK, DispatcherOK, HistoryOK,
                      tables, settings, dispatcher, counters, history
<1>2. CASE EnqueueOne(p)
  <2>1. jobs' \in [Procs -> Seq(Job)]
    BY <1>2, EnqueueEffect DEF TypeOK, ProcsOK
  <2>2. ProcsOK'
    BY <1>2, <2>1, EnqueueEffect DEF EnqueueOne, TypeOK, ProcsOK
  <2>3. DispatcherOK'
    BY <1>2, EnqueueEffect DEF EnqueueOne, TypeOK, DispatcherOK
  <2> QED
    BY <1>2, <2>2, <2>3 DEF EnqueueOne, TypeOK, TablesOK, SettingsOK, HistoryOK,
                            tables, settings, counters, history
<1>3. CASE Unlock(p)
  <2>1. ProcsOK'
    BY <1>3 DEF Unlock, TypeOK, ProcsOK, Steps
  <2> QED
    BY <1>3, <2>1 DEF Unlock, TypeOK, TablesOK, SettingsOK, DispatcherOK, HistoryOK,
                      tables, settings, dispatcher, counters, history
<1>4. CASE EnqueueReturns(p)
  <2>1. ProcsOK'
    BY <1>4 DEF EnqueueReturns, Wake, Continue, TypeOK, ProcsOK, Steps
  <2> QED
    BY <1>4, <2>1 DEF EnqueueReturns, Wake, TypeOK, TablesOK, SettingsOK, DispatcherOK, HistoryOK,
                      tables, settings, counters, history
<1>5. CASE \E id \in RowIds : RecordDrop(p, id)
  <2>1. PICK id \in RowIds : RecordDrop(p, id)
    BY <1>5
  <2>2. TablesOK'
    BY <2>1, SetStateTyped DEF RecordDrop, TypeOK, TablesOK
  <2>3. ProcsOK'
    BY <2>1 DEF RecordDrop, TypeOK, ProcsOK
  <2> QED
    BY <2>1, <2>2, <2>3 DEF RecordDrop, TypeOK, SettingsOK, DispatcherOK, HistoryOK,
                            settings, dispatcher, counters, history
<1> QED
  BY <1>1, <1>2, <1>3, <1>4, <1>5 DEF Enqueuing

\* The run loop.
LEMMA LoopTypes ==
  ASSUME TypeOK, ReferencesExist, LoopStep \/ Purge
  PROVE  TypeOK'
<1>1. CASE ReplayStart
  <2>1. ProcsOK'
    BY <1>1, ViewsTyped DEF ReplayStart, PendingRows, TypeOK, TablesOK, ProcsOK, Steps, Procs
  <2> QED
    BY <1>1, <2>1 DEF ReplayStart, PendingRows, TypeOK, TablesOK, SettingsOK, DispatcherOK, HistoryOK,
                      tables, settings, dispatcher, counters, history
<1>2. CASE ReleaseStart
  <2>1. ProcsOK'
    BY <1>2, ViewsTyped DEF ReleaseStart, HeldRows, TypeOK, TablesOK, ProcsOK, Steps, Procs
  <2> QED
    BY <1>2, <2>1 DEF ReleaseStart, HeldRows, TypeOK, TablesOK, SettingsOK, DispatcherOK, HistoryOK,
                      tables, settings, dispatcher, counters, history
<1>3. CASE \E id \in RowIds : Settle(id)
  <2>1. PICK id \in RowIds : Settle(id)
    BY <1>3
  <2>2. TablesOK'
    BY <2>1, SettleEffect, SetStateTyped DEF Settle, TypeOK, TablesOK
  <2>3. jobs' \in [Procs -> Seq(Job)]
    <3>1. jobs \in [Procs -> Seq(Job)] /\ jobs[Loop] \in Seq(Job)
      BY DEF TypeOK, ProcsOK, Procs
    <3>2. CASE jobs' = jobs
      BY <3>1, <3>2
    <3>3. CASE jobs' # jobs
      <4>1. /\ Append(jobs[Loop], JobOf(id, rows[id])) \in Seq(Job)
            /\ jobs' = [jobs EXCEPT ![Loop] = Append(jobs[Loop], JobOf(id, rows[id]))]
        BY <2>1, <3>1, <3>3, SettleEffect, AppendProperties
      <4> QED
        BY <3>1, <4>1
    <3> QED
      BY <3>2, <3>3
  <2>4. ProcsOK'
    BY <2>1, <2>3 DEF Settle, TypeOK, ProcsOK
  <2> QED
    BY <2>1, <2>2, <2>4 DEF Settle, TypeOK, SettingsOK, DispatcherOK, HistoryOK,
                            settings, dispatcher, counters, history
<1>4. CASE SettledNothing
  <2>1. ProcsOK'
    BY <1>4, ViewsTyped DEF SettledNothing, Continue, TypeOK, ProcsOK, Steps, Procs
  <2> QED
    BY <1>4, <2>1 DEF SettledNothing, TypeOK, TablesOK, SettingsOK, DispatcherOK, HistoryOK,
                      tables, settings, dispatcher, counters, history
<1>5. CASE RemindStart \/ RemindGuardrails
  <2>1. LastEvents \subseteq EventIds
    BY EventsTyped DEF LastEvents, Live
  <2>2. ProcsOK'
    BY <1>5, <2>1, ViewsTyped DEF RemindStart, RemindGuardrails, TypeOK, ProcsOK, Steps, Procs
  <2> QED
    BY <1>5, <2>2 DEF RemindStart, RemindGuardrails, TypeOK, TablesOK, SettingsOK, DispatcherOK,
                      HistoryOK, tables, settings, dispatcher, counters, history
<1>6. CASE Purge
  <2>1. unowed' \subseteq EventIds \X Channels
    <3>1. \A i \in DOMAIN rows : rows[i].event \in EventIds /\ rows[i].ch \in Channels
      BY DEF TypeOK, TablesOK, Row
    <3>2. \E old \in SUBSET DOMAIN rows : unowed' = unowed \cup {<<rows[i].event, rows[i].ch>> : i \in old}
      BY <1>6 DEF Purge
    <3> QED BY <3>1, <3>2 DEF TypeOK, HistoryOK
  <2> QED
    BY <1>6, <2>1 DEF Purge, TypeOK, TablesOK, SettingsOK, ProcsOK, DispatcherOK, HistoryOK,
                settings, procs, dispatcher, counters
<1> QED
  BY <1>1, <1>2, <1>3, <1>4, <1>5, <1>6 DEF LoopStep

\* The worker.
LEMMA WorkerTypes ==
  ASSUME TypeOK, WorkerStep
  PROVE  TypeOK'
<1>1. /\ worker \in [st : WorkerSteps, job : Job \cup {NoJob}, n : 0..Attempts]
      /\ worker.job = NoJob <=> worker.st \in {"looking", "asleep", "stopped"}
      /\ queue \in Seq(Job) /\ Len(queue) <= QueueCap /\ QueueCap \in Nat \ {0}
      /\ Attempts \in Nat \ {0} /\ NoJob \notin Job
      /\ worker.st = "backoff" => worker.n < Attempts
  BY NotifyAssumption DEF TypeOK, DispatcherOK
<1>2. CASE Pop
  <2>1. /\ Head(queue) \in Job /\ Tail(queue) \in Seq(Job) /\ Len(Tail(queue)) <= QueueCap
    BY <1>1, <1>2 DEF Pop
  <2>2. DispatcherOK'
    BY <1>1, <1>2, <2>1 DEF Pop, WorkerGoes, TypeOK, DispatcherOK, WorkerSteps
  <2> QED
    BY <1>2, <2>2 DEF Pop, TypeOK, TablesOK, SettingsOK, ProcsOK, HistoryOK,
                      tables, settings, procs, counters, history
<1>3. CASE Wait
  <2>1. DispatcherOK'
    BY <1>1, <1>3 DEF Wait, WorkerGoes, TypeOK, DispatcherOK, WorkerSteps
  <2> QED
    BY <1>3, <2>1 DEF Wait, TypeOK, TablesOK, SettingsOK, ProcsOK, HistoryOK,
                      tables, settings, procs, counters, history
<1>4. CASE Woken
  <2>1. \E st \in {"looking", "stopped"} : worker' = [st |-> st, job |-> NoJob, n |-> 0]
    BY <1>4 DEF Woken, WorkerGoes
  <2>2. wake' \in BOOLEAN
    BY <1>4 DEF Woken, TypeOK, DispatcherOK
  <2>3. DispatcherOK'
    BY <1>1, <1>4, <2>1, <2>2 DEF Woken, TypeOK, DispatcherOK, WorkerSteps
  <2> QED
    BY <1>4, <2>3 DEF Woken, TypeOK, TablesOK, SettingsOK, ProcsOK, HistoryOK,
                      tables, settings, procs, counters, history
<1>5. CASE \E r \in {"ok", "retryable", "refused", "cancelled"} : Send(r)
  <2>1. PICK r \in {"ok", "retryable", "refused", "cancelled"} : Send(r)
    BY <1>5
  <2>2. worker.job \in Job /\ worker.n \in 0..Attempts
    BY <1>1, <2>1 DEF Send
  <2>3. \E st \in {"accepted", "backoff", "refused", "cancelled"} :
          /\ worker' = [st |-> st, job |-> worker.job, n |-> worker.n]
          /\ st = "backoff" => worker.n < Attempts
    BY <2>1 DEF Send, Retries, WorkerGoes
  <2>4. DispatcherOK'
    BY <1>1, <2>1, <2>2, <2>3 DEF Send, TypeOK, DispatcherOK, WorkerSteps
  <2>5. heard' \subseteq Message
    <3>1. MessageOf(worker.job) \in Message
      BY <2>2 DEF MessageOf, Message, Job
    <3> QED
      BY <2>1, <3>1 DEF Send, TypeOK, HistoryOK
  <2> QED
    BY <2>1, <2>4, <2>5 DEF Send, TypeOK, TablesOK, SettingsOK, ProcsOK, HistoryOK,
                            tables, settings, procs, counters
<1>6. CASE Backoff
  <2>1. DispatcherOK'
    BY <1>1, <1>6 DEF Backoff, WorkerGoes, TypeOK, DispatcherOK, WorkerSteps
  <2> QED
    BY <1>6, <2>1 DEF Backoff, TypeOK, TablesOK, SettingsOK, ProcsOK, HistoryOK,
                      tables, settings, procs, counters, history
<1>7. CASE Record
  <2>1. DispatcherOK'
    BY <1>1, <1>7 DEF Record, WorkerGoes, AfterDelivery, TypeOK, DispatcherOK, WorkerSteps
  <2>2. TablesOK'
    BY <1>7, SetStateTyped DEF Record, Outcome, TypeOK, TablesOK
  <2> QED
    BY <1>7, <2>1, <2>2 DEF Record, TypeOK, SettingsOK, ProcsOK, HistoryOK,
                            settings, procs, counters, history
<1> QED
  BY <1>2, <1>3, <1>4, <1>5, <1>6, <1>7 DEF WorkerStep

\* Crashes, the shutdown, people and time.
LEMMA WorldTypes ==
  ASSUME TypeOK, Stop \/ Boot \/ People \/ Tick
  PROVE  TypeOK'
<1>1. CASE Stop
  BY <1>1 DEF Stop, TypeOK, TablesOK, SettingsOK, ProcsOK, DispatcherOK, HistoryOK,
              tables, settings, procs, dispatcher, counters, history
<1>4. CASE Tick
  <2>1. now' \in 0..MaxTime
    BY <1>4, NotifyAssumption DEF Tick, TypeOK, TablesOK
  <2> QED
    BY <1>4, <2>1 DEF Tick, TypeOK, TablesOK, SettingsOK, ProcsOK, DispatcherOK, HistoryOK,
                      tables, settings, procs, dispatcher, counters, history
<1>2. CASE Boot
  <2>1. <<>> \in Seq(Job) /\ Len(<<>>) = 0
    OBVIOUS
  <2>2. view' \in [Procs -> View]
    BY <1>2, ViewsTyped DEF Boot
  <2>3. ProcsOK'
    BY <1>2, <2>1, <2>2 DEF Boot, ProcsOK, Steps
  <2>4. DispatcherOK'
    <3>1. worker' = [st |-> "looking", job |-> NoJob, n |-> 0]
      BY <1>2 DEF Boot, WorkerGoes
    <3>2. worker' \in [st : WorkerSteps, job : Job \cup {NoJob}, n : 0..Attempts]
      BY <3>1, NotifyAssumption DEF WorkerSteps
    <3>3. phase' = "up" /\ queue' = <<>> /\ wake' = FALSE
      BY <1>2 DEF Boot
    <3>4. worker'.st = "looking" /\ worker'.job = NoJob
      BY <3>1
    <3>5. queue' \in Seq(Job) /\ Len(queue') <= QueueCap
      BY <2>1, <3>3, NotifyAssumption
    <3> QED
      BY <3>2, <3>3, <3>4, <3>5 DEF DispatcherOK
  <2>5. HistoryOK'
    <3>1. \A ps \in SUBSET Procs : Unfinished(ps) \subseteq EventIds
      BY DEF TypeOK, ProcsOK, Entry, Unfinished
    <3>2. {q \in Procs : pc[q] \in {"journal", "notify"}} \in SUBSET Procs
      OBVIOUS
    <3>3. unowed' \subseteq EventIds \X Channels
      BY <1>2, <3>1, <3>2 DEF Boot, TypeOK, HistoryOK
    <3> QED
      BY <1>2, <3>3, NotifyAssumption DEF Boot, TypeOK, HistoryOK, ProcsOK
  <2> QED
    BY <1>2, <2>3, <2>4, <2>5 DEF Boot, TypeOK, TablesOK, SettingsOK, tables, settings
<1>3. CASE People
  <2>1. edits' \in 0..MaxEdits
    <3>1. edits < MaxEdits /\ edits' = edits + 1
      BY <1>3 DEF People, SetEnabled, SetQuiet, SetRoute, SetMuted, DeleteHost, DeleteRule, Edit
    <3> QED
      BY <3>1, NotifyAssumption DEF TypeOK, HistoryOK
  <2>2. CASE \E c \in Channels : SetEnabled(c) \/ SetQuiet(c)
    BY <2>1, <2>2 DEF SetEnabled, SetQuiet, TypeOK, TablesOK, SettingsOK, ProcsOK, DispatcherOK,
                      HistoryOK, tables, procs, dispatcher, history
  <2>3. CASE \E k \in Keys, cs \in SUBSET Channels : SetRoute(k, cs)
    BY <2>1, <2>3 DEF SetRoute, TypeOK, TablesOK, SettingsOK, ProcsOK, DispatcherOK,
                      HistoryOK, tables, procs, dispatcher, history
  <2>4. CASE \E k \in AlertKeys : SetMuted(k)
    BY <2>1, <2>4 DEF SetMuted, TypeOK, TablesOK, SettingsOK, ProcsOK, DispatcherOK,
                      HistoryOK, tables, procs, dispatcher, history
  <2>5. CASE \E k \in RuleKeys : DeleteRule(k)
    BY <2>1, <2>5 DEF DeleteRule, Keys, AlertKeys, TypeOK, TablesOK, SettingsOK, ProcsOK, DispatcherOK,
                      HistoryOK, tables, procs, dispatcher, history
  <2>6. CASE \E k \in AlertKeys : DeleteHost(k)
    BY <2>1, <2>6 DEF DeleteHost, Live, TypeOK, TablesOK, SettingsOK, ProcsOK, DispatcherOK,
                      HistoryOK, settings, procs, dispatcher
  <2> QED
    BY <1>3, <2>2, <2>3, <2>4, <2>5, <2>6 DEF People
<1> QED
  BY <1>1, <1>2, <1>3, <1>4

-----------------------------------------------------------------------------
(* What a step does to the rows, the journal, the jobs and the worker. *)

\* The five things a step may do to the deliveries table: nothing, settle or
\* release one row, record a delivery, insert a row, delete some.
LEMMA RowsEffect ==
  ASSUME TypeOK, ReferencesExist, [Next]_vars
  PROVE  \/ rows' = rows /\ tainted' = tainted
         \/ \E id, s : s \in {"pending", "failed"} /\ rows' = SetState(id, s) /\ tainted' = tainted
         \/ Record
         \/ \E id \in RowIds, r \in Row :
              /\ id \notin DOMAIN rows /\ r.state # "sent" /\ r.event \in DOMAIN events
              /\ rows' = [i \in DOMAIN rows \cup {id} |-> IF i = id THEN r ELSE rows[i]]
              /\ tainted' = tainted
         \/ \E old : /\ rows' = [i \in DOMAIN rows \ old |-> rows[i]]
                     /\ tainted' = tainted \cup (old \cap Held)
<1> DEFINE Goal == \/ rows' = rows /\ tainted' = tainted
                   \/ \E id, s : s \in {"pending", "failed"} /\ rows' = SetState(id, s) /\ tainted' = tainted
                   \/ Record
                   \/ \E id \in RowIds, r \in Row :
                        /\ id \notin DOMAIN rows /\ r.state # "sent" /\ r.event \in DOMAIN events
                        /\ rows' = [i \in DOMAIN rows \cup {id} |-> IF i = id THEN r ELSE rows[i]]
                        /\ tainted' = tainted
                   \/ \E old : /\ rows' = [i \in DOMAIN rows \ old |-> rows[i]]
                               /\ tainted' = tainted \cup (old \cap Held)
<1>1. ASSUME NEW p \in Procs, NEW x \in plan[p], AddRow(p, x) PROVE Goal
  <2>1. tainted' = tainted /\ (x.event \in gone => rows' = rows)
    BY <1>1 DEF AddRow, history
  <2>2. x.event \in DOMAIN events
    BY DEF ReferencesExist
  <2>3. CASE x.event \in gone
    BY <2>1, <2>3
  <2>4. CASE x.event \notin gone
    <3>1. PICK id \in RowIds, r \in Row :
            /\ id \notin DOMAIN rows /\ r.state # "sent" /\ r.event = x.event
            /\ rows' = [i \in DOMAIN rows \cup {id} |-> IF i = id THEN r ELSE rows[i]]
            /\ jobs' \in {jobs, [jobs EXCEPT ![p] = Append(@, JobOf(id, r))]}
      BY ONLY TypeOK, ReferencesExist, p \in Procs, x \in plan[p], <1>1, <2>4, AddRowEffect
    <3>2. r.event \in DOMAIN events
      BY <2>2, <3>1
    <3> QED
      BY <2>1, <3>1, <3>2
  <2> QED
    BY <2>3, <2>4
<1>2. ASSUME NEW p \in Procs, NEW id \in RowIds, RecordDrop(p, id) PROVE Goal
  BY <1>2 DEF RecordDrop, history
<1>3. ASSUME NEW id \in RowIds, Settle(id) PROVE Goal
  <2>1. tainted' = tainted
    BY <1>3 DEF Settle, history
  <2> QED
    BY <1>3, <2>1, SettleEffect
<1>4. CASE Purge
  BY <1>4 DEF Purge
<1>5. ASSUME NEW k \in AlertKeys, DeleteHost(k) PROVE Goal
  BY <1>5 DEF DeleteHost
<1>6. ASSUME NEW p \in Procs,
             (\E k \in Keys : Journal(p, k)) \/ NotifyStart(p) \/ (\E e \in EventIds : NextEvent(p, e))
             \/ Lock(p) \/ EnqueueOne(p) \/ Unlock(p) \/ EnqueueReturns(p)
      PROVE  rows' = rows /\ tainted' = tainted
  BY <1>6 DEF Journal, NotifyStart, NextEvent, Lock, EnqueueOne, Unlock, EnqueueReturns, tables, history
<1>7. CASE ReplayStart \/ ReleaseStart \/ SettledNothing \/ RemindStart \/ RemindGuardrails
           \/ Stop \/ Boot \/ Tick \/ UNCHANGED vars
  BY <1>7 DEF ReplayStart, ReleaseStart, SettledNothing, RemindStart, RemindGuardrails,
              Stop, Boot, Tick, vars, tables, history
<1>8. CASE Pop \/ Wait \/ Woken \/ Backoff
           \/ \E r \in {"ok", "retryable", "refused", "cancelled"} : Send(r)
  BY <1>8 DEF Pop, Wait, Woken, Backoff, Send, tables, history
<1>9. CASE \/ \E c \in Channels : SetEnabled(c) \/ SetQuiet(c)
           \/ \E k \in Keys, cs \in SUBSET Channels : SetRoute(k, cs)
           \/ \E k \in AlertKeys : SetMuted(k)
           \/ \E k \in RuleKeys : DeleteRule(k)
  BY <1>9 DEF SetEnabled, SetQuiet, SetRoute, SetMuted, DeleteRule, tables, history
<1> HIDE DEF Goal
<1>10. Goal
  <2>1. CASE \E p \in Procs : Notifying(p) \/ Enqueuing(p) \/ \E k \in Keys : Journal(p, k)
    BY <2>1, <1>1, <1>2, <1>6 DEF Notifying, Enqueuing, Goal
  <2>2. CASE LoopStep \/ Purge \/ Stop \/ Boot \/ Tick \/ UNCHANGED vars
    BY <2>2, <1>3, <1>4, <1>7 DEF LoopStep, Goal
  <2>3. CASE WorkerStep
    BY <2>3, <1>8 DEF WorkerStep, Goal
  <2>4. CASE People
    BY <2>4, <1>5, <1>9 DEF People, Goal
  <2> QED
    BY <2>1, <2>2, <2>3, <2>4 DEF Next
<1> QED
  BY <1>10 DEF Goal

\* The journal only grows, and so do the histories.
LEMMA JournalEffect ==
  ASSUME TypeOK, [Next]_vars
  PROVE  /\ \A e \in DOMAIN events : e \in DOMAIN events' /\ events'[e] = events[e]
         /\ heard \subseteq heard'
<1>1. ASSUME NEW p \in Procs, NEW k \in Keys, Journal(p, k)
      PROVE  /\ \A e \in DOMAIN events : e \in DOMAIN events' /\ events'[e] = events[e]
             /\ heard' = heard
  <2>1. [key |-> k, kind |-> NextKind(k), at |-> now] \in Event /\ events \in Seq(Event)
    BY DEF TypeOK, TablesOK, Event, NextKind
  <2> QED
    BY <1>1, <2>1, AppendProperties DEF Journal, history
<1>2. ASSUME NEW p \in Procs, Notifying(p) \/ Enqueuing(p)
      PROVE  events' = events /\ heard' = heard
  BY <1>2 DEF Notifying, Enqueuing, NotifyStart, NextEvent, AddRow, Lock, EnqueueOne, Unlock,
              RecordDrop, EnqueueReturns, tables, history
<1>3. CASE LoopStep \/ Purge \/ Stop \/ Boot \/ Tick \/ UNCHANGED vars
  BY <1>3 DEF LoopStep, ReplayStart, ReleaseStart, Settle, SettledNothing, RemindStart,
              RemindGuardrails, Purge, Stop, Boot, Tick, vars, tables, history
<1>4. CASE WorkerStep
  BY <1>4 DEF WorkerStep, Pop, Wait, Woken, Send, Backoff, Record, tables, history
<1>5. CASE People
  BY <1>5 DEF People, SetEnabled, SetQuiet, SetRoute, SetMuted, DeleteHost, DeleteRule, tables, history
<1> QED
  BY <1>1, <1>2, <1>3, <1>4, <1>5 DEF Next

\* What processes refer to exists.
LEMMA ReferencesStep ==
  ASSUME TypeOK, ReferencesExist, [Next]_vars
  PROVE  ReferencesExist'
<1>1. \A i \in DOMAIN rows' : rows'[i].event \in DOMAIN events'
  <2>1. \A i \in DOMAIN rows : rows[i].event \in DOMAIN events'
    BY JournalEffect DEF ReferencesExist
  <2>2. CASE \E id, s : s \in {"pending", "failed", "sent"} /\ rows' = SetState(id, s)
    BY <2>1, <2>2, SetStateTyped
  <2>3. CASE Record
    <3>1. \E s \in {"failed", "sent"} : rows' = SetState(worker.job.id, s)
      BY <2>3 DEF Record, Outcome
    <3> QED
      BY <2>2, <3>1
  <2>4. CASE \E id \in RowIds, r \in Row :
               /\ r.event \in DOMAIN events
               /\ rows' = [i \in DOMAIN rows \cup {id} |-> IF i = id THEN r ELSE rows[i]]
    <3>1. PICK id \in RowIds, r \in Row :
            /\ r.event \in DOMAIN events
            /\ rows' = [i \in DOMAIN rows \cup {id} |-> IF i = id THEN r ELSE rows[i]]
      BY <2>4
    <3>2. r.event \in DOMAIN events'
      BY <3>1, JournalEffect
    <3> QED
      BY <2>1, <3>1, <3>2
  <2>5. CASE \E old : rows' = [i \in DOMAIN rows \ old |-> rows[i]]
    BY <2>1, <2>5
  <2>6. CASE rows' = rows
    BY <2>1, <2>6
  <2>7. \/ rows' = rows
        \/ \E id, s : s \in {"pending", "failed", "sent"} /\ rows' = SetState(id, s)
        \/ Record
        \/ \E id \in RowIds, r \in Row :
             /\ r.event \in DOMAIN events
             /\ rows' = [i \in DOMAIN rows \cup {id} |-> IF i = id THEN r ELSE rows[i]]
        \/ \E old : rows' = [i \in DOMAIN rows \ old |-> rows[i]]
    BY RowsEffect
  <2> QED
    BY <2>2, <2>3, <2>4, <2>5, <2>6, <2>7
<1>2. LastEvents \subseteq DOMAIN events
  BY DEF LastEvents, Live
<1>3. /\ \A p \in Procs : batch'[p] \subseteq DOMAIN events'
      /\ \A p \in Procs : \A x \in plan'[p] : x.event \in DOMAIN events'
  <2>1. ASSUME NEW p \in Procs, NEW k \in Keys, Journal(p, k)
        PROVE  /\ \A q \in Procs : batch'[q] \subseteq batch[q] \cup {Len(events')}
               /\ plan' = plan /\ Len(events') \in DOMAIN events'
    <3>1. [key |-> k, kind |-> NextKind(k), at |-> now] \in Event /\ events \in Seq(Event)
      BY DEF TypeOK, TablesOK, Event, NextKind
    <3>2. Len(events') = Len(events) + 1 /\ Len(events') \in DOMAIN events'
      BY <2>1, <3>1, AppendProperties DEF Journal
    <3> QED
      BY <2>1, <3>2 DEF Journal, TypeOK, ProcsOK
  <2>2. ASSUME NEW p \in Procs, NEW e \in EventIds, NextEvent(p, e)
        PROVE  /\ e \in batch[p] /\ \A q \in Procs : batch'[q] \subseteq batch[q]
               /\ \A q \in Procs : \A x \in plan'[q] : x \in plan[q] \/ x.event = e
    <3>1. \A v : \A x \in TransitionEntries(v, e) \cup ReminderEntries(v, e) : x.event = e
      BY DEF TransitionEntries, ReminderEntries
    <3>2. \E S \in {{}, TransitionEntries(view[p], e), ReminderEntries(view[p], e)} :
            plan' = [plan EXCEPT ![p] = S]
      BY <2>2 DEF NextEvent
    <3>3. PICK S : plan' = [plan EXCEPT ![p] = S] /\ \A x \in S : x.event = e
      BY <3>1, <3>2
    <3>4. plan \in [Procs -> SUBSET Entry] /\ batch \in [Procs -> SUBSET EventIds]
      BY DEF TypeOK, ProcsOK
    <3>5. e \in batch[p] /\ batch' = [batch EXCEPT ![p] = @ \ {e}]
      BY <2>2 DEF NextEvent
    <3> QED
      BY <3>4, <3>5, <3>3
  <2>3. ASSUME NEW p \in Procs, NotifyStart(p) \/ (\E x \in plan[p] : AddRow(p, x)) \/ Enqueuing(p)
        PROVE  \A q \in Procs : batch'[q] \subseteq batch[q] /\ plan'[q] \subseteq plan[q]
    <3>1. plan \in [Procs -> SUBSET Entry] /\ batch \in [Procs -> SUBSET EventIds]
      BY DEF TypeOK, ProcsOK
    <3>2. CASE NotifyStart(p)
      <4>1. plan' = plan /\ (batch' = batch \/ batch' = [batch EXCEPT ![p] = {}])
        BY <3>2 DEF NotifyStart
      <4> QED
        BY <3>1, <4>1
    <3>3. CASE \E x \in plan[p] : AddRow(p, x)
      <4>1. PICK x : batch' = batch /\ plan' = [plan EXCEPT ![p] = @ \ {x}]
        BY <3>3 DEF AddRow
      <4> QED
        BY <3>1, <4>1
    <3>4. CASE Enqueuing(p)
      <4>1. batch' = batch /\ plan' = plan
        BY <3>4 DEF Enqueuing, Lock, EnqueueOne, Unlock, RecordDrop, EnqueueReturns
      <4> QED
        BY <4>1
    <3> QED
      BY <2>3, <3>2, <3>3, <3>4
  <2>4. CASE RemindStart \/ RemindGuardrails
    <3>1. plan' = plan
      BY <2>4 DEF RemindStart, RemindGuardrails
    <3>2. \/ batch' = batch
          \/ \E S \in SUBSET LastEvents : batch' = [batch EXCEPT ![Loop] = S]
      <4>1. CASE RemindStart
        <5>1. {e \in LastEvents : /\ events[e].key \in AlertKeys \ ruleGone
                                  /\ events[e].kind = "fired" /\ RemindEvery > 0}
                \in SUBSET LastEvents
          OBVIOUS
        <5> QED
          BY <4>1, <5>1 DEF RemindStart
      <4>2. CASE RemindGuardrails
        <5>1. {e \in LastEvents : /\ events[e].key \in GuardKeys
                                  /\ events[e].kind = "fired" /\ RemindEvery > 0}
                \in SUBSET LastEvents
          OBVIOUS
        <5> QED
          BY <4>2, <5>1 DEF RemindGuardrails
      <4> QED
        BY <2>4, <4>1, <4>2
    <3>3. DOMAIN batch = Procs
      BY DEF TypeOK, ProcsOK
    <3>4. \A q \in Procs : batch'[q] \subseteq batch[q] \cup LastEvents
      BY <3>2, <3>3
    <3> QED
      BY <1>2, <3>1, <3>4, JournalEffect DEF ReferencesExist
  <2>5. CASE ReplayStart \/ ReleaseStart \/ SettledNothing \/ (\E id \in RowIds : Settle(id))
             \/ Purge \/ Stop \/ Tick \/ UNCHANGED vars
    <3>1. batch' = batch /\ plan' = plan
      BY <2>5 DEF ReplayStart, ReleaseStart, SettledNothing, Settle, Purge, Stop, Tick, vars, procs
    <3> QED
      BY <3>1, JournalEffect DEF ReferencesExist
  <2>6. CASE Boot
    BY <2>6 DEF Boot
  <2>7. CASE WorkerStep \/ People
    <3>1. batch' = batch /\ plan' = plan
      BY <2>7 DEF WorkerStep, Pop, Wait, Woken, Send, Backoff, Record, People, SetEnabled,
                  SetQuiet, SetRoute, SetMuted, DeleteHost, DeleteRule, procs
    <3> QED
      BY <3>1, JournalEffect DEF ReferencesExist
  <2>8. ASSUME NEW p \in Procs, (\E k \in Keys : Journal(p, k)) \/ Notifying(p) \/ Enqueuing(p)
        PROVE  /\ \A q \in Procs : batch'[q] \subseteq DOMAIN events'
               /\ \A q \in Procs : \A x \in plan'[q] : x.event \in DOMAIN events'
    BY <2>1, <2>2, <2>3, <2>8, JournalEffect DEF ReferencesExist, Notifying
  <2> QED
    BY <2>4, <2>5, <2>6, <2>7, <2>8 DEF Next, LoopStep
<1> QED
  BY <1>1, <1>3 DEF ReferencesExist

\* The hub starts with typed, empty tables.
LEMMA InitTypes ==
  ASSUME Init
  PROVE  TypeOK /\ ReferencesExist
<1>1. <<>> \in Seq(Event) /\ <<>> \in Seq(Job) /\ Len(<<>>) = 0 /\ DOMAIN <<>> = {}
  OBVIOUS
<1>2. TablesOK
  BY <1>1, NotifyAssumption DEF Init, TablesOK
<1>3. SettingsOK
  BY DEF Init, SettingsOK
<1>4. ProcsOK
  <2>1. NoView \in View
    BY NotifyAssumption DEF NoView, View
  <2> QED
    BY <1>1, <2>1 DEF Init, ProcsOK, Steps
<1>5. DispatcherOK
  <2>1. [st |-> "looking", job |-> NoJob, n |-> 0]
          \in [st : WorkerSteps, job : Job \cup {NoJob}, n : 0..Attempts]
    BY NotifyAssumption DEF WorkerSteps
  <2>2. worker.st = "looking" /\ worker.job = NoJob
    BY DEF Init
  <2>3. phase = "up" /\ queue = <<>> /\ wake = FALSE /\ worker = [st |-> "looking", job |-> NoJob, n |-> 0]
    BY DEF Init
  <2>4. Len(queue) <= QueueCap
    BY <1>1, <2>3, NotifyAssumption
  <2> QED
    BY <1>1, <2>1, <2>2, <2>3, <2>4 DEF DispatcherOK
<1>6. HistoryOK
  BY NotifyAssumption DEF Init, HistoryOK
<1>7. ReferencesExist
  BY <1>1 DEF Init, ReferencesExist
<1> QED
  BY <1>2, <1>3, <1>4, <1>5, <1>6, <1>7 DEF TypeOK

\* Every state of the hub has its type.
LEMMA TypesStep ==
  ASSUME TypeOK, ReferencesExist, [Next]_vars
  PROVE  TypeOK'
<1>1. CASE UNCHANGED vars
  BY <1>1 DEF vars, tables, settings, procs, dispatcher, counters, history, TypeOK, TablesOK,
              SettingsOK, ProcsOK, DispatcherOK, HistoryOK
<1>2. CASE \E p \in Procs : Notifying(p) \/ Enqueuing(p) \/ \E k \in Keys : Journal(p, k)
  BY <1>2, NotifyingTypes, EnqueuingTypes
<1>3. CASE LoopStep \/ Purge
  BY <1>3, LoopTypes
<1>4. CASE WorkerStep
  BY <1>4, WorkerTypes
<1>5. CASE Stop \/ Boot \/ People \/ Tick
  BY <1>5, WorldTypes
<1> QED
  BY <1>1, <1>2, <1>3, <1>4, <1>5 DEF Next

\* Types and references are inductive together.
LEMMA TypesAndReferences == Spec => [](TypeOK /\ ReferencesExist)
<1>1. Init => TypeOK /\ ReferencesExist
  BY InitTypes
<1>2. TypeOK /\ ReferencesExist /\ [Next]_vars => TypeOK' /\ ReferencesExist'
  BY TypesStep, ReferencesStep
<1> QED
  BY <1>1, <1>2, PTL DEF Spec

\* Every state of the hub is typed: rows, journal, queue within its capacity,
\* a worker with a job exactly when it delivers, attempts within their bound.
THEOREM TypeCorrect == Spec => []TypeOK
BY TypesAndReferences, PTL

-----------------------------------------------------------------------------
(* Nothing is recorded as sent that its channel did not take. *)

\* A step carries the jobs it carried, and new ones only for rows in the table.
LEMMA CarriedStep ==
  ASSUME TypeOK, ReferencesExist, [Next]_vars, NEW j \in CarriedJobs'
  PROVE  \/ j \in CarriedJobs
         \/ \E id \in DOMAIN rows' : j = JobOf(id, rows'[id]) /\ rows'[id].event \in DOMAIN events
<1> DEFINE Goal == \/ j \in CarriedJobs
                   \/ \E id \in DOMAIN rows' : /\ j = JobOf(id, rows'[id])
                                               /\ rows'[id].event \in DOMAIN events
<1>1. \/ \E i \in DOMAIN queue' : j = queue'[i]
      \/ j = worker'.job /\ j # NoJob
      \/ \E p \in Procs : \E i \in DOMAIN jobs'[p] : j = jobs'[p][i]
  BY DEF CarriedJobs
<1>2. /\ \A i \in DOMAIN queue : queue[i] \in CarriedJobs
      /\ worker.job # NoJob => worker.job \in CarriedJobs
      /\ \A p \in Procs : \A i \in DOMAIN jobs[p] : jobs[p][i] \in CarriedJobs
  BY DEF CarriedJobs
<1>3. /\ jobs \in [Procs -> Seq(Job)] /\ queue \in Seq(Job)
      /\ \A i \in DOMAIN rows : rows[i] \in Row /\ i \in RowIds
  BY DEF TypeOK, TablesOK, ProcsOK, DispatcherOK
<1>4. CASE jobs' = jobs /\ queue' = queue /\ worker' = worker
  BY <1>1, <1>2, <1>4
<1>5. ASSUME NEW p \in Procs, EnqueueOne(p) PROVE Goal
  <2>1. worker' = worker /\ jobs[p] # <<>> /\ jobs[p] \in Seq(Job)
    BY <1>3, <1>5, EnqueueEffect DEF EnqueueOne
  <2>2. CASE \E i \in DOMAIN queue' : j = queue'[i]
    <3>1. 1 \in DOMAIN jobs[p]
      BY <2>1
    <3> QED
      BY <1>2, <1>5, <2>2, <3>1, EnqueueEffect
  <2>3. CASE \E q \in Procs : \E i \in DOMAIN jobs'[q] : j = jobs'[q][i]
    <3> PICK q \in Procs : \E i \in DOMAIN jobs'[q] : j = jobs'[q][i]
      BY <2>3
    <3>1. PICK i \in DOMAIN jobs'[q] : j = jobs'[q][i]
      OBVIOUS
    <3>2. CASE q = p
      <4>1. jobs'[q] = Tail(jobs[p])
        BY <1>3, <1>5, <3>2, EnqueueEffect
      <4> QED
        BY <1>2, <1>5, <3>1, <4>1, EnqueueEffect
    <3>3. CASE q # p
      <4>1. jobs'[q] = jobs[q]
        BY <1>3, <1>5, <3>3, EnqueueEffect
      <4> QED
        BY <1>2, <3>1, <4>1
    <3> QED
      BY <3>2, <3>3
  <2> QED
    BY <1>1, <1>2, <2>1, <2>2, <2>3
<1>6. ASSUME NEW p \in Procs, NEW new \in Job, jobs' = [jobs EXCEPT ![p] = Append(@, new)],
             queue' = queue, worker' = worker
      PROVE  j \in CarriedJobs \/ j = new
  <2>1. CASE \E q \in Procs : \E i \in DOMAIN jobs'[q] : j = jobs'[q][i]
    <3> PICK q \in Procs : \E i \in DOMAIN jobs'[q] : j = jobs'[q][i]
      BY <2>1
    <3>1. PICK i \in DOMAIN jobs'[q] : j = jobs'[q][i]
      OBVIOUS
    <3>2. CASE q = p
      <4>1. jobs'[q] = Append(jobs[p], new) /\ jobs[p] \in Seq(Job)
        BY <1>3, <1>6, <3>2
      <4>2. i = Len(jobs[p]) + 1 \/ i \in DOMAIN jobs[p]
        BY <3>1, <4>1
      <4>3. j = new \/ (i \in DOMAIN jobs[p] /\ j = jobs[p][i])
        BY <3>1, <4>1, <4>2
      <4> QED
        BY <1>2, <4>3
    <3>3. CASE q # p
      <4>1. jobs'[q] = jobs[q]
        BY <1>3, <1>6, <3>3
      <4> QED
        BY <1>2, <3>1, <4>1
    <3> QED
      BY <3>2, <3>3
  <2> QED
    BY <1>1, <1>2, <1>6, <2>1
<1>7. ASSUME NEW p \in Procs, NEW x \in plan[p], AddRow(p, x) PROVE Goal
  <2>1. queue' = queue /\ worker' = worker
    BY <1>7 DEF AddRow, dispatcher
  <2>2. CASE x.event \in gone
    <3>1. jobs' = jobs
      BY <1>7, <2>2 DEF AddRow
    <3> QED
      BY <1>4, <2>1, <3>1
  <2>3. CASE x.event \notin gone
    <3>1. PICK id \in RowIds, r \in Row :
            /\ r.event = x.event
            /\ rows' = [i \in DOMAIN rows \cup {id} |-> IF i = id THEN r ELSE rows[i]]
            /\ jobs' \in {jobs, [jobs EXCEPT ![p] = Append(@, JobOf(id, r))]}
      BY <1>7, <2>3, AddRowEffect
    <3>2. r.event \in DOMAIN events /\ JobOf(id, r) \in Job
      BY <3>1, JobsTyped DEF ReferencesExist
    <3>3. id \in DOMAIN rows' /\ rows'[id] = r
      BY <3>1
    <3>4. jobs' = jobs \/ jobs' = [jobs EXCEPT ![p] = Append(@, JobOf(id, r))]
      BY <3>1
    <3> QED
      BY <1>4, <1>6, <2>1, <3>2, <3>3, <3>4
  <2> QED
    BY <2>2, <2>3
<1>8. ASSUME NEW id \in RowIds, Settle(id) PROVE Goal
  <2>1. queue' = queue /\ worker' = worker /\ Loop \in Procs
    BY <1>8 DEF Settle, dispatcher, Procs
  <2>2. CASE jobs' = jobs
    BY <1>4, <2>1, <2>2
  <2>3. CASE jobs' # jobs
    <3>1. /\ id \in DOMAIN rows /\ JobOf(id, rows[id]) \in Job
          /\ jobs' = [jobs EXCEPT ![Loop] = Append(@, JobOf(id, rows[id]))]
      BY <1>8, <2>3, SettleEffect
    <3>2. /\ id \in DOMAIN rows' /\ JobOf(id, rows'[id]) = JobOf(id, rows[id])
          /\ rows'[id].event = rows[id].event
      <4>1. CASE rows' = rows
        BY <3>1, <4>1
      <4>2. ASSUME NEW s \in {"pending", "failed"}, rows' = SetState(id, s)
            PROVE  /\ id \in DOMAIN rows' /\ JobOf(id, rows'[id]) = JobOf(id, rows[id])
                   /\ rows'[id].event = rows[id].event
        BY <3>1, <4>2, SetStateTyped
      <4> QED
        BY <1>8, <4>1, <4>2, SettleEffect
    <3>3. rows[id].event \in DOMAIN events
      BY <3>1 DEF ReferencesExist
    <3> QED
      BY <1>6, <2>1, <3>1, <3>2, <3>3
  <2> QED
    BY <2>2, <2>3
<1>9. CASE WorkerStep
  <2>1. /\ jobs' = jobs /\ worker'.job \in {worker.job, NoJob} \cup {queue[i] : i \in DOMAIN queue}
        /\ \A i \in DOMAIN queue' : queue'[i] \in {queue[k] : k \in DOMAIN queue}
    <3>1. CASE Pop
      <4>1. queue # <<>> /\ queue' = Tail(queue) /\ worker'.job = Head(queue) /\ jobs' = jobs
        BY <3>1 DEF Pop, WorkerGoes, procs
      <4>2. Head(queue) = queue[1] /\ 1 \in DOMAIN queue
        BY <1>3, <4>1
      <4>3. \A i \in DOMAIN queue' : queue'[i] = queue[i + 1] /\ i + 1 \in DOMAIN queue
        BY <1>3, <4>1
      <4> QED
        BY <4>1, <4>2, <4>3
    <3>2. CASE Wait \/ Woken \/ Backoff \/ Record
      BY <3>2 DEF Wait, Woken, Backoff, Record, WorkerGoes, procs
    <3>3. CASE \E r \in {"ok", "retryable", "refused", "cancelled"} : Send(r)
      <4>1. jobs' = jobs /\ queue' = queue /\ \E st, n : worker' = [st |-> st, job |-> worker.job, n |-> n]
        BY <3>3 DEF Send, Retries, WorkerGoes, procs
      <4> QED
        BY <4>1
    <3> QED
      BY <1>9, <3>1, <3>2, <3>3 DEF WorkerStep
  <2> QED
    BY <1>1, <1>2, <2>1
<1>10. CASE Boot
  <2>1. queue' = <<>> /\ worker'.job = NoJob /\ \A p \in Procs : jobs'[p] = <<>>
    BY <1>10 DEF Boot, WorkerGoes
  <2> QED
    BY <1>1, <2>1
<1>11. ASSUME NEW p \in Procs,
              \/ \E k \in Keys : Journal(p, k)
              \/ NotifyStart(p) \/ (\E e \in EventIds : NextEvent(p, e))
              \/ Lock(p) \/ Unlock(p) \/ EnqueueReturns(p) \/ (\E id \in RowIds : RecordDrop(p, id))
       PROVE  jobs' = jobs /\ queue' = queue /\ worker' = worker
  BY <1>11 DEF Journal, NotifyStart, NextEvent, Lock, Unlock, EnqueueReturns, RecordDrop, dispatcher
<1>12. CASE ReplayStart \/ ReleaseStart \/ SettledNothing \/ RemindStart \/ RemindGuardrails
            \/ Purge \/ Stop \/ Tick \/ People \/ UNCHANGED vars
  <2>1. jobs' = jobs /\ queue' = queue /\ worker' = worker
    BY <1>12 DEF ReplayStart, ReleaseStart, SettledNothing, RemindStart, RemindGuardrails,
                 Purge, Stop, Tick, People, SetEnabled, SetQuiet, SetRoute, SetMuted, DeleteHost,
                 DeleteRule, vars, procs, dispatcher
  <2> QED
    BY <1>4, <2>1
<1> HIDE DEF Goal
<1>13. Goal
  <2>1. CASE \E p \in Procs : Notifying(p) \/ Enqueuing(p) \/ \E k \in Keys : Journal(p, k)
    <3>1. PICK p \in Procs : Notifying(p) \/ Enqueuing(p) \/ \E k \in Keys : Journal(p, k)
      BY <2>1
    <3>2. jobs' = jobs /\ queue' = queue /\ worker' = worker => Goal
      BY <1>4 DEF Goal
    <3> QED
      BY <1>5, <1>7, <1>11, <3>1, <3>2 DEF Notifying, Enqueuing
  <2>2. CASE LoopStep \/ Purge \/ WorkerStep \/ Stop \/ Boot \/ People \/ Tick \/ UNCHANGED vars
    BY <1>8, <1>9, <1>10, <1>12, <2>2 DEF LoopStep, Goal
  <2> QED
    BY <2>1, <2>2 DEF Next
<1> QED
  BY <1>13 DEF Goal

\* The job of a row stays the job of that row, or the id of a deleted row is
\* known to be unsafe.
LEMMA MatchKept ==
  ASSUME TypeOK, ReferencesExist, [Next]_vars, NEW j \in CarriedJobs, Matches(j)
  PROVE  Matches(j)'
<1>1. CASE j.id \in tainted
  <2>1. j.id \in tainted'
    BY <1>1, RowsEffect DEF Record, history
  <2> QED
    BY <2>1 DEF Matches
<1>2. CASE j.id \in DOMAIN rows /\ j = JobOf(j.id, rows[j.id])
  <2> DEFINE id == j.id
  <2>1. ASSUME NEW r, r.event \in DOMAIN events PROVE JobOf(id, r)' = JobOf(id, r)
    <3>1. events'[r.event] = events[r.event]
      BY <2>1, JournalEffect
    <3> QED
      BY <3>1 DEF JobOf
  <2>2. rows[id].event \in DOMAIN events
    BY <1>2 DEF ReferencesExist
  <2>3. CASE id \in DOMAIN rows' /\ rows'[id] = rows[id]
    BY <1>2, <2>1, <2>2, <2>3 DEF Matches
  <2>4. ASSUME NEW i, NEW s \in {"pending", "failed", "sent"}, rows' = SetState(i, s)
        PROVE  Matches(j)'
    <3>1. /\ id \in DOMAIN rows' /\ rows'[id].event = rows[id].event
          /\ JobOf(id, rows'[id]) = JobOf(id, rows[id])
      BY <1>2, <2>4, SetStateTyped
    <3> QED
      BY <1>2, <2>1, <2>2, <3>1 DEF Matches
  <2>5. CASE Record
    BY <2>4, <2>5 DEF Record, Outcome
  <2>6. ASSUME NEW i, NEW r, i \notin DOMAIN rows,
               rows' = [k \in DOMAIN rows \cup {i} |-> IF k = i THEN r ELSE rows[k]]
        PROVE  id \in DOMAIN rows' /\ rows'[id] = rows[id]
    BY <1>2, <2>6
  <2>7. ASSUME NEW old, rows' = [i \in DOMAIN rows \ old |-> rows[i]],
               tainted' = tainted \cup (old \cap Held)
        PROVE  Matches(j)'
    <3>1. id \in Held
      BY DEF Held
    <3>2. CASE id \in old
      BY <2>7, <3>1, <3>2 DEF Matches
    <3>3. CASE id \notin old
      BY <1>2, <2>3, <2>7, <3>3
    <3> QED
      BY <3>2, <3>3
  <2>8. CASE rows' = rows
    BY <1>2, <2>3, <2>8
  <2> HIDE DEF id
  <2> QED
    BY <2>3, <2>4, <2>5, <2>6, <2>7, <2>8, RowsEffect
<1> QED
  BY <1>1, <1>2 DEF Matches

\* A new job matches its row.
LEMMA MatchesStep ==
  ASSUME TypeOK, ReferencesExist, JobsMatchRows, [Next]_vars
  PROVE  JobsMatchRows'
<1> SUFFICES ASSUME NEW j \in CarriedJobs' PROVE Matches(j)'
  BY DEF JobsMatchRows
<1>1. CASE j \in CarriedJobs
  BY <1>1, MatchKept DEF JobsMatchRows
<1>2. CASE \E id \in DOMAIN rows' : j = JobOf(id, rows'[id]) /\ rows'[id].event \in DOMAIN events
  <2>1. PICK id \in DOMAIN rows' : j = JobOf(id, rows'[id]) /\ rows'[id].event \in DOMAIN events
    BY <1>2
  <2>2. events'[rows'[id].event] = events[rows'[id].event]
    BY <2>1, JournalEffect
  <2>3. JobOf(id, rows[id])' = j /\ j.id = id
    BY <2>1, <2>2 DEF JobOf
  <2> QED
    BY <2>1, <2>3 DEF Matches
<1> QED
  BY <1>1, <1>2, CarriedStep

\* The worker accepts a message only when the channel has taken it.
LEMMA AcceptedStep ==
  ASSUME TypeOK, AcceptedWasHeard, [Next]_vars
  PROVE  AcceptedWasHeard'
<1>1. heard \subseteq heard'
  BY JournalEffect
<1>2. CASE worker' = worker
  BY <1>1, <1>2 DEF AcceptedWasHeard, MessageOf
<1>3. CASE worker' # worker
  <2>1. CASE \E r \in {"ok", "retryable", "refused", "cancelled"} : Send(r)
    <3>1. PICK r \in {"ok", "retryable", "refused", "cancelled"} : Send(r)
      BY <2>1
    <3>2. CASE r = "ok"
      <4>1. worker' = [st |-> "accepted", job |-> worker.job, n |-> worker.n]
            /\ MessageOf(worker.job) \in heard'
        BY <3>1, <3>2 DEF Send, Retries, WorkerGoes
      <4> QED
        BY <4>1 DEF AcceptedWasHeard, MessageOf
    <3>3. CASE r # "ok"
      <4>1. \E st \in {"backoff", "refused", "cancelled"} :
              worker' = [st |-> st, job |-> worker.job, n |-> worker.n]
        BY <3>1, <3>3 DEF Send, Retries, WorkerGoes
      <4> QED
        BY <4>1 DEF AcceptedWasHeard
    <3> QED
      BY <3>2, <3>3
  <2>2. CASE Pop \/ Wait \/ Woken \/ Backoff \/ Record \/ Boot
    <3>1. worker'.st \in {"sending", "asleep", "looking", "stopped"}
      BY <2>2 DEF Pop, Wait, Woken, Backoff, Record, Boot, WorkerGoes, AfterDelivery
    <3> QED
      BY <3>1 DEF AcceptedWasHeard
  <2>3. CASE ~(WorkerStep \/ Boot)
    <3>1. CASE \E p \in Procs : Notifying(p) \/ Enqueuing(p) \/ \E k \in Keys : Journal(p, k)
      <4>1. ASSUME NEW p \in Procs, Notifying(p) PROVE worker' = worker
        BY <4>1 DEF Notifying, NotifyStart, NextEvent, AddRow, dispatcher
      <4>2. ASSUME NEW p \in Procs, Enqueuing(p) PROVE worker' = worker
        <5>1. CASE Lock(p)
          BY <5>1 DEF Lock, dispatcher
        <5>2. CASE EnqueueOne(p)
          BY <5>2 DEF EnqueueOne
        <5>3. CASE Unlock(p)
          BY <5>3 DEF Unlock, dispatcher
        <5>4. CASE EnqueueReturns(p) \/ \E id \in RowIds : RecordDrop(p, id)
          BY <5>4 DEF EnqueueReturns, RecordDrop, dispatcher
        <5> QED
          BY <4>2, <5>1, <5>2, <5>3, <5>4 DEF Enqueuing
      <4>3. ASSUME NEW p \in Procs, NEW k \in Keys, Journal(p, k) PROVE worker' = worker
        BY <4>3 DEF Journal, dispatcher
      <4> QED
        BY <1>3, <3>1, <4>1, <4>2, <4>3
    <3>2. CASE LoopStep \/ Purge \/ Stop \/ Tick \/ UNCHANGED vars
      BY <1>3, <3>2 DEF LoopStep, ReplayStart, ReleaseStart, Settle, SettledNothing, RemindStart,
                        RemindGuardrails, Purge, Stop, Tick, vars, dispatcher
    <3>3. CASE People
      BY <1>3, <3>3 DEF People, SetEnabled, SetQuiet, SetRoute, SetMuted, DeleteHost, DeleteRule,
                        dispatcher
    <3> QED
      BY <2>3, <3>1, <3>2, <3>3 DEF Next
  <2> QED
    BY <2>1, <2>2, <2>3 DEF WorkerStep
<1> QED
  BY <1>2, <1>3

\* A row becomes sent only when the worker records what the channel took.
LEMMA SentStep ==
  ASSUME TypeOK, HeardInv, [Next]_vars
  PROVE  SentWasHeard'
<1>1. ReferencesExist /\ JobsMatchRows /\ AcceptedWasHeard /\ SentWasHeard
  BY DEF HeardInv
<1> SUFFICES ASSUME NEW id \in DOMAIN rows' \ tainted', rows'[id].state = "sent"
             PROVE  RowMessage(id)'\in heard'
  BY DEF SentWasHeard
<1>2. heard \subseteq heard'
  BY JournalEffect
<1>3. ASSUME NEW r, r.event \in DOMAIN events
      PROVE  MessageOf(JobOf(id, r))' = MessageOf(JobOf(id, r))
  <2>1. events'[r.event] = events[r.event]
    BY <1>3, JournalEffect
  <2> QED
    BY <2>1 DEF JobOf, MessageOf
<1>4. CASE id \in DOMAIN rows \ tainted /\ rows'[id] = rows[id]
  <2>1. RowMessage(id) \in heard /\ rows[id].event \in DOMAIN events
    BY <1>1, <1>4 DEF SentWasHeard, ReferencesExist
  <2> QED
    BY <1>2, <1>3, <1>4, <2>1 DEF RowMessage
<1>5. ASSUME NEW i, NEW s \in {"pending", "failed"}, rows' = SetState(i, s), tainted' = tainted
      PROVE  id \in DOMAIN rows \ tainted /\ rows'[id] = rows[id]
  BY <1>5, SetStateTyped
<1>6. CASE Record
  <2> DEFINE s == IF worker.st = "accepted" THEN "sent" ELSE "failed"
  <2>1. rows' = SetState(worker.job.id, s) /\ tainted' = tainted
    BY <1>6 DEF Record, Outcome, history
  <2>2. CASE id # worker.job.id
    BY <1>4, <2>1, <2>2, SetStateTyped
  <2>3. CASE id = worker.job.id
    <3>1. id \in DOMAIN rows \ tainted /\ worker.st = "accepted"
      BY <2>1, <2>3, SetStateTyped
    <3>2. worker.job \in CarriedJobs
      BY <3>1 DEF TypeOK, DispatcherOK, CarriedJobs
    <3>3. worker.job = JobOf(id, rows[id]) /\ rows[id].event \in DOMAIN events
      BY <1>1, <2>3, <3>1, <3>2 DEF JobsMatchRows, Matches, ReferencesExist
    <3>4. JobOf(id, rows'[id]) = JobOf(id, rows[id]) /\ rows'[id].event = rows[id].event
      BY <2>1, <3>1, SetStateTyped
    <3>5. MessageOf(JobOf(id, rows'[id])) \in heard
      BY <1>1, <3>1, <3>3, <3>4 DEF AcceptedWasHeard
    <3> QED
      BY <1>2, <1>3, <3>3, <3>4, <3>5 DEF RowMessage
  <2> QED
    BY <2>2, <2>3
<1>7. ASSUME NEW i, NEW r, i \notin DOMAIN rows, r.state # "sent", tainted' = tainted,
             rows' = [k \in DOMAIN rows \cup {i} |-> IF k = i THEN r ELSE rows[k]]
      PROVE  id \in DOMAIN rows \ tainted /\ rows'[id] = rows[id]
  BY <1>7
<1>8. ASSUME NEW old, rows' = [i \in DOMAIN rows \ old |-> rows[i]],
             tainted' = tainted \cup (old \cap Held)
      PROVE  id \in DOMAIN rows \ tainted /\ rows'[id] = rows[id]
  BY <1>8
<1>9. CASE rows' = rows /\ tainted' = tainted
  BY <1>4, <1>9
<1> QED
  BY <1>1, <1>4, <1>5, <1>6, <1>7, <1>8, <1>9, RowsEffect

\* Every step keeps the invariant behind SentWasHeard.
LEMMA HeardInvStep ==
  ASSUME TypeOK, HeardInv, [Next]_vars
  PROVE  HeardInv'
BY ReferencesStep, MatchesStep, AcceptedStep, SentStep DEF HeardInv

\* With no rows and no jobs there is nothing to match.
LEMMA HeardInvInit ==
  ASSUME Init
  PROVE  HeardInv
<1>1. rows = <<>> /\ queue = <<>> /\ worker = [st |-> "looking", job |-> NoJob, n |-> 0]
      /\ \A p \in Procs : jobs[p] = <<>>
  BY DEF Init
<1>2. CarriedJobs = {}
  BY <1>1 DEF CarriedJobs
<1>3. DOMAIN rows = {}
  BY <1>1
<1> QED
  BY <1>1, <1>2, <1>3, InitTypes DEF HeardInv, JobsMatchRows, AcceptedWasHeard, SentWasHeard

\* The invariant behind SentWasHeard.
LEMMA HeardInvHolds == Spec => []HeardInv
<1>1. Init => HeardInv
  BY HeardInvInit
<1>2. TypeOK /\ HeardInv /\ [Next]_vars => HeardInv'
  BY HeardInvStep
<1> QED
  BY <1>1, <1>2, TypeCorrect, PTL DEF Spec

\* Nothing claims a delivery that never left (dispatcher.go, Enqueue): whatever
\* is dropped, held, released, retried, replayed after a crash or deleted, a row
\* is recorded as sent only when its channel took its message.
THEOREM SentOnlyIfHeard == Spec => []SentWasHeard
<1>1. HeardInv => SentWasHeard
  BY DEF HeardInv
<1> QED
  BY <1>1, HeardInvHolds, PTL

-----------------------------------------------------------------------------
(* A pending row has one carrier. *)

\* The places that carry the delivery of a row.
Has(q, id) == \E i \in DOMAIN q : q[i].id = id
Single(q, id) == \A i, j \in DOMAIN q : q[i].id = id /\ q[j].id = id => i = j
Working(id) == worker.job # NoJob /\ worker.job.id = id
Replaying(id) == pc[Loop] = "replay" /\ id \in todo

Carried(id) == Has(queue, id) \/ Working(id) \/ Replaying(id) \/ \E p \in Procs : Has(jobs[p], id) \/ id \in drops[p]

\* No two of them carry it, and none twice.
Alone(id) ==
  /\ Single(queue, id) /\ \A p \in Procs : Single(jobs[p], id)
  /\ Has(queue, id) => ~Working(id) /\ ~Replaying(id)
  /\ Working(id) => ~Replaying(id)
  /\ \A p \in Procs : Has(jobs[p], id) \/ id \in drops[p] => ~Has(queue, id) /\ ~Working(id) /\ ~Replaying(id)
  /\ \A p, q \in Procs : Has(jobs[p], id) => id \notin drops[q] /\ (Has(jobs[q], id) => p = q)
  /\ \A p, q \in Procs : id \in drops[p] /\ id \in drops[q] => p = q

\* What a row says and who carries it.
Once(id) ==
  /\ Alone(id)
  /\ id \notin DOMAIN rows => ~Carried(id)
  /\ id \in DOMAIN rows /\ rows[id].state # "pending" => ~Carried(id)
  /\ id \in DOMAIN rows /\ rows[id].state = "pending" /\ phase = "up" /\ pc[Loop] # "boot" => Carried(id)

AllOnce == \A id \in RowIds \ tainted : Once(id)

\* Before the replay nobody carries anything and nobody but the loop moves.
QuietBoot ==
  pc[Loop] = "boot" => /\ ~ready /\ queue = <<>> /\ worker.job = NoJob
                       /\ \A p \in Procs : jobs[p] = <<>> /\ drops[p] = {} /\ (p # Loop => pc[p] = "idle")

\* What a release has read is held until it settles it.
ReleaseReads == pc[Loop] = "release" => \A id \in todo \ tainted : id \in DOMAIN rows /\ rows[id].state = "held"

CarriedInv == TypeOK /\ ReferencesExist /\ AllOnce /\ QuietBoot /\ ReleaseReads

\* A job is appended to the queue or to what a process will enqueue ...
LEMMA HasAppend ==
  ASSUME NEW q \in Seq(Job), NEW e \in Job, NEW id
  PROVE  /\ Has(Append(q, e), id) <=> Has(q, id) \/ e.id = id
         /\ Single(q, id) /\ (e.id = id => ~Has(q, id)) => Single(Append(q, e), id)
<1>1. /\ Len(Append(q, e)) = Len(q) + 1 /\ Append(q, e) \in Seq(Job)
      /\ \A j \in 1..Len(q) : Append(q, e)[j] = q[j]
      /\ Append(q, e)[Len(q) + 1] = e
  BY AppendProperties
<1>2. Len(q) \in Nat /\ DOMAIN q = 1..Len(q) /\ DOMAIN Append(q, e) = 1..(Len(q) + 1)
  BY <1>1, LenProperties
<1>3. \A j \in DOMAIN q : j \in DOMAIN Append(q, e) /\ Append(q, e)[j] = q[j]
  BY <1>1, <1>2
<1>4. \A j \in DOMAIN Append(q, e) : j \in DOMAIN q \/ j = Len(q) + 1
  BY <1>2
<1>5. Len(q) + 1 \in DOMAIN Append(q, e)
  BY <1>2
<1> QED BY <1>1, <1>3, <1>4, <1>5 DEF Has, Single

\* ... its first is taken ...
LEMMA HasTail ==
  ASSUME NEW q \in Seq(Job), q # <<>>, NEW id
  PROVE  /\ Has(q, id) <=> Has(Tail(q), id) \/ Head(q).id = id
         /\ Single(q, id) => Single(Tail(q), id) /\ (Head(q).id = id => ~Has(Tail(q), id))
<1>1. /\ Tail(q) \in Seq(Job) /\ Len(Tail(q)) = Len(q) - 1 /\ Head(q) = q[1] /\ Len(q) \in Nat /\ Len(q) >= 1
      /\ \A j \in 1..Len(Tail(q)) : Tail(q)[j] = q[j + 1]
  OBVIOUS
<1>2. DOMAIN q = 1..Len(q) /\ DOMAIN Tail(q) = 1..(Len(q) - 1)
  BY <1>1, LenProperties
<1>3. \A j \in DOMAIN Tail(q) : j \in Nat /\ j + 1 \in DOMAIN q /\ Tail(q)[j] = q[j + 1] /\ j + 1 # 1
  BY <1>1, <1>2
<1>4. \A j \in DOMAIN q : j = 1 \/ (j - 1 \in DOMAIN Tail(q) /\ (j - 1) + 1 = j)
  BY <1>1, <1>2
<1>5. 1 \in DOMAIN q
  BY <1>1, <1>2
<1>6. Has(q, id) <=> Has(Tail(q), id) \/ Head(q).id = id
  BY <1>1, <1>3, <1>4, <1>5 DEF Has
<1>7. ASSUME Single(q, id) PROVE Single(Tail(q), id)
  BY <1>3, <1>7 DEF Single
<1>8. ASSUME Single(q, id), Head(q).id = id, Has(Tail(q), id) PROVE FALSE
  <2>1. PICK j \in DOMAIN Tail(q) : Tail(q)[j].id = id
    BY <1>8 DEF Has
  <2>2. q[j + 1].id = id /\ q[1].id = id
    BY <1>1, <1>3, <1>8, <2>1
  <2> QED BY <1>3, <1>5, <1>8, <2>1, <2>2 DEF Single
<1> QED BY <1>6, <1>7, <1>8

\* ... or one in the middle is dropped.
LEMMA HasRemove ==
  ASSUME NEW q \in Seq(Job), NEW v \in 1..Len(q), NEW id
  PROVE  /\ Has(q, id) <=> Has(RemoveAt(q, v), id) \/ q[v].id = id
         /\ Single(q, id) => Single(RemoveAt(q, v), id) /\ (q[v].id = id => ~Has(RemoveAt(q, v), id))
<1> DEFINE r == RemoveAt(q, v)
           old == [j \in 1..(Len(q) - 1) |-> IF j < v THEN j ELSE j + 1]
<1>1. r \in Seq(Job) /\ Len(r) = Len(q) - 1 /\ \A j \in 1..(Len(q) - 1) : r[j] = IF j < v THEN q[j] ELSE q[j + 1]
  BY RemoveAtIs
<1> HIDE DEF r
<1>2. DOMAIN q = 1..Len(q) /\ DOMAIN r = 1..(Len(q) - 1) /\ Len(q) \in Nat
  BY <1>1, LenProperties
<1>3. ASSUME NEW j \in DOMAIN r PROVE old[j] \in DOMAIN q /\ old[j] # v /\ r[j] = q[old[j]]
  BY <1>1, <1>2
<1>4. ASSUME NEW j \in DOMAIN r, NEW k \in DOMAIN r, old[j] = old[k] PROVE j = k
  BY <1>2, <1>4
<1>5. ASSUME NEW k \in DOMAIN q, k # v PROVE \E j \in DOMAIN r : old[j] = k
  <2>1. CASE k < v
    <3>1. k \in DOMAIN r /\ old[k] = k
      BY <1>2, <2>1
    <3> QED BY <3>1
  <2>2. CASE k > v
    <3>1. k - 1 \in DOMAIN r /\ old[k - 1] = k
      BY <1>2, <2>2
    <3> QED BY <3>1
  <2> QED BY <1>2, <1>5, <2>1, <2>2
<1>6. v \in DOMAIN q
  BY <1>2
<1> HIDE DEF old
<1>7. Has(q, id) <=> Has(r, id) \/ q[v].id = id
  BY <1>3, <1>5, <1>6 DEF Has
<1>8. Single(q, id) => Single(r, id)
  BY <1>3, <1>4 DEF Single
<1>9. Single(q, id) /\ q[v].id = id => ~Has(r, id)
  BY <1>3, <1>6 DEF Single, Has
<1> QED BY <1>7, <1>8, <1>9 DEF r

\* Whoever nobody carries is carried alone.
LEMMA NobodyIsAlone ==
  ASSUME NEW id, ~Carried(id)
  PROVE  Alone(id)
  BY DEF Carried, Alone, Has, Single

\* A step that leaves the places of a row alone.
LEMMA PlacesKept ==
  ASSUME NEW id, Has(queue', id) <=> Has(queue, id), Single(queue, id) => Single(queue', id),
         \A p \in Procs : /\ Has(jobs'[p], id) <=> Has(jobs[p], id)
                          /\ Single(jobs[p], id) => Single(jobs'[p], id)
                          /\ id \in drops'[p] <=> id \in drops[p],
         Working(id)' <=> Working(id), Replaying(id)' <=> Replaying(id)
  PROVE  /\ Carried(id)' <=> Carried(id)
         /\ Alone(id) => Alone(id)'
<1>1. Carried(id)' <=> Carried(id)
  BY DEF Carried
<1>2. Alone(id) => Alone(id)'
  BY DEF Alone
<1> QED BY <1>1, <1>2

\* ... and the state of the row, except that a row nobody carries may go.
LEMMA OnceKept ==
  ASSUME NEW id, Once(id), Carried(id)' <=> Carried(id), Alone(id) => Alone(id)',
         id \in DOMAIN rows' => id \in DOMAIN rows /\ rows'[id].state = rows[id].state,
         id \notin DOMAIN rows' /\ id \in DOMAIN rows => ~Carried(id),
         phase' = "up" /\ pc'[Loop] # "boot" => phase = "up" /\ pc[Loop] # "boot"
  PROVE  Once(id)'
  BY DEF Once

\* Nobody carries the row any more and it is not pending, or the hub is stopping.
LEMMA OnceReleased ==
  ASSUME NEW id, ~Carried(id)',
         id \in DOMAIN rows' /\ rows'[id].state = "pending" => phase' # "up" \/ pc'[Loop] = "boot"
  PROVE  Once(id)'
<1>1. Alone(id)'
  BY DEF Carried, Alone, Has, Single
<1> QED BY <1>1 DEF Once

\* The types the lemmas below use, in one place.
LEMMA Parts ==
  ASSUME TypeOK
  PROVE  /\ Loop \in Procs /\ pc \in [Procs -> Steps] /\ jobs \in [Procs -> Seq(Job)]
         /\ drops \in [Procs -> SUBSET RowIds] /\ todo \subseteq RowIds
         /\ queue \in Seq(Job) /\ worker \in [st : WorkerSteps, job : Job \cup {NoJob}, n : 0..Attempts]
         /\ (worker.job = NoJob <=> worker.st \in {"looking", "asleep", "stopped"})
         /\ NoJob \notin Job /\ \A i \in DOMAIN rows : i \in RowIds /\ rows[i] \in Row
         /\ phase \in {"up", "stopping"} /\ QueueCap \in Nat \ {0}
  BY NotifyAssumption DEF TypeOK, TablesOK, ProcsOK, DispatcherOK, Procs

\* Steps that move no job: the loop and the goroutines read, plan and wait.
LEMMA QuietStep ==
  ASSUME CarriedInv, NEW id \in RowIds \ tainted, queue' = queue, worker'.job = worker.job,
         jobs' = jobs, drops' = drops, Replaying(id)' <=> Replaying(id), rows' = rows,
         phase' = "up" /\ pc'[Loop] # "boot" => phase = "up" /\ pc[Loop] # "boot"
  PROVE  Once(id)'
<1>1. Working(id)' <=> Working(id)
  BY DEF Working
<1>2. (Carried(id)' <=> Carried(id)) /\ (Alone(id) => Alone(id)')
  BY <1>1, PlacesKept
<1>3. Once(id)
  BY DEF CarriedInv, AllOnce
<1> QED BY <1>2, <1>3, OnceKept

\* Journalling and planning carry nothing.
LEMMA NotifyingOnce ==
  ASSUME CarriedInv, NEW p \in Procs, NEW id \in RowIds \ tainted,
         (\E k \in Keys : Journal(p, k)) \/ NotifyStart(p) \/ (\E e \in EventIds : NextEvent(p, e))
         \/ Lock(p) \/ Unlock(p) \/ EnqueueReturns(p)
  PROVE  Once(id)'
<1>0. TypeOK
  BY DEF CarriedInv
<1>1. queue' = queue /\ worker' = worker /\ jobs' = jobs /\ drops' = drops /\ rows' = rows /\ phase' = phase
      /\ todo' = todo
  BY DEF Journal, NotifyStart, NextEvent, Lock, Unlock, EnqueueReturns, tables, dispatcher
<1>2. CASE p # Loop
  <2>1. pc'[Loop] = pc[Loop]
    BY <1>0, <1>2, Parts DEF Journal, NotifyStart, NextEvent, Lock, Unlock, EnqueueReturns, Continue
  <2> QED BY <1>1, <2>1, QuietStep DEF Replaying
<1>3. CASE p = Loop
  <2>1. pc[Loop] # "boot"
    BY <1>3 DEF Journal, NotifyStart, NextEvent, Lock, Unlock, EnqueueReturns
  <2>2. /\ pc[Loop] = "replay" => todo = {}
        /\ pc'[Loop] # "replay"
    BY <1>0, <1>3, Parts DEF Journal, NotifyStart, NextEvent, Lock, Unlock, EnqueueReturns, Continue
  <2> QED BY <1>1, <2>1, <2>2, QuietStep DEF Replaying
<1> QED BY <1>2, <1>3

\* Nor does the loop when it reads what to do.
LEMMA LoopOnce ==
  ASSUME CarriedInv, NEW id \in RowIds \ tainted,
         ReleaseStart \/ SettledNothing \/ RemindStart \/ RemindGuardrails
  PROVE  Once(id)'
<1>0. TypeOK
  BY DEF CarriedInv
<1>1. queue' = queue /\ worker' = worker /\ jobs' = jobs /\ drops' = drops /\ rows' = rows /\ phase' = phase
  BY DEF ReleaseStart, SettledNothing, RemindStart, RemindGuardrails, tables, dispatcher
<1>2. pc[Loop] # "boot" /\ (pc[Loop] = "replay" => todo = {}) /\ pc'[Loop] # "replay"
  BY <1>0, Parts DEF ReleaseStart, SettledNothing, RemindStart, RemindGuardrails, Continue
<1> QED BY <1>1, <1>2, QuietStep DEF Replaying

\* Nor do the worker while it waits or sends, people and time.
LEMMA WorldOnce ==
  ASSUME CarriedInv, NEW id \in RowIds \ tainted,
         Stop \/ Tick \/ UNCHANGED vars \/ Wait \/ Woken
         \/ (\E r \in {"ok", "retryable", "refused", "cancelled"} : Send(r))
         \/ (\E c \in Channels : SetEnabled(c) \/ SetQuiet(c))
         \/ (\E k \in Keys, cs \in SUBSET Channels : SetRoute(k, cs))
         \/ (\E k \in AlertKeys : SetMuted(k)) \/ (\E k \in RuleKeys : DeleteRule(k))
  PROVE  Once(id)'
<1>1. /\ queue' = queue /\ jobs' = jobs /\ drops' = drops /\ rows' = rows /\ todo' = todo /\ pc' = pc
      /\ phase' = phase \/ phase' = "stopping"
  BY DEF Stop, Tick, Wait, Woken, Send, SetEnabled, SetQuiet, SetRoute, SetMuted, DeleteRule, vars, tables,
         procs, dispatcher
<1>2. worker'.job = worker.job
  <2>1. CASE Wait \/ Woken
    <3>1. worker.job = NoJob
      BY <2>1, Parts DEF CarriedInv, Wait, Woken
    <3>2. worker'.job = NoJob
      BY <2>1 DEF Wait, Woken, WorkerGoes
    <3> QED BY <3>1, <3>2
  <2>2. CASE \E r \in {"ok", "retryable", "refused", "cancelled"} : Send(r)
    <3>1. \E st, n : worker' = [st |-> st, job |-> worker.job, n |-> n]
      BY <2>2 DEF Send, Retries, WorkerGoes
    <3> QED BY <3>1
  <2>3. CASE ~(Wait \/ Woken \/ \E r \in {"ok", "retryable", "refused", "cancelled"} : Send(r))
    BY <2>3 DEF Stop, Tick, SetEnabled, SetQuiet, SetRoute, SetMuted, DeleteRule, vars, dispatcher
  <2> QED BY <2>1, <2>2, <2>3
<1> QED BY <1>1, <1>2, QuietStep DEF Replaying

\* A process is given the job of a row nobody else carries.
LEMMA GivenJob ==
  ASSUME TypeOK, NEW p \in Procs, NEW j \in Job, NEW id, j.id = id,
         ~Has(queue, id), ~Working(id), \A q \in Procs : ~Has(jobs[q], id) /\ id \notin drops[q],
         jobs' = [jobs EXCEPT ![p] = Append(@, j)], queue' = queue, worker' = worker, drops' = drops,
         ~Replaying(id)'
  PROVE  Carried(id)' /\ Alone(id)'
<1>1. jobs \in [Procs -> Seq(Job)]
  BY Parts
<1>2. jobs'[p] = Append(jobs[p], j) /\ \A q \in Procs : q # p => jobs'[q] = jobs[q]
  BY <1>1
<1>3. Has(jobs'[p], id) /\ Single(jobs'[p], id)
  <2>1. Single(jobs[p], id)
    BY DEF Has, Single
  <2> QED BY <1>1, <1>2, <2>1, HasAppend
<1>4. \A q \in Procs : Single(jobs'[q], id) /\ (q # p => ~Has(jobs'[q], id))
  <2>1. \A q \in Procs : Single(jobs[q], id)
    BY DEF Has, Single
  <2> QED BY <1>2, <1>3, <2>1
<1>5. ~Has(queue', id) /\ ~Working(id)' /\ Single(queue', id) /\ \A q \in Procs : id \notin drops'[q]
  BY DEF Working, Has, Single
<1>6. Carried(id)'
  BY <1>3 DEF Carried
<1>7. Alone(id)'
  BY <1>3, <1>4, <1>5 DEF Alone
<1> QED BY <1>6, <1>7

\* ... and the places of every other row are as they were.
LEMMA OtherJob ==
  ASSUME TypeOK, NEW p \in Procs, NEW j \in Job, NEW id, j.id # id,
         jobs' = [jobs EXCEPT ![p] = Append(@, j)], queue' = queue, worker' = worker, drops' = drops,
         Replaying(id)' <=> Replaying(id)
  PROVE  /\ Carried(id)' <=> Carried(id)
         /\ Alone(id) => Alone(id)'
<1>1. jobs \in [Procs -> Seq(Job)]
  BY Parts
<1>2. jobs'[p] = Append(jobs[p], j) /\ \A q \in Procs : q # p => jobs'[q] = jobs[q]
  BY <1>1
<1>3. /\ Has(jobs'[p], id) <=> Has(jobs[p], id)
      /\ Single(jobs[p], id) => Single(jobs'[p], id)
  BY <1>1, <1>2, HasAppend
<1>4. Working(id)' <=> Working(id)
  BY DEF Working
<1>5. \A q \in Procs : /\ Has(jobs'[q], id) <=> Has(jobs[q], id)
                       /\ Single(jobs[q], id) => Single(jobs'[q], id)
                       /\ id \in drops'[q] <=> id \in drops[q]
  BY <1>2, <1>3
<1> QED BY <1>4, <1>5, PlacesKept

\* Rows go by Purge or with their host; who carries one is among Held.
LEMMA CarriedIsHeld ==
  ASSUME NEW id, Carried(id)
  PROVE  id \in Held
<1>1. CASE Has(queue, id) \/ Working(id) \/ \E p \in Procs : Has(jobs[p], id)
  <2>1. \E j \in CarriedJobs : j.id = id
    BY <1>1 DEF Has, Working, CarriedJobs
  <2> QED BY <2>1 DEF Held
<1>2. CASE Replaying(id) \/ \E p \in Procs : id \in drops[p]
  BY <1>2 DEF Replaying, Held
<1> QED BY <1>1, <1>2 DEF Carried

\* A deleted row has no carrier, or its id is tainted.
LEMMA DeletionOnce ==
  ASSUME CarriedInv, NEW id \in RowIds \ tainted', Purge \/ \E k \in AlertKeys : DeleteHost(k)
  PROVE  Once(id)'
<1>1. PICK old : /\ rows' = [i \in DOMAIN rows \ old |-> rows[i]]
                 /\ tainted' = tainted \cup (old \cap Held)
  BY DEF Purge, DeleteHost
<1>2. /\ queue' = queue /\ jobs' = jobs /\ drops' = drops /\ todo' = todo /\ pc' = pc
      /\ phase' = phase /\ worker' = worker
  BY DEF Purge, DeleteHost, procs, dispatcher
<1>3. id \notin tainted /\ Once(id)
  BY <1>1 DEF CarriedInv, AllOnce
<1>4. id \in old => ~Carried(id)
  BY <1>1, CarriedIsHeld
<1>5. (Working(id)' <=> Working(id)) /\ (Replaying(id)' <=> Replaying(id))
  BY <1>2 DEF Working, Replaying
<1>6. (Carried(id)' <=> Carried(id)) /\ (Alone(id) => Alone(id)')
  BY <1>2, <1>5, PlacesKept
<1> QED BY <1>1, <1>2, <1>3, <1>4, <1>6, OnceKept

\* A new row has one carrier, its job, when it is pending.
LEMMA AddRowOnce ==
  ASSUME CarriedInv, NEW id \in RowIds \ tainted, NEW p \in Procs, NEW x \in plan[p], AddRow(p, x)
  PROVE  Once(id)'
<1>0. TypeOK /\ ReferencesExist /\ Once(id)
  BY DEF CarriedInv, AllOnce
<1>1. /\ queue' = queue /\ worker' = worker /\ drops' = drops /\ todo' = todo /\ pc' = pc /\ phase' = phase
      /\ pc[p] # "boot"
  BY DEF AddRow, dispatcher
<1>2. Replaying(id)' <=> Replaying(id)
  BY <1>1 DEF Replaying
<1>3. CASE x.event \in gone
  <2>1. rows' = rows /\ jobs' = jobs
    BY <1>3 DEF AddRow
  <2> QED BY <1>1, <1>2, <2>1, QuietStep
<1>4. CASE x.event \notin gone
  <2> DEFINE r == [event |-> x.event, ch |-> x.ch, at |-> view[p].at, upd |-> view[p].at,
                   reminder |-> x.reminder, state |-> IF x.held THEN "held" ELSE "pending"]
  <2>1. x \in Entry /\ view[p] \in View /\ x.event \in DOMAIN events
    BY <1>0 DEF TypeOK, ProcsOK, ReferencesExist
  <2>2. r \in Row /\ r.event \in DOMAIN events /\ r.state = IF x.held THEN "held" ELSE "pending"
    BY <2>1 DEF Row, Entry, View
  <2>3. PICK new \in RowIds :
          /\ NextRow(new)
          /\ rows' = [i \in DOMAIN rows \cup {new} |-> IF i = new THEN r ELSE rows[i]]
          /\ jobs' = IF x.held THEN jobs ELSE [jobs EXCEPT ![p] = Append(@, JobOf(new, r))]
    BY <1>4 DEF AddRow
  <2>4. new \notin DOMAIN rows
    BY <2>3 DEF NextRow, RowIds
  <2> HIDE DEF r
  <2>5. JobOf(new, r) \in Job /\ JobOf(new, r).id = new
    BY <1>0, <2>2, JobsTyped DEF JobOf
  <2>6. CASE id # new
    <3>1. (Carried(id)' <=> Carried(id)) /\ (Alone(id) => Alone(id)')
      <4>1. CASE x.held
        <5>1. jobs' = jobs /\ (Working(id)' <=> Working(id))
          BY <1>1, <2>3, <4>1 DEF Working
        <5> QED BY <1>1, <1>2, <5>1, PlacesKept
      <4>2. CASE ~x.held
        BY <1>0, <1>1, <1>2, <2>3, <2>5, <2>6, <4>2, OtherJob
      <4> QED BY <4>1, <4>2
    <3>2. /\ id \in DOMAIN rows' <=> id \in DOMAIN rows
          /\ id \in DOMAIN rows => rows'[id] = rows[id]
      BY <2>3, <2>6
    <3> QED BY <1>0, <1>1, <3>1, <3>2, OnceKept
  <2>7. CASE id = new
    <3>1. ~Carried(id) /\ rows'[id] = r /\ id \in DOMAIN rows'
      BY <1>0, <2>3, <2>4, <2>7 DEF Once
    <3>2. CASE x.held
      <4>1. jobs' = jobs /\ (Working(id)' <=> Working(id))
        BY <1>1, <2>3, <3>2 DEF Working
      <4>2. ~Carried(id)'
        BY <1>1, <1>2, <3>1, <4>1, PlacesKept
      <4> QED BY <2>2, <3>1, <3>2, <4>2, OnceReleased
    <3>3. CASE ~x.held
      <4>1. Carried(id)' /\ Alone(id)'
        BY <1>0, <1>1, <1>2, <2>3, <2>5, <2>7, <3>1, <3>3, GivenJob DEF Carried
      <4> QED BY <2>2, <3>1, <3>3, <4>1 DEF Once
    <3> QED BY <3>2, <3>3
  <2> QED BY <2>6, <2>7
<1> QED BY <1>3, <1>4

\* The replay carries every pending row, and nothing else does.
LEMMA ReplayOnce ==
  ASSUME CarriedInv, NEW id \in RowIds \ tainted, ReplayStart
  PROVE  Once(id)'
<1>1. /\ queue = <<>> /\ worker.job = NoJob /\ \A p \in Procs : jobs[p] = <<>> /\ drops[p] = {}
  BY DEF CarriedInv, QuietBoot, ReplayStart
<1>2. /\ queue' = queue /\ worker' = worker /\ drops' = drops /\ jobs' = jobs /\ rows' = rows
      /\ pc'[Loop] = "replay" /\ todo' = PendingRows
  BY Parts DEF CarriedInv, ReplayStart, tables, dispatcher
<1>3. ~Has(queue', id) /\ ~Working(id)' /\ \A p \in Procs : ~Has(jobs'[p], id) /\ id \notin drops'[p]
  BY <1>1, <1>2 DEF Has, Working
<1>4. Carried(id)' <=> id \in DOMAIN rows /\ rows[id].state = "pending"
  BY <1>2, <1>3 DEF Carried, Replaying, PendingRows
<1>5. Alone(id)'
  <2>1. Single(queue', id) /\ \A p \in Procs : Single(jobs'[p], id)
    BY <1>3 DEF Has, Single
  <2> QED BY <1>3, <2>1 DEF Alone
<1> QED BY <1>2, <1>4, <1>5 DEF Once

\* A crash leaves no carrier.
LEMMA BootOnce ==
  ASSUME CarriedInv, NEW id \in RowIds \ tainted, Boot
  PROVE  Once(id)'
<1>1. /\ queue' = <<>> /\ worker'.job = NoJob /\ todo' = {} /\ pc'[Loop] = "boot"
      /\ \A p \in Procs : jobs'[p] = <<>> /\ drops'[p] = {}
  BY Parts DEF CarriedInv, Boot, WorkerGoes
<1>2. ~Carried(id)'
  BY <1>1 DEF Carried, Has, Working, Replaying
<1> QED BY <1>1, <1>2, OnceReleased

\* A row of a replay or a release is retired, given a job or left alone.
LEMMA SettleOnce ==
  ASSUME CarriedInv, NEW id \in RowIds \ tainted, NEW i \in RowIds, Settle(i)
  PROVE  Once(id)'
<1>0. TypeOK /\ ReferencesExist /\ Once(id) /\ ReleaseReads
  BY DEF CarriedInv, AllOnce
<1>1. /\ queue' = queue /\ worker' = worker /\ drops' = drops /\ pc' = pc /\ phase' = phase
      /\ i \in todo /\ todo' = todo \ {i} /\ pc[Loop] \in {"replay", "release"} /\ Loop \in Procs
  BY <1>0, Parts DEF Settle, dispatcher
<1>2. i \in DOMAIN rows => JobOf(i, rows[i]) \in Job /\ JobOf(i, rows[i]).id = i
  BY <1>0, JobsTyped DEF TypeOK, TablesOK, ReferencesExist, JobOf
<1>3. Working(id)' <=> Working(id)
  BY <1>1 DEF Working
<1>4. CASE i # id
  <2>1. Replaying(id)' <=> Replaying(id)
    BY <1>1, <1>4 DEF Replaying
  <2>2. (Carried(id)' <=> Carried(id)) /\ (Alone(id) => Alone(id)')
    <3>1. jobs' = jobs \/ (i \in DOMAIN rows /\ jobs' = [jobs EXCEPT ![Loop] = Append(@, JobOf(i, rows[i]))])
      BY DEF Settle
    <3>2. CASE jobs' = jobs
      BY <1>1, <1>3, <2>1, <3>2, PlacesKept
    <3>3. CASE i \in DOMAIN rows /\ jobs' = [jobs EXCEPT ![Loop] = Append(@, JobOf(i, rows[i]))]
      <4>1. JobOf(i, rows[i]).id # id /\ JobOf(i, rows[i]) \in Job
        BY <1>2, <1>4, <3>3
      <4> QED BY <1>0, <1>1, <2>1, <3>3, <4>1, OtherJob
    <3> QED BY <3>1, <3>2, <3>3
  <2>3. (id \in DOMAIN rows' <=> id \in DOMAIN rows) /\ (id \in DOMAIN rows => rows'[id] = rows[id])
    <3>1. rows' = rows \/ \E s \in {"pending", "failed"} : rows' = SetState(i, s)
      BY DEF Settle
    <3> QED BY <1>0, <1>4, <3>1, SetStateTyped
  <2> QED BY <1>0, <1>1, <2>2, <2>3, OnceKept
<1>5. CASE i = id
  <2>1. /\ ~Has(queue, id) /\ ~Working(id) /\ \A q \in Procs : ~Has(jobs[q], id) /\ id \notin drops[q]
        /\ id \in DOMAIN rows /\ rows[id].state \in {"pending", "held"}
        /\ rows[id].state = "pending" <=> pc[Loop] = "replay"
    <3>1. CASE pc[Loop] = "replay"
      <4>1. Replaying(id)
        BY <1>1, <1>5, <3>1 DEF Replaying
      <4>2. Carried(id)
        BY <4>1 DEF Carried
      <4>3. id \in DOMAIN rows /\ rows[id].state = "pending"
        BY <1>0, <4>2 DEF Once
      <4>4. ~Has(queue, id) /\ ~Working(id) /\ \A q \in Procs : ~Has(jobs[q], id) /\ id \notin drops[q]
        BY <1>0, <4>1 DEF Once, Alone
      <4> QED BY <3>1, <4>3, <4>4
    <3>2. CASE pc[Loop] = "release"
      <4>1. id \in DOMAIN rows /\ rows[id].state = "held"
        BY <1>0, <1>1, <1>5, <3>2 DEF ReleaseReads
      <4>2. ~Carried(id)
        BY <1>0, <4>1 DEF Once
      <4> QED BY <3>2, <4>1, <4>2 DEF Carried
    <3> QED BY <1>1, <3>1, <3>2
  <2>2. ~Replaying(id)'
    BY <1>1, <1>5 DEF Replaying
  <2>3. ASSUME jobs' = jobs PROVE ~Carried(id)'
    BY <1>1, <1>3, <2>1, <2>2, <2>3 DEF Carried
  <2>4. ASSUME jobs' = [jobs EXCEPT ![Loop] = Append(@, JobOf(id, rows[id]))] PROVE Carried(id)' /\ Alone(id)'
    <3>1. JobOf(id, rows[id]) \in Job /\ JobOf(id, rows[id]).id = id
      BY <1>2, <1>5, <2>1
    <3> QED BY <1>0, <1>1, <2>1, <2>2, <2>4, <3>1, GivenJob
  <2>5. CASE rows' = SetState(id, "failed") /\ jobs' = jobs
    <3>1. rows'[id].state = "failed"
      BY <1>0, <2>1, <2>5, SetStateTyped
    <3> QED BY <2>3, <2>5, <3>1, OnceReleased
  <2>6. CASE /\ pc[Loop] = "replay" /\ rows' = rows
             /\ jobs' = [jobs EXCEPT ![Loop] = Append(@, JobOf(id, rows[id]))]
    BY <2>1, <2>4, <2>6 DEF Once
  <2>7. CASE /\ rows' = SetState(id, "pending")
             /\ jobs' = [jobs EXCEPT ![Loop] = Append(@, JobOf(id, rows[id]))]
    <3>1. rows'[id].state = "pending" /\ id \in DOMAIN rows'
      BY <1>0, <2>1, <2>7, SetStateTyped
    <3> QED BY <2>4, <2>7, <3>1 DEF Once
  <2>8. CASE pc[Loop] = "release" /\ rows' = rows /\ jobs' = jobs
    BY <2>1, <2>3, <2>8, OnceReleased
  <2> QED BY <1>5, <2>1, <2>5, <2>6, <2>7, <2>8 DEF Settle
<1> QED BY <1>4, <1>5

\* The first job of a process enters the queue; a victim may leave it.
LEMMA EnqueueOnce ==
  ASSUME CarriedInv, NEW id \in RowIds \ tainted, NEW p \in Procs, EnqueueOne(p)
  PROVE  Once(id)'
<1> DEFINE h == Head(jobs[p])
           v == Victim(queue)
           kept == RemoveAt(queue, v)
<1>0. TypeOK /\ Once(id) /\ Alone(id)
  BY DEF CarriedInv, AllOnce, Once
<1>1. /\ jobs \in [Procs -> Seq(Job)] /\ drops \in [Procs -> SUBSET RowIds] /\ queue \in Seq(Job)
      /\ QueueCap \in Nat \ {0}
  BY <1>0, Parts
<1>2. /\ worker' = worker /\ rows' = rows /\ todo' = todo /\ pc' = pc /\ phase' = phase
      /\ jobs[p] # <<>> /\ jobs' = [jobs EXCEPT ![p] = Tail(@)] /\ jobs[p] \in Seq(Job)
  BY <1>1 DEF EnqueueOne, tables
<1>3. h \in Job
  BY <1>2
<1>4. (Working(id)' <=> Working(id)) /\ (Replaying(id)' <=> Replaying(id))
  BY <1>2 DEF Working, Replaying
<1>5. /\ Has(jobs[p], id) <=> Has(jobs'[p], id) \/ h.id = id
      /\ Single(jobs[p], id) => Single(jobs'[p], id) /\ (h.id = id => ~Has(jobs'[p], id))
      /\ \A q \in Procs : q # p => jobs'[q] = jobs[q]
  <2>1. jobs'[p] = Tail(jobs[p]) /\ \A q \in Procs : q # p => jobs'[q] = jobs[q]
    BY <1>1, <1>2
  <2> QED BY <1>2, <2>1, HasTail
<1>6. \A q \in Procs : Single(jobs'[q], id)
  BY <1>0, <1>5 DEF Alone
<1>7. CASE Len(queue) >= QueueCap
  <2>1. queue' = Append(kept, h) /\ drops' = [drops EXCEPT ![p] = @ \cup {queue[v].id}]
    BY <1>7 DEF EnqueueOne
  <2>2. v \in 1..Len(queue)
    BY <1>1, <1>7, VictimInQueue
  <2>3. kept \in Seq(Job)
    BY <1>1, <2>2, RemoveAtIs
  <2>4. /\ Has(queue, id) <=> Has(kept, id) \/ queue[v].id = id
        /\ Single(queue, id) => Single(kept, id) /\ (queue[v].id = id => ~Has(kept, id))
    BY <1>1, <2>2, HasRemove
  <2> HIDE DEF h, v, kept
  <2>5. /\ Has(queue', id) <=> Has(kept, id) \/ h.id = id
        /\ Single(kept, id) /\ (h.id = id => ~Has(kept, id)) => Single(queue', id)
    BY <1>3, <2>1, <2>3, HasAppend
  <2>6. /\ id \in drops'[p] <=> id \in drops[p] \/ queue[v].id = id
        /\ \A q \in Procs : q # p => drops'[q] = drops[q]
    BY <1>1, <2>1
  <2>7. h.id = id => Has(jobs[p], id) /\ ~Has(queue, id)
    BY <1>0, <1>5 DEF Alone
  <2>8. Single(queue', id)
    BY <1>0, <2>4, <2>5, <2>7 DEF Alone
  <2>9. CASE h.id = id
    <3>1. /\ Has(queue', id) /\ queue[v].id # id /\ ~Has(jobs'[p], id)
      BY <1>0, <1>5, <2>4, <2>5, <2>7, <2>9 DEF Alone
    <3>2. \A q \in Procs : ~Has(jobs'[q], id) /\ id \notin drops'[q]
      BY <1>0, <1>5, <2>6, <2>7, <2>9, <3>1 DEF Alone
    <3>3. ~Working(id)' /\ ~Replaying(id)'
      BY <1>0, <1>4, <2>7, <2>9 DEF Alone
    <3>4. Alone(id)' /\ Carried(id)' /\ Carried(id)
      BY <1>6, <2>7, <2>8, <2>9, <3>1, <3>2, <3>3 DEF Alone, Carried
    <3> QED BY <1>0, <1>2, <3>4, OnceKept
  <2>10. CASE h.id # id /\ queue[v].id = id
    <3>1. Has(queue, id) /\ ~Has(queue', id) /\ id \in drops'[p]
      BY <1>0, <2>4, <2>5, <2>6, <2>10 DEF Alone
    <3>2. \A q \in Procs : ~Has(jobs'[q], id) /\ (id \in drops'[q] => q = p)
      BY <1>0, <1>5, <2>6, <3>1 DEF Alone
    <3>3. ~Working(id)' /\ ~Replaying(id)'
      BY <1>0, <1>4, <3>1 DEF Alone
    <3>4. Alone(id)' /\ Carried(id)' /\ Carried(id)
      BY <1>6, <2>8, <3>1, <3>2, <3>3 DEF Alone, Carried
    <3> QED BY <1>0, <1>2, <3>4, OnceKept
  <2>11. CASE h.id # id /\ queue[v].id # id
    <3>1. \A q \in Procs : /\ Has(jobs'[q], id) <=> Has(jobs[q], id)
                           /\ Single(jobs[q], id) => Single(jobs'[q], id)
                           /\ id \in drops'[q] <=> id \in drops[q]
      BY <1>5, <1>6, <2>6, <2>11
    <3>2. Has(queue', id) <=> Has(queue, id)
      BY <2>4, <2>5, <2>11
    <3>3. (Carried(id)' <=> Carried(id)) /\ (Alone(id) => Alone(id)')
      BY <1>4, <2>8, <3>1, <3>2, PlacesKept
    <3> QED BY <1>0, <1>2, <3>3, OnceKept
  <2> QED BY <2>9, <2>10, <2>11
<1>8. CASE ~(Len(queue) >= QueueCap)
  <2>1. queue' = Append(queue, h) /\ drops' = drops
    BY <1>8 DEF EnqueueOne
  <2> HIDE DEF h
  <2>2. /\ Has(queue', id) <=> Has(queue, id) \/ h.id = id
        /\ Single(queue, id) /\ (h.id = id => ~Has(queue, id)) => Single(queue', id)
    BY <1>1, <1>3, <2>1, HasAppend
  <2>3. h.id = id => Has(jobs[p], id) /\ ~Has(queue, id)
    BY <1>0, <1>5 DEF Alone
  <2>4. Single(queue', id)
    BY <1>0, <2>2, <2>3 DEF Alone
  <2>5. CASE h.id = id
    <3>1. Has(queue', id) /\ ~Has(jobs'[p], id)
      BY <1>0, <1>5, <2>2, <2>5 DEF Alone
    <3>2. \A q \in Procs : ~Has(jobs'[q], id) /\ id \notin drops'[q]
      BY <1>0, <1>5, <2>1, <2>3, <2>5, <3>1 DEF Alone
    <3>3. ~Working(id)' /\ ~Replaying(id)'
      BY <1>0, <1>4, <2>3, <2>5 DEF Alone
    <3>4. Alone(id)' /\ Carried(id)' /\ Carried(id)
      BY <1>6, <2>3, <2>4, <2>5, <3>1, <3>2, <3>3 DEF Alone, Carried
    <3> QED BY <1>0, <1>2, <3>4, OnceKept
  <2>6. CASE h.id # id
    <3>1. \A q \in Procs : /\ Has(jobs'[q], id) <=> Has(jobs[q], id)
                           /\ Single(jobs[q], id) => Single(jobs'[q], id)
                           /\ id \in drops'[q] <=> id \in drops[q]
      BY <1>5, <1>6, <2>1, <2>6
    <3>2. Has(queue', id) <=> Has(queue, id)
      BY <2>2, <2>6
    <3>3. (Carried(id)' <=> Carried(id)) /\ (Alone(id) => Alone(id)')
      BY <1>4, <2>4, <3>1, <3>2, PlacesKept
    <3> QED BY <1>0, <1>2, <3>3, OnceKept
  <2> QED BY <2>5, <2>6
<1> QED BY <1>7, <1>8

\* A dropped job is recorded, and carried no more.
LEMMA RecordDropOnce ==
  ASSUME CarriedInv, NEW id \in RowIds \ tainted, NEW p \in Procs, NEW i \in RowIds, RecordDrop(p, i)
  PROVE  Once(id)'
<1>0. TypeOK /\ Once(id) /\ Alone(id)
  BY DEF CarriedInv, AllOnce, Once
<1>1. /\ queue' = queue /\ worker' = worker /\ jobs' = jobs /\ todo' = todo /\ pc' = pc /\ phase' = phase
      /\ rows' = SetState(i, "failed") /\ i \in drops[p] /\ drops' = [drops EXCEPT ![p] = @ \ {i}]
  BY DEF RecordDrop, dispatcher
<1>2. (Working(id)' <=> Working(id)) /\ (Replaying(id)' <=> Replaying(id))
  BY <1>1 DEF Working, Replaying
<1>3. /\ id \in drops'[p] <=> id \in drops[p] /\ i # id
      /\ \A q \in Procs : q # p => drops'[q] = drops[q]
  BY <1>0, <1>1, Parts
<1>4. /\ DOMAIN rows' = DOMAIN rows
      /\ id \in DOMAIN rows => IF i = id THEN rows'[id].state = "failed" ELSE rows'[id] = rows[id]
  BY <1>0, <1>1, SetStateTyped
<1>5. CASE i = id
  <2>1. ~Carried(id)'
    BY <1>0, <1>1, <1>2, <1>3, <1>5 DEF Alone, Carried
  <2> QED BY <1>4, <1>5, <2>1, OnceReleased
<1>6. CASE i # id
  <2>1. \A q \in Procs : id \in drops'[q] <=> id \in drops[q]
    BY <1>3, <1>6
  <2>2. (Carried(id)' <=> Carried(id)) /\ (Alone(id) => Alone(id)')
    BY <1>1, <1>2, <2>1, PlacesKept
  <2> QED BY <1>0, <1>1, <1>4, <1>6, <2>2, OnceKept
<1> QED BY <1>5, <1>6

\* The worker takes a job, gives it up at the shutdown, or records it.
LEMMA WorkerOnce ==
  ASSUME CarriedInv, NEW id \in RowIds \ tainted, Pop \/ Backoff \/ Record
  PROVE  Once(id)'
<1>0. TypeOK /\ Once(id) /\ Alone(id)
  BY DEF CarriedInv, AllOnce, Once
<1>1. /\ jobs' = jobs /\ drops' = drops /\ todo' = todo /\ pc' = pc /\ phase' = phase
      /\ Replaying(id)' <=> Replaying(id)
  BY DEF Pop, Backoff, Record, procs, Replaying
<1>2. CASE Pop
  <2>1. /\ queue # <<>> /\ queue' = Tail(queue) /\ worker'.job = Head(queue) /\ rows' = rows
        /\ queue \in Seq(Job) /\ worker.job = NoJob
    BY <1>0, <1>2, Parts DEF Pop, WorkerGoes, tables
  <2>2. Head(queue) \in Job /\ Head(queue) # NoJob
    BY <1>0, <2>1, Parts
  <2>3. /\ Has(queue, id) <=> Has(queue', id) \/ Head(queue).id = id
        /\ Single(queue, id) => Single(queue', id) /\ (Head(queue).id = id => ~Has(queue', id))
    BY <2>1, HasTail
  <2>4. ~Working(id) /\ (Working(id)' <=> Head(queue).id = id)
    BY <2>1, <2>2 DEF Working
  <2>5. (Carried(id)' <=> Carried(id)) /\ Alone(id)'
    BY <1>0, <1>1, <2>3, <2>4 DEF Alone, Carried
  <2> QED BY <1>0, <1>1, <2>1, <2>5, OnceKept
<1>3. CASE Backoff
  <2>1. queue' = queue /\ rows' = rows
    BY <1>3 DEF Backoff, tables
  <2>2. CASE worker'.job = worker.job
    <3>1. Working(id)' <=> Working(id)
      BY <2>2 DEF Working
    <3>2. (Carried(id)' <=> Carried(id)) /\ (Alone(id) => Alone(id)')
      BY <1>1, <2>1, <3>1, PlacesKept
    <3> QED BY <1>0, <1>1, <2>1, <3>2, OnceKept
  <2>3. CASE worker'.job = NoJob /\ phase = "stopping"
    <3>1. ~Working(id)'
      BY <2>3 DEF Working
    <3>2. CASE Carried(id)'
      <4>1. ~Working(id)
        BY <1>0, <1>1, <2>1, <3>1, <3>2 DEF Carried, Alone
      <4>2. (Carried(id)' <=> Carried(id)) /\ (Alone(id) => Alone(id)')
        BY <1>1, <2>1, <3>1, <4>1, PlacesKept
      <4> QED BY <1>0, <1>1, <2>1, <4>2, OnceKept
    <3>3. CASE ~Carried(id)'
      BY <1>1, <2>3, <3>3, OnceReleased
    <3> QED BY <3>2, <3>3
  <2> QED BY <1>3, <2>2, <2>3 DEF Backoff, WorkerGoes
<1>4. CASE Record
  <2>1. /\ queue' = queue /\ worker'.job = NoJob /\ worker.job # NoJob
        /\ \E s \in {"sent", "failed"} : rows' = SetState(worker.job.id, s)
    BY <1>0, <1>4, Parts DEF Record, WorkerGoes, Outcome
  <2>2. PICK s \in {"sent", "failed"} : rows' = SetState(worker.job.id, s)
    BY <2>1
  <2>3. /\ DOMAIN rows' = DOMAIN rows
        /\ id \in DOMAIN rows => IF id = worker.job.id THEN rows'[id].state = s ELSE rows'[id] = rows[id]
    BY <1>0, <2>2, SetStateTyped
  <2>4. ~Working(id)' /\ (Working(id) <=> worker.job.id = id)
    BY <2>1 DEF Working
  <2>5. CASE worker.job.id = id
    <3>1. ~Carried(id)'
      BY <1>0, <1>1, <2>1, <2>4, <2>5 DEF Alone, Carried
    <3> QED BY <2>3, <2>5, <3>1, OnceReleased
  <2>6. CASE worker.job.id # id
    <3>1. (Carried(id)' <=> Carried(id)) /\ (Alone(id) => Alone(id)')
      BY <1>1, <2>1, <2>4, <2>6, PlacesKept
    <3> QED BY <1>0, <1>1, <2>3, <2>6, <3>1, OnceKept
  <2> QED BY <2>5, <2>6
<1> QED BY <1>2, <1>3, <1>4

\* Only a deletion taints, and nothing untaints.
LEMMA TaintedGrows ==
  ASSUME TypeOK, ReferencesExist, [Next]_vars
  PROVE  tainted \subseteq tainted'
<1>1. CASE Record
  BY <1>1 DEF Record, history
<1>2. CASE \E old : /\ rows' = [i \in DOMAIN rows \ old |-> rows[i]]
                   /\ tainted' = tainted \cup (old \cap Held)
  BY <1>2
<1>3. CASE tainted' = tainted
  BY <1>3
<1> QED BY <1>1, <1>2, <1>3, RowsEffect

\* Every step keeps the rows and their carriers in agreement.
LEMMA OnceStep ==
  ASSUME CarriedInv, [Next]_vars
  PROVE  AllOnce'
<1> SUFFICES ASSUME NEW id \in RowIds \ tainted' PROVE Once(id)'
  BY DEF AllOnce
<1>1. id \in RowIds \ tainted
  BY TaintedGrows DEF CarriedInv
<1>2. CASE \E p \in Procs : Notifying(p) \/ Enqueuing(p) \/ \E k \in Keys : Journal(p, k)
  <2>1. PICK p \in Procs : Notifying(p) \/ Enqueuing(p) \/ \E k \in Keys : Journal(p, k)
    BY <1>2
  <2>2. CASE (\E k \in Keys : Journal(p, k)) \/ NotifyStart(p) \/ (\E e \in EventIds : NextEvent(p, e))
             \/ Lock(p) \/ Unlock(p) \/ EnqueueReturns(p)
    BY <1>1, <2>2, NotifyingOnce
  <2>3. CASE \E x \in plan[p] : AddRow(p, x)
    BY <1>1, <2>3, AddRowOnce
  <2>4. CASE EnqueueOne(p)
    BY <1>1, <2>4, EnqueueOnce
  <2>5. CASE \E i \in RowIds : RecordDrop(p, i)
    BY <1>1, <2>5, RecordDropOnce
  <2> QED BY <2>1, <2>2, <2>3, <2>4, <2>5 DEF Notifying, Enqueuing
<1>3. CASE LoopStep
  BY <1>1, <1>3, LoopOnce, ReplayOnce, SettleOnce DEF LoopStep
<1>4. CASE WorkerStep
  BY <1>1, <1>4, WorkerOnce, WorldOnce DEF WorkerStep
<1>5. CASE Purge \/ \E k \in AlertKeys : DeleteHost(k)
  BY <1>5, DeletionOnce
<1>6. CASE Boot
  BY <1>1, <1>6, BootOnce
<1>7. CASE Stop \/ Tick \/ UNCHANGED vars \/ (People /\ ~\E k \in AlertKeys : DeleteHost(k))
  BY <1>1, <1>7, WorldOnce DEF People
<1> QED BY <1>2, <1>3, <1>4, <1>5, <1>6, <1>7 DEF Next

\* Only a start of the process leads to the boot, and nobody moves there.
LEMMA QuietBootStep ==
  ASSUME CarriedInv, [Next]_vars
  PROVE  QuietBoot'
<1> SUFFICES ASSUME pc'[Loop] = "boot"
             PROVE  /\ ~ready' /\ queue' = <<>> /\ worker'.job = NoJob
                    /\ \A p \in Procs : jobs'[p] = <<>> /\ drops'[p] = {} /\ (p # Loop => pc'[p] = "idle")
  BY DEF QuietBoot
<1>0. TypeOK
  BY DEF CarriedInv
<1>1. CASE Boot
  BY <1>1 DEF Boot, WorkerGoes
<1>2. ASSUME pc[Loop] = "boot"
      PROVE  /\ ~ready /\ queue = <<>> /\ worker.job = NoJob
             /\ \A p \in Procs : jobs[p] = <<>> /\ drops[p] = {} /\ (p # Loop => pc[p] = "idle")
  BY <1>2 DEF CarriedInv, QuietBoot
<1>3. CASE \E p \in Procs : Notifying(p) \/ Enqueuing(p) \/ \E k \in Keys : Journal(p, k)
  <2>1. PICK p \in Procs : Notifying(p) \/ Enqueuing(p) \/ \E k \in Keys : Journal(p, k)
    BY <1>3
  <2>2. pc[Loop] = "boot"
    <3>1. CASE p = Loop
      BY <1>0, <2>1, <3>1, Parts DEF Notifying, Enqueuing, Journal, NotifyStart, NextEvent, AddRow, Lock, EnqueueOne,
                               Unlock, RecordDrop, EnqueueReturns, Continue
    <3>2. CASE p # Loop
      BY <1>0, <2>1, <3>2, Parts DEF Notifying, Enqueuing, Journal, NotifyStart, NextEvent, AddRow, Lock, EnqueueOne,
                               Unlock, RecordDrop, EnqueueReturns, Continue
    <3> QED BY <3>1, <3>2
  <2>3. FALSE
    BY <1>2, <2>1, <2>2 DEF Notifying, Enqueuing, Journal, NotifyStart, NextEvent, AddRow, Lock, EnqueueOne,
                            Unlock, RecordDrop, EnqueueReturns
  <2> QED BY <2>3
<1>4. CASE LoopStep
  BY <1>0, <1>4, Parts DEF LoopStep, ReplayStart, ReleaseStart, Settle, SettledNothing, RemindStart,
                           RemindGuardrails, Continue
<1>5. CASE WorkerStep
  <2>1. pc' = pc /\ ready' = ready /\ jobs' = jobs /\ drops' = drops
    BY <1>5 DEF WorkerStep, Pop, Wait, Woken, Send, Backoff, Record, procs
  <2>2. worker.st \in {"looking", "asleep", "stopped"} /\ queue = <<>>
    BY <1>0, <1>2, <2>1, Parts
  <2>3. queue' = queue /\ worker'.job = NoJob
    BY <1>5, <2>2 DEF WorkerStep, Pop, Wait, Woken, Send, Backoff, Record, WorkerGoes
  <2> QED BY <1>2, <2>1, <2>3
<1>6. CASE Purge \/ Stop \/ People \/ Tick \/ UNCHANGED vars
  <2>1. pc' = pc /\ ready' = ready /\ jobs' = jobs /\ drops' = drops /\ queue' = queue /\ worker' = worker
    BY <1>6 DEF Purge, Stop, People, Tick, vars, SetEnabled, SetQuiet, SetRoute, SetMuted, DeleteHost, DeleteRule,
                procs, dispatcher
  <2> QED BY <1>2, <2>1
<1> QED BY <1>1, <1>3, <1>4, <1>5, <1>6 DEF Next

\* What a release has read stays as it is until the release comes to it.
LEMMA ReleaseReadsStep ==
  ASSUME CarriedInv, [Next]_vars
  PROVE  ReleaseReads'
<1> SUFFICES ASSUME pc'[Loop] = "release", NEW id \in todo' \ tainted'
             PROVE  id \in DOMAIN rows' /\ rows'[id].state = "held"
  BY DEF ReleaseReads
<1>0. TypeOK /\ ReferencesExist /\ id \notin tainted
  BY TaintedGrows DEF CarriedInv
<1>1. CASE ReleaseStart
  BY <1>1 DEF ReleaseStart, HeldRows, tables
<1>2. CASE ~ReleaseStart
  <2>1. pc[Loop] = "release" /\ id \in todo
    <3>1. CASE \E p \in Procs : Notifying(p) \/ Enqueuing(p) \/ \E k \in Keys : Journal(p, k)
      <4>1. PICK p \in Procs : Notifying(p) \/ Enqueuing(p) \/ \E k \in Keys : Journal(p, k)
        BY <3>1
      <4>2. todo' = todo
        BY <4>1 DEF Notifying, Enqueuing, Journal, NotifyStart, NextEvent, AddRow, Lock, EnqueueOne,
                    Unlock, RecordDrop, EnqueueReturns
      <4>3. pc[Loop] = "release"
        BY <1>0, <4>1, Parts DEF Notifying, Enqueuing, Journal, NotifyStart, NextEvent, AddRow, Lock, EnqueueOne,
                                 Unlock, RecordDrop, EnqueueReturns, Continue
      <4> QED BY <4>2, <4>3
    <3>2. CASE LoopStep \/ Boot
      BY <1>0, <1>2, <3>2, Parts DEF LoopStep, Boot, ReplayStart, Settle, SettledNothing, RemindStart,
                                     RemindGuardrails, Continue
    <3>3. CASE WorkerStep
      BY <3>3 DEF WorkerStep, Pop, Wait, Woken, Send, Backoff, Record, procs
    <3>4. CASE Purge \/ Stop \/ People \/ Tick \/ UNCHANGED vars
      BY <3>4 DEF Purge, Stop, People, Tick, vars, SetEnabled, SetQuiet, SetRoute, SetMuted, DeleteHost, DeleteRule,
                  procs
    <3> QED BY <3>1, <3>2, <3>3, <3>4 DEF Next
  <2>2. id \in DOMAIN rows /\ rows[id].state = "held" /\ id \in RowIds \ tainted /\ id \in Held
    BY <1>0, <2>1, Parts DEF CarriedInv, ReleaseReads, Held
  <2>3. ~Carried(id)
    BY <2>2 DEF CarriedInv, AllOnce, Once
  <2>4. ASSUME NEW i, NEW s \in {"pending", "sent", "failed"}, rows' = SetState(i, s), i # id
        PROVE  id \in DOMAIN rows' /\ rows'[id] = rows[id]
    BY <1>0, <2>2, <2>4, SetStateTyped
  <2>5. ASSUME NEW p \in Procs, NEW i \in RowIds, RecordDrop(p, i) PROVE id \in DOMAIN rows' /\ rows'[id] = rows[id]
    <3>1. i # id
      BY <2>3, <2>5 DEF RecordDrop, Carried
    <3> QED BY <2>4, <2>5, <3>1 DEF RecordDrop
  <2>6. CASE Record
    <3>1. worker.job # NoJob
      BY <1>0, <2>6, Parts DEF Record
    <3>2. worker.job.id # id
      BY <2>3, <3>1 DEF Carried, Working
    <3>3. \E s \in {"sent", "failed"} : rows' = SetState(worker.job.id, s)
      BY <2>6 DEF Record, Outcome
    <3> QED BY <2>2, <2>4, <3>2, <3>3
  <2>7. ASSUME NEW i \in RowIds, Settle(i) PROVE id \in DOMAIN rows' /\ rows'[id] = rows[id]
    <3>1. i # id
      BY <2>7 DEF Settle
    <3>2. rows' = rows \/ \E s \in {"pending", "failed"} : rows' = SetState(i, s)
      BY <2>7 DEF Settle
    <3> QED BY <2>2, <2>4, <3>1, <3>2
  <2>8. ASSUME NEW p \in Procs, NEW x \in plan[p], AddRow(p, x) PROVE id \in DOMAIN rows' /\ rows'[id] = rows[id]
    <3>1. CASE x.event \in gone
      BY <2>2, <2>8, <3>1 DEF AddRow
    <3>2. CASE x.event \notin gone
      <4>1. TypeOK /\ ReferencesExist
        BY <1>0
      <4>2. PICK new \in RowIds, r \in Row :
              /\ new \notin DOMAIN rows /\ r.state # "sent" /\ r.event = x.event
              /\ rows' = [i \in DOMAIN rows \cup {new} |-> IF i = new THEN r ELSE rows[i]]
              /\ jobs' \in {jobs, [jobs EXCEPT ![p] = Append(@, JobOf(new, r))]}
        BY ONLY <4>1, p \in Procs, x \in plan[p], <2>8, <3>2, AddRowEffect
      <4> QED BY <2>2, <4>2
    <3> QED BY <3>1, <3>2
  <2>9. CASE Purge \/ \E k \in AlertKeys : DeleteHost(k)
    <3>1. PICK old : /\ rows' = [i \in DOMAIN rows \ old |-> rows[i]]
                     /\ tainted' = tainted \cup (old \cap Held)
      BY <2>9 DEF Purge, DeleteHost
    <3> QED BY <2>2, <3>1
  <2>10. CASE rows' = rows
    BY <2>2, <2>10
  <2>11. CASE \E p \in Procs : Notifying(p) \/ Enqueuing(p) \/ \E k \in Keys : Journal(p, k)
    <3>1. PICK p \in Procs : Notifying(p) \/ Enqueuing(p) \/ \E k \in Keys : Journal(p, k)
      BY <2>11
    <3>2. CASE (\E k \in Keys : Journal(p, k)) \/ NotifyStart(p) \/ (\E e \in EventIds : NextEvent(p, e))
               \/ Lock(p) \/ Unlock(p) \/ EnqueueReturns(p) \/ EnqueueOne(p)
      <4>1. rows' = rows
        BY <3>2 DEF Journal, NotifyStart, NextEvent, Lock, EnqueueOne, Unlock, EnqueueReturns, tables
      <4> QED BY <2>10, <4>1
    <3> QED BY <2>2, <2>5, <2>8, <3>1, <3>2 DEF Notifying, Enqueuing
  <2>12. CASE LoopStep \/ WorkerStep \/ Boot \/ Stop \/ Tick \/ UNCHANGED vars
    <3>1. CASE \E i \in RowIds : Settle(i)
      BY <2>2, <2>7, <3>1
    <3>2. CASE Record
      BY <2>6, <3>2
    <3>3. CASE ~Record /\ ~\E i \in RowIds : Settle(i)
      <4>1. rows' = rows
        BY <2>12, <3>3 DEF LoopStep, ReplayStart, ReleaseStart, SettledNothing, RemindStart, RemindGuardrails,
                           WorkerStep, Pop, Wait, Woken, Send, Backoff, Boot, Stop, Tick, vars, tables
      <4> QED BY <2>10, <4>1
    <3> QED BY <3>1, <3>2, <3>3
  <2>13. CASE People /\ ~\E k \in AlertKeys : DeleteHost(k)
    <3>1. rows' = rows
      BY <2>13 DEF People, SetEnabled, SetQuiet, SetRoute, SetMuted, DeleteRule, tables
    <3> QED BY <2>10, <3>1
  <2> QED BY <2>9, <2>11, <2>12, <2>13 DEF Next
<1> QED BY <1>1, <1>2

\* With no rows there is nothing to carry.
LEMMA CarriedInvInit ==
  ASSUME Init
  PROVE  CarriedInv
<1>1. TypeOK /\ ReferencesExist
  BY InitTypes
<1>2. /\ rows = <<>> /\ queue = <<>> /\ worker.job = NoJob /\ todo = {} /\ pc[Loop] = "boot" /\ ~ready
      /\ \A p \in Procs : jobs[p] = <<>> /\ drops[p] = {} /\ (p # Loop => pc[p] = "idle")
  BY <1>1, Parts DEF Init
<1>3. ASSUME NEW id \in RowIds PROVE Once(id)
  <2>1. ~Carried(id)
    BY <1>2 DEF Carried, Has, Working, Replaying
  <2>2. Alone(id)
    BY <2>1, NobodyIsAlone
  <2>3. DOMAIN rows = {}
    BY <1>2
  <2> QED BY <2>1, <2>2, <2>3 DEF Once
<1>4. QuietBoot /\ ReleaseReads
  BY <1>2 DEF QuietBoot, ReleaseReads
<1> QED BY <1>1, <1>3, <1>4 DEF CarriedInv, AllOnce

\* The invariant behind PendingCarriedOnce.
LEMMA CarriedInvHolds == Spec => []CarriedInv
<1>1. Init => CarriedInv
  BY CarriedInvInit
<1>2. CarriedInv /\ [Next]_vars => CarriedInv'
  <2>1. CarriedInv /\ [Next]_vars => TypeOK' /\ ReferencesExist'
    BY TypesStep, ReferencesStep DEF CarriedInv
  <2> QED BY <2>1, OnceStep, QuietBootStep, ReleaseReadsStep DEF CarriedInv
<1> QED BY <1>1, <1>2, PTL DEF Spec

\* Places that carry a row alone are at most one, and none when nobody does.
LEMMA CarriersCounted ==
  ASSUME NEW id, Alone(id)
  PROVE  Cardinality(Carriers(id)) = IF Carried(id) THEN 1 ELSE 0
<1> DEFINE inQueue == {<<"queue", i>> : i \in {j \in DOMAIN queue : queue[j].id = id}}
           atWork == IF worker.job # NoJob /\ worker.job.id = id THEN {<<"worker", 0>>} ELSE {}
           inJobs == UNION {{<<p, i>> : i \in {j \in DOMAIN jobs[p] : jobs[p][j].id = id}} : p \in Procs}
           dropped == {<<p, 0>> : p \in {q \in Procs : id \in drops[q]}}
           replayed == IF pc[Loop] = "replay" /\ id \in todo THEN {<<"replay", 0>>} ELSE {}
<1>1. Carriers(id) = inQueue \cup atWork \cup inJobs \cup dropped \cup replayed
  BY DEF Carriers
<1>2. /\ \A a, b \in inQueue : a = b
      /\ inQueue # {} <=> Has(queue, id)
  <2>1. \A a : a \in inQueue <=> \E i \in DOMAIN queue : queue[i].id = id /\ a = <<"queue", i>>
    OBVIOUS
  <2> QED BY <2>1 DEF Alone, Single, Has
<1>3. /\ \A a, b \in atWork : a = b
      /\ atWork # {} <=> Working(id)
  BY DEF Working
<1>4. /\ \A a, b \in inJobs : a = b
      /\ inJobs # {} <=> \E p \in Procs : Has(jobs[p], id)
  <2>1. \A a : a \in inJobs <=> \E p \in Procs : \E i \in DOMAIN jobs[p] : jobs[p][i].id = id /\ a = <<p, i>>
    OBVIOUS
  <2>2. ASSUME NEW a \in inJobs, NEW b \in inJobs PROVE a = b
    <3>1. PICK p \in Procs : \E i \in DOMAIN jobs[p] : jobs[p][i].id = id /\ a = <<p, i>>
      BY <2>1
    <3>2. PICK q \in Procs : \E i \in DOMAIN jobs[q] : jobs[q][i].id = id /\ b = <<q, i>>
      BY <2>1
    <3>3. p = q
      BY <3>1, <3>2 DEF Alone, Has
    <3> QED BY <3>1, <3>2, <3>3 DEF Alone, Single
  <2> QED BY <2>1, <2>2 DEF Has
<1>5. /\ \A a, b \in dropped : a = b
      /\ dropped # {} <=> \E p \in Procs : id \in drops[p]
  BY DEF Alone
<1>6. /\ \A a, b \in replayed : a = b
      /\ replayed # {} <=> Replaying(id)
  BY DEF Replaying
<1> HIDE DEF inQueue, atWork, inJobs, dropped, replayed
<1>7. Carriers(id) # {} <=> Carried(id)
  BY <1>1, <1>2, <1>3, <1>4, <1>5, <1>6 DEF Carried
<1>8. \A a, b \in Carriers(id) : a = b
  <2>1. /\ inQueue = {} \/ (atWork = {} /\ inJobs = {} /\ dropped = {} /\ replayed = {})
        /\ atWork = {} \/ (inJobs = {} /\ dropped = {} /\ replayed = {})
        /\ inJobs = {} \/ (dropped = {} /\ replayed = {})
        /\ dropped = {} \/ replayed = {}
    BY <1>2, <1>3, <1>4, <1>5, <1>6 DEF Alone
  <2> QED BY <1>1, <1>2, <1>3, <1>4, <1>5, <1>6, <2>1
<1>9. CASE Carried(id)
  <2>1. PICK a : a \in Carriers(id)
    BY <1>7, <1>9
  <2>2. Carriers(id) = {a}
    BY <1>8, <2>1
  <2> QED BY <1>9, <2>2, FS_Singleton
<1>10. CASE ~Carried(id)
  BY <1>7, <1>10, FS_EmptySet
<1> QED BY <1>9, <1>10

\* A delivery is neither forgotten nor made twice while the hub runs: whatever
\* is notified, queued, dropped, retried, released, replayed after a crash or
\* deleted, a pending row has exactly one carrier from the replay on, and a held
\* or settled row has none.
THEOREM PendingIsCarriedOnce == Spec => []PendingCarriedOnce
<1>1. CarriedInv => PendingCarriedOnce
  <2> SUFFICES ASSUME CarriedInv, NEW id \in DOMAIN rows \ tainted
               PROVE  LET n == Cardinality(Carriers(id))
                      IN  /\ n <= 1
                          /\ rows[id].state # "pending" => n = 0
                          /\ rows[id].state = "pending" /\ phase = "up" /\ pc[Loop] # "boot" => n = 1
    BY DEF PendingCarriedOnce
  <2>1. id \in RowIds \ tainted
    BY Parts DEF CarriedInv
  <2>2. Once(id)
    BY <2>1 DEF CarriedInv, AllOnce
  <2>3. Cardinality(Carriers(id)) = IF Carried(id) THEN 1 ELSE 0
    BY <2>2, CarriersCounted DEF Once
  <2> QED BY <2>2, <2>3 DEF Once
<1> QED BY <1>1, CarriedInvHolds, PTL

\* A nonempty set of naturals has a least element, and Min is that element.
LEMMA MinIsLeast ==
  ASSUME NEW S, S \subseteq Nat, S # {}
  PROVE  Min(S) \in S /\ \A x \in S : Min(S) <= x
<1> DEFINE Less == OpToRel(<, Nat)
<1>1. PICK m \in S : \A y \in S : ~(<<y, m>> \in Less)
  <2> HIDE DEF Less
  <2>1. IsWellFoundedOn(Less, Nat)
    BY NatLessThanWellFounded, Zenon DEF Less
  <2> QED BY <2>1, WFMin, Zenon
<1>2. \A y \in S : m <= y
  <2> SUFFICES ASSUME NEW y \in S, y < m PROVE FALSE
    OBVIOUS
  <2>1. <<y, m>> \in Nat \X Nat
    OBVIOUS
  <2>2. <<y, m>>[1] = y /\ <<y, m>>[2] = m
    OBVIOUS
  <2>3. <<y, m>> \in Less
    BY <2>1, <2>2 DEF OpToRel
  <2> QED BY <1>1, <2>3
<1> QED BY <1>2 DEF Min

\* The victim is a recovery only when every job is one.
LEMMA VictimSpares ==
  ASSUME NEW q \in Seq(Job), q # <<>>, q[Victim(q)].kind = "resolved", NEW j \in DOMAIN q
  PROVE  q[j].kind = "resolved"
<1>1. ASSUME NEW kind, NEW k \in DOMAIN q, q[k].kind = kind
      PROVE  Oldest(q, kind) # {}
  <2> DEFINE S == {i \in DOMAIN q : q[i].kind = kind}
  <2>1. S \subseteq Nat /\ S \subseteq 1..Len(q) /\ S # {} /\ Len(q) \in Nat /\ DOMAIN q = 1..Len(q)
    BY <1>1
  <2>2. Min(S) \in S /\ \A i \in S : Min(S) <= i
    <3> HIDE DEF S
    <3> QED BY <2>1, MinIsLeast
  <2>3. \A i \in 1..(Min(S) - 1) : i \in DOMAIN q /\ ~(Min(S) <= i)
    <3> DEFINE m == Min(S)
    <3>1. m \in 1..Len(q)
      BY <2>1, <2>2
    <3> HIDE DEF m
    <3>2. \A i \in 1..(m - 1) : i \in 1..Len(q) /\ ~(m <= i)
      BY <2>1, <3>1
    <3> QED BY <2>1, <3>2 DEF m
  <2>4. Min(S) \in Oldest(q, kind)
    BY <2>2, <2>3 DEF Oldest
  <2> QED BY <2>4
<1>2. \A kind : \A i \in Oldest(q, kind) : q[i].kind = kind
  BY DEF Oldest
<1>3. Oldest(q, "reminder") = {}
  BY <1>2 DEF Victim
<1>4. Oldest(q, "fired") = {}
  BY <1>2, <1>3 DEF Victim
<1>5. q[j].kind \in {"fired", "resolved", "reminder"}
  <2>1. q[j] \in Job
    BY SeqDef
  <2> QED BY <2>1 DEF Job, Kinds
<1> QED BY <1>1, <1>3, <1>4, <1>5

\* When the queue overflows a recovery gives way only to a queue of recoveries
\* (dispatcher.go, victim): what a process adds to its drops is the victim, and
\* by the invariant no other job of the queue has its row.
THEOREM OnlyRecoveriesLeft == Spec => RecoveriesDroppedLast
<1> DEFINE Spared ==
       \A p \in Procs : \A i \in DOMAIN queue :
         /\ queue[i].id \in drops'[p] \ (drops[p] \cup tainted) /\ queue[i].kind = "resolved"
         => \A j \in DOMAIN queue : queue[j].kind = "resolved"
<1>1. CarriedInv /\ [Next]_vars => Spared
  <2> SUFFICES ASSUME CarriedInv, [Next]_vars, NEW p \in Procs, NEW i \in DOMAIN queue,
                      queue[i].id \in drops'[p] \ (drops[p] \cup tainted), queue[i].kind = "resolved"
               PROVE  \A j \in DOMAIN queue : queue[j].kind = "resolved"
    OBVIOUS
  <2>0. TypeOK
    BY DEF CarriedInv
  <2>1. /\ drops \in [Procs -> SUBSET RowIds] /\ queue \in Seq(Job) /\ QueueCap \in Nat \ {0}
        /\ queue[i].id \in RowIds \ tainted /\ queue # <<>>
    <3>1. queue \in Seq(Job) /\ queue[i] \in Job
      BY <2>0, Parts, SeqDef
    <3> QED BY <2>0, <3>1, Parts DEF Job
  <2>2. EnqueueOne(p)
    <3>1. ASSUME NEW q \in Procs,
                 (\E k \in Keys : Journal(q, k)) \/ Notifying(q) \/ Lock(q) \/ Unlock(q) \/ EnqueueReturns(q)
          PROVE  drops' = drops
      BY <3>1 DEF Journal, Notifying, NotifyStart, NextEvent, AddRow, Lock, Unlock, EnqueueReturns
    <3>2. ASSUME NEW q \in Procs, NEW id \in RowIds, RecordDrop(q, id)
          PROVE  drops'[p] \subseteq drops[p]
      BY <2>1, <3>2 DEF RecordDrop
    <3>3. ASSUME NEW q \in Procs, EnqueueOne(q), q # p
          PROVE  drops'[p] = drops[p]
      BY <2>1, <3>3 DEF EnqueueOne
    <3>4. CASE LoopStep \/ Purge \/ WorkerStep \/ Stop \/ People \/ Tick \/ UNCHANGED vars
      <4>1. drops' = drops
        BY <3>4 DEF LoopStep, ReplayStart, ReleaseStart, Settle, SettledNothing, RemindStart, RemindGuardrails,
                    Purge, WorkerStep, Pop, Wait, Woken, Send, Backoff, Record, Stop, People, SetEnabled, SetQuiet,
                    SetRoute, SetMuted, DeleteHost, DeleteRule, Tick, vars, procs
      <4> QED BY <4>1
    <3>5. CASE Boot
      BY <3>5 DEF Boot
    <3> QED BY <3>1, <3>2, <3>3, <3>4, <3>5 DEF Next, Enqueuing
  <2> DEFINE v == Victim(queue)
  <2>3. queue[i].id = queue[v].id
    BY <2>1, <2>2 DEF EnqueueOne
  <2>4. v \in DOMAIN queue
    BY <2>1, VictimInQueue
  <2>5. Single(queue, queue[i].id)
    BY <2>1 DEF CarriedInv, AllOnce, Once, Alone
  <2>6. i = v
    BY <2>3, <2>4, <2>5 DEF Single
  <2> QED BY <2>1, <2>6, VictimSpares
<1>2. CarriedInv /\ [Next]_vars => [Spared]_vars
  BY <1>1
<1> QED BY <1>2, CarriedInvHolds, PTL DEF Spec, RecoveriesDroppedLast

-----------------------------------------------------------------------------
(* What a process has in hand. *)

Reminding(p) == pc[p] \in {"remindAlerts", "remindGuardrails"}
InHand(p) == batch[p] \cup {x.event : x \in plan[p]}

\* Where a process is says what it has in hand: nothing outside of the notices
\* and the reminders, which are of events that fired; and only the loop has
\* alerts.
HandOf(p) ==
  /\ pc[p] # "notify" /\ ~Reminding(p) => plan[p] = {} /\ (pc[p] # "journal" => batch[p] = {})
  /\ p # Loop => /\ pc[p] \in {"idle", "journal", "notify", "enqueue", "drops"}
                 /\ \A e \in InHand(p) : events[e].key \in GuardKeys
  /\ Reminding(p) => \A e \in InHand(p) : events[e].kind = "fired"
  /\ \A x \in plan[p] : x.reminder <=> Reminding(p)

HandInv == TypeOK /\ ReferencesExist /\ \A p \in Procs : HandOf(p)

\* What is in hand is in the journal, which only grows.
LEMMA HandTyped ==
  ASSUME TypeOK, ReferencesExist, [Next]_vars
  PROVE  /\ Loop \in Procs /\ pc \in [Procs -> Steps] /\ batch \in [Procs -> SUBSET EventIds]
         /\ plan \in [Procs -> SUBSET Entry] /\ view \in [Procs -> View]
         /\ \A p \in Procs : \A e \in InHand(p) : e \in DOMAIN events /\ events'[e] = events[e]
<1>1. \A p \in Procs : \A e \in InHand(p) : e \in DOMAIN events
  BY DEF ReferencesExist, InHand
<1>2. \A e \in DOMAIN events : events'[e] = events[e]
  BY JournalEffect
<1> QED BY <1>1, <1>2 DEF TypeOK, ProcsOK, Procs

\* A process that does not move keeps what it has.
LEMMA HandKept ==
  ASSUME TypeOK, ReferencesExist, [Next]_vars, NEW p \in Procs, HandOf(p),
         pc'[p] = pc[p], batch'[p] \subseteq batch[p], plan'[p] \subseteq plan[p]
  PROVE  HandOf(p)'
<1>1. InHand(p)' \subseteq InHand(p) /\ (Reminding(p)' <=> Reminding(p))
  BY DEF InHand, Reminding
<1>2. \A e \in InHand(p) : events'[e] = events[e]
  BY HandTyped
<1> QED BY <1>1, <1>2 DEF HandOf

\* A process with empty hands may go anywhere it goes.
LEMMA HandEmpty ==
  ASSUME NEW p \in Procs, plan'[p] = {}, batch'[p] = {},
         p # Loop => pc'[p] \in {"idle", "journal", "notify", "enqueue", "drops"}
  PROVE  HandOf(p)'
BY DEF HandOf, InHand

\* A process that notifies, enqueues or journals has in hand what it may.
LEMMA ProcessHand ==
  ASSUME HandInv, [Next]_vars, NEW p \in Procs,
         Notifying(p) \/ Enqueuing(p) \/ \E k \in Keys : Journal(p, k)
  PROVE  HandOf(p)'
<1>0. TypeOK /\ ReferencesExist /\ HandOf(p) /\ pc[p] \in Steps
  BY HandTyped DEF HandInv
<1>1. ASSUME NEW k \in Keys, Journal(p, k) PROVE HandOf(p)'
  <2> DEFINE n == Len(events) + 1
             e1 == [key |-> k, kind |-> NextKind(k), at |-> now]
  <2>1. /\ pc'[p] = "journal" /\ batch'[p] = batch[p] \cup {n} /\ plan' = plan /\ plan[p] = {}
        /\ events' = Append(events, e1) /\ events \in Seq(Event)
    BY <1>0, <1>1, HandTyped DEF HandInv, Journal, HandOf, Reminding, TypeOK, TablesOK
  <2>2. e1 \in Event
    BY DEF HandInv, TypeOK, TablesOK, Event, NextKind
  <2>3. events'[n] = e1
    <3> HIDE DEF e1
    <3> QED BY <2>1, <2>2, AppendProperties
  <2>4. \A e \in batch[p] : events'[e] = events[e]
    BY <1>0, HandTyped DEF HandInv, InHand
  <2>5. p # Loop => k \in GuardKeys
    BY <1>1 DEF Journal, Keys
  <2>6. p # Loop => \A e \in InHand(p)' : events'[e].key \in GuardKeys
    <3>1. InHand(p)' = batch[p] \cup {n}
      BY <2>1 DEF InHand
    <3>2. e1.key = k
      OBVIOUS
    <3> QED BY <1>0, <2>3, <2>4, <2>5, <3>1, <3>2 DEF HandOf, InHand
  <2> QED BY <2>1, <2>6 DEF HandOf, Reminding
<1>2. CASE NotifyStart(p)
  <2>1. CASE enabled = {}
    <3>1. pc'[p] = "idle" /\ batch'[p] = {} /\ plan' = plan /\ plan[p] = {}
      BY <1>0, <1>2, <2>1, HandTyped DEF NotifyStart, HandOf, Reminding, HandInv
    <3> QED BY <3>1, HandEmpty
  <2>2. CASE enabled # {}
    <3>1. pc'[p] = "notify" /\ batch' = batch /\ plan' = plan /\ plan[p] = {}
      BY <1>0, <1>2, <2>2, HandTyped DEF NotifyStart, HandOf, Reminding, HandInv
    <3>2. InHand(p)' = InHand(p) /\ \A e \in InHand(p) : events'[e] = events[e]
      BY <1>0, <3>1, HandTyped DEF InHand
    <3> QED BY <1>0, <3>1, <3>2 DEF HandOf, Reminding
  <2> QED BY <2>1, <2>2
<1>3. ASSUME NEW e \in EventIds, NextEvent(p, e) PROVE HandOf(p)'
  <2>1. /\ pc' = pc /\ batch'[p] = batch[p] \ {e} /\ plan[p] = {} /\ e \in batch[p]
        /\ \A x \in plan'[p] : x.event = e /\ (x.reminder <=> pc[p] # "notify")
        /\ pc[p] = "notify" \/ Reminding(p)
    <3>1. \A x \in TransitionEntries(view[p], e) : x.event = e /\ x.reminder = FALSE
      BY DEF TransitionEntries
    <3>2. \A x \in ReminderEntries(view[p], e) : x.event = e /\ x.reminder = TRUE
      BY DEF ReminderEntries
    <3>3. batch'[p] = batch[p] \ {e} /\ (pc[p] = "notify" \/ Reminding(p)) /\ plan[p] = {} /\ e \in batch[p] /\ pc' = pc
      BY <1>0, <1>3, HandTyped DEF NextEvent, Reminding
    <3>4. \/ pc[p] = "notify" /\ plan'[p] \subseteq TransitionEntries(view[p], e)
          \/ Reminding(p) /\ plan'[p] = ReminderEntries(view[p], e)
      BY <1>0, <1>3, HandTyped DEF NextEvent, Reminding
    <3> QED BY <3>1, <3>2, <3>3, <3>4 DEF Reminding
  <2>2. InHand(p)' \subseteq InHand(p) /\ \A d \in InHand(p) : events'[d] = events[d]
    BY <1>0, <2>1, HandTyped DEF InHand
  <2> QED BY <1>0, <2>1, <2>2 DEF HandOf, Reminding
<1>4. ASSUME NEW x \in plan[p], AddRow(p, x) PROVE HandOf(p)'
  <2>1. pc' = pc /\ batch' = batch /\ plan'[p] \subseteq plan[p]
    BY <1>0, <1>4, HandTyped DEF AddRow
  <2> QED BY <1>0, <2>1, HandKept
<1>5. CASE Lock(p) \/ Unlock(p) \/ EnqueueReturns(p)
  <2>1. plan' = plan /\ batch' = batch /\ plan[p] = {} /\ batch[p] = {}
    BY <1>0, <1>5 DEF Lock, Unlock, EnqueueReturns, HandOf, Reminding
  <2>2. p # Loop => pc'[p] \in {"idle", "enqueue", "drops"}
    BY <1>0, <1>5, HandTyped DEF Lock, Unlock, EnqueueReturns, Continue
  <2> QED BY <2>1, <2>2, HandEmpty
<1>6. CASE EnqueueOne(p) \/ \E id \in RowIds : RecordDrop(p, id)
  <2>1. pc' = pc /\ batch' = batch /\ plan' = plan
    BY <1>6 DEF EnqueueOne, RecordDrop
  <2> QED BY <1>0, <2>1, HandKept
<1> QED BY <1>1, <1>2, <1>3, <1>4, <1>5, <1>6 DEF Notifying, Enqueuing

\* So has the loop after a step of its own.
LEMMA LoopHand ==
  ASSUME HandInv, [Next]_vars, LoopStep
  PROVE  HandOf(Loop)'
<1>0. TypeOK /\ ReferencesExist /\ HandOf(Loop) /\ Loop \in Procs
  BY HandTyped DEF HandInv
<1>1. CASE ReplayStart \/ ReleaseStart \/ SettledNothing
  <2>1. plan' = plan /\ batch' = batch /\ plan[Loop] = {} /\ batch[Loop] = {}
    BY <1>0, <1>1 DEF ReplayStart, ReleaseStart, SettledNothing, HandOf, Reminding
  <2> QED BY <1>0, <2>1, HandEmpty
<1>2. ASSUME NEW id \in RowIds, Settle(id) PROVE HandOf(Loop)'
  <2>1. pc' = pc /\ plan' = plan /\ batch' = batch
    BY <1>2 DEF Settle
  <2> QED BY <1>0, <2>1, HandKept
<1>3. CASE RemindStart \/ RemindGuardrails
  <2>1. /\ plan' = plan /\ plan[Loop] = {} /\ events' = events
        /\ (batch' = batch /\ batch[Loop] = {}) \/ \A e \in batch'[Loop] : events[e].kind = "fired"
    <3>1. CASE RemindStart
      BY <1>0, <3>1, HandTyped DEF RemindStart, HandOf, Reminding, HandInv, tables
    <3>2. CASE RemindGuardrails
      BY <1>0, <3>2, HandTyped DEF RemindGuardrails, HandInv, tables
    <3> QED BY <1>3, <3>1, <3>2
  <2>2. CASE batch' = batch /\ batch[Loop] = {}
    BY <1>0, <2>1, <2>2, HandEmpty
  <2>3. CASE \A e \in batch'[Loop] : events[e].kind = "fired"
    <3>1. Reminding(Loop)' \/ batch'[Loop] = {}
      BY <1>0, <1>3, HandTyped DEF RemindStart, RemindGuardrails, Reminding, HandOf, HandInv
    <3>2. \A e \in InHand(Loop)' : events'[e].kind = "fired"
      BY <2>1, <2>3 DEF InHand
    <3> QED BY <1>0, <2>1, <3>1, <3>2, HandEmpty DEF HandOf, Reminding
  <2> QED BY <2>1, <2>2, <2>3
<1> QED BY <1>1, <1>2, <1>3 DEF LoopStep

\* One process moves at a time, and the others keep what they have.
LEMMA HandStep ==
  ASSUME HandInv, [Next]_vars
  PROVE  \A p \in Procs : HandOf(p)'
<1> SUFFICES ASSUME NEW q \in Procs PROVE HandOf(q)'
  OBVIOUS
<1>0. TypeOK /\ ReferencesExist /\ HandOf(q)
  BY DEF HandInv
<1>1. CASE \E p \in Procs : Notifying(p) \/ Enqueuing(p) \/ \E k \in Keys : Journal(p, k)
  <2>1. PICK p \in Procs : Notifying(p) \/ Enqueuing(p) \/ \E k \in Keys : Journal(p, k)
    BY <1>1
  <2>2. CASE q = p
    BY <2>1, <2>2, ProcessHand
  <2>3. CASE q # p
    <3>1. pc'[q] = pc[q] /\ batch'[q] = batch[q] /\ plan'[q] = plan[q]
      BY <1>0, <2>1, <2>3, HandTyped
         DEF Notifying, Enqueuing, Journal, NotifyStart, NextEvent, AddRow, Lock, EnqueueOne, Unlock, RecordDrop,
             EnqueueReturns, Continue
    <3> QED BY <1>0, <3>1, HandKept
  <2> QED BY <2>2, <2>3
<1>2. CASE LoopStep
  <2>1. CASE q = Loop
    BY <1>2, <2>1, LoopHand
  <2>2. CASE q # Loop
    <3>1. pc'[q] = pc[q] /\ batch'[q] = batch[q] /\ plan'[q] = plan[q]
      BY <1>0, <1>2, <2>2, HandTyped
         DEF LoopStep, ReplayStart, ReleaseStart, Settle, SettledNothing, RemindStart, RemindGuardrails, Continue
    <3> QED BY <1>0, <3>1, HandKept
  <2> QED BY <2>1, <2>2
<1>3. CASE Purge \/ WorkerStep \/ Stop \/ People \/ Tick \/ UNCHANGED vars
  <2>1. pc' = pc /\ batch' = batch /\ plan' = plan
    BY <1>3 DEF Purge, WorkerStep, Pop, Wait, Woken, Send, Backoff, Record, Stop, People, SetEnabled, SetQuiet,
                SetRoute, SetMuted, DeleteHost, DeleteRule, Tick, vars, procs
  <2> QED BY <1>0, <2>1, HandKept
<1>4. CASE Boot
  <2>1. plan'[q] = {} /\ batch'[q] = {} /\ (q # Loop => pc'[q] = "idle")
    BY <1>4 DEF Boot
  <2> QED BY <2>1, HandEmpty
<1> QED BY <1>1, <1>2, <1>3, <1>4 DEF Next

\* Every process has in hand what its place says.
LEMMA HandInvHolds == Spec => []HandInv
<1>1. Init => HandInv
  <2> SUFFICES ASSUME Init PROVE HandInv
    OBVIOUS
  <2>1. \A p \in Procs : plan[p] = {} /\ batch[p] = {} /\ (p # Loop => pc[p] = "idle")
    BY DEF Init
  <2> QED BY <2>1, InitTypes DEF HandInv, HandOf, InHand
<1>2. HandInv /\ [Next]_vars => HandInv'
  BY TypesStep, ReferencesStep, HandStep DEF HandInv
<1> QED BY <1>1, <1>2, PTL DEF Spec

-----------------------------------------------------------------------------
(* Reminders are spaced. *)

\* What a delivery is about never changes.
SameRow(i) == /\ rows'[i].event = rows[i].event /\ rows'[i].ch = rows[i].ch
              /\ rows'[i].at = rows[i].at /\ rows'[i].reminder = rows[i].reminder

\* Settling a row changes what became of it, not what it is about.
LEMMA SetStateSame ==
  ASSUME TypeOK, NEW id, NEW s, rows' = SetState(id, s)
  PROVE  DOMAIN rows' = DOMAIN rows /\ \A i \in DOMAIN rows : SameRow(i)
<1>1. \A i \in DOMAIN rows : rows'[i] = IF i = id THEN [rows[i] EXCEPT !.state = s, !.upd = now] ELSE rows[i]
  BY DEF SetState
<1>2. \A i \in DOMAIN rows : rows[i] \in Row
  BY DEF TypeOK, TablesOK
<1>3. ASSUME NEW i \in DOMAIN rows
      PROVE  LET r == [rows[i] EXCEPT !.state = s, !.upd = now]
             IN  r.event = rows[i].event /\ r.ch = rows[i].ch /\ r.at = rows[i].at /\ r.reminder = rows[i].reminder
  BY <1>2 DEF Row
<1>4. DOMAIN rows' = DOMAIN rows
  BY DEF SetState
<1> QED BY <1>1, <1>3, <1>4 DEF SameRow

\* A row after a step was there before, or records what a process had planned.
Written(p, x, i) ==
  /\ AddRow(p, x) /\ x.event \notin gone /\ i \notin DOMAIN rows /\ DOMAIN rows' = DOMAIN rows \cup {i}
  /\ \A j \in DOMAIN rows : rows'[j] = rows[j]
  /\ rows'[i] = [event |-> x.event, ch |-> x.ch, at |-> view[p].at, upd |-> view[p].at,
                 reminder |-> x.reminder, state |-> IF x.held THEN "held" ELSE "pending"]

\* AddDelivery writes the row of an entry unless its event is deleted.
LEMMA AddRowWrites ==
  ASSUME NEW p \in Procs, NEW x \in plan[p], AddRow(p, x), x.event \notin gone
  PROVE  \E i \in RowIds : Written(p, x, i)
<1> DEFINE r == [event |-> x.event, ch |-> x.ch, at |-> view[p].at, upd |-> view[p].at,
                 reminder |-> x.reminder, state |-> IF x.held THEN "held" ELSE "pending"]
<1>1. PICK i \in RowIds : /\ NextRow(i)
                          /\ rows' = [j \in DOMAIN rows \cup {i} |-> IF j = i THEN r ELSE rows[j]]
  BY DEF AddRow
<1>2. i \notin DOMAIN rows
  BY <1>1 DEF NextRow, RowIds
<1> QED BY <1>1, <1>2 DEF Written

\* The only step that brings a new row is AddRow.
LEMMA RowsOf ==
  ASSUME TypeOK, [Next]_vars
  PROVE  \/ \E p \in Procs : \E x \in plan[p] : \E i \in RowIds : Written(p, x, i)
         \/ \A i \in DOMAIN rows' : i \in DOMAIN rows /\ SameRow(i)
<1> DEFINE Kept == \A i \in DOMAIN rows' : i \in DOMAIN rows /\ SameRow(i)
<1>1. ASSUME NEW id, NEW s, rows' = SetState(id, s) PROVE Kept
  BY <1>1, SetStateSame
<1>2. ASSUME NEW old, rows' = [i \in DOMAIN rows \ old |-> rows[i]] PROVE Kept
  BY <1>2 DEF SameRow
<1>3. ASSUME rows' = rows PROVE Kept
  BY <1>3 DEF SameRow
<1> HIDE DEF Kept
<1>4. ASSUME NEW p \in Procs, NEW x \in plan[p], AddRow(p, x)
      PROVE  Kept \/ \E i \in RowIds : Written(p, x, i)
  <2>1. CASE x.event \in gone
    BY <1>3, <1>4, <2>1 DEF AddRow
  <2>2. CASE x.event \notin gone
    BY <1>4, <2>2, AddRowWrites
  <2> QED BY <2>1, <2>2
<1>5. ASSUME NEW p \in Procs, Notifying(p) \/ Enqueuing(p) \/ \E k \in Keys : Journal(p, k)
      PROVE  Kept \/ \E x \in plan[p] : \E i \in RowIds : Written(p, x, i)
  <2>1. CASE \E x \in plan[p] : AddRow(p, x)
    BY <1>4, <2>1
  <2>2. CASE \E id \in RowIds : RecordDrop(p, id)
    BY <1>1, <2>2 DEF RecordDrop
  <2>3. CASE \/ (\E k \in Keys : Journal(p, k)) \/ NotifyStart(p) \/ (\E e \in EventIds : NextEvent(p, e))
             \/ Lock(p) \/ EnqueueOne(p) \/ Unlock(p) \/ EnqueueReturns(p)
    <3>1. rows' = rows
      BY <2>3 DEF Journal, NotifyStart, NextEvent, Lock, EnqueueOne, Unlock, EnqueueReturns, tables
    <3> QED BY <1>3, <3>1
  <2> QED BY <1>5, <2>1, <2>2, <2>3 DEF Notifying, Enqueuing
<1>6. ASSUME \E id \in RowIds : Settle(id)
      PROVE  Kept
  BY <1>1, <1>3, <1>6 DEF Settle
<1>7. ASSUME Record
      PROVE  Kept
  BY <1>1, <1>7 DEF Record
<1>8. ASSUME Purge \/ \E k \in AlertKeys : DeleteHost(k)
      PROVE  Kept
  BY <1>2, <1>8 DEF Purge, DeleteHost
<1>9. ASSUME ReplayStart \/ ReleaseStart \/ SettledNothing \/ RemindStart \/ RemindGuardrails \/ Stop \/ Boot \/ Tick
           \/ UNCHANGED vars
      PROVE  Kept
  <2>1. rows' = rows
    BY <1>9 DEF ReplayStart, ReleaseStart, SettledNothing, RemindStart, RemindGuardrails, Stop, Boot, Tick, vars, tables
  <2> QED BY <1>3, <2>1
<1>10. ASSUME WorkerStep /\ ~Record
      PROVE  Kept
  <2>1. rows' = rows
    BY <1>10 DEF WorkerStep, Pop, Wait, Woken, Send, Backoff, tables
  <2> QED BY <1>3, <2>1
<1>11. ASSUME People /\ ~\E k \in AlertKeys : DeleteHost(k)
      PROVE  Kept
  <2>1. rows' = rows
    BY <1>11 DEF People, SetEnabled, SetQuiet, SetRoute, SetMuted, DeleteRule, tables
  <2> QED BY <1>3, <2>1
<1>12. Kept \/ \E p \in Procs : \E x \in plan[p] : \E i \in RowIds : Written(p, x, i)
  BY <1>5, <1>6, <1>7, <1>8, <1>9, <1>10, <1>11 DEF Next, LoopStep
<1> QED BY <1>12 DEF Kept

\* Reminders the loop has planned are due, one to a channel.
PlannedAreDue ==
  Reminding(Loop) =>
    \A x \in plan[Loop] :
      /\ \A i \in Reminders(x.event) : rows[i].ch = x.ch => view[Loop].at - rows[i].at >= RemindEvery
      /\ \A y \in plan[Loop] : x.event = y.event /\ x.ch = y.ch => x = y

SpacedInv == HandInv /\ PlannedAreDue /\ RemindersSpaced

\* What is planned stays due until it is written: nobody else reminds.
LEMMA PlannedStep ==
  ASSUME SpacedInv, [Next]_vars
  PROVE  PlannedAreDue'
<1> SUFFICES ASSUME Reminding(Loop)', NEW x \in plan'[Loop]
             PROVE  /\ \A i \in Reminders(x.event)' : rows'[i].ch = x.ch => view'[Loop].at - rows'[i].at >= RemindEvery
                    /\ \A y \in plan'[Loop] : x.event = y.event /\ x.ch = y.ch => x = y
  BY DEF PlannedAreDue
<1>0. TypeOK /\ ReferencesExist /\ Loop \in Procs /\ \A p \in Procs : HandOf(p)
  BY HandTyped DEF SpacedInv, HandInv
<1>1. ASSUME NEW e \in EventIds, NextEvent(Loop, e)
      PROVE  /\ \A i \in Reminders(x.event)' : rows'[i].ch = x.ch => view'[Loop].at - rows'[i].at >= RemindEvery
             /\ \A y \in plan'[Loop] : x.event = y.event /\ x.ch = y.ch => x = y
  <2>1. rows' = rows /\ view' = view /\ pc' = pc
    BY <1>1 DEF NextEvent, tables
  <2>2. plan'[Loop] = ReminderEntries(view[Loop], e)
    BY <1>0, <1>1, <2>1, HandTyped DEF NextEvent, Reminding
  <2>3. \A y \in plan'[Loop] : y = [event |-> e, ch |-> y.ch, held |-> FALSE, reminder |-> TRUE]
    BY <2>2 DEF ReminderEntries
  <2>4. x.event = e /\ Due(view[Loop], e)
    BY <2>2 DEF ReminderEntries
  <2>5. \A i \in Reminders(e) : view[Loop].at - rows[i].at >= RemindEvery
    BY <2>4 DEF Due
  <2>6. Reminders(x.event)' = Reminders(e)
    BY <2>1, <2>4 DEF Reminders
  <2> QED BY <2>1, <2>3, <2>5, <2>6
<1>2. ASSUME \A e \in EventIds : ~NextEvent(Loop, e)
      PROVE  plan'[Loop] \subseteq plan[Loop] /\ (plan[Loop] # {} /\ plan'[Loop] # {} => Reminding(Loop) /\ view'[Loop] = view[Loop])
  <2>1. CASE \E p \in Procs : Notifying(p) \/ Enqueuing(p) \/ \E k \in Keys : Journal(p, k)
    <3>1. PICK p \in Procs : Notifying(p) \/ Enqueuing(p) \/ \E k \in Keys : Journal(p, k)
      BY <2>1
    <3>2. CASE p # Loop
      BY <1>0, <3>1, <3>2, HandTyped
         DEF Notifying, Enqueuing, Journal, NotifyStart, NextEvent, AddRow, Lock, EnqueueOne, Unlock, RecordDrop,
             EnqueueReturns, Continue, Reminding
    <3>3. CASE p = Loop
      <4>1. CASE NotifyStart(p)
        <5>1. plan' = plan /\ plan[Loop] = {}
          BY <1>0, <3>3, <4>1 DEF NotifyStart, HandOf, Reminding
        <5> QED BY <5>1
      <4>2. CASE \E y \in plan[p] : AddRow(p, y)
        BY <1>0, <3>3, <4>2, HandTyped DEF AddRow, Reminding
      <4>3. CASE Enqueuing(p) \/ \E k \in Keys : Journal(p, k)
        BY <1>0, <3>3, <4>3, HandTyped
           DEF Enqueuing, Journal, Lock, EnqueueOne, Unlock, RecordDrop, EnqueueReturns, HandOf, Reminding
      <4> QED BY <1>2, <3>1, <3>3, <4>1, <4>2, <4>3 DEF Notifying
    <3> QED BY <3>2, <3>3
  <2>2. CASE LoopStep
    <3>1. plan' = plan
      BY <2>2 DEF LoopStep, ReplayStart, ReleaseStart, Settle, SettledNothing, RemindStart, RemindGuardrails
    <3>2. plan[Loop] = {}
      BY <1>0, <2>2 DEF LoopStep, ReplayStart, ReleaseStart, Settle, SettledNothing, RemindStart, RemindGuardrails,
                        HandOf, Reminding
    <3> QED BY <3>1, <3>2
  <2>3. CASE Purge \/ WorkerStep \/ Stop \/ People \/ Tick \/ UNCHANGED vars
    <3>1. pc' = pc /\ plan' = plan /\ view' = view
      BY <2>3 DEF Purge, WorkerStep, Pop, Wait, Woken, Send, Backoff, Record, Stop, People, SetEnabled, SetQuiet,
                  SetRoute, SetMuted, DeleteHost, DeleteRule, Tick, vars, procs
    <3> QED BY <3>1 DEF Reminding
  <2>4. CASE Boot
    BY <1>0, <2>4 DEF Boot
  <2> QED BY <2>1, <2>2, <2>3, <2>4 DEF Next
<1>3. CASE \A e \in EventIds : ~NextEvent(Loop, e)
  <2>1. x \in plan[Loop] /\ Reminding(Loop) /\ view'[Loop] = view[Loop] /\ plan'[Loop] \subseteq plan[Loop]
    BY <1>2, <1>3
  <2>2. \A y \in plan[Loop] : x.event = y.event /\ x.ch = y.ch => x = y
    BY <2>1 DEF SpacedInv, PlannedAreDue
  <2>3. \A i \in Reminders(x.event) : rows[i].ch = x.ch => view[Loop].at - rows[i].at >= RemindEvery
    BY <2>1 DEF SpacedInv, PlannedAreDue
  <2>4. ASSUME NEW i \in Reminders(x.event)', rows'[i].ch = x.ch
        PROVE  i \in Reminders(x.event) /\ rows[i].ch = x.ch /\ rows'[i].at = rows[i].at
    <3>1. i \in DOMAIN rows' /\ rows'[i].event = x.event /\ rows'[i].reminder
      BY <2>4 DEF Reminders
    <3>2. CASE \E p \in Procs : \E y \in plan[p] : \E j \in RowIds : Written(p, y, j)
      <4>0. PICK p \in Procs : \E y \in plan[p] : \E j \in RowIds : Written(p, y, j)
        BY <3>2
      <4>1. PICK y \in plan[p], j \in RowIds : Written(p, y, j)
        BY <4>0
      <4>2. CASE i # j
        BY <2>4, <3>1, <4>1, <4>2 DEF Written, Reminders
      <4>3. CASE i = j
        <5>1. y.reminder /\ y.event = x.event /\ y.ch = x.ch
          BY <2>4, <3>1, <4>1, <4>3 DEF Written
        <5>2. p = Loop
          BY <1>0, <5>1 DEF HandOf, Reminding
        <5>3. y = x
          BY <2>2, <5>1, <5>2
        <5>4. plan'[Loop] = plan[Loop] \ {x}
          BY <1>0, <4>1, <5>2, <5>3, HandTyped DEF Written, AddRow
        <5> QED BY <5>4
      <4> QED BY <4>2, <4>3
    <3>3. CASE \A j \in DOMAIN rows' : j \in DOMAIN rows /\ SameRow(j)
      BY <2>4, <3>1, <3>3 DEF SameRow, Reminders
    <3> QED BY <1>0, <3>2, <3>3, RowsOf
  <2> QED BY <2>1, <2>2, <2>3, <2>4
<1> QED BY <1>1, <1>3

\* A row is written that was planned due.
LEMMA SpacedStep ==
  ASSUME SpacedInv, [Next]_vars
  PROVE  RemindersSpaced'
<1>0. TypeOK /\ ReferencesExist /\ Loop \in Procs /\ \A p \in Procs : HandOf(p)
  BY HandTyped DEF SpacedInv, HandInv
<1>1. CASE \E p \in Procs : \E x \in plan[p] : \E i \in RowIds : Written(p, x, i)
  <2>0. PICK p \in Procs : \E x \in plan[p] : \E i \in RowIds : Written(p, x, i)
    BY <1>1
  <2>1. PICK x \in plan[p], n \in RowIds : Written(p, x, n)
    BY <2>0
  <2>2. /\ n \notin DOMAIN rows /\ DOMAIN rows' = DOMAIN rows \cup {n} /\ \A j \in DOMAIN rows : rows'[j] = rows[j]
        /\ rows'[n].event = x.event /\ rows'[n].ch = x.ch /\ rows'[n].at = view[p].at /\ rows'[n].reminder = x.reminder
    BY <2>1 DEF Written
  <2>3. ASSUME NEW i \in DOMAIN rows, x.reminder, rows[i].reminder, rows[i].event = x.event, rows[i].ch = x.ch
        PROVE  rows'[n].at - rows[i].at >= RemindEvery
    <3>1. p = Loop /\ Reminding(Loop)
      BY <1>0, <2>3 DEF HandOf, Reminding
    <3>2. i \in Reminders(x.event)
      BY <2>3 DEF Reminders
    <3> QED BY <2>2, <2>3, <3>1, <3>2 DEF SpacedInv, PlannedAreDue
  <2>4. \A i, j \in DOMAIN rows : i # j /\ rows[i].reminder /\ rows[j].reminder
            /\ rows[i].event = rows[j].event /\ rows[i].ch = rows[j].ch
          => rows[j].at - rows[i].at >= RemindEvery \/ rows[i].at - rows[j].at >= RemindEvery
    BY DEF SpacedInv, RemindersSpaced
  <2> QED BY <2>2, <2>3, <2>4 DEF RemindersSpaced
<1>2. CASE \A i \in DOMAIN rows' : i \in DOMAIN rows /\ SameRow(i)
  BY <1>2 DEF SpacedInv, RemindersSpaced, SameRow
<1> QED BY <1>0, <1>1, <1>2, RowsOf

\* Reminders of one event to one channel are an interval apart, whatever the
\* order of the other steps, and across restarts: the loop plans them from the
\* rows alone (reminders.go, due).
THEOREM RemindersAreSpaced == Spec => []RemindersSpaced
<1>1. Init => PlannedAreDue /\ RemindersSpaced
  BY DEF Init, PlannedAreDue, Reminding, RemindersSpaced, Procs
<1>2. SpacedInv /\ [Next]_vars => PlannedAreDue' /\ RemindersSpaced'
  BY PlannedStep, SpacedStep
<1> QED BY <1>1, <1>2, HandInvHolds, PTL DEF Spec, SpacedInv

-----------------------------------------------------------------------------
(* Who heard an alert hears its end. *)

\* The loop tells of the last event of an alert, unless its host is deleted.
TellsTheLast ==
  \A e \in InHand(Loop) : events[e].key \in AlertKeys /\ e \notin gone =>
    \A f \in Live : events[f].key = events[e].key => f <= e

\* What the view of a notice lacks was off.
OffIsExcused ==
  pc[Loop] = "notify" => \A e \in batch[Loop], c \in Channels \ view[Loop].on : <<e, c>> \in unowed

\* Once the rows of an end are planned, every listener has one, or will.
EndIsTold ==
  \A e \in Live \ batch[Loop] :
    events[e].key \in AlertKeys /\ events[e].kind = "resolved" =>
      \A c \in FiredChannels(events[e].key, e) :
        \/ \E i \in DOMAIN rows : rows[i].event = e /\ rows[i].ch = c
        \/ \E x \in plan[Loop] : x.event = e /\ x.ch = c
        \/ <<e, c>> \in unowed

EndInv == HandInv /\ TellsTheLast /\ OffIsExcused /\ EndIsTold

\* To enqueue changes nothing of the journal and nothing in hand, and to notify
\* only adds excuses.
LEMMA ProcessFrame ==
  ASSUME NEW p
  PROVE  /\ Enqueuing(p) => UNCHANGED <<events, gone, unowed, batch, plan>>
         /\ Notifying(p) => UNCHANGED <<events, gone>> /\ unowed \subseteq unowed'
<1>1. Lock(p) \/ Unlock(p) \/ EnqueueReturns(p) => UNCHANGED <<events, gone, unowed, batch, plan>>
  BY DEF Lock, Unlock, EnqueueReturns, tables, history
<1>2. EnqueueOne(p) => UNCHANGED <<events, gone, unowed, batch, plan>>
  BY DEF EnqueueOne, tables, history
<1>3. (\E id \in RowIds : RecordDrop(p, id)) => UNCHANGED <<events, gone, unowed, batch, plan>>
  BY DEF RecordDrop, history
<1>4. NotifyStart(p) => UNCHANGED <<events, gone>> /\ unowed \subseteq unowed'
  BY DEF NotifyStart, tables
<1>5. (\E e \in EventIds : NextEvent(p, e)) => UNCHANGED <<events, gone>> /\ unowed \subseteq unowed'
  BY DEF NextEvent, tables, history
<1>6. (\E x \in plan[p] : AddRow(p, x)) => UNCHANGED <<events, gone>> /\ unowed \subseteq unowed'
  BY DEF AddRow, history
<1> QED BY <1>1, <1>2, <1>3, <1>4, <1>5, <1>6 DEF Enqueuing, Notifying

\* Deleted events stay deleted, and what nobody is owed is never owed again.
LEMMA HistoryGrows ==
  ASSUME TypeOK, [Next]_vars
  PROVE  gone \subseteq gone' /\ unowed \subseteq unowed'
<1>1. CASE \E p \in Procs : Notifying(p) \/ Enqueuing(p) \/ \E k \in Keys : Journal(p, k)
  BY <1>1, ProcessFrame DEF Journal, history
<1>2. CASE LoopStep
  BY <1>2 DEF LoopStep, ReplayStart, ReleaseStart, Settle, SettledNothing, RemindStart, RemindGuardrails, tables, history
<1>3. CASE Purge \/ Stop \/ Boot \/ Tick \/ UNCHANGED vars
  BY <1>3 DEF Purge, Stop, Boot, Tick, vars, tables, history
<1>4. CASE WorkerStep
  BY <1>4 DEF WorkerStep, Pop, Wait, Woken, Send, Backoff, Record, tables, history
<1>5. CASE People
  BY <1>5 DEF People, SetEnabled, SetQuiet, SetRoute, SetMuted, DeleteHost, DeleteRule, tables, history
<1> QED BY <1>1, <1>2, <1>3, <1>4, <1>5 DEF Next

\* The journal grows by one event at its end.
Journalled(p, k) ==
  /\ Journal(p, k) /\ Len(events) + 1 \in Nat /\ DOMAIN events' = DOMAIN events \cup {Len(events) + 1}
  /\ \A e \in DOMAIN events : e \in Nat /\ e < Len(events) + 1 /\ events'[e] = events[e]
  /\ events'[Len(events) + 1].key = k

\* Journal appends one event of its key.
LEMMA JournalIs ==
  ASSUME TypeOK, NEW p \in Procs, NEW k \in Keys, Journal(p, k)
  PROVE  Journalled(p, k)
<1> DEFINE e1 == [key |-> k, kind |-> NextKind(k), at |-> now]
<1>1. e1 \in Event /\ events \in Seq(Event) /\ e1.key = k
  BY DEF TypeOK, TablesOK, Event, NextKind
<1>2. events' = Append(events, e1)
  BY DEF Journal
<1> HIDE DEF e1
<1>3. /\ Len(events') = Len(events) + 1 /\ events' \in Seq(Event) /\ events'[Len(events) + 1] = e1
      /\ \A j \in 1..Len(events) : events'[j] = events[j]
  BY <1>1, <1>2, AppendProperties
<1> QED BY <1>1, <1>3, LenProperties DEF Journalled

\* Only Journal adds events.
LEMMA EventsOf ==
  ASSUME TypeOK, [Next]_vars
  PROVE  events' = events \/ \E p \in Procs : \E k \in Keys : Journalled(p, k)
<1>1. CASE \E p \in Procs : \E k \in Keys : Journal(p, k)
  BY <1>1, JournalIs
<1>2. CASE \E p \in Procs : Notifying(p) \/ Enqueuing(p)
  BY <1>2, ProcessFrame
<1>3. CASE LoopStep
  BY <1>3 DEF LoopStep, ReplayStart, ReleaseStart, Settle, SettledNothing, RemindStart, RemindGuardrails, tables
<1>4. CASE Purge \/ Stop \/ Boot \/ Tick \/ UNCHANGED vars
  BY <1>4 DEF Purge, Stop, Boot, Tick, vars, tables
<1>5. CASE WorkerStep
  BY <1>5 DEF WorkerStep, Pop, Wait, Woken, Send, Backoff, Record, tables
<1>6. CASE People
  BY <1>6 DEF People, SetEnabled, SetQuiet, SetRoute, SetMuted, DeleteHost, DeleteRule, tables
<1> QED BY <1>1, <1>2, <1>3, <1>4, <1>5, <1>6 DEF Next

\* No alert is a guardrail.
LEMMA KeysApart == ASSUME NEW k \in AlertKeys PROVE k \notin GuardKeys
BY NotifyAssumption

\* What the loop takes in hand is the last of its key.
LEMMA HandOfLoop ==
  ASSUME HandInv, [Next]_vars, NEW e \in InHand(Loop)'
  PROVE  \/ e \in InHand(Loop)
         \/ \E k \in Keys : Journalled(Loop, k) /\ e = Len(events) + 1
         \/ e \in LastEvents /\ events' = events /\ gone' = gone
<1>0. TypeOK /\ ReferencesExist /\ Loop \in Procs
  BY HandTyped DEF HandInv
<1>1. CASE \E p \in Procs : Notifying(p) \/ Enqueuing(p) \/ \E k \in Keys : Journal(p, k)
  <2>1. PICK p \in Procs : Notifying(p) \/ Enqueuing(p) \/ \E k \in Keys : Journal(p, k)
    BY <1>1
  <2>2. CASE p # Loop
    <3>1. batch'[Loop] = batch[Loop] /\ plan'[Loop] = plan[Loop]
      BY <1>0, <2>1, <2>2, HandTyped
         DEF Notifying, Enqueuing, Journal, NotifyStart, NextEvent, AddRow, Lock, EnqueueOne, Unlock, RecordDrop,
             EnqueueReturns
    <3> QED BY <3>1 DEF InHand
  <2>3. ASSUME p = Loop, NEW k \in Keys, Journal(p, k) PROVE e \in InHand(Loop) \/ (Journalled(Loop, k) /\ e = Len(events) + 1)
    <3>1. batch'[Loop] = batch[Loop] \cup {Len(events) + 1} /\ plan' = plan
      BY <1>0, <2>3, HandTyped DEF Journal
    <3> QED BY <1>0, <2>3, <3>1, JournalIs DEF InHand
  <2>4. CASE p = Loop /\ NotifyStart(p)
    <3>1. batch'[Loop] \subseteq batch[Loop] /\ plan' = plan
      BY <1>0, <2>4, HandTyped DEF NotifyStart
    <3> QED BY <3>1 DEF InHand
  <2>5. ASSUME p = Loop, NEW d \in EventIds, NextEvent(p, d) PROVE e \in InHand(Loop)
    <3>1. /\ \A x \in TransitionEntries(view[p], d) : x.event = d
          /\ \A x \in ReminderEntries(view[p], d) : x.event = d
      BY DEF TransitionEntries, ReminderEntries
    <3>2. d \in batch[Loop] /\ batch'[Loop] \subseteq batch[Loop] /\ \A x \in plan'[Loop] : x.event = d
      BY <1>0, <2>5, <3>1, HandTyped DEF NextEvent
    <3> QED BY <3>2 DEF InHand
  <2>6. CASE p = Loop /\ \E x \in plan[p] : AddRow(p, x)
    <3>1. batch' = batch /\ plan'[Loop] \subseteq plan[Loop]
      BY <1>0, <2>6, HandTyped DEF AddRow
    <3> QED BY <3>1 DEF InHand
  <2>7. CASE Enqueuing(p)
    <3>1. batch' = batch /\ plan' = plan
      BY <2>7 DEF Enqueuing, Lock, EnqueueOne, Unlock, RecordDrop, EnqueueReturns
    <3> QED BY <3>1 DEF InHand
  <2> QED BY <2>1, <2>2, <2>3, <2>4, <2>5, <2>6, <2>7 DEF Notifying
<1>2. CASE RemindStart \/ RemindGuardrails
  <2>1. /\ batch'[Loop] \subseteq batch[Loop] \cup LastEvents /\ plan' = plan
        /\ events' = events /\ gone' = gone
    BY <1>0, <1>2, HandTyped DEF RemindStart, RemindGuardrails, tables
  <2> QED BY <2>1 DEF InHand
<1>3. CASE LoopStep /\ ~RemindStart /\ ~RemindGuardrails
  <2>1. batch' = batch /\ plan' = plan
    BY <1>3 DEF LoopStep, ReplayStart, ReleaseStart, Settle, SettledNothing
  <2> QED BY <2>1 DEF InHand
<1>4. CASE Purge \/ WorkerStep \/ Stop \/ People \/ Tick \/ UNCHANGED vars
  <2>1. batch' = batch /\ plan' = plan
    BY <1>4 DEF Purge, WorkerStep, Pop, Wait, Woken, Send, Backoff, Record, Stop, People, SetEnabled, SetQuiet,
                SetRoute, SetMuted, DeleteHost, DeleteRule, Tick, vars, procs
  <2> QED BY <2>1 DEF InHand
<1>5. CASE Boot
  BY <1>0, <1>5 DEF Boot, InHand
<1> QED BY <1>1, <1>2, <1>3, <1>4, <1>5 DEF Next

\* Only the loop journals alerts, after it has told of the ones before.
LEMMA TellsTheLastStep ==
  ASSUME EndInv, [Next]_vars
  PROVE  TellsTheLast'
<1> SUFFICES ASSUME NEW e \in InHand(Loop)', events'[e].key \in AlertKeys, e \notin gone',
                    NEW f \in Live', events'[f].key = events'[e].key
             PROVE  f <= e
  BY DEF TellsTheLast
<1>0. HandInv /\ TypeOK /\ ReferencesExist /\ Loop \in Procs /\ \A p \in Procs : HandOf(p)
  BY HandTyped DEF EndInv, HandInv
<1>1. gone \subseteq gone' /\ f \in DOMAIN events' /\ f \notin gone
  BY <1>0, HistoryGrows DEF Live
<1>2. CASE e \in InHand(Loop)
  <2>1. events'[e] = events[e] /\ \A g \in Live : events[g].key = events[e].key => g <= e
    BY <1>0, <1>1, <1>2, HandTyped DEF EndInv, TellsTheLast
  <2>2. CASE f \in DOMAIN events
    <3>1. events'[f] = events[f]
      BY <1>0, <2>2, JournalEffect
    <3> QED BY <1>1, <2>1, <2>2, <3>1 DEF Live
  <2>3. CASE f \notin DOMAIN events
    <3>1. PICK p \in Procs : \E k \in Keys : Journalled(p, k)
      BY <1>0, <1>1, <2>3, EventsOf
    <3>2. PICK k \in Keys : Journalled(p, k)
      BY <3>1
    <3>3. events'[f].key = k
      BY <1>1, <2>3, <3>2 DEF Journalled
    <3>4. p = Loop /\ pc[Loop] \in {"idle", "journal"} /\ \A d \in batch[Loop] : events[d].key # k
      BY <3>2, <3>3 DEF Journalled, Journal
    <3>5. plan[Loop] = {}
      BY <1>0, <3>4 DEF HandOf, Reminding
    <3> QED BY <1>2, <2>1, <3>3, <3>4, <3>5 DEF InHand
  <2> QED BY <2>2, <2>3
<1>3. CASE \E k \in Keys : Journalled(Loop, k) /\ e = Len(events) + 1
  BY <1>1, <1>3 DEF Journalled
<1>4. CASE e \in LastEvents /\ events' = events /\ gone' = gone
  <2>1. f \in Live /\ e \in DOMAIN events /\ f \in Nat /\ e \in Nat
    BY <1>0, <1>1, <1>4, LenProperties DEF Live, LastEvents, TypeOK, TablesOK
  <2> QED BY <1>4, <2>1 DEF LastEvents
<1> QED BY <1>0, <1>2, <1>3, <1>4, HandOfLoop

\* The view is taken when the notice starts, and kept until it ends.
LEMMA OffIsExcusedStep ==
  ASSUME EndInv, [Next]_vars
  PROVE  OffIsExcused'
<1> SUFFICES ASSUME pc'[Loop] = "notify", NEW e \in batch'[Loop], NEW c \in Channels \ view'[Loop].on
             PROVE  <<e, c>> \in unowed'
  BY DEF OffIsExcused
<1>0. TypeOK /\ Loop \in Procs /\ unowed \subseteq unowed'
  BY HandTyped, HistoryGrows DEF EndInv, HandInv
<1>1. CASE NotifyStart(Loop)
  <2>1. e \in batch[Loop] /\ view'[Loop].on = enabled /\ unowed' = unowed \cup (batch[Loop] \X (Channels \ enabled))
    BY <1>0, <1>1, HandTyped DEF NotifyStart, CurrentView, EndInv, HandInv
  <2> QED BY <2>1
<1>2. CASE ~NotifyStart(Loop)
  <2>1. pc[Loop] = "notify" /\ batch'[Loop] \subseteq batch[Loop] /\ view'[Loop] = view[Loop]
    <3>1. CASE \E p \in Procs : Notifying(p) \/ Enqueuing(p) \/ \E k \in Keys : Journal(p, k)
      <4>1. PICK p \in Procs : Notifying(p) \/ Enqueuing(p) \/ \E k \in Keys : Journal(p, k)
        BY <3>1
      <4>2. CASE p # Loop
        BY <1>0, <4>1, <4>2, HandTyped
           DEF EndInv, HandInv, Notifying, Enqueuing, Journal, NotifyStart, NextEvent, AddRow, Lock, EnqueueOne,
               Unlock, RecordDrop, EnqueueReturns, Continue
      <4>3. CASE p = Loop
        <5>1. pc \in [Procs -> Steps] /\ batch \in [Procs -> SUBSET EventIds]
          BY HandTyped DEF EndInv, HandInv
        <5>2. CASE \E k \in Keys : Journal(p, k)
          BY <1>0, <4>3, <5>1, <5>2 DEF Journal
        <5>3. CASE (\E d \in EventIds : NextEvent(p, d)) \/ \E x \in plan[p] : AddRow(p, x)
          <6>1. pc' = pc /\ view' = view
            BY <5>3 DEF NextEvent, AddRow
          <6>2. batch' = batch \/ \E d \in EventIds : batch' = [batch EXCEPT ![p] = @ \ {d}]
            BY <5>3 DEF NextEvent, AddRow
          <6> QED BY <1>0, <4>3, <5>1, <6>1, <6>2
        <5>4. CASE Enqueuing(p)
          BY <1>0, <4>3, <5>1, <5>4 DEF Enqueuing, Lock, EnqueueOne, Unlock, RecordDrop, EnqueueReturns, Continue
        <5> QED BY <1>2, <4>1, <4>3, <5>2, <5>3, <5>4 DEF Notifying
      <4> QED BY <4>2, <4>3
    <3>2. CASE LoopStep
      BY <1>0, <3>2, HandTyped
         DEF EndInv, HandInv, LoopStep, ReplayStart, ReleaseStart, Settle, SettledNothing, RemindStart,
             RemindGuardrails, Continue
    <3>3. CASE Purge \/ WorkerStep \/ Stop \/ People \/ Tick \/ UNCHANGED vars
      BY <3>3 DEF Purge, WorkerStep, Pop, Wait, Woken, Send, Backoff, Record, Stop, People, SetEnabled, SetQuiet,
                  SetRoute, SetMuted, DeleteHost, DeleteRule, Tick, vars, procs
    <3>4. CASE Boot
      BY <1>0, <3>4 DEF Boot
    <3> QED BY <3>1, <3>2, <3>3, <3>4 DEF Next
  <2> QED BY <1>0, <2>1 DEF EndInv, OffIsExcused
<1> QED BY <1>1, <1>2

\* A row goes only with its event, or is excused.
LEMMA RowsStay ==
  ASSUME TypeOK, [Next]_vars, NEW i \in DOMAIN rows
  PROVE  \/ i \in DOMAIN rows' /\ SameRow(i)
         \/ rows[i].event \in gone' \/ <<rows[i].event, rows[i].ch>> \in unowed'
<1> DEFINE Stays == i \in DOMAIN rows' /\ SameRow(i)
<1>1. ASSUME NEW id, NEW s, rows' = SetState(id, s) PROVE Stays
  BY <1>1, SetStateSame
<1>2. ASSUME rows' = rows PROVE Stays
  BY <1>2 DEF SameRow
<1>3. ASSUME NEW p \in Procs, NEW x \in plan[p], NEW n \in RowIds, Written(p, x, n) PROVE Stays
  BY <1>3 DEF Written, SameRow
<1>4. CASE Purge
  <2>1. PICK old : /\ rows' = [j \in DOMAIN rows \ old |-> rows[j]]
                   /\ unowed' = unowed \cup {<<rows[j].event, rows[j].ch>> : j \in old}
    BY <1>4 DEF Purge
  <2> QED BY <2>1 DEF SameRow
<1>5. ASSUME NEW k \in AlertKeys, DeleteHost(k)
      PROVE  Stays \/ rows[i].event \in gone'
  <2>1. PICK mine : /\ rows' = [j \in DOMAIN rows \ {j \in DOMAIN rows : rows[j].event \in mine} |-> rows[j]]
                    /\ gone' = gone \cup mine
    BY <1>5 DEF DeleteHost
  <2> QED BY <2>1 DEF SameRow
<1> HIDE DEF Stays
<1>6. ASSUME \E p \in Procs : Notifying(p) \/ Enqueuing(p) \/ \E k \in Keys : Journal(p, k)
      PROVE  Stays
  <2>1. PICK p \in Procs : Notifying(p) \/ Enqueuing(p) \/ \E k \in Keys : Journal(p, k)
    BY <1>6
  <2>2. CASE \E id \in RowIds : RecordDrop(p, id)
    BY <1>1, <2>2 DEF RecordDrop
  <2>3. CASE ~\E id \in RowIds : RecordDrop(p, id)
    <3>1. rows' = rows \/ (\E x \in plan[p] : AddRow(p, x) /\ x.event \notin gone)
      BY <2>1, <2>3 DEF Notifying, Enqueuing, Journal, NotifyStart, NextEvent, AddRow, Lock, EnqueueOne, Unlock,
                        EnqueueReturns, tables
    <3>2. ASSUME NEW x \in plan[p], AddRow(p, x), x.event \notin gone PROVE Stays
      <4>1. \E n \in RowIds : Written(p, x, n)
        BY <3>2, AddRowWrites
      <4> QED BY <1>3, <4>1
    <3> QED BY <1>2, <3>1, <3>2
  <2> QED BY <2>2, <2>3
<1>7. ASSUME LoopStep PROVE Stays
  <2>1. rows' = rows \/ \E id, s : rows' = SetState(id, s)
    BY <1>7 DEF LoopStep, ReplayStart, ReleaseStart, Settle, SettledNothing, RemindStart, RemindGuardrails, tables
  <2> QED BY <1>1, <1>2, <2>1
<1>8. ASSUME WorkerStep \/ Stop \/ Boot \/ Tick \/ UNCHANGED vars PROVE Stays
  <2>1. rows' = rows \/ \E id, s : rows' = SetState(id, s)
    BY <1>8 DEF WorkerStep, Pop, Wait, Woken, Send, Backoff, Record, Stop, Boot, Tick, vars, tables
  <2> QED BY <1>1, <1>2, <2>1
<1>9. ASSUME People, ~\E k \in AlertKeys : DeleteHost(k) PROVE Stays
  <2>1. rows' = rows
    BY <1>9 DEF People, SetEnabled, SetQuiet, SetRoute, SetMuted, DeleteRule, tables
  <2> QED BY <1>2, <2>1
<1>10. Stays \/ rows[i].event \in gone' \/ <<rows[i].event, rows[i].ch>> \in unowed'
  BY <1>4, <1>5, <1>6, <1>7, <1>8, <1>9 DEF Next, Stays
<1> QED BY <1>10 DEF Stays

\* Who was owed the start of an alert that ended was owed it before: the loop
\* writes no more rows of it.
LEMMA ListenersWereThere ==
  ASSUME EndInv, [Next]_vars, NEW e \in Live', e \in Live, events[e].key \in AlertKeys, events[e].kind = "resolved",
         NEW c \in FiredChannels(events[e].key, e)'
  PROVE  c \in FiredChannels(events[e].key, e)
<1> DEFINE k == events[e].key
           fired == {d \in Live : d <= e /\ events[d].key = k /\ events[d].kind = "fired"}
<1>0. HandInv /\ TypeOK /\ ReferencesExist /\ Loop \in Procs /\ \A p \in Procs : HandOf(p)
  BY HandTyped DEF EndInv, HandInv
<1>1. gone \subseteq gone' /\ e \in DOMAIN events /\ \A d \in DOMAIN events : d \in DOMAIN events' /\ events'[d] = events[d]
  BY <1>0, HistoryGrows, JournalEffect DEF Live
<1>2. fired' = {d \in Live' : d <= e /\ events'[d].key = k /\ events'[d].kind = "fired"}
  BY <1>1
<1>3. fired' = fired
  <2>1. \A d \in DOMAIN events' : d <= e => d \in DOMAIN events
    <3>1. CASE events' = events
      BY <3>1
    <3>2. ASSUME NEW p \in Procs, NEW l \in Keys, Journalled(p, l) PROVE \A d \in DOMAIN events' : d <= e => d \in DOMAIN events
      BY <1>1, <3>2 DEF Journalled
    <3> QED BY <1>0, <3>1, <3>2, EventsOf
  <2>2. \A d \in DOMAIN events : events[d].key = k /\ d \in gone' => d \in gone
    <3>1. gone' = gone \/ \E l \in AlertKeys : DeleteHost(l)
      <4>1. CASE \E p \in Procs : Notifying(p) \/ Enqueuing(p) \/ \E l \in Keys : Journal(p, l)
        BY <4>1, ProcessFrame DEF Journal
      <4>2. CASE LoopStep \/ Purge \/ WorkerStep \/ Stop \/ Boot \/ Tick \/ UNCHANGED vars
        BY <4>2 DEF LoopStep, ReplayStart, ReleaseStart, Settle, SettledNothing, RemindStart, RemindGuardrails, Purge,
                    WorkerStep, Pop, Wait, Woken, Send, Backoff, Record, Stop, Boot, Tick, vars, tables
      <4>3. CASE People
        BY <4>3 DEF People, SetEnabled, SetQuiet, SetRoute, SetMuted, DeleteRule, tables
      <4> QED BY <4>1, <4>2, <4>3 DEF Next
    <3>2. ASSUME NEW l \in AlertKeys, DeleteHost(l) PROVE \A d \in DOMAIN events : events[d].key = k /\ d \in gone' => d \in gone
      <4>1. gone' = gone \cup {d \in Live : events[d].key = l}
        BY <3>2 DEF DeleteHost
      <4>2. l # k
        BY <4>1 DEF Live
      <4> QED BY <4>1, <4>2
    <3> QED BY <3>1, <3>2
  <2> QED BY <1>1, <1>2, <2>1, <2>2 DEF Live
<1>4. PICK i \in DOMAIN rows' : /\ rows'[i].ch = c /\ rows'[i].event \in fired'
                                /\ \A d \in fired' : d <= rows'[i].event
  <2>1. FiredChannels(k, e)' = {rows'[i].ch : i \in {j \in DOMAIN rows' :
                                  rows'[j].event \in {d \in fired' : \A f \in fired' : f <= d}}}
    BY <1>1, <1>2 DEF FiredChannels
  <2> HIDE DEF fired
  <2> QED BY <1>1, <2>1
<1>5. CASE i \in DOMAIN rows /\ SameRow(i)
  <2>1. i \in {j \in DOMAIN rows : rows[j].event \in {d \in fired : \A f \in fired : f <= d}} /\ rows[i].ch = c
    BY <1>3, <1>4, <1>5 DEF SameRow
  <2>2. FiredChannels(k, e) = {rows[j].ch : j \in {j \in DOMAIN rows :
                                rows[j].event \in {d \in fired : \A f \in fired : f <= d}}}
    BY DEF FiredChannels
  <2> HIDE DEF fired, k
  <2>3. c \in FiredChannels(k, e)
    BY <2>1, <2>2
  <2> QED BY <2>3 DEF k
<1>6. ASSUME NEW p \in Procs, NEW x \in plan[p], NEW n \in RowIds, Written(p, x, n)
      PROVE  i \in DOMAIN rows /\ SameRow(i)
  <2>1. CASE i = n
    <3>1. rows'[i].event = x.event /\ x.event \in InHand(p) /\ x.event \notin gone
      BY <1>6, <2>1 DEF Written, InHand
    <3>2. x.event \in fired
      BY <1>3, <1>4, <3>1
    <3>3. p = Loop
      BY <1>0, <3>1, <3>2, KeysApart DEF HandOf
    <3>4. e <= x.event /\ x.event <= e
      BY <3>1, <3>2, <3>3 DEF EndInv, TellsTheLast, Live
    <3>5. e \in Int /\ x.event \in Int
      BY <1>0, <1>1, <3>2, LenProperties DEF TypeOK, TablesOK, Live
    <3>6. x.event = e
      BY <3>4, <3>5
    <3> QED BY <3>2, <3>6
  <2>2. CASE i # n
    BY <1>6, <2>2 DEF Written, SameRow
  <2> QED BY <2>1, <2>2
<1> QED BY <1>0, <1>5, <1>6, RowsOf

\* What the loop has planned it writes, unless a crash comes first.
LEMMA PlannedIsWritten ==
  ASSUME EndInv, [Next]_vars, NEW x \in plan[Loop], events[x.event].kind = "resolved"
  PROVE  \/ x \in plan'[Loop] \/ x.event \in gone' \/ <<x.event, x.ch>> \in unowed'
         \/ \E i \in DOMAIN rows' : rows'[i].event = x.event /\ rows'[i].ch = x.ch
<1>0. HandInv /\ TypeOK /\ Loop \in Procs /\ HandOf(Loop) /\ x.ch \in Channels
  BY HandTyped DEF EndInv, HandInv, Entry
<1>1. pc[Loop] = "notify"
  BY <1>0 DEF HandOf, InHand
<1>2. CASE \E p \in Procs : Notifying(p) \/ Enqueuing(p) \/ \E k \in Keys : Journal(p, k)
  <2>1. PICK p \in Procs : Notifying(p) \/ Enqueuing(p) \/ \E k \in Keys : Journal(p, k)
    BY <1>2
  <2>2. CASE p # Loop
    <3>1. plan'[Loop] = plan[Loop]
      BY <1>0, <2>1, <2>2, HandTyped
         DEF HandInv, Notifying, Enqueuing, Journal, NotifyStart, NextEvent, AddRow, Lock, EnqueueOne, Unlock,
             RecordDrop, EnqueueReturns
    <3> QED BY <3>1
  <2>3. ASSUME p = Loop, NEW y \in plan[Loop], AddRow(Loop, y)
        PROVE  \/ x \in plan'[Loop] \/ x.event \in gone'
               \/ \E i \in DOMAIN rows' : rows'[i].event = x.event /\ rows'[i].ch = x.ch
    <3>1. plan'[Loop] = plan[Loop] \ {y} /\ gone' = gone
      BY <1>0, <2>3, HandTyped DEF HandInv, AddRow
    <3>2. CASE y.event \notin gone /\ y = x
      <4>1. PICK i \in RowIds : Written(Loop, x, i)
        BY <1>0, <2>3, <3>2, AddRowWrites
      <4> QED BY <4>1 DEF Written
    <3> QED BY <3>1, <3>2
  <2>4. CASE p = Loop /\ ~\E y \in plan[Loop] : AddRow(Loop, y)
    <3>1. plan' = plan
      BY <1>1, <2>1, <2>4
         DEF Notifying, Enqueuing, Journal, NotifyStart, NextEvent, Lock, EnqueueOne, Unlock, RecordDrop,
             EnqueueReturns
    <3> QED BY <3>1
  <2> QED BY <2>2, <2>3, <2>4
<1>3. CASE LoopStep
  BY <1>1, <1>3 DEF LoopStep, ReplayStart, ReleaseStart, Settle, SettledNothing, RemindStart, RemindGuardrails
<1>4. CASE Purge \/ WorkerStep \/ Stop \/ People \/ Tick \/ UNCHANGED vars
  <2>1. plan' = plan
    BY <1>4 DEF Purge, WorkerStep, Pop, Wait, Woken, Send, Backoff, Record, Stop, People, SetEnabled, SetQuiet,
                SetRoute, SetMuted, DeleteHost, DeleteRule, Tick, vars, procs
  <2> QED BY <2>1
<1>5. CASE Boot
  <2>1. x.event \in Unfinished({q \in Procs : pc[q] \in {"journal", "notify"}})
    BY <1>0, <1>1 DEF Unfinished
  <2>2. unowed' = unowed \cup (Unfinished({q \in Procs : pc[q] \in {"journal", "notify"}}) \X Channels)
    BY <1>5 DEF Boot
  <2> QED BY <1>0, <2>1, <2>2
<1> QED BY <1>2, <1>3, <1>4, <1>5 DEF Next

\* An end leaves the batch of the loop planned, or excused.
LEMMA BatchIsPlanned ==
  ASSUME EndInv, [Next]_vars, NEW e \in batch[Loop] \ batch'[Loop], e \in Live,
         events[e].key \in AlertKeys, events[e].kind = "resolved",
         NEW c \in FiredChannels(events[e].key, e)
  PROVE  (\E x \in plan'[Loop] : x.event = e /\ x.ch = c) \/ <<e, c>> \in unowed'
<1>0. HandInv /\ TypeOK /\ ReferencesExist /\ Loop \in Procs /\ HandOf(Loop) /\ unowed \subseteq unowed'
  BY HandTyped, HistoryGrows DEF EndInv, HandInv
<1>1. c \in Channels
  BY <1>0 DEF FiredChannels, TypeOK, TablesOK, Row
<1>2. pc[Loop] \in {"journal", "notify"}
  BY <1>0 DEF HandOf, InHand
<1>3. CASE NotifyStart(Loop)
  <2>1. enabled = {} /\ unowed' = unowed \cup (batch[Loop] \X (Channels \ enabled))
    BY <1>0, <1>3, HandTyped DEF NotifyStart
  <2> QED BY <1>1, <2>1
<1>4. CASE NextEvent(Loop, e)
  <2>1. pc[Loop] = "notify" /\ plan' = [plan EXCEPT ![Loop] = TransitionEntries(view[Loop], e)]
    BY <1>2, <1>4 DEF NextEvent, Live
  <2>2. plan'[Loop] = TransitionEntries(view[Loop], e)
    BY <1>0, <2>1, HandTyped
  <2>3. CASE c \in view[Loop].on
    <3>1. c \in Route(view[Loop], events[e].key, FiredChannels(events[e].key, e))
      BY <2>3 DEF Route
    <3>2. [event |-> e, ch |-> c, held |-> HoldFor(view[Loop], events[e].key, c), reminder |-> FALSE]
             \in TransitionEntries(view[Loop], e)
      BY <3>1 DEF TransitionEntries
    <3> QED BY <2>2, <3>2
  <2>4. CASE c \notin view[Loop].on
    BY <1>0, <1>1, <2>1, <2>4 DEF EndInv, OffIsExcused
  <2> QED BY <2>3, <2>4
<1>5. CASE Boot
  <2>1. e \in Unfinished({q \in Procs : pc[q] \in {"journal", "notify"}})
    BY <1>0, <1>2 DEF Unfinished
  <2>2. unowed' = unowed \cup (Unfinished({q \in Procs : pc[q] \in {"journal", "notify"}}) \X Channels)
    BY <1>5 DEF Boot
  <2> QED BY <1>1, <2>1, <2>2
<1>6. ASSUME ~NotifyStart(Loop), ~NextEvent(Loop, e), ~Boot PROVE e \in batch'[Loop]
  <2>1. CASE \E p \in Procs : Notifying(p) \/ Enqueuing(p) \/ \E k \in Keys : Journal(p, k)
    <3>1. PICK p \in Procs : Notifying(p) \/ Enqueuing(p) \/ \E k \in Keys : Journal(p, k)
      BY <2>1
    <3>2. ASSUME NEW d \in EventIds, NextEvent(p, d) PROVE e \in batch'[Loop]
      <4>1. batch' = [batch EXCEPT ![p] = @ \ {d}]
        BY <3>2 DEF NextEvent
      <4>2. p # Loop \/ d # e
        BY <1>6, <3>2
      <4> QED BY <1>0, <4>1, <4>2, HandTyped
    <3>3. CASE NotifyStart(p)
      BY <1>0, <1>6, <3>3, HandTyped DEF NotifyStart
    <3>4. CASE (\E x \in plan[p] : AddRow(p, x)) \/ Enqueuing(p)
      BY <3>4, ProcessFrame DEF AddRow
    <3>5. CASE \E k \in Keys : Journal(p, k)
      BY <1>0, <3>5, HandTyped DEF Journal
    <3> QED BY <3>1, <3>2, <3>3, <3>4, <3>5 DEF Notifying
  <2>2. CASE LoopStep
    BY <1>2, <2>2 DEF LoopStep, ReplayStart, ReleaseStart, Settle, SettledNothing, RemindStart, RemindGuardrails
  <2>3. CASE Purge \/ WorkerStep \/ Stop \/ People \/ Tick \/ UNCHANGED vars
    BY <2>3 DEF Purge, WorkerStep, Pop, Wait, Woken, Send, Backoff, Record, Stop, People, SetEnabled, SetQuiet,
                SetRoute, SetMuted, DeleteHost, DeleteRule, Tick, vars, procs
  <2> QED BY <1>6, <2>1, <2>2, <2>3 DEF Next
<1> QED BY <1>3, <1>4, <1>5, <1>6

\* An end that leaves the batch is planned for every listener, then written.
LEMMA EndIsToldStep ==
  ASSUME EndInv, [Next]_vars
  PROVE  EndIsTold'
<1> SUFFICES ASSUME NEW e \in Live', e \notin batch'[Loop], events'[e].key \in AlertKeys, events'[e].kind = "resolved",
                    NEW c \in FiredChannels(events[e].key, e)'
             PROVE  \/ \E i \in DOMAIN rows' : rows'[i].event = e /\ rows'[i].ch = c
                    \/ \E x \in plan'[Loop] : x.event = e /\ x.ch = c
                    \/ <<e, c>> \in unowed'
  BY DEF EndIsTold
<1>0. TypeOK /\ ReferencesExist /\ Loop \in Procs /\ gone \subseteq gone' /\ unowed \subseteq unowed' /\ e \notin gone'
  BY HandTyped, HistoryGrows DEF EndInv, HandInv, Live
<1>1. e \in DOMAIN events
  <2> SUFFICES ASSUME e \notin DOMAIN events PROVE FALSE
    OBVIOUS
  <2>1. PICK p \in Procs : \E k \in Keys : Journalled(p, k)
    BY <1>0, EventsOf DEF Live
  <2>2. PICK k \in Keys : Journalled(p, k)
    BY <2>1
  <2>3. e = Len(events) + 1 /\ events'[e].key = k
    BY <2>2 DEF Journalled, Live
  <2>4. e \in batch'[Loop]
    BY <1>0, <2>2, <2>3, HandTyped DEF Journalled, Journal
  <2> QED BY <2>4
<1>2. events'[e] = events[e] /\ e \in Live
  BY <1>0, <1>1, JournalEffect DEF Live
<1>3. c \in FiredChannels(events[e].key, e)
  BY <1>2, ListenersWereThere
<1>4. CASE e \in batch[Loop]
  BY <1>2, <1>3, <1>4, BatchIsPlanned
<1>5. CASE e \notin batch[Loop]
  <2>1. \/ \E i \in DOMAIN rows : rows[i].event = e /\ rows[i].ch = c
        \/ \E x \in plan[Loop] : x.event = e /\ x.ch = c
        \/ <<e, c>> \in unowed
    BY <1>2, <1>3, <1>5 DEF EndInv, EndIsTold
  <2>2. ASSUME NEW i \in DOMAIN rows, rows[i].event = e, rows[i].ch = c
        PROVE  <<e, c>> \in unowed' \/ \E j \in DOMAIN rows' : rows'[j].event = e /\ rows'[j].ch = c
    BY <1>0, <2>2, RowsStay DEF SameRow
  <2>3. ASSUME NEW x \in plan[Loop], x.event = e, x.ch = c
        PROVE  \/ \E i \in DOMAIN rows' : rows'[i].event = e /\ rows'[i].ch = c
               \/ \E y \in plan'[Loop] : y.event = e /\ y.ch = c
               \/ <<e, c>> \in unowed'
    BY <1>0, <1>2, <2>3, PlannedIsWritten
  <2> QED BY <1>0, <2>1, <2>2, <2>3
<1> QED BY <1>4, <1>5

\* The invariant behind ListenersHearTheEnd holds always.
LEMMA EndInvHolds == Spec => []EndInv
<1>1. Init => TellsTheLast /\ OffIsExcused /\ EndIsTold
  <2> SUFFICES ASSUME Init PROVE TellsTheLast /\ OffIsExcused /\ EndIsTold
    OBVIOUS
  <2>1. batch[Loop] = {} /\ plan[Loop] = {} /\ Live = {}
    <3>1. Loop \in Procs
      BY DEF Procs
    <3> QED BY <3>1 DEF Init, Live
  <2> QED BY <2>1 DEF TellsTheLast, OffIsExcused, EndIsTold, InHand
<1>2. EndInv /\ [Next]_vars => TellsTheLast' /\ OffIsExcused' /\ EndIsTold'
  BY TellsTheLastStep, OffIsExcusedStep, EndIsToldStep
<1> QED BY <1>1, <1>2, HandInvHolds, PTL DEF Spec, EndInv

\* A channel that was owed the start of an alert is owed its end, whatever
\* happens to the routes, the channels, the hub or the rows in between, with the
\* exceptions the property names (notify.go; deliveries.go, FiredChannels).
THEOREM EveryListenerHearsTheEnd == Spec => []ListenersHearTheEnd
<1>1. EndInv => ListenersHearTheEnd
  <2>1. Loop \in Procs
    BY DEF Procs
  <2>2. \A e : e \notin Unfinished(Procs) => e \notin batch[Loop] /\ \A x \in plan[Loop] : x.event # e
    BY <2>1 DEF Unfinished
  <2> QED BY <2>2 DEF EndInv, EndIsTold, ListenersHearTheEnd
<1> QED BY <1>1, EndInvHolds, PTL

-----------------------------------------------------------------------------
(* The end of an offline alert is heard last. *)

\* Events of the offline rule; an event and a later one of its key; the rows the
\* property excepts.
Status(e) == events[e].key \in StatusKeys
Sooner(e, f) == e < f /\ events[e].key = events[f].key
Excused == undropped \cup UNION {drops[p] : p \in Procs}

\* A row the message of event e must not overtake on channel c.
Waiting(i, e, c) ==
  /\ i \in DOMAIN rows \ Excused /\ rows[i].ch = c /\ rows[i].state = "pending"
  /\ Status(rows[i].event) /\ Sooner(rows[i].event, e)

\* The events of a host are deleted together, the earlier ones too.
GoneTogether == \A e \in gone, f \in DOMAIN events : Sooner(f, e) => f \in gone

\* Rows are written in the order of the events of their key, and go with them.
RowsInOrder ==
  /\ \A i \in DOMAIN rows : rows[i].event \notin gone
  /\ \A i, k \in DOMAIN rows : Status(rows[i].event) /\ Sooner(rows[i].event, rows[k].event) => i < k

\* Quiet hours hold nothing of the offline rule.
NeverHeld ==
  /\ \A i \in DOMAIN rows : Status(rows[i].event) => rows[i].state # "held"
  /\ \A p \in Procs : \A x \in plan[p] : Status(x.event) => ~x.held

\* Jobs and messages are of events that were journalled, those of the Azure
\* integration of guardrails.
JobsKnown ==
  /\ \A j \in CarriedJobs : j.event \in DOMAIN events
  /\ \A m \in heard : m.event \in DOMAIN events
  /\ \A p \in Syncs : \A a \in DOMAIN jobs[p] : events[jobs[p][a].event].key \in GuardKeys

\* Somewhere before place a of a sequence of jobs.
Before(q, a, i) == \E b \in DOMAIN q : b < a /\ q[b].id = i

InLine(i) == Working(i) \/ Has(queue, i)

\* What is pending has a carrier once the replay has begun, until the hub stops.
OnItsWay ==
  pc[Loop] # "boot" /\ worker.st # "stopped" =>
    \A i \in DOMAIN rows \ Excused : Status(rows[i].event) /\ rows[i].state = "pending" =>
      InLine(i) \/ Has(jobs[Loop], i) \/ Replaying(i)

\* The row another waits for is with the worker, or before it in the queue, or
\* before it among what the loop has to enqueue.
WorkerInOrder == worker.job # NoJob => \A i \in RowIds : ~Waiting(i, worker.job.event, worker.job.ch)

QueueInOrder ==
  worker.st # "stopped" => \A a \in DOMAIN queue, i \in RowIds :
    Waiting(i, queue[a].event, queue[a].ch) => Working(i) \/ Before(queue, a, i)

LoopInOrder ==
  worker.st # "stopped" => \A a \in DOMAIN jobs[Loop], i \in RowIds :
    Waiting(i, jobs[Loop][a].event, jobs[Loop][a].ch) =>
      InLine(i) \/ Before(jobs[Loop], a, i)

\* The invariant behind OfflineInOrder.
OrderInv == /\ EndInv /\ QuietBoot /\ GoneTogether /\ RowsInOrder /\ NeverHeld /\ JobsKnown
            /\ OnItsWay /\ WorkerInOrder /\ QueueInOrder /\ LoopInOrder

\* What the invariant says of types, in one place.
LEMMA OrderParts ==
  ASSUME OrderInv
  PROVE  /\ HandInv /\ TypeOK /\ ReferencesExist /\ Loop \in Procs
         /\ \A e \in DOMAIN events : e \in Nat
         /\ gone \subseteq DOMAIN events /\ \A p \in Procs : HandOf(p)
         /\ pc \in [Procs -> Steps] /\ jobs \in [Procs -> Seq(Job)] /\ drops \in [Procs -> SUBSET RowIds]
         /\ plan \in [Procs -> SUBSET Entry]
         /\ queue \in Seq(Job) /\ todo \subseteq RowIds
         /\ (worker.job = NoJob <=> worker.st \in {"looking", "asleep", "stopped"})
         /\ \A i \in DOMAIN rows : i \in RowIds /\ rows[i] \in Row /\ rows[i].event \in DOMAIN events
<1>1. HandInv /\ TypeOK /\ ReferencesExist /\ \A p \in Procs : HandOf(p)
  BY DEF OrderInv, EndInv, HandInv
<1>2. \A e \in DOMAIN events : e \in Nat
  BY <1>1, LenProperties DEF TypeOK, TablesOK
<1>3. plan \in [Procs -> SUBSET Entry] /\ gone \subseteq DOMAIN events
  BY <1>1 DEF TypeOK, ProcsOK, TablesOK
<1> QED BY <1>1, <1>2, <1>3, Parts DEF ReferencesExist

\* The journal says of an event what it said.
LEMMA EventsStay ==
  ASSUME TypeOK, [Next]_vars, NEW e \in DOMAIN events, NEW f \in DOMAIN events
  PROVE  (Sooner(e, f)' <=> Sooner(e, f)) /\ (Status(e)' <=> Status(e))
BY JournalEffect DEF Sooner, Status

\* Events are deleted with their host, all that there are.
LEMMA GoneOf ==
  ASSUME [Next]_vars
  PROVE  gone' = gone \/ \E k \in AlertKeys : DeleteHost(k)
<1>1. CASE \E p \in Procs : Notifying(p) \/ Enqueuing(p) \/ \E k \in Keys : Journal(p, k)
  BY <1>1, ProcessFrame DEF Journal
<1>2. CASE LoopStep
  BY <1>2 DEF LoopStep, ReplayStart, ReleaseStart, Settle, SettledNothing, RemindStart, RemindGuardrails, tables
<1>3. CASE Purge \/ Stop \/ Boot \/ Tick \/ UNCHANGED vars
  BY <1>3 DEF Purge, Stop, Boot, Tick, vars, tables
<1>4. CASE WorkerStep
  BY <1>4 DEF WorkerStep, Pop, Wait, Woken, Send, Backoff, Record, tables
<1>5. CASE People
  BY <1>5 DEF People, SetEnabled, SetQuiet, SetRoute, SetMuted, DeleteRule, tables
<1> QED BY <1>1, <1>2, <1>3, <1>4, <1>5 DEF Next

\* A host is deleted with all its events, and a new event comes after those.
LEMMA GoneTogetherStep ==
  ASSUME OrderInv, [Next]_vars
  PROVE  GoneTogether'
<1> SUFFICES ASSUME NEW e \in gone', NEW f \in DOMAIN events', Sooner(e, f)' \/ Sooner(f, e)', f < e, f \notin gone'
             PROVE  FALSE
  BY DEF GoneTogether, Sooner
<1>0. TypeOK /\ gone \subseteq DOMAIN events /\ \A d \in DOMAIN events : d \in Nat
  BY OrderParts
<1>1. gone' \subseteq DOMAIN events
  BY <1>0, GoneOf DEF DeleteHost, Live
<1>2. f \in DOMAIN events
  BY <1>0, <1>1, EventsOf DEF Journalled
<1>3. Sooner(f, e)
  BY <1>0, <1>1, <1>2, EventsStay DEF Sooner
<1>4. CASE gone' = gone
  BY <1>2, <1>3, <1>4 DEF OrderInv, GoneTogether
<1>5. ASSUME NEW k \in AlertKeys, DeleteHost(k) PROVE FALSE
  <2>1. gone' = gone \cup {d \in Live : events[d].key = k}
    BY <1>5 DEF DeleteHost
  <2> QED BY <1>2, <1>3, <2>1 DEF OrderInv, GoneTogether, Sooner, Live
<1> QED BY <1>4, <1>5, GoneOf

\* A row gets the largest id.
LEMMA NewRowIsLast ==
  ASSUME NEW p, NEW x, NEW i, Written(p, x, i), TypeOK
  PROVE  \A k \in DOMAIN rows : k < i
<1>1. PICK id \in RowIds : NextRow(id) /\ DOMAIN rows' = DOMAIN rows \cup {id}
  BY DEF Written, AddRow
<1>2. id \notin DOMAIN rows
  BY <1>1 DEF NextRow, RowIds
<1>3. id = i
  BY <1>1, <1>2 DEF Written
<1> QED BY <1>1, <1>3 DEF NextRow

\* A row about the offline rule is written by the loop, of the last event of its key.
LEMMA StatusRowIsLast ==
  ASSUME OrderInv, NEW p \in Procs, NEW x \in plan[p], NEW i \in RowIds, Written(p, x, i), Status(x.event)
  PROVE  /\ p = Loop /\ x.event \in DOMAIN events /\ x.event \notin gone
         /\ \A f \in DOMAIN events : ~Sooner(x.event, f)
<1>0. \A q \in Procs : HandOf(q)
  BY OrderParts
<1>1. x.event \in DOMAIN events /\ x.event \notin gone
  BY OrderParts DEF ReferencesExist, Written
<1>2. events[x.event].key \in AlertKeys /\ events[x.event].key \notin GuardKeys
  BY KeysApart DEF Status, AlertKeys
<1>3. p = Loop
  BY <1>0, <1>2 DEF HandOf, InHand
<1>4. ASSUME NEW f \in DOMAIN events, Sooner(x.event, f) PROVE FALSE
  <2>1. x.event \in Nat /\ f \in Nat
    BY <1>1, OrderParts
  <2>2. f \in gone
    BY <1>1, <1>2, <1>3, <1>4, <2>1 DEF OrderInv, EndInv, TellsTheLast, InHand, Live, Sooner
  <2> QED BY <1>1, <1>4, <2>2 DEF OrderInv, GoneTogether
<1> QED BY <1>1, <1>3, <1>4

\* The loop writes the rows of one transition before it journals the next.
LEMMA RowsInOrderStep ==
  ASSUME OrderInv, [Next]_vars
  PROVE  RowsInOrder'
<1>0. /\ TypeOK /\ ReferencesExist /\ \A d \in DOMAIN events : d \in Nat
      /\ \A i \in DOMAIN rows : i \in RowIds /\ rows[i].event \in DOMAIN events
  BY OrderParts
<1>1. ASSUME NEW p \in Procs, NEW x \in plan[p], NEW n \in RowIds, Written(p, x, n)
      PROVE  RowsInOrder'
  <2>1. events' = events /\ gone' = gone /\ DOMAIN rows' = DOMAIN rows \cup {n} /\ n \notin DOMAIN rows
        /\ rows'[n].event = x.event /\ \A i \in DOMAIN rows : rows'[i] = rows[i]
    BY <1>1 DEF Written, AddRow
  <2>2. x.event \notin gone /\ \A k \in DOMAIN rows : k < n
    BY <1>0, <1>1, NewRowIsLast DEF Written
  <2>3. \A i \in DOMAIN rows' : rows'[i].event \notin gone'
    BY <2>1, <2>2 DEF OrderInv, RowsInOrder
  <2>4. ASSUME NEW i \in DOMAIN rows', NEW k \in DOMAIN rows', Status(rows'[i].event), Sooner(rows'[i].event, rows'[k].event)
        PROVE  i < k
    <3>1. CASE i \in DOMAIN rows /\ k \in DOMAIN rows
      BY <2>1, <2>4, <3>1 DEF OrderInv, RowsInOrder
    <3>2. CASE i \in DOMAIN rows /\ k = n
      BY <2>2, <3>2
    <3>3. CASE i = n
      <4>1. Status(x.event) /\ x.event \in DOMAIN events
        BY <2>1, <2>4, <3>3, <1>0 DEF ReferencesExist
      <4>2. rows'[k].event \in DOMAIN events
        BY <1>0, <2>1, <4>1
      <4> QED BY <1>1, <2>1, <2>4, <3>3, <4>1, <4>2, StatusRowIsLast
    <3> QED BY <2>1, <3>1, <3>2, <3>3
  <2>5. \A e, f : (Sooner(e, f)' <=> Sooner(e, f)) /\ (Status(e)' <=> Status(e))
    BY <2>1 DEF Sooner, Status
  <2> QED BY <2>3, <2>4, <2>5 DEF RowsInOrder
<1>2. ASSUME \A i \in DOMAIN rows' : i \in DOMAIN rows /\ SameRow(i)
      PROVE  RowsInOrder'
  <2>1. ASSUME NEW i \in DOMAIN rows' PROVE rows'[i].event \notin gone'
    <3>1. i \in DOMAIN rows /\ rows'[i].event = rows[i].event /\ rows[i].event \in DOMAIN events \ gone
      BY <1>0, <1>2 DEF SameRow, OrderInv, RowsInOrder
    <3>2. CASE gone' = gone
      BY <3>1, <3>2
    <3>3. ASSUME NEW k \in AlertKeys, DeleteHost(k) PROVE rows'[i].event \notin gone'
      BY <3>1, <3>3 DEF DeleteHost
    <3> QED BY <3>2, <3>3, GoneOf
  <2>2. ASSUME NEW i \in DOMAIN rows', NEW k \in DOMAIN rows', Status(rows[i].event)', Sooner(rows[i].event, rows[k].event)'
        PROVE  i < k
    <3>1. /\ i \in DOMAIN rows /\ rows'[i].event = rows[i].event /\ rows[i].event \in DOMAIN events
          /\ k \in DOMAIN rows /\ rows'[k].event = rows[k].event /\ rows[k].event \in DOMAIN events
      BY <1>0, <1>2 DEF SameRow
    <3>2. events'[rows[i].event] = events[rows[i].event] /\ events'[rows[k].event] = events[rows[k].event]
      BY <1>0, <3>1, JournalEffect
    <3>3. Status(rows[i].event) /\ Sooner(rows[i].event, rows[k].event)
      BY <2>2, <3>1, <3>2 DEF Status, Sooner
    <3> QED BY <3>1, <3>3 DEF OrderInv, RowsInOrder
  <2> QED BY <2>1, <2>2 DEF RowsInOrder
<1> QED BY <1>0, <1>1, <1>2, RowsOf

\* A row that is released was held; any other change settles it.
LEMMA StateOf ==
  ASSUME TypeOK, [Next]_vars, NEW i \in DOMAIN rows, i \in DOMAIN rows'
  PROVE  rows'[i].state \in {rows[i].state, "sent", "failed"} \/ rows[i].state = "held"
<1> DEFINE Goal == rows'[i].state \in {rows[i].state, "sent", "failed"} \/ rows[i].state = "held"
<1>1. ASSUME NEW id, NEW s \in {"pending", "sent", "failed"}, rows' = SetState(id, s),
             s = "pending" => id \in DOMAIN rows /\ rows[id].state = "held"
      PROVE  Goal
  <2>1. i # id => rows'[i] = rows[i]
    BY <1>1, SetStateTyped
  <2>2. i = id => rows'[i].state = s
    BY <1>1, SetStateTyped
  <2> QED BY <1>1, <2>1, <2>2
<1>2. ASSUME NEW old, rows' = [k \in DOMAIN rows \ old |-> rows[k]] PROVE Goal
  BY <1>2
<1>3. ASSUME rows' = rows PROVE Goal
  BY <1>3
<1>4. ASSUME NEW p \in Procs, NEW x \in plan[p], AddRow(p, x) PROVE Goal
  <2>1. CASE x.event \in gone
    BY <1>3, <1>4, <2>1 DEF AddRow
  <2>2. CASE x.event \notin gone
    <3>1. PICK n \in RowIds : Written(p, x, n)
      BY <1>4, <2>2, AddRowWrites
    <3> QED BY <3>1 DEF Written
  <2> QED BY <2>1, <2>2
<1>5. ASSUME NEW id \in RowIds, Settle(id) PROVE Goal
  BY <1>1, <1>3, <1>5 DEF Settle
<1>6. ASSUME Record PROVE Goal
  BY <1>1, <1>6 DEF Record, Outcome
<1>7. CASE \E p \in Procs : Notifying(p) \/ Enqueuing(p) \/ \E k \in Keys : Journal(p, k)
  <2>1. PICK p \in Procs : Notifying(p) \/ Enqueuing(p) \/ \E k \in Keys : Journal(p, k)
    BY <1>7
  <2>2. CASE \E x \in plan[p] : AddRow(p, x)
    BY <1>4, <2>2
  <2>3. CASE \E id \in RowIds : RecordDrop(p, id)
    BY <1>1, <2>3 DEF RecordDrop
  <2>4. CASE \/ (\E k \in Keys : Journal(p, k)) \/ NotifyStart(p) \/ (\E e \in EventIds : NextEvent(p, e))
             \/ Lock(p) \/ EnqueueOne(p) \/ Unlock(p) \/ EnqueueReturns(p)
    <3>1. rows' = rows
      BY <2>4 DEF Journal, NotifyStart, NextEvent, Lock, EnqueueOne, Unlock, EnqueueReturns, tables
    <3> QED BY <1>3, <3>1
  <2> QED BY <2>1, <2>2, <2>3, <2>4 DEF Notifying, Enqueuing
<1>8. CASE Purge \/ \E k \in AlertKeys : DeleteHost(k)
  BY <1>2, <1>8 DEF Purge, DeleteHost
<1>9. CASE ReplayStart \/ ReleaseStart \/ SettledNothing \/ RemindStart \/ RemindGuardrails \/ Stop \/ Boot \/ Tick
           \/ UNCHANGED vars
  <2>1. rows' = rows
    BY <1>9 DEF ReplayStart, ReleaseStart, SettledNothing, RemindStart, RemindGuardrails, Stop, Boot, Tick, vars, tables
  <2> QED BY <1>3, <2>1
<1>10. CASE WorkerStep /\ ~Record
  <2>1. rows' = rows
    BY <1>10 DEF WorkerStep, Pop, Wait, Woken, Send, Backoff, tables
  <2> QED BY <1>3, <2>1
<1>11. CASE People /\ ~\E k \in AlertKeys : DeleteHost(k)
  <2>1. rows' = rows
    BY <1>11 DEF People, SetEnabled, SetQuiet, SetRoute, SetMuted, DeleteRule, tables
  <2> QED BY <1>3, <2>1
<1> QED BY <1>5, <1>6, <1>7, <1>8, <1>9, <1>10, <1>11 DEF Next, LoopStep

\* What a process plans is of an event it had in its batch, and never held for
\* the offline rule.
LEMMA PlanOf ==
  ASSUME OrderInv, [Next]_vars, NEW p \in Procs, NEW x \in plan'[p]
  PROVE  \/ x \in plan[p]
         \/ events' = events /\ x.event \in batch[p] /\ (Status(x.event) => ~x.held)
<1>0. /\ TypeOK /\ Loop \in Procs /\ plan \in [Procs -> SUBSET Entry]
  BY OrderParts
<1>1. ASSUME NEW q \in Procs, NEW e \in EventIds, NextEvent(q, e)
      PROVE  x \in plan[p] \/ (events' = events /\ x.event \in batch[p] /\ (Status(x.event) => ~x.held))
  <2>1. e \in batch[q] /\ events' = events
    BY <1>1 DEF NextEvent, tables
  <2>2. ASSUME NEW y \in TransitionEntries(view[q], e) PROVE y.event = e /\ (Status(e) => ~y.held)
    <3>1. PICK c : y = [event |-> e, ch |-> c, held |-> HoldFor(view[q], events[e].key, c), reminder |-> FALSE]
      BY DEF TransitionEntries
    <3>2. Status(e) => HoldFor(view[q], events[e].key, c) = FALSE
      BY DEF HoldFor, Status
    <3> QED BY <3>1, <3>2
  <2>3. \A y \in ReminderEntries(view[q], e) : y.event = e /\ ~y.held
    BY DEF ReminderEntries
  <2>4. p = q => plan'[p] \subseteq TransitionEntries(view[q], e) \cup ReminderEntries(view[q], e)
    BY <1>0, <1>1 DEF NextEvent
  <2>5. p # q => plan'[p] = plan[p]
    BY <1>0, <1>1 DEF NextEvent
  <2> QED BY <2>1, <2>2, <2>3, <2>4, <2>5
<1>2. ASSUME NEW q \in Procs, NEW y \in plan[q], AddRow(q, y) PROVE x \in plan[p]
  BY <1>0, <1>2 DEF AddRow
<1>3. ASSUME NEW q \in Procs, (\E k \in Keys : Journal(q, k)) \/ NotifyStart(q) \/ Enqueuing(q) PROVE x \in plan[p]
  BY <1>3, ProcessFrame DEF Journal, NotifyStart
<1>4. CASE LoopStep
  BY <1>4 DEF LoopStep, ReplayStart, ReleaseStart, Settle, SettledNothing, RemindStart, RemindGuardrails
<1>5. CASE Boot
  BY <1>5 DEF Boot
<1>6. CASE Purge \/ WorkerStep \/ Stop \/ People \/ Tick \/ UNCHANGED vars
  BY <1>6 DEF Purge, WorkerStep, Pop, Wait, Woken, Send, Backoff, Record, Stop, People, SetEnabled, SetQuiet,
              SetRoute, SetMuted, DeleteHost, DeleteRule, Tick, vars, procs
<1> QED BY <1>1, <1>2, <1>3, <1>4, <1>5, <1>6 DEF Next, Notifying

\* What plans, writes and releases never holds a row of the offline rule.
LEMMA NeverHeldStep ==
  ASSUME OrderInv, [Next]_vars
  PROVE  NeverHeld'
<1>0. /\ TypeOK /\ ReferencesExist /\ \A i \in DOMAIN rows : rows[i].event \in DOMAIN events
  BY OrderParts
<1>1. ASSUME NEW i \in DOMAIN rows', Status(rows[i].event)', i \in DOMAIN rows, SameRow(i)
      PROVE  rows'[i].state # "held"
  <2>1. Status(rows[i].event)
    <3>1. events'[rows[i].event] = events[rows[i].event] /\ rows'[i].event = rows[i].event
      BY <1>0, <1>1, JournalEffect DEF SameRow
    <3> QED BY <1>1, <3>1 DEF Status
  <2>2. rows[i].state # "held"
    BY <1>1, <2>1 DEF OrderInv, NeverHeld
  <2> QED BY <1>0, <1>1, <2>2, StateOf
<1>2. ASSUME NEW p \in Procs, NEW x \in plan[p], NEW n \in RowIds, Written(p, x, n), Status(rows[n].event)'
      PROVE  rows'[n].state # "held"
  <2>1. rows'[n].event = x.event /\ rows'[n].state = (IF x.held THEN "held" ELSE "pending") /\ events' = events
    BY <1>2 DEF Written, AddRow
  <2>2. Status(x.event)
    BY <1>2, <2>1 DEF Status
  <2>3. ~x.held
    BY <2>2 DEF OrderInv, NeverHeld
  <2> QED BY <2>1, <2>3
<1>3. \A i \in DOMAIN rows' : Status(rows[i].event)' => rows'[i].state # "held"
  <2> SUFFICES ASSUME NEW i \in DOMAIN rows', Status(rows[i].event)' PROVE rows'[i].state # "held"
    OBVIOUS
  <2>1. CASE \A k \in DOMAIN rows' : k \in DOMAIN rows /\ SameRow(k)
    BY <1>1, <2>1
  <2>2. ASSUME NEW p \in Procs, NEW x \in plan[p], NEW n \in RowIds, Written(p, x, n)
        PROVE  rows'[i].state # "held"
    <3>1. CASE i = n
      BY <1>2, <2>2, <3>1
    <3>2. CASE i # n
      <4>1. i \in DOMAIN rows /\ rows'[i] = rows[i]
        BY <2>2, <3>2 DEF Written
      <4>2. SameRow(i)
        BY <4>1 DEF SameRow
      <4> QED BY <1>1, <4>1, <4>2
    <3> QED BY <3>1, <3>2
  <2> QED BY <1>0, <2>1, <2>2, RowsOf
<1>4. ASSUME NEW p \in Procs, NEW x \in plan'[p], Status(x.event)' PROVE ~x.held
  <2>1. CASE x \in plan[p]
    <3>1. x.event \in DOMAIN events
      BY <1>0, <2>1 DEF ReferencesExist
    <3>2. Status(x.event)
      BY <1>0, <1>4, <3>1, JournalEffect DEF Status
    <3> QED BY <2>1, <3>2 DEF OrderInv, NeverHeld
  <2>2. CASE events' = events /\ x.event \in batch[p] /\ (Status(x.event) => ~x.held)
    BY <1>4, <2>2 DEF Status
  <2> QED BY <2>1, <2>2, PlanOf
<1> QED BY <1>3, <1>4 DEF NeverHeld

\* A channel takes what the worker is sending.
LEMMA HeardOf ==
  ASSUME [Next]_vars
  PROVE  heard' = heard \/ (worker.st = "sending" /\ heard' \subseteq heard \cup {MessageOf(worker.job)})
<1>1. CASE \E p \in Procs : Notifying(p) \/ Enqueuing(p) \/ \E k \in Keys : Journal(p, k)
  <2>1. \A p \in Procs : NotifyStart(p) => heard' = heard
    BY DEF NotifyStart, history
  <2>2. \A p \in Procs : /\ \A e \in EventIds : NextEvent(p, e) => heard' = heard
                         /\ \A x \in plan[p] : AddRow(p, x) => heard' = heard
    BY DEF NextEvent, AddRow, history
  <2>3. \A p \in Procs : Notifying(p) => heard' = heard
    BY <2>1, <2>2 DEF Notifying
  <2>4. \A p \in Procs : Enqueuing(p) => heard' = heard
    BY DEF Enqueuing, Lock, EnqueueOne, Unlock, RecordDrop, EnqueueReturns, history
  <2>5. \A p \in Procs : \A k : Journal(p, k) => heard' = heard
    BY DEF Journal, history
  <2> QED BY <1>1, <2>3, <2>4, <2>5
<1>2. CASE LoopStep
  BY <1>2 DEF LoopStep, ReplayStart, ReleaseStart, Settle, SettledNothing, RemindStart, RemindGuardrails, history
<1>3. CASE Purge \/ Stop \/ Boot \/ Tick \/ UNCHANGED vars
  BY <1>3 DEF Purge, Stop, Boot, Tick, vars, history
<1>4. CASE WorkerStep
  BY <1>4 DEF WorkerStep, Pop, Wait, Woken, Send, Backoff, Record, history
<1>5. CASE People
  BY <1>5 DEF People, SetEnabled, SetQuiet, SetRoute, SetMuted, DeleteHost, DeleteRule, history
<1> QED BY <1>1, <1>2, <1>3, <1>4, <1>5 DEF Next

\* The goroutines of the Azure integration get jobs for what they planned.
LEMMA SyncJobsOf ==
  ASSUME OrderInv, [Next]_vars, NEW p \in Syncs, NEW a \in DOMAIN jobs'[p]
  PROVE  \/ \E b \in DOMAIN jobs[p] : jobs'[p][a] = jobs[p][b]
         \/ \E x \in plan[p] : jobs'[p][a].event = x.event
<1>0. /\ TypeOK /\ ReferencesExist /\ Loop \in Procs /\ p \in Procs /\ p # Loop /\ jobs \in [Procs -> Seq(Job)]
  BY OrderParts, NotifyAssumption DEF Procs
<1> DEFINE Goal == \/ \E b \in DOMAIN jobs[p] : jobs'[p][a] = jobs[p][b]
                   \/ \E x \in plan[p] : jobs'[p][a].event = x.event
<1>1. ASSUME jobs'[p] = jobs[p] PROVE Goal
  BY <1>1
<1>2. ASSUME NEW q \in Procs, NEW x \in plan[q], AddRow(q, x) PROVE Goal
  <2>1. CASE q # p \/ x.event \in gone
    <3>1. jobs'[p] = jobs[p]
      BY <1>0, <1>2, <2>1 DEF AddRow
    <3> QED BY <1>1, <3>1
  <2>2. CASE q = p /\ x.event \notin gone
    <3>1. PICK id \in RowIds, r \in Row :
            r.event = x.event /\ jobs' \in {jobs, [jobs EXCEPT ![p] = Append(@, JobOf(id, r))]}
      BY <1>0, <1>2, <2>2, AddRowEffect
    <3>2. CASE jobs' = jobs
      BY <1>1, <3>2
    <3>3. CASE jobs'[p] = Append(jobs[p], JobOf(id, r))
      <4>1. JobOf(id, r).event = x.event
        BY <3>1 DEF JobOf
      <4>2. jobs[p] \in Seq(Job)
        BY <1>0
      <4>3. JobOf(id, r) \in Job
        BY <1>0, <1>2, <3>1, JobsTyped DEF ReferencesExist
      <4>4. (a \in DOMAIN jobs[p] /\ jobs'[p][a] = jobs[p][a]) \/ jobs'[p][a] = JobOf(id, r)
        <5> HIDE DEF Goal
        <5>1. DOMAIN jobs[p] = 1..Len(jobs[p]) /\ DOMAIN jobs'[p] = 1..(Len(jobs[p]) + 1) /\ Len(jobs[p]) \in Nat
          BY <3>3, <4>2, <4>3, AppendProperties, LenProperties
        <5>2. a \in 1..Len(jobs[p]) \/ a = Len(jobs[p]) + 1
          BY <5>1
        <5> QED BY <3>3, <4>2, <4>3, <5>1, <5>2, AppendProperties
      <4> QED BY <1>2, <2>2, <4>1, <4>4
    <3>4. jobs[p] \in Seq(Job)
      BY <1>0
    <3> QED BY <1>0, <3>1, <3>2, <3>3
  <2> QED BY <2>1, <2>2
<1>3. ASSUME NEW q \in Procs, EnqueueOne(q) PROVE Goal
  <2>1. CASE q # p
    <3>1. jobs'[p] = jobs[p]
      BY <1>0, <1>3, <2>1 DEF EnqueueOne
    <3> QED BY <1>1, <3>1
  <2>2. CASE q = p
    <3>1. jobs'[p] = Tail(jobs[p]) /\ \A j \in DOMAIN Tail(jobs[p]) :
            Tail(jobs[p])[j] = jobs[p][j + 1] /\ j + 1 \in DOMAIN jobs[p]
      BY <1>0, <1>3, <2>2, EnqueueEffect
    <3> QED BY <3>1
  <2> QED BY <2>1, <2>2
<1>4. ASSUME NEW q \in Procs, Enqueuing(q) /\ ~EnqueueOne(q) PROVE Goal
  <2>1. jobs' = jobs
    BY <1>4 DEF Enqueuing, Lock, Unlock, RecordDrop, EnqueueReturns
  <2> QED BY <1>1, <2>1
<1>5. ASSUME NEW q \in Procs, (\E k \in Keys : Journal(q, k)) \/ NotifyStart(q) \/ \E e \in EventIds : NextEvent(q, e)
      PROVE  Goal
  <2>1. jobs' = jobs
    BY <1>5 DEF Journal, NotifyStart, NextEvent
  <2> QED BY <1>1, <2>1
<1>6. ASSUME LoopStep PROVE Goal
  <2>1. jobs'[p] = jobs[p]
    BY <1>0, <1>6 DEF LoopStep, ReplayStart, ReleaseStart, Settle, SettledNothing, RemindStart, RemindGuardrails
  <2> QED BY <1>1, <2>1
<1>7. ASSUME Boot PROVE Goal
  <2>1. jobs'[p] = <<>>
    BY <1>0, <1>7 DEF Boot
  <2> QED BY <2>1
<1>8. ASSUME Purge \/ WorkerStep \/ Stop \/ People \/ Tick \/ UNCHANGED vars PROVE Goal
  <2>1. jobs' = jobs
    BY <1>8 DEF Purge, WorkerStep, Pop, Wait, Woken, Send, Backoff, Record, Stop, People, SetEnabled, SetQuiet,
                SetRoute, SetMuted, DeleteHost, DeleteRule, Tick, vars, procs
  <2> QED BY <1>1, <2>1
<1> HIDE DEF Goal
<1>9. Goal
  BY <1>2, <1>3, <1>4, <1>5, <1>6, <1>7, <1>8 DEF Next, Notifying
<1> QED BY <1>9 DEF Goal

\* A job and a message are built of a row, and a row of an event.
LEMMA JobsKnownStep ==
  ASSUME OrderInv, [Next]_vars
  PROVE  JobsKnown'
<1>0. /\ TypeOK /\ ReferencesExist /\ Loop \in Procs /\ \A q \in Procs : HandOf(q)
      /\ (worker.job = NoJob <=> worker.st \in {"looking", "asleep", "stopped"})
  BY OrderParts
<1>1. \A e \in DOMAIN events : e \in DOMAIN events' /\ events'[e] = events[e]
  BY <1>0, JournalEffect
<1>2. ASSUME NEW j \in CarriedJobs' PROVE j.event \in DOMAIN events
  <2>1. CASE j \in CarriedJobs
    BY <2>1 DEF OrderInv, JobsKnown
  <2>2. ASSUME NEW id \in DOMAIN rows', j = JobOf(id, rows'[id]), rows'[id].event \in DOMAIN events
        PROVE  j.event \in DOMAIN events
    BY <2>2 DEF JobOf
  <2>3. CASE \E id \in DOMAIN rows' : j = JobOf(id, rows'[id]) /\ rows'[id].event \in DOMAIN events
    BY <2>2, <2>3
  <2> QED BY <1>0, <2>1, <2>3, CarriedStep
<1>3. ASSUME NEW m \in heard' PROVE m.event \in DOMAIN events
  <2>1. CASE m \in heard
    BY <2>1 DEF OrderInv, JobsKnown
  <2>2. CASE worker.st = "sending" /\ m = MessageOf(worker.job)
    <3>1. worker.job \in CarriedJobs /\ m.event = worker.job.event
      BY <1>0, <2>2 DEF CarriedJobs, MessageOf
    <3> QED BY <3>1 DEF OrderInv, JobsKnown
  <2> QED BY <2>1, <2>2, HeardOf
<1>4. ASSUME NEW p \in Syncs, NEW a \in DOMAIN jobs'[p] PROVE events'[jobs'[p][a].event].key \in GuardKeys
  <2>0. p \in Procs /\ p # Loop
    BY NotifyAssumption DEF Procs
  <2>1. ASSUME NEW b \in DOMAIN jobs[p], jobs'[p][a] = jobs[p][b] PROVE events'[jobs'[p][a].event].key \in GuardKeys
    <3>1. jobs[p][b] \in CarriedJobs
      BY <2>0 DEF CarriedJobs
    <3>2. jobs[p][b].event \in DOMAIN events
      BY <3>1 DEF OrderInv, JobsKnown
    <3>3. events'[jobs[p][b].event] = events[jobs[p][b].event]
      BY <1>1, <3>2
    <3> QED BY <2>1, <3>3 DEF OrderInv, JobsKnown
  <2>2. ASSUME NEW x \in plan[p], jobs'[p][a].event = x.event PROVE events'[jobs'[p][a].event].key \in GuardKeys
    <3>1. x.event \in DOMAIN events
      BY <1>0, <2>0 DEF ReferencesExist
    <3>2. events[x.event].key \in GuardKeys
      BY <1>0, <2>0 DEF HandOf, InHand
    <3>3. events'[x.event] = events[x.event]
      BY <1>1, <3>1
    <3> QED BY <2>2, <3>2, <3>3
  <2> QED BY <2>1, <2>2, SyncJobsOf
<1> QED BY <1>1, <1>2, <1>3, <1>4 DEF JobsKnown

\* A drop is excused until it is recorded, and forever once a crash cuts it.
LEMMA ExcusedOf ==
  ASSUME TypeOK, [Next]_vars, NEW i \in Excused, i \notin Excused', i \in DOMAIN rows'
  PROVE  rows'[i].state = "failed"
<1>0. drops \in [Procs -> SUBSET RowIds]
  BY DEF TypeOK, ProcsOK
<1>1. ASSUME NEW p \in Procs, NEW id \in RowIds, RecordDrop(p, id)
      PROVE  rows'[i].state = "failed"
  <2>1. undropped' = undropped /\ drops' = [drops EXCEPT ![p] = @ \ {id}] /\ rows' = SetState(id, "failed")
    BY <1>1 DEF RecordDrop, history
  <2>2. i = id
    <3>1. CASE i \in undropped
      BY <2>1, <3>1 DEF Excused
    <3>2. ASSUME NEW q \in Procs, i \in drops[q] PROVE i = id
      <4>1. i \notin drops'[q]
        BY DEF Excused
      <4> QED BY <1>0, <2>1, <3>2, <4>1
    <3> QED BY <3>1, <3>2 DEF Excused
  <2>3. i \in DOMAIN rows /\ SetState(id, "failed")[i].state = "failed"
    BY <2>1, <2>2, SetStateTyped
  <2> QED BY <2>1, <2>3
<1>2. ASSUME \A p \in Procs : drops[p] \subseteq drops'[p], undropped \subseteq undropped' PROVE FALSE
  BY <1>2 DEF Excused
<1>3. CASE Boot
  <2>1. undropped' = undropped \cup UNION {drops[p] : p \in Procs}
    BY <1>3 DEF Boot
  <2> QED BY <2>1 DEF Excused
<1>4. ASSUME NEW p \in Procs, EnqueueOne(p) PROVE FALSE
  <2>1. undropped' = undropped /\ (drops' = drops \/ \E d : drops' = [drops EXCEPT ![p] = @ \cup {d}])
    BY <1>4 DEF EnqueueOne, history
  <2> QED BY <1>0, <1>2, <2>1
<1>5. ASSUME NEW p \in Procs, Notifying(p) \/ Lock(p) \/ Unlock(p) \/ EnqueueReturns(p) \/ \E k \in Keys : Journal(p, k)
      PROVE  FALSE
  <2>1. drops' = drops /\ undropped' = undropped
    BY <1>5 DEF Notifying, Journal, NotifyStart, NextEvent, AddRow, Lock, Unlock, EnqueueReturns, history
  <2> QED BY <1>2, <2>1
<1>6. CASE LoopStep
  BY <1>2, <1>6
     DEF LoopStep, ReplayStart, ReleaseStart, Settle, SettledNothing, RemindStart, RemindGuardrails, history
<1>7. CASE Purge \/ WorkerStep \/ Stop \/ People \/ Tick \/ UNCHANGED vars
  BY <1>2, <1>7 DEF Purge, WorkerStep, Pop, Wait, Woken, Send, Backoff, Record, Stop, People, SetEnabled, SetQuiet,
              SetRoute, SetMuted, DeleteHost, DeleteRule, Tick, vars, procs, history
<1> QED BY <1>1, <1>3, <1>4, <1>5, <1>6, <1>7 DEF Next, Enqueuing

\* A row of the offline rule that is pending after a step and not excused was so
\* before, or the loop has just written it.
LEMMA PendingOf ==
  ASSUME OrderInv, [Next]_vars, NEW i \in DOMAIN rows', i \notin Excused', Status(rows[i].event)', rows'[i].state = "pending"
  PROVE  \/ /\ i \in DOMAIN rows /\ i \notin Excused /\ SameRow(i) /\ rows[i].state = "pending"
            /\ Status(rows[i].event)
         \/ \E x \in plan[Loop] : i \in RowIds /\ Written(Loop, x, i) /\ Status(x.event)
<1>0. /\ TypeOK /\ ReferencesExist /\ \A k \in DOMAIN rows : rows[k].event \in DOMAIN events
  BY OrderParts
<1>1. ASSUME i \in DOMAIN rows, SameRow(i)
      PROVE  i \notin Excused /\ rows[i].state = "pending" /\ Status(rows[i].event)
  <2>1. i \notin Excused
    BY <1>0, ExcusedOf
  <2>2. Status(rows[i].event)
    <3>1. events'[rows[i].event] = events[rows[i].event] /\ rows'[i].event = rows[i].event
      BY <1>0, <1>1, JournalEffect DEF SameRow
    <3> QED BY <3>1 DEF Status
  <2>3. rows[i].state # "held"
    BY <1>1, <2>2 DEF OrderInv, NeverHeld
  <2> QED BY <1>0, <1>1, <2>1, <2>2, <2>3, StateOf
<1>2. ASSUME NEW p \in Procs, NEW x \in plan[p], NEW n \in RowIds, Written(p, x, n)
      PROVE  (i \in DOMAIN rows /\ SameRow(i)) \/ (i = n /\ p = Loop /\ Status(x.event))
  <2>1. CASE i # n
    BY <1>2, <2>1 DEF Written, SameRow
  <2>2. CASE i = n
    <3>1. rows'[n].event = x.event /\ events' = events
      BY <1>2 DEF Written, AddRow
    <3>2. Status(x.event)
      BY <2>2, <3>1 DEF Status
    <3> QED BY <1>2, <2>2, <3>2, StatusRowIsLast
  <2> QED BY <2>1, <2>2
<1> QED BY <1>0, <1>1, <1>2, RowsOf

\* No step makes a row wait for an event that was journalled before.
LEMMA WaitingOf ==
  ASSUME OrderInv, [Next]_vars, NEW e \in DOMAIN events, NEW i, NEW c, Waiting(i, e, c)'
  PROVE  Waiting(i, e, c)
<1>0. /\ TypeOK /\ \A k \in DOMAIN rows : rows[k].event \in DOMAIN events
  BY OrderParts
<1>1. i \in DOMAIN rows' /\ i \notin Excused' /\ Status(rows[i].event)' /\ rows'[i].state = "pending"
      /\ rows'[i].ch = c /\ Sooner(rows[i].event, e)'
  BY DEF Waiting
<1>2. CASE /\ i \in DOMAIN rows /\ i \notin Excused /\ SameRow(i) /\ rows[i].state = "pending"
           /\ Status(rows[i].event)
  <2>1. events'[rows[i].event] = events[rows[i].event] /\ rows'[i].event = rows[i].event /\ rows'[i].ch = rows[i].ch
        /\ events'[e] = events[e]
    BY <1>0, <1>2, JournalEffect DEF SameRow
  <2>2. Sooner(rows[i].event, e)
    BY <1>1, <2>1 DEF Sooner
  <2> QED BY <1>1, <1>2, <2>1, <2>2 DEF Waiting
<1>3. ASSUME NEW x \in plan[Loop], i \in RowIds, Written(Loop, x, i), Status(x.event) PROVE FALSE
  <2>1. rows'[i].event = x.event /\ events' = events
    BY <1>3 DEF Written, AddRow
  <2>2. Sooner(x.event, e)
    BY <1>1, <2>1 DEF Sooner
  <2>3. Loop \in Procs
    BY OrderParts
  <2> QED BY <1>3, <2>2, <2>3, StatusRowIsLast
<1> QED BY <1>1, <1>2, <1>3, PendingOf

\* A job at the end of a sequence comes after all that are in it ...
LEMMA BeforeAppended ==
  ASSUME NEW q \in Seq(Job), NEW j \in Job
  PROVE  \A a \in DOMAIN Append(q, j) : \A i :
           \/ a \in DOMAIN q /\ Append(q, j)[a] = q[a] /\ (Before(q, a, i) => Before(Append(q, j), a, i))
           \/ Append(q, j)[a] = j /\ (Has(q, i) => Before(Append(q, j), a, i))
<1>1. /\ DOMAIN q = 1..Len(q) /\ DOMAIN Append(q, j) = 1..(Len(q) + 1) /\ Len(q) \in Nat
      /\ Append(q, j)[Len(q) + 1] = j /\ \A b \in 1..Len(q) : Append(q, j)[b] = q[b]
  BY AppendProperties, LenProperties
<1> DEFINE r == Append(q, j)
<1> HIDE DEF r
<1>2. \A b \in DOMAIN q : b \in DOMAIN r /\ r[b] = q[b] /\ b < Len(q) + 1
  BY <1>1 DEF r
<1>3. \A a \in DOMAIN r : a \in DOMAIN q \/ a = Len(q) + 1
  BY <1>1 DEF r
<1>4. ASSUME NEW a \in DOMAIN r, NEW i
      PROVE  \/ a \in DOMAIN q /\ r[a] = q[a] /\ (Before(q, a, i) => Before(r, a, i))
             \/ r[a] = j /\ (Has(q, i) => Before(r, a, i))
  <2>1. r[Len(q) + 1] = j
    BY <1>1 DEF r
  <2>2. Before(q, a, i) => Before(r, a, i)
    BY <1>2 DEF Before
  <2>3. a = Len(q) + 1 /\ Has(q, i) => Before(r, a, i)
    BY <1>2 DEF Before, Has
  <2> QED BY <1>2, <1>3, <2>1, <2>2, <2>3
<1> QED BY <1>4 DEF r

\* ... nothing comes before the first, and the others follow each other as they did ...
LEMMA BeforeTail ==
  ASSUME NEW q \in Seq(Job), q # <<>>, NEW a \in DOMAIN Tail(q), NEW i
  PROVE  /\ a + 1 \in DOMAIN q /\ Tail(q)[a] = q[a + 1]
         /\ Before(q, a + 1, i) => Head(q).id = i \/ Before(Tail(q), a, i)
<1>1. /\ Tail(q) \in Seq(Job) /\ Len(Tail(q)) = Len(q) - 1 /\ Head(q) = q[1] /\ Len(q) \in Nat /\ Len(q) >= 1
      /\ \A b \in 1..Len(Tail(q)) : Tail(q)[b] = q[b + 1]
  OBVIOUS
<1>2. DOMAIN q = 1..Len(q) /\ DOMAIN Tail(q) = 1..(Len(q) - 1)
  BY <1>1, LenProperties
<1>3. a + 1 \in DOMAIN q /\ Tail(q)[a] = q[a + 1]
  BY <1>1, <1>2
<1>4. ASSUME NEW b \in DOMAIN q, b < a + 1, q[b].id = i, b # 1 PROVE Before(Tail(q), a, i)
  <2>1. b - 1 \in DOMAIN Tail(q) /\ b - 1 < a /\ Tail(q)[b - 1] = q[(b - 1) + 1] /\ (b - 1) + 1 = b
    BY <1>1, <1>2, <1>4
  <2> QED BY <1>4, <2>1 DEF Before
<1> QED BY <1>1, <1>3, <1>4 DEF Before

\* ... before the first of them nothing ...
LEMMA NothingBeforeFirst ==
  ASSUME NEW q \in Seq(Job), NEW i
  PROVE  ~Before(q, 1, i)
BY LenProperties DEF Before

\* ... also when one of them is dropped.
LEMMA BeforeRemoved ==
  ASSUME NEW q \in Seq(Job), NEW v \in 1..Len(q), NEW a \in DOMAIN RemoveAt(q, v)
  PROVE  \E d \in DOMAIN q : /\ RemoveAt(q, v)[a] = q[d]
                             /\ \A i : Before(q, d, i) => q[v].id = i \/ Before(RemoveAt(q, v), a, i)
<1> DEFINE r == RemoveAt(q, v)
           old == [b \in 1..(Len(q) - 1) |-> IF b < v THEN b ELSE b + 1]
<1>1. r \in Seq(Job) /\ Len(r) = Len(q) - 1 /\ \A b \in 1..(Len(q) - 1) : r[b] = IF b < v THEN q[b] ELSE q[b + 1]
  BY RemoveAtIs
<1> HIDE DEF r
<1>2. DOMAIN q = 1..Len(q) /\ DOMAIN r = 1..(Len(q) - 1) /\ Len(q) \in Nat /\ a \in DOMAIN r
  BY <1>1, LenProperties DEF r
<1>3. \A b \in DOMAIN r : old[b] \in DOMAIN q /\ r[b] = q[old[b]]
  BY <1>1, <1>2
<1>4. ASSUME NEW k \in DOMAIN q, k # v, k < old[a] PROVE \E b \in DOMAIN r : b < a /\ r[b] = q[k]
  <2>1. CASE k < v
    <3>1. k \in DOMAIN r /\ old[k] = k /\ k < a
      BY <1>2, <1>4, <2>1
    <3> QED BY <1>3, <3>1
  <2>2. CASE k > v
    <3>1. k - 1 \in DOMAIN r /\ old[k - 1] = k /\ k - 1 < a
      BY <1>2, <1>4, <2>2
    <3> QED BY <1>3, <3>1
  <2> QED BY <1>2, <1>4, <2>1, <2>2
<1> HIDE DEF old
<1>5. ASSUME NEW i, Before(q, old[a], i) PROVE q[v].id = i \/ Before(r, a, i)
  BY <1>4, <1>5 DEF Before
<1> QED BY <1>2, <1>3, <1>5 DEF r

\* Who gets the room in a full queue: what is dropped is excused.
LEMMA EnqueuePlaces ==
  ASSUME TypeOK, NEW p \in Procs, EnqueueOne(p)
  PROVE  /\ \A a \in DOMAIN queue' :
              \/ queue'[a] = Head(jobs[p]) /\ \A i : Has(queue, i) => i \in Excused' \/ Before(queue', a, i)
              \/ \E d \in DOMAIN queue : /\ queue'[a] = queue[d]
                                         /\ \A i : Before(queue, d, i) => i \in Excused' \/ Before(queue', a, i)
         /\ \A i : Has(queue, i) => i \in Excused' \/ Has(queue', i)
         /\ Has(queue', Head(jobs[p]).id)
<1> DEFINE h == Head(jobs[p])
           v == Victim(queue)
           kept == IF Len(queue) >= QueueCap THEN RemoveAt(queue, v) ELSE queue
<1>1. /\ jobs \in [Procs -> Seq(Job)] /\ drops \in [Procs -> SUBSET RowIds] /\ queue \in Seq(Job)
      /\ QueueCap \in Nat \ {0} /\ jobs[p] # <<>> /\ jobs[p] \in Seq(Job)
  BY Parts DEF EnqueueOne
<1>2. h \in Job
  BY <1>1
<1>3. queue' = Append(kept, h)
  BY DEF EnqueueOne
<1>4. /\ kept \in Seq(Job)
      /\ \A a \in DOMAIN kept : \E d \in DOMAIN queue :
           kept[a] = queue[d] /\ \A i : Before(queue, d, i) => i \in Excused' \/ Before(kept, a, i)
      /\ \A i : Has(queue, i) => i \in Excused' \/ Has(kept, i)
  <2>1. CASE Len(queue) >= QueueCap
    <3>1. v \in 1..Len(queue) /\ kept = RemoveAt(queue, v)
      BY <1>1, <2>1, VictimInQueue
    <3>2. queue[v].id \in Excused'
      <4>1. drops' = [drops EXCEPT ![p] = @ \cup {queue[v].id}]
        BY <2>1 DEF EnqueueOne
      <4>2. queue[v].id \in drops'[p]
        BY <1>1, <4>1
      <4> QED BY <4>2 DEF Excused
    <3> HIDE DEF v, kept
    <3>3. kept \in Seq(Job)
      BY <1>1, <3>1, RemoveAtIs
    <3>4. ASSUME NEW a \in DOMAIN kept
          PROVE  \E d \in DOMAIN queue :
                   kept[a] = queue[d] /\ \A i : Before(queue, d, i) => i \in Excused' \/ Before(kept, a, i)
      <4>1. PICK d \in DOMAIN queue : kept[a] = queue[d] /\ \A i : Before(queue, d, i) => queue[v].id = i \/ Before(kept, a, i)
        BY <1>1, <3>1, BeforeRemoved
      <4> QED BY <3>2, <4>1
    <3>5. ASSUME NEW i, Has(queue, i) PROVE i \in Excused' \/ Has(kept, i)
      BY <1>1, <3>1, <3>2, <3>5, HasRemove
    <3> QED BY <3>3, <3>4, <3>5
  <2>2. CASE ~(Len(queue) >= QueueCap)
    BY <1>1, <2>2
  <2> QED BY <2>1, <2>2
<1> HIDE DEF h, kept
<1>5. ASSUME NEW a \in DOMAIN queue'
      PROVE  \/ queue'[a] = h /\ \A i : Has(queue, i) => i \in Excused' \/ Before(queue', a, i)
             \/ \E d \in DOMAIN queue : /\ queue'[a] = queue[d]
                                        /\ \A i : Before(queue, d, i) => i \in Excused' \/ Before(queue', a, i)
  <2>1. \A i : \/ a \in DOMAIN kept /\ queue'[a] = kept[a] /\ (Before(kept, a, i) => Before(queue', a, i))
               \/ queue'[a] = h /\ (Has(kept, i) => Before(queue', a, i))
    BY <1>2, <1>3, <1>4, BeforeAppended
  <2>2. CASE a \in DOMAIN kept
    <3>1. queue'[a] = kept[a] /\ \A i : Before(kept, a, i) => Before(queue', a, i)
      <4>1. \A b \in DOMAIN kept : b \in DOMAIN queue' /\ queue'[b] = kept[b]
        BY <1>2, <1>3, <1>4, AppendProperties, LenProperties
      <4> QED BY <2>2, <4>1 DEF Before
    <3>2. PICK d \in DOMAIN queue :
            kept[a] = queue[d] /\ \A i : Before(queue, d, i) => i \in Excused' \/ Before(kept, a, i)
      BY <1>4, <2>2
    <3> QED BY <3>1, <3>2
  <2>3. CASE a \notin DOMAIN kept
    BY <1>4, <2>1, <2>3
  <2> QED BY <2>2, <2>3
<1>6. \A i : Has(queue', i) <=> Has(kept, i) \/ h.id = i
  BY <1>2, <1>3, <1>4, HasAppend
<1> QED BY <1>4, <1>5, <1>6 DEF h

-----------------------------------------------------------------------------
\* The worker and the queue change by steps of their own.
LEMMA DispatcherOf ==
  ASSUME [Next]_vars
  PROVE  /\ worker' = worker \/ WorkerStep \/ Boot
         /\ queue' = queue \/ Pop \/ Boot \/ \E p \in Procs : EnqueueOne(p)
<1>1. ASSUME NEW p \in Procs, Notifying(p) \/ \E k \in Keys : Journal(p, k)
      PROVE  worker' = worker /\ queue' = queue
  BY <1>1 DEF Notifying, Journal, NotifyStart, NextEvent, AddRow, dispatcher
<1>2. ASSUME NEW p \in Procs, Enqueuing(p)
      PROVE  worker' = worker /\ (queue' = queue \/ EnqueueOne(p))
  <2>1. CASE Lock(p) \/ Unlock(p)
    BY <2>1 DEF Lock, Unlock, dispatcher
  <2>2. CASE EnqueueOne(p)
    BY <2>2 DEF EnqueueOne
  <2>3. CASE EnqueueReturns(p)
    BY <2>3 DEF EnqueueReturns
  <2>4. CASE \E id \in RowIds : RecordDrop(p, id)
    BY <2>4 DEF RecordDrop, dispatcher
  <2> QED BY <1>2, <2>1, <2>2, <2>3, <2>4 DEF Enqueuing
<1>3. CASE LoopStep
  BY <1>3 DEF LoopStep, ReplayStart, ReleaseStart, Settle, SettledNothing, RemindStart, RemindGuardrails, dispatcher
<1>4. CASE Purge \/ Stop \/ Tick \/ UNCHANGED vars
  BY <1>4 DEF Purge, Stop, Tick, vars, dispatcher
<1>5. CASE WorkerStep
  BY <1>5 DEF WorkerStep, Pop, Wait, Woken, Send, Backoff, Record
<1>6. CASE People
  BY <1>6 DEF People, SetEnabled, SetQuiet, SetRoute, SetMuted, DeleteHost, DeleteRule, dispatcher
<1> QED BY <1>1, <1>2, <1>3, <1>4, <1>5, <1>6 DEF Next

\* What the worker works on it has taken from the queue; it gives it up when it is
\* recorded or the hub stops.
LEMMA WorkerOf ==
  ASSUME OrderInv, [Next]_vars, ~Boot
  PROVE  /\ worker'.job # NoJob => worker'.job = worker.job \/ Pop
         /\ worker'.st # "stopped" => worker.st # "stopped"
         /\ worker'.st # "stopped" /\ worker.job # NoJob /\ worker'.job # worker.job => Record
<1>0. /\ TypeOK /\ (worker.job = NoJob <=> worker.st \in {"looking", "asleep", "stopped"})
  BY OrderParts
<1>1. CASE worker' = worker
  BY <1>1
<1>2. CASE Pop \/ Wait \/ Woken
  BY <1>0, <1>2 DEF Pop, Wait, Woken, WorkerGoes
<1>3. CASE Backoff \/ \E r \in {"ok", "retryable", "refused", "cancelled"} : Send(r)
  <2>1. worker.st \in {"backoff", "sending"}
    BY <1>3 DEF Backoff, Send
  <2>2. \/ worker'.job = worker.job
        \/ worker'.job = NoJob /\ worker'.st = "stopped"
    BY <1>3 DEF Backoff, Send, WorkerGoes
  <2> QED BY <1>0, <2>1, <2>2
<1>4. CASE Record
  <2>1. worker.st \in {"accepted", "refused", "cancelled"} /\ worker'.job = NoJob
    BY <1>4 DEF Record, WorkerGoes
  <2> QED BY <1>4, <2>1
<1> QED BY <1>1, <1>2, <1>3, <1>4, DispatcherOf DEF WorkerStep

\* What is on its way stays so until it is settled, excused or the hub stops.
LEMMA InLineOf ==
  ASSUME OrderInv, [Next]_vars, ~Boot, NEW i \in DOMAIN rows', rows'[i].state = "pending", i \notin Excused', worker'.st # "stopped"
  PROVE  /\ Working(i) => Working(i)'
         /\ InLine(i) => InLine(i)'
<1>0. TypeOK /\ queue \in Seq(Job) /\ (worker.job = NoJob <=> worker.st \in {"looking", "asleep", "stopped"})
  BY OrderParts
<1>1. ASSUME Working(i) PROVE Working(i)'
  <2>1. CASE worker'.job = worker.job
    BY <1>1, <2>1 DEF Working
  <2>2. CASE worker'.job # worker.job
    <3>1. Record
      BY <1>1, <2>2, WorkerOf DEF Working
    <3>2. rows' = SetState(i, Outcome(worker.st))
      BY <1>1, <3>1 DEF Record, Working
    <3>3. rows'[i].state \in {"sent", "failed"}
      BY <1>0, <3>2, SetStateTyped DEF Outcome
    <3> QED BY <3>3
  <2> QED BY <2>1, <2>2
<1>2. ASSUME Has(queue, i) PROVE InLine(i)'
  <2>1. CASE queue' = queue
    BY <1>2, <2>1 DEF InLine
  <2>2. CASE Pop
    <3>1. queue # <<>> /\ queue' = Tail(queue) /\ worker'.job = Head(queue)
      BY <2>2 DEF Pop, WorkerGoes
    <3>2. Has(queue', i) \/ Head(queue).id = i
      BY <1>0, <1>2, <3>1, HasTail
    <3>3. Head(queue) # NoJob
      BY <1>0, <3>1, NotifyAssumption
    <3> QED BY <3>1, <3>2, <3>3 DEF InLine, Working
  <2>3. ASSUME NEW p \in Procs, EnqueueOne(p) PROVE InLine(i)'
    <3>1. i \in Excused' \/ Has(queue', i)
      BY <1>0, <1>2, <2>3, EnqueuePlaces
    <3> QED BY <3>1 DEF InLine
  <2> QED BY <2>1, <2>2, <2>3, DispatcherOf
<1> QED BY <1>1, <1>2 DEF InLine

\* The worker pops the first of the queue, for which nothing waits before it.
LEMMA WorkerInOrderStep ==
  ASSUME OrderInv, [Next]_vars
  PROVE  WorkerInOrder'
<1> SUFFICES ASSUME worker'.job # NoJob, NEW i \in RowIds, Waiting(i, worker.job.event, worker.job.ch)'
             PROVE  FALSE
  BY DEF WorkerInOrder
<1>0. TypeOK /\ queue \in Seq(Job) /\ ~Boot
  <2>1. ~Boot
    BY DEF Boot, WorkerGoes
  <2> QED BY <2>1, OrderParts
<1>1. CASE worker'.job = worker.job
  <2>1. worker.job \in CarriedJobs
    BY <1>1 DEF CarriedJobs
  <2>2. worker.job.event \in DOMAIN events
    BY <2>1 DEF OrderInv, JobsKnown
  <2>3. PICK e, c : e = worker.job.event /\ c = worker.job.ch
    OBVIOUS
  <2>4. Waiting(i, e, c)'
    BY <1>1, <2>3
  <2>5. Waiting(i, e, c)
    BY <2>2, <2>3, <2>4, WaitingOf
  <2> QED BY <1>1, <2>3, <2>5 DEF OrderInv, WorkerInOrder
<1>2. CASE Pop
  <2>1. queue # <<>> /\ worker'.job = Head(queue) /\ worker.st = "looking"
    BY <1>2 DEF Pop, WorkerGoes
  <2>2. 1 \in DOMAIN queue /\ Head(queue) = queue[1]
    BY <1>0, <2>1
  <2>3. queue[1] \in CarriedJobs
    BY <2>2 DEF CarriedJobs
  <2>4. queue[1].event \in DOMAIN events
    BY <2>3 DEF OrderInv, JobsKnown
  <2>5. PICK e, c : e = queue[1].event /\ c = queue[1].ch
    OBVIOUS
  <2>6. Waiting(i, e, c)'
    BY <2>1, <2>2, <2>5
  <2>7. Waiting(i, e, c)
    BY <2>4, <2>5, <2>6, WaitingOf
  <2>8. Working(i) \/ Before(queue, 1, i)
    BY <2>1, <2>2, <2>5, <2>7 DEF OrderInv, QueueInOrder
  <2>9. ~Working(i)
    BY <2>1, OrderParts DEF Working
  <2> QED BY <1>0, <2>8, <2>9, NothingBeforeFirst
<1> QED BY <1>0, <1>1, <1>2, WorkerOf

\* A job comes last in the queue, behind those the loop enqueued before it.
LEMMA QueueInOrderStep ==
  ASSUME OrderInv, [Next]_vars
  PROVE  QueueInOrder'
<1> SUFFICES ASSUME worker'.st # "stopped", NEW a \in DOMAIN queue', NEW i \in RowIds,
                    Waiting(i, queue[a].event, queue[a].ch)'
             PROVE  Working(i)' \/ Before(queue', a, i)
  BY DEF QueueInOrder
<1>0. /\ TypeOK /\ Loop \in Procs /\ queue \in Seq(Job) /\ jobs \in [Procs -> Seq(Job)] /\ ~Boot
      /\ (worker.job = NoJob <=> worker.st \in {"looking", "asleep", "stopped"})
  <2>1. ~Boot
    BY DEF Boot
  <2> QED BY <2>1, OrderParts
<1>1. PICK e, c : e = queue'[a].event /\ c = queue'[a].ch
  OBVIOUS
<1>2. Waiting(i, e, c)'
  BY <1>1
<1>3. /\ i \in DOMAIN rows' /\ rows'[i].state = "pending" /\ i \notin Excused'
      /\ worker.st # "stopped"
  BY <1>0, <1>2, WorkerOf DEF Waiting
<1>4. Working(i) => Working(i)'
  BY <1>0, <1>3, InLineOf
<1>5. ASSUME NEW d \in DOMAIN queue, queue'[a] = queue[d] PROVE Working(i) \/ Before(queue, d, i)
  <2>1. queue[d] \in CarriedJobs
    BY DEF CarriedJobs
  <2>2. e \in DOMAIN events
    BY <1>1, <1>5, <2>1 DEF OrderInv, JobsKnown
  <2>3. Waiting(i, e, c)
    BY <1>2, <2>2, WaitingOf
  <2> QED BY <1>1, <1>3, <1>5, <2>3 DEF OrderInv, QueueInOrder
<1>6. CASE queue' = queue
  BY <1>4, <1>5, <1>6
<1>7. CASE Pop
  <2>1. queue # <<>> /\ queue' = Tail(queue) /\ worker'.job = Head(queue) /\ worker.st = "looking"
    BY <1>7 DEF Pop, WorkerGoes
  <2>2. /\ a + 1 \in DOMAIN queue /\ queue'[a] = queue[a + 1]
        /\ Before(queue, a + 1, i) => Head(queue).id = i \/ Before(queue', a, i)
    BY <1>0, <2>1, BeforeTail
  <2>3. Working(i) \/ Before(queue, a + 1, i)
    BY <1>5, <2>2
  <2>4. Head(queue) # NoJob
    BY <1>0, <2>1, NotifyAssumption
  <2> QED BY <1>4, <2>1, <2>2, <2>3, <2>4 DEF Working
<1>8. ASSUME NEW p \in Procs, EnqueueOne(p) PROVE Working(i)' \/ Before(queue', a, i)
  <2>1. CASE \E d \in DOMAIN queue : /\ queue'[a] = queue[d]
                                     /\ \A k : Before(queue, d, k) => k \in Excused' \/ Before(queue', a, k)
    BY <1>3, <1>4, <1>5, <2>1
  <2>2. CASE queue'[a] = Head(jobs[p]) /\ \A k : Has(queue, k) => k \in Excused' \/ Before(queue', a, k)
    <3>1. jobs[p] # <<>> /\ jobs[p] \in Seq(Job)
      BY <1>0, <1>8 DEF EnqueueOne
    <3>2. 1 \in DOMAIN jobs[p] /\ Head(jobs[p]) = jobs[p][1]
      BY <3>1
    <3>3. jobs[p][1] \in CarriedJobs
      BY <3>2 DEF CarriedJobs
    <3>4. e \in DOMAIN events
      BY <1>1, <2>2, <3>2, <3>3 DEF OrderInv, JobsKnown
    <3>5. Waiting(i, e, c)
      BY <1>2, <3>4, WaitingOf
    <3>6. p = Loop
      <4>1. events[e].key \in StatusKeys
        BY <3>5 DEF Waiting, Status, Sooner
      <4>2. events[e].key \notin GuardKeys
        BY <4>1, KeysApart DEF AlertKeys
      <4>3. p \notin Syncs
        BY <1>1, <2>2, <3>2, <4>2 DEF OrderInv, JobsKnown
      <4> QED BY <4>3 DEF Procs
    <3>7. InLine(i) \/ Before(jobs[Loop], 1, i)
      BY <1>1, <1>3, <2>2, <3>2, <3>5, <3>6 DEF OrderInv, LoopInOrder
    <3>8. InLine(i)
      BY <3>1, <3>6, <3>7, NothingBeforeFirst
    <3> QED BY <1>3, <1>4, <2>2, <3>8 DEF InLine
  <2> QED BY <1>0, <1>8, <2>1, <2>2, EnqueuePlaces
<1> QED BY <1>0, <1>6, <1>7, <1>8, DispatcherOf

\* The loop gets a job for a row it writes, replays or releases.
LEMMA LoopJobsOf ==
  ASSUME OrderInv, [Next]_vars, ~Boot
  PROVE  \/ jobs'[Loop] = jobs[Loop]
         \/ EnqueueOne(Loop)
         \/ \E x \in plan[Loop] : \E n \in RowIds :
              /\ Written(Loop, x, n) /\ JobOf(n, rows'[n]) \in Job
              /\ jobs'[Loop] = Append(jobs[Loop], JobOf(n, rows'[n]))
         \/ \E n \in RowIds : /\ Settle(n) /\ n \in DOMAIN rows /\ JobOf(n, rows[n]) \in Job
                              /\ (pc[Loop] = "release" => rows[n].state = "held")
                              /\ jobs'[Loop] = Append(jobs[Loop], JobOf(n, rows[n]))
<1> DEFINE Goal == \/ jobs'[Loop] = jobs[Loop]
                   \/ EnqueueOne(Loop)
                   \/ \E x \in plan[Loop] : \E n \in RowIds :
                        /\ Written(Loop, x, n) /\ JobOf(n, rows'[n]) \in Job
                        /\ jobs'[Loop] = Append(jobs[Loop], JobOf(n, rows'[n]))
                   \/ \E n \in RowIds : /\ Settle(n) /\ n \in DOMAIN rows /\ JobOf(n, rows[n]) \in Job
                                        /\ (pc[Loop] = "release" => rows[n].state = "held")
                                        /\ jobs'[Loop] = Append(jobs[Loop], JobOf(n, rows[n]))
<1>0. /\ TypeOK /\ ReferencesExist /\ Loop \in Procs /\ jobs \in [Procs -> Seq(Job)]
      /\ plan \in [Procs -> SUBSET Entry]
  BY OrderParts
<1>1. ASSUME NEW q \in Procs, NEW x \in plan[q], AddRow(q, x) PROVE Goal
  <2>1. CASE q # Loop \/ x.event \in gone \/ x.held
    <3>1. jobs'[Loop] = jobs[Loop]
      BY <1>0, <1>1, <2>1 DEF AddRow
    <3> QED BY <3>1
  <2>2. CASE q = Loop /\ x.event \notin gone /\ ~x.held
    <3>1. PICK n \in RowIds :
            /\ NextRow(n)
            /\ rows' = [k \in DOMAIN rows \cup {n} |-> IF k = n THEN
                          [event |-> x.event, ch |-> x.ch, at |-> view[Loop].at, upd |-> view[Loop].at,
                           reminder |-> x.reminder, state |-> "pending"] ELSE rows[k]]
            /\ jobs' = [jobs EXCEPT ![Loop] = Append(@, JobOf(n,
                          [event |-> x.event, ch |-> x.ch, at |-> view[Loop].at, upd |-> view[Loop].at,
                           reminder |-> x.reminder, state |-> "pending"]))]
      BY <1>1, <2>2 DEF AddRow
    <3>2. n \notin DOMAIN rows
      BY <3>1 DEF NextRow, RowIds
    <3>3. rows'[n] = [event |-> x.event, ch |-> x.ch, at |-> view[Loop].at, upd |-> view[Loop].at,
                      reminder |-> x.reminder, state |-> "pending"]
      BY <3>1
    <3>4. Written(Loop, x, n)
      BY <1>1, <2>2, <3>1, <3>2, <3>3 DEF Written
    <3>5. jobs'[Loop] = Append(jobs[Loop], JobOf(n, rows'[n]))
      BY <1>0, <3>1, <3>3
    <3>6. JobOf(n, rows'[n]) \in Job
      <4>1. x \in Entry /\ view[Loop] \in View /\ x.event \in DOMAIN events
        BY <1>0, <1>1, <2>2 DEF TypeOK, ProcsOK, ReferencesExist
      <4>2. rows'[n] \in Row
        BY <3>3, <4>1 DEF Row, Entry, View
      <4> QED BY <1>0, <3>3, <4>1, <4>2, JobsTyped
    <3> QED BY <1>1, <2>2, <3>4, <3>5, <3>6
  <2> QED BY <2>1, <2>2
<1>2. ASSUME NEW n \in RowIds, Settle(n) PROVE Goal
  <2>1. CASE jobs' = jobs
    BY <2>1
  <2>2. CASE jobs' # jobs
    <3>1. n \in DOMAIN rows /\ (pc[Loop] = "release" => rows[n].state = "held")
          /\ jobs' = [jobs EXCEPT ![Loop] = Append(@, JobOf(n, rows[n]))]
      BY <1>2, <2>2 DEF Settle
    <3>2. JobOf(n, rows[n]) \in Job
      BY <1>0, <3>1, JobsTyped DEF TypeOK, TablesOK, ReferencesExist
    <3>3. jobs'[Loop] = Append(jobs[Loop], JobOf(n, rows[n]))
      BY <1>0, <3>1
    <3> QED BY <1>2, <3>1, <3>2, <3>3
  <2> QED BY <2>1, <2>2
<1>3. ASSUME NEW q \in Procs, EnqueueOne(q) PROVE Goal
  <2>1. q # Loop => jobs'[Loop] = jobs[Loop]
    BY <1>0, <1>3 DEF EnqueueOne
  <2> QED BY <1>3, <2>1
<1>4. ASSUME jobs' = jobs PROVE Goal
  BY <1>4
<1> HIDE DEF Goal
<1>5. ASSUME NEW q \in Procs, Enqueuing(q) /\ ~EnqueueOne(q) PROVE Goal
  <2>1. jobs' = jobs
    BY <1>5 DEF Enqueuing, Lock, Unlock, RecordDrop, EnqueueReturns
  <2> QED BY <1>4, <2>1
<1>6. ASSUME NEW q \in Procs, (\E k \in Keys : Journal(q, k)) \/ NotifyStart(q) \/ \E e \in EventIds : NextEvent(q, e)
      PROVE  Goal
  <2>1. jobs' = jobs
    BY <1>6 DEF Journal, NotifyStart, NextEvent
  <2> QED BY <1>4, <2>1
<1>7. ASSUME LoopStep PROVE Goal
  <2>1. CASE \E n \in RowIds : Settle(n)
    BY <1>2, <2>1
  <2>2. CASE ReplayStart \/ ReleaseStart \/ SettledNothing \/ RemindStart \/ RemindGuardrails
    <3>1. jobs' = jobs
      BY <2>2 DEF ReplayStart, ReleaseStart, SettledNothing, RemindStart, RemindGuardrails
    <3> QED BY <1>4, <3>1
  <2> QED BY <1>7, <2>1, <2>2 DEF LoopStep
<1>8. ASSUME Purge \/ WorkerStep \/ Stop \/ People \/ Tick \/ UNCHANGED vars PROVE Goal
  <2>1. jobs' = jobs
    BY <1>8 DEF Purge, WorkerStep, Pop, Wait, Woken, Send, Backoff, Record, Stop, People, SetEnabled, SetQuiet,
                SetRoute, SetMuted, DeleteHost, DeleteRule, Tick, vars, procs
  <2> QED BY <1>4, <2>1
<1>9. Goal
  BY <1>1, <1>3, <1>5, <1>6, <1>7, <1>8 DEF Next, Notifying
<1> QED BY <1>9 DEF Goal

\* A row waiting for another is on its way.
LEMMA WaitingIsOnItsWay ==
  ASSUME OrderInv, NEW i, NEW e, NEW c, Waiting(i, e, c), pc[Loop] # "boot", worker.st # "stopped"
  PROVE  InLine(i) \/ Has(jobs[Loop], i) \/ Replaying(i)
BY DEF Waiting, OrderInv, OnItsWay

\* The loop gets its jobs in the order of the rows.
LEMMA LoopInOrderStep ==
  ASSUME OrderInv, [Next]_vars
  PROVE  LoopInOrder'
<1> SUFFICES ASSUME worker'.st # "stopped", NEW a \in DOMAIN jobs'[Loop], NEW i \in RowIds,
                    Waiting(i, jobs[Loop][a].event, jobs[Loop][a].ch)'
             PROVE  InLine(i)' \/ Before(jobs'[Loop], a, i)
  BY DEF LoopInOrder
<1>0. /\ TypeOK /\ Loop \in Procs /\ jobs \in [Procs -> Seq(Job)] /\ jobs[Loop] \in Seq(Job) /\ ~Boot
      /\ \A k \in DOMAIN rows : k \in RowIds /\ rows[k].event \in DOMAIN events
  <2>1. ~Boot
    BY OrderParts DEF Boot
  <2> QED BY <2>1, OrderParts
<1>1. PICK e, c : e = jobs'[Loop][a].event /\ c = jobs'[Loop][a].ch
  OBVIOUS
<1>2. Waiting(i, e, c)'
  BY <1>1
<1>3. /\ i \in DOMAIN rows' /\ rows'[i].state = "pending" /\ i \notin Excused'
      /\ worker.st # "stopped"
  BY <1>0, <1>2, WorkerOf DEF Waiting
<1>4. InLine(i) => InLine(i)'
  BY <1>0, <1>3, InLineOf
<1>5. ASSUME NEW d \in DOMAIN jobs[Loop], jobs'[Loop][a] = jobs[Loop][d] PROVE InLine(i) \/ Before(jobs[Loop], d, i)
  <2>1. jobs[Loop][d] \in CarriedJobs
    BY <1>0 DEF CarriedJobs
  <2>2. e \in DOMAIN events
    BY <1>1, <1>5, <2>1 DEF OrderInv, JobsKnown
  <2>3. Waiting(i, e, c)
    BY <1>2, <2>2, WaitingOf
  <2> QED BY <1>1, <1>3, <1>5, <2>3 DEF OrderInv, LoopInOrder
<1>6. CASE jobs'[Loop] = jobs[Loop]
  BY <1>4, <1>5, <1>6
<1>7. CASE EnqueueOne(Loop)
  <2>1. jobs[Loop] # <<>> /\ jobs'[Loop] = Tail(jobs[Loop])
    BY <1>0, <1>7 DEF EnqueueOne
  <2>2. /\ a + 1 \in DOMAIN jobs[Loop] /\ jobs'[Loop][a] = jobs[Loop][a + 1]
        /\ Before(jobs[Loop], a + 1, i) => Head(jobs[Loop]).id = i \/ Before(jobs'[Loop], a, i)
    BY <1>0, <2>1, BeforeTail
  <2>3. InLine(i) \/ Before(jobs[Loop], a + 1, i)
    BY <1>5, <2>2
  <2>4. Has(queue', Head(jobs[Loop]).id)
    BY <1>0, <1>7, EnqueuePlaces
  <2> QED BY <1>4, <2>2, <2>3, <2>4 DEF InLine
<1>8. ASSUME NEW j \in Job, jobs'[Loop] = Append(jobs[Loop], j),
             jobs'[Loop][a] = j => InLine(i) \/ Has(jobs[Loop], i)
      PROVE  InLine(i)' \/ Before(jobs'[Loop], a, i)
  <2>1. \/ a \in DOMAIN jobs[Loop] /\ jobs'[Loop][a] = jobs[Loop][a]
           /\ (Before(jobs[Loop], a, i) => Before(jobs'[Loop], a, i))
        \/ jobs'[Loop][a] = j /\ (Has(jobs[Loop], i) => Before(jobs'[Loop], a, i))
    BY <1>0, <1>8, BeforeAppended
  <2> QED BY <1>4, <1>5, <1>8, <2>1
<1>9. ASSUME NEW x \in plan[Loop], NEW n \in RowIds, Written(Loop, x, n), JobOf(n, rows'[n]) \in Job,
             jobs'[Loop] = Append(jobs[Loop], JobOf(n, rows'[n]))
      PROVE  InLine(i)' \/ Before(jobs'[Loop], a, i)
  <2>1. ASSUME jobs'[Loop][a] = JobOf(n, rows'[n]) PROVE InLine(i) \/ Has(jobs[Loop], i)
    <3>1. e = x.event
      BY <1>1, <1>9, <2>1 DEF Written, JobOf
    <3>2. Waiting(i, e, c)
      BY <1>0, <1>2, <3>1, WaitingOf DEF TypeOK, OrderInv, EndInv, HandInv, ReferencesExist
    <3>3. pc[Loop] # "boot" /\ ~Replaying(i)
      BY <1>9 DEF Written, AddRow, Replaying
    <3> QED BY <1>3, <3>2, <3>3, WaitingIsOnItsWay
  <2> QED BY <1>8, <1>9, <2>1
<1>10. ASSUME NEW n \in RowIds, Settle(n), n \in DOMAIN rows, JobOf(n, rows[n]) \in Job,
              pc[Loop] = "release" => rows[n].state = "held",
              jobs'[Loop] = Append(jobs[Loop], JobOf(n, rows[n]))
       PROVE  InLine(i)' \/ Before(jobs'[Loop], a, i)
  <2>1. ASSUME jobs'[Loop][a] = JobOf(n, rows[n]) PROVE InLine(i) \/ Has(jobs[Loop], i)
    <3>1. e = rows[n].event /\ e \in DOMAIN events
      BY <1>0, <1>1, <1>10, <2>1 DEF JobOf
    <3>2. Waiting(i, e, c)
      BY <1>2, <3>1, WaitingOf
    <3>3. Status(rows[i].event) /\ Sooner(rows[i].event, rows[n].event) /\ Status(rows[n].event) /\ i \in DOMAIN rows
      BY <3>1, <3>2 DEF Waiting, Status, Sooner
    <3>4. pc[Loop] = "replay"
      BY <1>10, <3>3 DEF OrderInv, NeverHeld, Settle
    <3>5. i < n /\ i \in Nat /\ n \in Nat
      BY <1>10, <3>3 DEF OrderInv, RowsInOrder, RowIds
    <3>6. ~Replaying(i)
      BY <1>10, <3>5 DEF Settle, Replaying
    <3> QED BY <1>3, <3>2, <3>4, <3>6, WaitingIsOnItsWay
  <2> QED BY <1>8, <1>10, <2>1
<1> QED BY <1>0, <1>6, <1>7, <1>9, <1>10, LoopJobsOf

\* What the loop has to replay it has, until it gets its job or is retired.
LEMMA ReplayingOf ==
  ASSUME OrderInv, [Next]_vars, ~Boot, NEW i \in DOMAIN rows', rows'[i].state = "pending", Replaying(i)
  PROVE  Replaying(i)' \/ Has(jobs'[Loop], i)
<1>0. /\ TypeOK /\ ReferencesExist /\ Loop \in Procs /\ pc \in [Procs -> Steps] /\ pc[Loop] = "replay" /\ i \in todo
      /\ jobs \in [Procs -> Seq(Job)]
  BY OrderParts DEF Replaying
<1>1. ASSUME pc'[Loop] = pc[Loop], todo' = todo PROVE Replaying(i)'
  BY <1>0, <1>1 DEF Replaying
<1>2. ASSUME NEW n \in RowIds, Settle(n) PROVE Replaying(i)' \/ Has(jobs'[Loop], i)
  <2>1. pc' = pc /\ todo' = todo \ {n}
    BY <1>2 DEF Settle
  <2>2. CASE n # i
    BY <1>0, <2>1, <2>2 DEF Replaying
  <2>3. CASE n = i
    <3>1. i \in DOMAIN rows
      BY <1>2, <2>3, SetStateTyped, <1>0 DEF Settle
    <3>2. CASE jobs' = [jobs EXCEPT ![Loop] = Append(@, JobOf(i, rows[i]))]
      <4>1. JobOf(i, rows[i]) \in Job /\ JobOf(i, rows[i]).id = i
        BY <1>0, <1>2, <2>3, <3>1, JobsTyped DEF TypeOK, TablesOK, ReferencesExist, JobOf
      <4>2. jobs[Loop] \in Seq(Job) /\ jobs'[Loop] = Append(jobs[Loop], JobOf(i, rows[i]))
        BY <1>0, <3>2
      <4> QED BY <4>1, <4>2, HasAppend
    <3>3. CASE rows' = SetState(i, "failed")
      <4>1. rows'[i].state = "failed"
        BY <1>0, <3>1, <3>3, SetStateTyped
      <4> QED BY <4>1
    <3> QED BY <1>0, <1>2, <2>3, <3>1, <3>2, <3>3 DEF Settle
  <2> QED BY <2>2, <2>3
<1>3. ASSUME NEW p \in Procs, Notifying(p) \/ Enqueuing(p) \/ \E k \in Keys : Journal(p, k) PROVE Replaying(i)'
  <2>1. CASE p # Loop
    <3>1. pc'[Loop] = pc[Loop] /\ todo' = todo
      BY <1>0, <1>3, <2>1
         DEF Notifying, Enqueuing, Journal, NotifyStart, NextEvent, AddRow, Lock, EnqueueOne, Unlock, RecordDrop,
             EnqueueReturns, Continue
    <3> QED BY <1>1, <3>1
  <2>2. CASE p = Loop
    <3>1. FALSE
      BY <1>0, <1>3, <2>2
         DEF Notifying, Enqueuing, Journal, NotifyStart, NextEvent, AddRow, Lock, EnqueueOne, Unlock, RecordDrop,
             EnqueueReturns
    <3> QED BY <3>1
  <2> QED BY <2>1, <2>2
<1>4. CASE LoopStep
  <2>1. ~ReplayStart /\ ~ReleaseStart /\ ~SettledNothing /\ ~RemindStart /\ ~RemindGuardrails
    BY <1>0 DEF ReplayStart, ReleaseStart, SettledNothing, RemindStart, RemindGuardrails
  <2> QED BY <1>2, <1>4, <2>1 DEF LoopStep
<1>5. CASE Purge \/ WorkerStep \/ Stop \/ People \/ Tick \/ UNCHANGED vars
  <2>1. pc' = pc /\ todo' = todo
    BY <1>5 DEF Purge, WorkerStep, Pop, Wait, Woken, Send, Backoff, Record, Stop, People, SetEnabled, SetQuiet,
                SetRoute, SetMuted, DeleteHost, DeleteRule, Tick, vars, procs
  <2> QED BY <1>1, <2>1
<1> QED BY <1>3, <1>4, <1>5 DEF Next

\* The boot ends with the replay of what is pending.
LEMMA BootOf ==
  ASSUME OrderInv, [Next]_vars, ~Boot, pc[Loop] = "boot", pc'[Loop] # "boot"
  PROVE  ReplayStart
<1>0. Loop \in Procs /\ pc \in [Procs -> Steps]
  BY OrderParts
<1>1. ASSUME NEW p \in Procs, Notifying(p) \/ Enqueuing(p) \/ \E k \in Keys : Journal(p, k) PROVE FALSE
  <2>1. CASE p # Loop
    BY <1>0, <1>1, <2>1
       DEF Notifying, Enqueuing, Journal, NotifyStart, NextEvent, AddRow, Lock, EnqueueOne, Unlock, RecordDrop,
           EnqueueReturns, Continue
  <2>2. CASE p = Loop
    BY <1>0, <1>1, <2>2
       DEF Notifying, Enqueuing, Journal, NotifyStart, NextEvent, AddRow, Lock, EnqueueOne, Unlock, RecordDrop,
           EnqueueReturns
  <2> QED BY <2>1, <2>2
<1>2. CASE LoopStep
  BY <1>0, <1>2 DEF LoopStep, ReleaseStart, Settle, SettledNothing, RemindStart, RemindGuardrails
<1>3. CASE Purge \/ WorkerStep \/ Stop \/ People \/ Tick \/ UNCHANGED vars
  BY <1>3 DEF Purge, WorkerStep, Pop, Wait, Woken, Send, Backoff, Record, Stop, People, SetEnabled, SetQuiet,
              SetRoute, SetMuted, DeleteHost, DeleteRule, Tick, vars, procs
<1> QED BY <1>1, <1>2, <1>3 DEF Next

\* No step loses a pending row: a drop excuses it, a crash leaves it to the replay.
LEMMA OnItsWayStep ==
  ASSUME OrderInv, [Next]_vars
  PROVE  OnItsWay'
<1> SUFFICES ASSUME pc'[Loop] # "boot", worker'.st # "stopped", NEW i \in DOMAIN rows', i \notin Excused',
                    Status(rows[i].event)', rows'[i].state = "pending"
             PROVE  InLine(i)' \/ Has(jobs'[Loop], i) \/ Replaying(i)'
  BY DEF OnItsWay
<1>0. /\ TypeOK /\ Loop \in Procs /\ jobs \in [Procs -> Seq(Job)] /\ jobs[Loop] \in Seq(Job) /\ ~Boot
  <2>1. ~Boot
    BY OrderParts DEF Boot
  <2> QED BY <2>1, OrderParts
<1>1. worker.st # "stopped"
  BY <1>0, WorkerOf
<1>2. CASE i \in DOMAIN rows /\ i \notin Excused /\ rows[i].state = "pending" /\ Status(rows[i].event)
  <2>1. CASE pc[Loop] = "boot"
    <3>1. ReplayStart
      BY <1>0, <2>1, BootOf
    <3>2. i \in todo' /\ pc'[Loop] = "replay"
      BY <1>0, <1>2, <3>1, OrderParts DEF ReplayStart, PendingRows
    <3> QED BY <3>2 DEF Replaying
  <2>2. CASE pc[Loop] # "boot"
    <3>1. InLine(i) \/ Has(jobs[Loop], i) \/ Replaying(i)
      BY <1>1, <1>2, <2>2 DEF OrderInv, OnItsWay
    <3>2. CASE InLine(i)
      BY <1>0, <3>2, InLineOf
    <3>3. CASE Replaying(i)
      BY <1>0, <3>3, ReplayingOf
    <3>4. CASE Has(jobs[Loop], i)
      <4>1. CASE jobs'[Loop] = jobs[Loop]
        BY <3>4, <4>1
      <4>2. CASE EnqueueOne(Loop)
        <5>1. jobs[Loop] # <<>> /\ jobs'[Loop] = Tail(jobs[Loop])
          BY <1>0, <4>2 DEF EnqueueOne
        <5>2. Has(jobs'[Loop], i) \/ Head(jobs[Loop]).id = i
          BY <1>0, <3>4, <5>1, HasTail
        <5>3. Has(queue', Head(jobs[Loop]).id)
          BY <1>0, <4>2, EnqueuePlaces
        <5> QED BY <5>2, <5>3 DEF InLine
      <4>3. ASSUME NEW j \in Job, jobs'[Loop] = Append(jobs[Loop], j) PROVE Has(jobs'[Loop], i)
        BY <1>0, <3>4, <4>3, HasAppend
      <4> QED BY <1>0, <4>1, <4>2, <4>3, LoopJobsOf
    <3> QED BY <3>1, <3>2, <3>3, <3>4
  <2> QED BY <2>1, <2>2
<1>3. ASSUME NEW x \in plan[Loop], i \in RowIds, Written(Loop, x, i), Status(x.event) PROVE Has(jobs'[Loop], i)
  <2>1. ~x.held /\ x.event \notin gone /\ AddRow(Loop, x) /\ i \notin DOMAIN rows /\ DOMAIN rows' = DOMAIN rows \cup {i}
    BY <1>0, <1>3 DEF OrderInv, NeverHeld, Written
  <2>2. PICK n \in RowIds, r \in Row :
          /\ n \notin DOMAIN rows /\ DOMAIN rows' = DOMAIN rows \cup {n} /\ r.event = x.event
          /\ jobs' = [jobs EXCEPT ![Loop] = Append(@, JobOf(n, r))]
    <3>1. PICK n \in RowIds :
            LET r == [event |-> x.event, ch |-> x.ch, at |-> view[Loop].at, upd |-> view[Loop].at,
                      reminder |-> x.reminder, state |-> "pending"]
            IN  /\ NextRow(n) /\ DOMAIN rows' = DOMAIN rows \cup {n}
                /\ jobs' = [jobs EXCEPT ![Loop] = Append(@, JobOf(n, r))]
      BY <2>1 DEF AddRow
    <3>2. n \notin DOMAIN rows
      BY <3>1 DEF NextRow, RowIds
    <3>3. x \in Entry /\ view[Loop] \in View
      BY <1>0 DEF TypeOK, ProcsOK
    <3>4. [event |-> x.event, ch |-> x.ch, at |-> view[Loop].at, upd |-> view[Loop].at,
           reminder |-> x.reminder, state |-> "pending"] \in Row
      BY <3>3 DEF Row, Entry, View
    <3> QED BY <3>1, <3>2, <3>4
  <2>3. n = i
    BY <2>1, <2>2
  <2>4. JobOf(n, r) \in Job /\ JobOf(n, r).id = n
    BY <1>0, <2>2, JobsTyped DEF OrderInv, EndInv, HandInv, ReferencesExist, JobOf
  <2>5. jobs'[Loop] = Append(jobs[Loop], JobOf(n, r))
    BY <1>0, <2>2
  <2> QED BY <1>0, <2>3, <2>4, <2>5, HasAppend
<1> QED BY <1>2, <1>3, PendingOf

\* The invariant behind OfflineInOrder, but for who waits.
LEMMA OrderInvInit ==
  ASSUME Init
  PROVE  GoneTogether /\ RowsInOrder /\ NeverHeld /\ JobsKnown /\ OnItsWay /\ WorkerInOrder /\ QueueInOrder /\ LoopInOrder
<1>0. Loop \in Procs
  BY DEF Procs
<1>1. /\ events = <<>> /\ gone = {} /\ rows = <<>> /\ queue = <<>> /\ worker.job = NoJob /\ heard = {}
      /\ pc[Loop] = "boot" /\ \A p \in Procs : jobs[p] = <<>> /\ plan[p] = {}
  BY <1>0 DEF Init
<1>2. DOMAIN rows = {} /\ DOMAIN queue = {} /\ \A p \in Procs : DOMAIN jobs[p] = {}
  BY <1>1
<1>3. CarriedJobs = {}
  BY <1>1, <1>2 DEF CarriedJobs
<1>4. \A p \in Syncs : p \in Procs
  BY DEF Procs
<1> QED BY <1>0, <1>1, <1>2, <1>3, <1>4
        DEF GoneTogether, RowsInOrder, NeverHeld, JobsKnown, OnItsWay, WorkerInOrder, QueueInOrder, LoopInOrder

\* What was heard overtook no row of its key.
HeardInOrder == \A m \in heard : \A i \in RowIds : ~Waiting(i, m.event, m.ch)

\* A message heard was heard before, or is the one the worker was sending.
LEMMA HeardInOrderStep ==
  ASSUME OrderInv, HeardInOrder, [Next]_vars
  PROVE  HeardInOrder'
<1> SUFFICES ASSUME NEW m \in heard', NEW i \in RowIds, Waiting(i, m.event, m.ch)'
             PROVE  FALSE
  BY DEF HeardInOrder
<1>0. JobsKnown /\ WorkerInOrder /\ (worker.job = NoJob <=> worker.st \in {"looking", "asleep", "stopped"})
  BY OrderParts DEF OrderInv
<1>1. CASE m \in heard
  <2>1. m.event \in DOMAIN events
    BY <1>0, <1>1 DEF JobsKnown
  <2>2. Waiting(i, m.event, m.ch)
    BY <2>1, WaitingOf
  <2> QED BY <1>1, <2>2 DEF HeardInOrder
<1>2. CASE m \notin heard
  <2>1. worker.st = "sending" /\ m = MessageOf(worker.job)
    BY <1>2, HeardOf
  <2>2. worker.job # NoJob /\ m.event = worker.job.event /\ m.ch = worker.job.ch
    BY <1>0, <2>1 DEF MessageOf
  <2>3. worker.job.event \in DOMAIN events
    BY <1>0, <2>2 DEF JobsKnown, CarriedJobs
  <2>4. Waiting(i, worker.job.event, worker.job.ch)
    BY <2>2, <2>3, WaitingOf
  <2> QED BY <1>0, <2>2, <2>4 DEF WorkerInOrder
<1> QED BY <1>1, <1>2

\* Neither pending nor held: the rows of the offline rule are never held.
LEMMA HeardInOrderIsMeant ==
  ASSUME OrderInv, HeardInOrder
  PROVE  OfflineInOrder
<1> SUFFICES ASSUME NEW m \in heard, events[m.event].key \in StatusKeys,
                    NEW i \in DOMAIN rows \ Excused, rows[i].event < m.event, rows[i].ch = m.ch,
                    events[rows[i].event].key = events[m.event].key, rows[i].state \in {"pending", "held"}
             PROVE  FALSE
  BY DEF OfflineInOrder, Excused
<1>1. i \in RowIds
  BY OrderParts
<1>2. rows[i].state = "pending"
  BY DEF OrderInv, NeverHeld, Status
<1>3. Waiting(i, m.event, m.ch)
  BY <1>2 DEF Waiting, Status, Sooner
<1> QED BY <1>1, <1>3 DEF HeardInOrder

\* Once a channel heard that a host came back, no row of an earlier transition of
\* that host's offline rule is left to be sent there: not by the queue, a retry or
\* a replay after a restart (dispatcher.go; deliveries.go, Resume).
THEOREM EndIsHeardLast == Spec => []OfflineInOrder
<1>1. Init => HeardInOrder
  BY DEF Init, HeardInOrder
<1>2. OrderInv /\ HeardInOrder /\ [Next]_vars => HeardInOrder'
  BY HeardInOrderStep
<1>3. EndInv /\ QuietBoot /\ OrderInv /\ [Next]_vars =>
        GoneTogether' /\ RowsInOrder' /\ NeverHeld' /\ JobsKnown' /\ OnItsWay' /\ WorkerInOrder' /\ QueueInOrder'
        /\ LoopInOrder'
  BY GoneTogetherStep, RowsInOrderStep, NeverHeldStep, JobsKnownStep, OnItsWayStep, WorkerInOrderStep, QueueInOrderStep,
     LoopInOrderStep
<1>4. OrderInv /\ HeardInOrder => OfflineInOrder
  BY HeardInOrderIsMeant
<1>5. Spec => [](EndInv /\ QuietBoot)
  BY CarriedInvHolds, EndInvHolds, PTL DEF CarriedInv
<1> QED BY OrderInvInit, <1>1, <1>2, <1>3, <1>4, <1>5, PTL DEF Spec, OrderInv
=============================================================================

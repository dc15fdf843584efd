------------------------------- MODULE Notify -------------------------------
(***************************************************************************)
(* How the hub tells people: hub/notify.go, hub/reminders.go, the          *)
(* dispatcher (notify/dispatcher.go) and the deliveries table              *)
(* (store/deliveries.go).                                                  *)
(*                                                                         *)
(* A transition of an alert or of a guardrail is journalled, then one      *)
(* delivery row is written per routed channel, pending or held, then the   *)
(* jobs of the pending rows enter a bounded queue that a single worker     *)
(* drains.  The run loop notifies alerts, releases held rows, reminds and  *)
(* replays at boot; the goroutines of the Azure integration (Syncs)        *)
(* journal and notify guardrails at the same time.  The hub may crash at   *)
(* any step, or be asked to stop.                                          *)
(*                                                                         *)
(* Rows survive; the queue, the worker and what a process holds do not.    *)
(* Each alert key is of a host of its own.  A message is the event it is   *)
(* about, its channel and its kind.  Errors of the database are left out,  *)
(* except the foreign key that refuses a row for a deleted event.          *)
(***************************************************************************)
EXTENDS Integers, Sequences, FiniteSets, SequencesExt

CONSTANTS
  RuleKeys,      \* alert keys of a rule in alert_rules
  StatusKeys,    \* alert keys of the implicit offline rule
  GuardKeys,     \* guardrail rule instances
  Channels,      \* every channel the hub knows
  HttpChannels,  \* the webhook and Teams: Send ends with the context
  Syncs,         \* goroutines of the Azure integration
  QueueCap,      \* Options.Queue
  Attempts,      \* Options.Attempts
  RemindEvery,   \* the reminder interval of every key, 0 for never
  Keep,          \* the retention of settled rows
  EditKinds,     \* what people may change in this instance
  NoJob,
  MaxTime, MaxEvents, MaxRows, MaxBoots, MaxEdits   \* bounds

Loop == "loop"
AlertKeys == RuleKeys \cup StatusKeys
Keys == AlertKeys \cup GuardKeys
Procs == {Loop} \cup Syncs

EventIds == 1..MaxEvents
RowIds == 1..MaxRows
Kinds == {"fired", "resolved", "reminder"}
Event == [key : Keys, kind : {"fired", "resolved"}, at : 0..MaxTime]
Row == [event : EventIds, ch : Channels, at : 0..MaxTime, upd : 0..MaxTime,
        reminder : BOOLEAN, state : {"pending", "held", "sent", "failed"}]
Job == [id : RowIds, event : EventIds, ch : Channels, kind : Kinds]
Entry == [event : EventIds, ch : Channels, held : BOOLEAN, reminder : BOOLEAN]
Message == [event : EventIds, ch : Channels, kind : Kinds]
View == [on : SUBSET Channels, quiet : SUBSET Channels, routes : [Keys -> SUBSET Channels],
         at : 0..MaxTime]
Steps == {"boot", "replay", "idle", "journal", "notify", "enqueue", "drops",
          "release", "remind", "remindAlerts", "remindGuardrails"}
WorkerSteps == {"looking", "asleep", "sending", "backoff", "accepted", "refused", "cancelled",
                "stopped"}

ASSUME NotifyAssumption ==
  /\ HttpChannels \subseteq Channels
  /\ StatusKeys \cap RuleKeys = {} /\ GuardKeys \cap AlertKeys = {} /\ Loop \notin Syncs
  /\ QueueCap \in Nat \ {0} /\ Attempts \in Nat \ {0} /\ RemindEvery \in Nat /\ Keep \in Nat
  /\ NoJob \notin Job
  /\ MaxTime \in Nat /\ MaxEvents \in Nat /\ MaxRows \in Nat
  /\ MaxBoots \in Nat /\ MaxEdits \in Nat

VARIABLES
  now,       \* the clock, in minutes
  events,    \* alert_events and azure_guardrail_events, in order of insertion
  gone,      \* events deleted with their host
  rows,      \* deliveries, by row id
  enabled,   \* channels switched on
  quiet,     \* channels in their quiet hours now
  routes,    \* where each key's transitions go; every channel when it is nil
  ruleGone,  \* rule keys whose rule is deleted
  muted,     \* alert keys whose host is muted
  pc, view,  \* per process: where it is, the settings and time it has read,
  batch,     \* the events it has still to notify or to remind of,
  plan,      \* the rows it has still to write for one event,
  jobs,      \* the jobs it will enqueue,
  drops,     \* the rows of the jobs it dropped from the full queue
  todo,      \* the loop: rows a release or a replay has read
  ready,     \* the replay of the boot is over
  releasing, \* the loop is in releaseHeld, which remind follows
  phase,     \* up, or stopping: the context is cancelled
  queue,     \* the dispatcher's jobs
  wake,      \* the token of the dispatcher's wake channel
  worker,    \* the dispatcher's worker: its step, its job, its attempt
  boots, edits,   \* counters of the bounds
  heard,     \* history: what the channels received
  unowed,    \* history: events and channels without a row: switched off when the
             \* event was notified, cut by a crash, or purged since
  undropped, \* history: rows whose drop a crash kept from being recorded
  tainted    \* history: row ids deleted while a process or a job held them

settings == <<enabled, quiet, routes, ruleGone, muted>>
tables == <<events, gone, rows>>
procs == <<pc, view, batch, plan, jobs, drops, todo, ready, releasing>>
dispatcher == <<queue, wake, worker>>
counters == <<boots, edits>>
history == <<heard, unowed, undropped, tainted>>
vars == <<now, tables, settings, procs, phase, dispatcher, counters, history>>

Live == DOMAIN events \ gone
\* The id SQLite gives the next row: the largest in the table plus one.
NextRow(id) == /\ \A i \in DOMAIN rows : i < id
               /\ id = 1 \/ id - 1 \in DOMAIN rows
SetState(id, s) ==
  [i \in DOMAIN rows |-> IF i = id THEN [rows[i] EXCEPT !.state = s, !.upd = now] ELSE rows[i]]

-----------------------------------------------------------------------------
(* Routing, quiet hours and reminders: what a transition owes. *)

\* What a process reads once: the enabled channels and the notification
\* settings, the routes of the rules, the time.
CurrentView == [on |-> enabled, quiet |-> quiet, routes |-> routes, at |-> now]
NoView == [on |-> {}, quiet |-> {}, routes |-> [k \in Keys |-> {}], at |-> 0]

LastEvents == {e \in Live : ~\E f \in Live : f > e /\ events[f].key = events[e].key}

\* FiredChannels: the channels that were owed the last fired of the key at or
\* before an event, whatever became of their rows.
FiredChannels(k, upTo) ==
  LET fired == {e \in Live : e <= upTo /\ events[e].key = k /\ events[e].kind = "fired"}
      last == {e \in fired : \A f \in fired : f <= e}
  IN  {rows[i].ch : i \in {j \in DOMAIN rows : rows[j].event \in last}}

\* Mutant: the route alone decides, whoever heard the fired.
RouteOnly(v, k, also) == {c \in v.on : c \in v.routes[k]}

\* Route: the enabled channels the route names, and those that heard the fired.
Route(v, k, also) == {c \in v.on : c \in v.routes[k] \/ c \in also}

\* Mutant: the offline rule waits for the end of the quiet hours too.
HoldAll(v, k, c) == c \in v.quiet

\* holdFor: the offline rule ignores quiet hours.
HoldFor(v, k, c) == k \notin StatusKeys /\ c \in v.quiet

TransitionEntries(v, e) ==
  LET k == events[e].key
      also == IF events[e].kind = "resolved" THEN FiredChannels(k, e) ELSE {}
  IN  {[event |-> e, ch |-> c, held |-> HoldFor(v, k, c), reminder |-> FALSE] :
         c \in Route(v, k, also)}

\* The reminders of an event, as the delivery rows tell.
Reminders(e) == {i \in DOMAIN rows : rows[i].event = e /\ rows[i].reminder}

\* Mutant: the interval runs from the first reminder, not from the last.
DueSinceFirst(v, e) == IF Reminders(e) = {} THEN v.at - events[e].at >= RemindEvery
                       ELSE \E i \in Reminders(e) : v.at - rows[i].at >= RemindEvery

\* due: an interval has passed since the event fired or was last repeated to
\* anyone.
Due(v, e) == IF Reminders(e) = {} THEN v.at - events[e].at >= RemindEvery
             ELSE \A i \in Reminders(e) : v.at - rows[i].at >= RemindEvery

\* A channel in its quiet hours is skipped, a muted or deleted host too.
ReminderEntries(v, e) ==
  LET k == events[e].key
      heardIt == FiredChannels(k, e)
  IN  IF e \in gone \/ k \in muted \/ ~Due(v, e) THEN {}
      ELSE {[event |-> e, ch |-> c, held |-> FALSE, reminder |-> TRUE] :
              c \in {d \in Route(v, k, heardIt) : ~HoldFor(v, k, d)}}

JobOf(id, r) == [id |-> id, event |-> r.event, ch |-> r.ch,
                 kind |-> IF r.reminder THEN "reminder" ELSE events[r.event].kind]

MessageOf(j) == [event |-> j.event, ch |-> j.ch, kind |-> j.kind]

-----------------------------------------------------------------------------
(* Journal a transition, write its rows. *)

\* The last live event of a key decides the next: fired, resolved, fired ...
NextKind(k) == IF \E e \in LastEvents : events[e].key = k /\ events[e].kind = "fired"
               THEN "resolved" ELSE "fired"

\* evaluate and journalGuardrails insert a batch of events one by one.  Only
\* the loop evaluates alerts, and never one of a muted host or deleted rule.
Journal(p, k) ==
  /\ pc[p] \in {"idle", "journal"} /\ (p = Loop \/ ready)
  /\ k \in AlertKeys => p = Loop /\ k \notin muted \cup ruleGone
  /\ \A e \in batch[p] : events[e].key # k /\ (events[e].key \in AlertKeys <=> k \in AlertKeys)
  /\ Len(events) < MaxEvents
  /\ events' = Append(events, [key |-> k, kind |-> NextKind(k), at |-> now])
  /\ batch' = [batch EXCEPT ![p] = @ \cup {Len(events) + 1}]
  /\ pc' = [pc EXCEPT ![p] = "journal"]
  /\ UNCHANGED <<now, gone, rows, settings, view, plan, jobs, drops, todo, ready, releasing,
                 phase, dispatcher, counters, history>>

\* notify, notifyGuardrails: nothing to do when no channel is enabled.
NotifyStart(p) ==
  /\ pc[p] = "journal"
  /\ unowed' = unowed \cup (batch[p] \X (Channels \ enabled))
  /\ IF enabled = {} THEN /\ pc' = [pc EXCEPT ![p] = "idle"]
                          /\ batch' = [batch EXCEPT ![p] = {}] /\ UNCHANGED view
                     ELSE /\ pc' = [pc EXCEPT ![p] = "notify"]
                          /\ view' = [view EXCEPT ![p] = CurrentView] /\ UNCHANGED batch
  /\ UNCHANGED <<now, tables, settings, plan, jobs, drops, todo, ready, releasing,
                 phase, dispatcher, counters, heard, undropped, tainted>>

\* The next event of the batch: an alert's oldest first.
NextEvent(p, e) ==
  /\ plan[p] = {} /\ e \in batch[p] /\ \A f \in batch[p] : e <= f
  /\ \/ pc[p] = "notify" /\ plan' = [plan EXCEPT ![p] = IF e \in gone THEN {}
                                                        ELSE TransitionEntries(view[p], e)]
     \/ /\ pc[p] \in {"remindAlerts", "remindGuardrails"}
        /\ plan' = [plan EXCEPT ![p] = ReminderEntries(view[p], e)]
  /\ batch' = [batch EXCEPT ![p] = @ \ {e}]
  /\ UNCHANGED <<now, tables, settings, pc, view, jobs, drops, todo, ready, releasing,
                 phase, dispatcher, counters, history>>

\* AddDelivery: the row first, then the job, unless the row is held.  The
\* foreign key refuses the row of an event deleted meanwhile.
AddRow(p, x) ==
  /\ pc[p] \in {"notify", "remindAlerts", "remindGuardrails"} /\ x \in plan[p]
  /\ plan' = [plan EXCEPT ![p] = @ \ {x}]
  /\ \/ x.event \in gone /\ UNCHANGED <<rows, jobs>>
     \/ /\ x.event \notin gone
        /\ \E id \in RowIds :
             LET r == [event |-> x.event, ch |-> x.ch, at |-> view[p].at, upd |-> view[p].at,
                       reminder |-> x.reminder, state |-> IF x.held THEN "held" ELSE "pending"]
             IN  /\ NextRow(id)
                 /\ rows' = [i \in DOMAIN rows \cup {id} |-> IF i = id THEN r ELSE rows[i]]
                 /\ jobs' = IF x.held THEN jobs ELSE [jobs EXCEPT ![p] = Append(@, JobOf(id, r))]
  /\ UNCHANGED <<now, events, gone, settings, pc, view, batch, drops, todo, ready, releasing,
                 phase, dispatcher, counters, history>>

-----------------------------------------------------------------------------
(* The dispatcher's queue. *)

\* After a release the loop reminds; after the replay the hub is ready.
Continue(p) ==
  /\ pc' = [pc EXCEPT ![p] = IF p = Loop /\ releasing THEN "remind" ELSE "idle"]
  /\ releasing' = (releasing /\ p # Loop) /\ ready' = (ready \/ p = Loop)

\* The oldest job of a kind.
Oldest(q, kind) == {i \in DOMAIN q : /\ q[i].kind = kind
                                     /\ \A j \in 1..(i - 1) : q[j].kind # kind}

\* Mutant: the oldest job goes, whatever it is.
OldestJob(q) == 1

\* victim: the oldest reminder, else the oldest fired, else the oldest job.
Victim(q) ==
  IF Oldest(q, "reminder") # {} THEN CHOOSE i \in Oldest(q, "reminder") : TRUE
  ELSE IF Oldest(q, "fired") # {} THEN CHOOSE i \in Oldest(q, "fired") : TRUE
  ELSE 1

\* d.mu is held by the process that enqueues.
Unlocked == \A p \in Procs : pc[p] # "enqueue"

Lock(p) ==
  /\ Unlocked /\ pc[p] \in {"notify", "remindGuardrails", "release", "replay"}
  /\ plan[p] = {} /\ batch[p] = {}
  /\ pc[p] \in {"release", "replay"} => todo = {} /\ jobs[p] # <<>>
  /\ pc' = [pc EXCEPT ![p] = "enqueue"] /\ view' = [view EXCEPT ![p] = NoView]
  /\ UNCHANGED <<now, tables, settings, batch, plan, jobs, drops, todo, ready, releasing,
                 phase, dispatcher, counters, history>>

\* Enqueue, under the lock, one job at a time: nobody sees the queue between.
EnqueueOne(p) ==
  /\ pc[p] = "enqueue" /\ jobs[p] # <<>>
  /\ IF Len(queue) >= QueueCap
     THEN /\ queue' = Append(RemoveAt(queue, Victim(queue)), Head(jobs[p]))
          /\ drops' = [drops EXCEPT ![p] = @ \cup {queue[Victim(queue)].id}]
     ELSE queue' = Append(queue, Head(jobs[p])) /\ UNCHANGED drops
  /\ jobs' = [jobs EXCEPT ![p] = Tail(@)]
  /\ UNCHANGED <<now, tables, settings, pc, view, batch, plan, todo, ready, releasing, phase,
                 wake, worker, counters, history>>

Unlock(p) ==
  /\ pc[p] = "enqueue" /\ jobs[p] = <<>>
  /\ pc' = [pc EXCEPT ![p] = "drops"]
  /\ UNCHANGED <<now, tables, settings, view, batch, plan, jobs, drops, todo, ready, releasing,
                 phase, dispatcher, counters, history>>

\* What was dropped is recorded as failed, "queue full", after the unlock.
RecordDrop(p, id) ==
  /\ pc[p] = "drops" /\ id \in drops[p]
  /\ rows' = SetState(id, "failed") /\ drops' = [drops EXCEPT ![p] = @ \ {id}]
  /\ UNCHANGED <<now, events, gone, settings, pc, view, batch, plan, jobs, todo, ready,
                 releasing, phase, dispatcher, counters, history>>

\* Mutant: the worker finds the jobs when it happens to look.
NoWake == UNCHANGED wake

\* The wake channel holds one token.
Wake == wake' = TRUE

\* Enqueue wakes the worker and returns.
EnqueueReturns(p) ==
  /\ pc[p] = "drops" /\ drops[p] = {}
  /\ Wake
  /\ Continue(p)
  /\ UNCHANGED <<now, tables, settings, view, batch, plan, jobs, drops, todo, phase, queue,
                 worker, counters, history>>

-----------------------------------------------------------------------------
(* The run loop: replay at boot, release what was held, remind. *)

\* Mutant: the replay takes what was given up, too.
Unsent == {i \in DOMAIN rows : rows[i].state \in {"pending", "failed"}}

\* PendingDeliveries, HeldDeliveries.
PendingRows == {i \in DOMAIN rows : rows[i].state = "pending"}

\* Mutant: what a later event of the key has overtaken is not released.
HeldOfLast == {i \in DOMAIN rows : rows[i].state = "held" /\ rows[i].event \in LastEvents}

HeldRows == {i \in DOMAIN rows : rows[i].state = "held"}

\* At boot, oldest first, what a previous run left pending.
ReplayStart ==
  /\ pc[Loop] = "boot"
  /\ pc' = [pc EXCEPT ![Loop] = "replay"] /\ view' = [view EXCEPT ![Loop] = CurrentView]
  /\ todo' = PendingRows
  /\ UNCHANGED <<now, tables, settings, batch, plan, jobs, drops, ready, releasing, phase,
                 dispatcher, counters, history>>

\* Every minute, after the alerts are evaluated.
ReleaseStart ==
  /\ pc[Loop] = "idle" /\ ready
  /\ releasing' = TRUE
  /\ pc' = [pc EXCEPT ![Loop] = "release"] /\ view' = [view EXCEPT ![Loop] = CurrentView]
  /\ todo' = HeldRows
  /\ UNCHANGED <<now, tables, settings, batch, plan, jobs, drops, ready, phase,
                 dispatcher, counters, history>>

\* One row of a replay or a release.  The row of a disabled channel is retired;
\* a release skips a channel still in its quiet hours, and turns any other row
\* pending before its job exists.
Settle(id) ==
  /\ pc[Loop] \in {"replay", "release"}
  /\ id \in todo /\ \A i \in todo : id <= i
  /\ todo' = todo \ {id}
  /\ \/ id \in DOMAIN rows /\ rows[id].ch \notin view[Loop].on
        /\ rows' = SetState(id, "failed") /\ UNCHANGED jobs
     \/ id \in DOMAIN rows /\ rows[id].ch \in view[Loop].on /\ pc[Loop] = "replay"
        /\ jobs' = [jobs EXCEPT ![Loop] = Append(@, JobOf(id, rows[id]))] /\ UNCHANGED rows
     \/ id \in DOMAIN rows /\ rows[id].ch \in view[Loop].on \ view[Loop].quiet
        /\ pc[Loop] = "release" /\ rows[id].state = "held"
        /\ rows' = SetState(id, "pending")
        /\ jobs' = [jobs EXCEPT ![Loop] = Append(@, JobOf(id, rows[id]))]
     \/ /\ \/ id \notin DOMAIN rows
           \/ /\ pc[Loop] = "release" /\ rows[id].ch \in view[Loop].on
              /\ rows[id].ch \in view[Loop].quiet \/ rows[id].state # "held"
        /\ UNCHANGED <<rows, jobs>>
  /\ UNCHANGED <<now, events, gone, settings, pc, view, batch, plan, drops, ready, releasing,
                 phase, dispatcher, counters, history>>

\* Nothing to send: Enqueue is not called.
SettledNothing ==
  /\ pc[Loop] \in {"replay", "release"} /\ todo = {} /\ jobs[Loop] = <<>>
  /\ view' = [view EXCEPT ![Loop] = NoView]
  /\ Continue(Loop)
  /\ UNCHANGED <<now, tables, settings, batch, plan, jobs, drops, todo, phase, dispatcher,
                 counters, history>>

\* The fired events that come last for their key are candidates; a deleted rule
\* is not repeated forever.  Alerts first ...
RemindStart ==
  /\ pc[Loop] = "remind"
  /\ IF enabled = {}
     THEN pc' = [pc EXCEPT ![Loop] = "idle"] /\ UNCHANGED <<view, batch>>
     ELSE /\ pc' = [pc EXCEPT ![Loop] = "remindAlerts"]
          /\ view' = [view EXCEPT ![Loop] = CurrentView]
          /\ batch' = [batch EXCEPT ![Loop] =
               {e \in LastEvents : /\ events[e].key \in AlertKeys \ ruleGone
                                   /\ events[e].kind = "fired" /\ RemindEvery > 0}]
  /\ UNCHANGED <<now, tables, settings, plan, jobs, drops, todo, ready, releasing, phase,
                 dispatcher, counters, history>>

\* ... then guardrails.
RemindGuardrails ==
  /\ pc[Loop] = "remindAlerts" /\ batch[Loop] = {} /\ plan[Loop] = {}
  /\ pc' = [pc EXCEPT ![Loop] = "remindGuardrails"]
  /\ batch' = [batch EXCEPT ![Loop] =
       {e \in LastEvents : /\ events[e].key \in GuardKeys
                           /\ events[e].kind = "fired" /\ RemindEvery > 0}]
  /\ UNCHANGED <<now, tables, settings, view, plan, jobs, drops, todo, ready, releasing, phase,
                 dispatcher, counters, history>>

\* Jobs on their way, and the rows somebody holds: the id of such a row may be
\* given again after the row is deleted.
CarriedJobs ==
  {queue[i] : i \in DOMAIN queue} \cup ({worker.job} \ {NoJob})
  \cup UNION {{jobs[p][i] : i \in DOMAIN jobs[p]} : p \in Procs}

Held == {j.id : j \in CarriedJobs} \cup todo \cup UNION {drops[p] : p \in Procs}

\* hourly: settled rows older than the retention go.
Purge ==
  /\ pc[Loop] = "idle" /\ ready
  /\ LET old == {i \in DOMAIN rows : rows[i].state \in {"sent", "failed"} /\ now - rows[i].upd > Keep}
     IN  /\ old # {}
         /\ rows' = [i \in DOMAIN rows \ old |-> rows[i]]
         /\ tainted' = tainted \cup (old \cap Held)
         /\ unowed' = unowed \cup {<<rows[i].event, rows[i].ch>> : i \in old}
  /\ UNCHANGED <<now, events, gone, settings, procs, phase, dispatcher, counters, heard, undropped>>

-----------------------------------------------------------------------------
(* The worker of the dispatcher. *)

WorkerGoes(st, job, n) == worker' = [st |-> st, job |-> job, n |-> n]

\* deliver returns: the worker stops when the context is cancelled.
AfterDelivery == IF phase = "up" THEN "looking" ELSE "stopped"

Pop ==
  /\ worker.st = "looking" /\ queue # <<>> /\ Unlocked
  /\ WorkerGoes("sending", Head(queue), 1) /\ queue' = Tail(queue)
  /\ UNCHANGED <<now, tables, settings, procs, phase, wake, counters, history>>

Wait ==
  /\ worker.st = "looking" /\ queue = <<>> /\ Unlocked
  /\ WorkerGoes("asleep", NoJob, 0)
  /\ UNCHANGED <<now, tables, settings, procs, phase, queue, wake, counters, history>>

Woken ==
  /\ worker.st = "asleep"
  /\ \/ wake /\ wake' = FALSE /\ WorkerGoes("looking", NoJob, 0)
     \/ phase = "stopping" /\ WorkerGoes("stopped", NoJob, 0) /\ UNCHANGED wake
  /\ UNCHANGED <<now, tables, settings, procs, phase, queue, counters, history>>

\* Mutant: one attempt too many.
RetriesTooMany(n) == IF n <= Attempts THEN "backoff" ELSE "refused"

\* A retryable error is tried again, Attempts times in all.
Retries(n) == IF n < Attempts THEN "backoff" ELSE "refused"

\* Channel.Send, as the channel sees it: it may have taken the message whatever
\* the hub learns.  A request under way when the context ends fails, and is not
\* retryable.
Send(result) ==
  /\ worker.st = "sending"
  /\ heard' \in {heard, heard \cup {MessageOf(worker.job)}}
  /\ CASE result = "ok" -> /\ MessageOf(worker.job) \in heard'
                           /\ WorkerGoes("accepted", worker.job, worker.n)
       [] result = "retryable" -> WorkerGoes(Retries(worker.n), worker.job, worker.n)
       [] result = "refused" -> WorkerGoes("refused", worker.job, worker.n)
       [] result = "cancelled" -> /\ phase = "stopping" /\ worker.job.ch \in HttpChannels
                                  /\ WorkerGoes("cancelled", worker.job, worker.n)
  /\ UNCHANGED <<now, tables, settings, procs, phase, queue, wake, counters, unowed, undropped,
                 tainted>>

\* The wait before the next attempt ends, or is cut by the shutdown: the row
\* stays pending.
Backoff ==
  /\ worker.st = "backoff"
  /\ \/ WorkerGoes("sending", worker.job, worker.n + 1)
     \/ phase = "stopping" /\ WorkerGoes("stopped", NoJob, 0)
  /\ UNCHANGED <<now, tables, settings, procs, phase, queue, wake, counters, history>>

\* Mutant: what no channel refused was sent.
NotRefused(st) == IF st # "refused" THEN "sent" ELSE "failed"

\* MarkDeliverySent, MarkDeliveryFailed.
Outcome(st) == IF st = "accepted" THEN "sent" ELSE "failed"

Record ==
  /\ worker.st \in {"accepted", "refused", "cancelled"}
  /\ rows' = SetState(worker.job.id, Outcome(worker.st))
  /\ WorkerGoes(AfterDelivery, NoJob, 0)
  /\ UNCHANGED <<now, events, gone, settings, procs, phase, queue, wake, counters, history>>

-----------------------------------------------------------------------------
(* Crashes, the shutdown, people and time. *)

\* The context is cancelled; the process ends at some later Boot.
Stop ==
  /\ phase = "up" /\ boots < MaxBoots
  /\ phase' = "stopping"
  /\ UNCHANGED <<now, tables, settings, procs, dispatcher, counters, history>>

\* The events processes have not written all the rows of.
Unfinished(ps) == UNION {batch[p] \cup {x.event : x \in plan[p]} : p \in ps}

\* The process ends anywhere and starts again: Run starts the worker.
Boot ==
  /\ boots < MaxBoots /\ boots' = boots + 1
  /\ unowed' = unowed \cup (Unfinished({q \in Procs : pc[q] \in {"journal", "notify"}}) \X Channels)
  /\ undropped' = undropped \cup UNION {drops[p] : p \in Procs}
  /\ pc' = [p \in Procs |-> IF p = Loop THEN "boot" ELSE "idle"]
  /\ view' = [p \in Procs |-> NoView] /\ batch' = [p \in Procs |-> {}]
  /\ plan' = [p \in Procs |-> {}] /\ jobs' = [p \in Procs |-> <<>>]
  /\ drops' = [p \in Procs |-> {}] /\ todo' = {} /\ ready' = FALSE /\ releasing' = FALSE
  /\ phase' = "up" /\ queue' = <<>> /\ wake' = FALSE /\ WorkerGoes("looking", NoJob, 0)
  /\ UNCHANGED <<now, tables, settings, edits, heard, tainted>>

Edit(kind) == kind \in EditKinds /\ edits < MaxEdits /\ edits' = edits + 1

\* SaveConfig and ReloadNotify: a channel is switched on or off.
SetEnabled(c) ==
  /\ Edit("enable") /\ enabled' = IF c \in enabled THEN enabled \ {c} ELSE enabled \cup {c}
  /\ UNCHANGED <<now, tables, quiet, routes, ruleGone, muted, procs, phase, dispatcher, boots, history>>

SetRoute(k, cs) ==
  /\ Edit("route") /\ routes[k] # cs /\ k \notin ruleGone
  /\ routes' = [routes EXCEPT ![k] = cs]
  /\ UNCHANGED <<now, tables, enabled, quiet, ruleGone, muted, procs, phase, dispatcher, boots, history>>

\* The quiet hours of a channel begin or end.
SetQuiet(c) ==
  /\ Edit("quiet") /\ quiet' = IF c \in quiet THEN quiet \ {c} ELSE quiet \cup {c}
  /\ UNCHANGED <<now, tables, enabled, routes, ruleGone, muted, procs, phase, dispatcher, boots, history>>

SetMuted(k) ==
  /\ Edit("mute") /\ muted' = IF k \in muted THEN muted \ {k} ELSE muted \cup {k}
  /\ UNCHANGED <<now, tables, enabled, quiet, routes, ruleGone, procs, phase, dispatcher, boots, history>>

\* A deleted rule has no route: its transitions go everywhere.
DeleteRule(k) ==
  /\ Edit("rule") /\ k \notin ruleGone
  /\ ruleGone' = ruleGone \cup {k} /\ routes' = [routes EXCEPT ![k] = Channels]
  /\ UNCHANGED <<now, tables, enabled, quiet, muted, procs, phase, dispatcher, boots, history>>

\* Deleting a host cascades to its events and to their deliveries.
DeleteHost(k) ==
  /\ Edit("host")
  /\ LET mine == {e \in Live : events[e].key = k}
         old == {i \in DOMAIN rows : rows[i].event \in mine}
     IN  /\ gone' = gone \cup mine
         /\ rows' = [i \in DOMAIN rows \ old |-> rows[i]]
         /\ tainted' = tainted \cup (old \cap Held)
  /\ UNCHANGED <<now, events, settings, procs, phase, dispatcher, boots, heard, unowed, undropped>>

Tick ==
  /\ now < MaxTime /\ now' = now + 1
  /\ UNCHANGED <<tables, settings, procs, phase, dispatcher, counters, history>>

Enqueuing(p) == Lock(p) \/ EnqueueOne(p) \/ Unlock(p) \/ EnqueueReturns(p)
                \/ \E id \in RowIds : RecordDrop(p, id)
Notifying(p) == NotifyStart(p) \/ (\E e \in EventIds : NextEvent(p, e)) \/ \E x \in plan[p] : AddRow(p, x)
LoopStep == ReplayStart \/ ReleaseStart \/ (\E id \in RowIds : Settle(id)) \/ SettledNothing
            \/ RemindStart \/ RemindGuardrails
WorkerStep == Pop \/ Wait \/ Woken \/ Backoff \/ Record
              \/ \E r \in {"ok", "retryable", "refused", "cancelled"} : Send(r)
People ==
  \/ \E c \in Channels : SetEnabled(c) \/ SetQuiet(c)
  \/ \E k \in Keys, cs \in SUBSET Channels : SetRoute(k, cs)
  \/ \E k \in AlertKeys : SetMuted(k) \/ DeleteHost(k)
  \/ \E k \in RuleKeys : DeleteRule(k)

Init ==
  /\ now = 0 /\ events = <<>> /\ gone = {} /\ rows = <<>>
  /\ enabled = Channels /\ quiet = {} /\ routes = [k \in Keys |-> Channels]
  /\ ruleGone = {} /\ muted = {}
  /\ pc = [p \in Procs |-> IF p = Loop THEN "boot" ELSE "idle"]
  /\ view = [p \in Procs |-> NoView] /\ batch = [p \in Procs |-> {}]
  /\ plan = [p \in Procs |-> {}] /\ jobs = [p \in Procs |-> <<>>]
  /\ drops = [p \in Procs |-> {}] /\ todo = {} /\ ready = FALSE /\ releasing = FALSE
  /\ phase = "up" /\ queue = <<>> /\ wake = FALSE
  /\ worker = [st |-> "looking", job |-> NoJob, n |-> 0]
  /\ boots = 0 /\ edits = 0 /\ heard = {} /\ unowed = {}
  /\ undropped = {} /\ tainted = {}

Next ==
  \/ \E p \in Procs : Notifying(p) \/ Enqueuing(p) \/ \E k \in Keys : Journal(p, k)
  \/ LoopStep \/ Purge \/ WorkerStep \/ Stop \/ Boot \/ People \/ Tick

\* The run loop is woken every minute, the goroutines and the worker run, and
\* a backoff ends; Go's mutex hands over to whoever starves.  Nothing else is
\* owed: no transition, no edit, no purge.
Fairness ==
  /\ WF_vars(WorkerStep) /\ SF_vars(Pop \/ Wait) /\ WF_vars(LoopStep)
  /\ \A p \in Procs : WF_vars(Notifying(p)) /\ WF_vars(Enqueuing(p)) /\ SF_vars(Lock(p))

Spec == Init /\ [][Next]_vars
FairSpec == Spec /\ Fairness

-----------------------------------------------------------------------------
(* Properties. *)

TablesOK ==
  /\ now \in 0..MaxTime
  /\ events \in Seq(Event) /\ Len(events) <= MaxEvents /\ gone \subseteq DOMAIN events
  /\ DOMAIN rows \subseteq RowIds /\ \A i \in DOMAIN rows : rows[i] \in Row

SettingsOK ==
  /\ enabled \subseteq Channels /\ quiet \subseteq Channels
  /\ routes \in [Keys -> SUBSET Channels] /\ ruleGone \subseteq RuleKeys /\ muted \subseteq AlertKeys

ProcsOK ==
  /\ pc \in [Procs -> Steps] /\ view \in [Procs -> View] /\ batch \in [Procs -> SUBSET EventIds]
  /\ plan \in [Procs -> SUBSET Entry] /\ jobs \in [Procs -> Seq(Job)]
  /\ drops \in [Procs -> SUBSET RowIds] /\ todo \subseteq RowIds
  /\ ready \in BOOLEAN /\ releasing \in BOOLEAN

DispatcherOK ==
  /\ phase \in {"up", "stopping"}
  /\ queue \in Seq(Job) /\ Len(queue) <= QueueCap /\ wake \in BOOLEAN
  /\ worker \in [st : WorkerSteps, job : Job \cup {NoJob}, n : 0..Attempts]
  /\ worker.job = NoJob <=> worker.st \in {"looking", "asleep", "stopped"}
  /\ worker.st = "backoff" => worker.n < Attempts

HistoryOK ==
  /\ boots \in 0..MaxBoots /\ edits \in 0..MaxEdits
  /\ heard \subseteq Message /\ unowed \subseteq EventIds \X Channels
  /\ undropped \subseteq RowIds /\ tainted \subseteq RowIds

TypeOK == TablesOK /\ SettingsOK /\ ProcsOK /\ DispatcherOK /\ HistoryOK

\* Whatever carries the delivery of a row: a place in the queue, the worker, a
\* process about to enqueue it, to record its drop or to replay it.
Carriers(id) ==
  {<<"queue", i>> : i \in {j \in DOMAIN queue : queue[j].id = id}}
  \cup (IF worker.job # NoJob /\ worker.job.id = id THEN {<<"worker", 0>>} ELSE {})
  \cup (UNION {{<<p, i>> : i \in {j \in DOMAIN jobs[p] : jobs[p][j].id = id}} : p \in Procs})
  \cup {<<p, 0>> : p \in {q \in Procs : id \in drops[q]}}
  \cup (IF pc[Loop] = "replay" /\ id \in todo THEN {<<"replay", 0>>} ELSE {})

\* A delivery is neither forgotten nor made twice while the hub runs: from the
\* replay on every pending row has exactly one carrier, and at most one once
\* the hub is stopping; a held, sent or failed row has none.  Row ids deleted
\* under a carrier and given again are excepted.
PendingCarriedOnce ==
  \A id \in DOMAIN rows \ tainted :
    LET n == Cardinality(Carriers(id))
    IN  /\ n <= 1
        /\ rows[id].state # "pending" => n = 0
        /\ rows[id].state = "pending" /\ phase = "up" /\ pc[Loop] # "boot" => n = 1

\* Nothing claims a delivery that never left (dispatcher.go, Enqueue): the
\* message of a sent row was taken by its channel, whatever was dropped, held,
\* released, retried or replayed meanwhile.  Same exception.
RowMessage(id) == MessageOf(JobOf(id, rows[id]))

SentWasHeard ==
  \A id \in DOMAIN rows \ tainted : rows[id].state = "sent" => RowMessage(id) \in heard

\* Why SentWasHeard holds: a job carries the message of the row it will settle,
\* or the id of a row deleted meanwhile; the worker records as sent what the
\* channel took; what rows and processes refer to is in the journal.
Matches(j) ==
  j.id \in tainted \/ (j.id \in DOMAIN rows /\ j = JobOf(j.id, rows[j.id]))

JobsMatchRows == \A j \in CarriedJobs : Matches(j)

AcceptedWasHeard == worker.st = "accepted" => MessageOf(worker.job) \in heard

ReferencesExist ==
  /\ \A i \in DOMAIN rows : rows[i].event \in DOMAIN events
  /\ \A p \in Procs : batch[p] \subseteq DOMAIN events
  /\ \A p \in Procs : \A x \in plan[p] : x.event \in DOMAIN events

HeardInv == ReferencesExist /\ JobsMatchRows /\ AcceptedWasHeard /\ SentWasHeard

\* A channel that was owed the start of an alert is owed its end, even when the
\* route changed or the hub restarted in between (deliveries.go, FiredChannels).
\* Excepted: a channel that was off when the end was notified, what a crash cut
\* between the journal and the rows, a row purged since.  Guardrails are not
\* claimed: a reminder may go to a new channel after another goroutine has
\* notified the end.
ListenersHearTheEnd ==
  \A e \in Live \ Unfinished(Procs) :
    events[e].key \in AlertKeys /\ events[e].kind = "resolved" =>
      \A c \in FiredChannels(events[e].key, e) :
        \/ \E i \in DOMAIN rows : rows[i].event = e /\ rows[i].ch = c
        \/ <<e, c>> \in unowed

\* Reminders of one event to one channel are an interval apart, across
\* restarts too (reminders.go, due: "a restart does not send a burst").
RemindersSpaced ==
  \A i, j \in DOMAIN rows :
    /\ i # j /\ rows[i].reminder /\ rows[j].reminder
    /\ rows[i].event = rows[j].event /\ rows[i].ch = rows[j].ch
    => rows[j].at - rows[i].at >= RemindEvery \/ rows[i].at - rows[j].at >= RemindEvery

\* The last thing a channel hears of a host that came back is that it came
\* back: once the end of an offline alert was heard on a channel, no row of its
\* start is left to be sent there, by the queue, a retry or a replay.  Excepted:
\* a row dropped from the full queue, which a crash brings back when it comes
\* before the drop is recorded.
OfflineInOrder ==
  \A m \in heard : events[m.event].key \in StatusKeys /\ m.kind = "resolved" =>
    \A i \in DOMAIN rows \ (undropped \cup UNION {drops[p] : p \in Procs}) :
      ~ /\ rows[i].event < m.event /\ rows[i].ch = m.ch
        /\ events[rows[i].event].key = events[m.event].key
        /\ rows[i].state \in {"pending", "held"}

\* When the queue overflows a recovery gives way to another job only when
\* every job waiting is a recovery (dispatcher.go, victim).  Same exception.
RecoveriesDroppedLast ==
  [][\A p \in Procs : \A i \in DOMAIN queue :
       /\ queue[i].id \in drops'[p] \ (drops[p] \cup tainted) /\ queue[i].kind = "resolved"
       => \A j \in DOMAIN queue : queue[j].kind = "resolved"]_vars

\* Every pending delivery is settled: sent, given up after the last attempt,
\* dropped or deleted with its host.
PendingSettles == \A id \in RowIds :
  (id \in DOMAIN rows /\ rows[id].state = "pending")
    ~> (id \notin DOMAIN rows \/ rows[id].state # "pending")

\* What waits for quiet hours does not wait after they end for good.
HeldIsReleased == \A id \in RowIds, c \in Channels :
  <>[](c \notin quiet) => []<>~(id \in DOMAIN rows /\ rows[id].ch = c /\ rows[id].state = "held")

-----------------------------------------------------------------------------
(* What the documentation says and the code does not do: it is refuted.   *)

\* "That is what lets a hub killed mid-retry replay the work on the next boot
\* instead of losing it silently" (ARCHITECTURE_EN.md:207): a delivery the
\* shutdown interrupts stays pending.
ShutdownKeepsPending ==
  [][worker.st = "cancelled" =>
       \A id \in DOMAIN rows \cap DOMAIN rows' :
         id = worker.job.id => rows'[id].state = rows[id].state]_vars
=============================================================================

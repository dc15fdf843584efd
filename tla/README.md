# Verification of ServersMonitor

ServersMonitor is a hub (`cmd/smhub`, one Go process over one SQLite file) and agents
(`cmd/smagent`, one per monitored host). Agents send samples over a WebSocket; the hub judges
them against alert rules, tells people by mail, webhook or Teams, and, when Azure is configured,
lists the resources of a subscription, watches their cost, starts and stops machines by hand or
on a schedule, and creates them. This directory holds TLA+ models of that code, the TLC
configurations that check them on small instances, and theorems checked by TLAPS.

Every definition is translated from the Go source; `PROJECT.json` maps each one to its lines.

## 1. The system

### Components, what they keep and what makes them correct

| component | code | state | operations | what is hard | what makes it correct |
|---|---|---|---|---|---|
| alert evaluator | `hub/alerts`, `hub.evaluate` | one cell (ok, pending, firing) per rule and host, in memory; `alert_events` | evaluate, restore at boot, edit hosts and rules | reads hosts, rules and samples in separate queries while handlers edit them; memory lost at a restart; inserts that fail | journal and cells agree; the journal alternates; no early alert; an alert ends |
| hub run loop | `hub/hub.go` | four tickers, one goroutine | boot (interrupt, replay, catch up), minute, fast and hourly work | it starts after the HTTP handlers; one slow step delays every other | each step is right whatever the handlers did since the last one |
| notification pipeline | `hub/notify.go`, `hub/reminders.go` | `deliveries`; routes, quiet hours, channels | journal then rows then jobs; hold, release, remind, replay | crash between any two steps; four writers of the queue; settings that change under a notification | who hears a start hears the end; no row lost or sent twice; reminders an interval apart |
| notification dispatcher | `hub/notify/dispatcher.go` | a bounded queue behind a mutex, one worker | enqueue with a drop policy, send with retries, stop | overflow, a wake-up lost, a shutdown during a send | nothing recorded as sent that was not; every pending row settles; recoveries dropped last |
| notification channels | `hub/notify/{smtp,webhook,teams}.go` | none | send | an answer lost after the message was taken | an error class that says whether to try again |
| hosts and samples | `hub/store`, `server/api_hosts.go` | `hosts`, `samples` | create, mute, delete, mark stale, the badge | select-then-update, cascades, reuse of row ids | a host's status is what its agent last said |
| agent ingestion | `hub/ingest` | the map of connections | hello, sample, reconfigure | a connection replaced while its handler still runs, or racing a reconfigure | the newest connection is the one served; an agent sends at the interval in force |
| agent link | `agent/link` | a ring buffer, an inbox | connect, buffer, replay, back off | a link lost during a replay, a full inbox | what could not be sent is kept; the agent comes back |
| Azure guardrails and schedules | `hub/guardrails`, `hub/guardrails_hub.go` | `azure_schedules`, `azure_guardrail_events` | decide boundaries, catch up at boot, budget and orphan rules | a list read and used later; a crash between mark and act; several writers of one rule; midnights and changes of the clock | a machine is off when its windows say so; a boundary is acted on once; the journal alternates |
| Azure actions | `hub/azure_action.go`, `hub/azure/{actions,async}.go` | `azure_actions` | start, run, poll, close, interrupt | answers lost; a crash anywhere; the page and the schedules at once | one caller per resource; success is Azure's; nothing blocked for ever |
| Azure inventory and cost sync | `hub/azure_sync.go` | `azure_resources`, `azure_costs`, `azure_sync` | sweep, cost query, reload with purge | settings that change during a sweep | what is shown is what is watched |
| Azure provisioning | `hub/azure_provision.go`, `azure/{provision,delete}.go` | `azure_provisions`, `azure_provision_resources` | create step by step, delete | a crash between a creation and its record | what was created is known and can be deleted |
| Azure client and tokens | `hub/azure/{client,token}.go` | a token cache | request, retry, refresh | throttling, three credential sources | bounded retries, no stale token |
| sample retention | `store/retention.go` | rolled-up samples | roll up, purge | a window computed again after its source was cut, late samples, times compared as text | a sample counts in one window; nothing is purged before it is rolled up |
| sign-in, users and sessions | `hub/auth`, `hub/entra`, `server/api_{auth,users}.go` | `users`, `sessions`, the limiter, pending sign-ins | set up, sign in, demote, delete | two requests at once, accounts removed under a sign-in, row ids given again | a local administrator stays; a session is of who signed in; guesses are bounded |
| HTTP server and live updates | `hub/server`, `hub/serve` | subscribers | authorize, route, broadcast, reload TLS | a slow page | the hub never waits for a page |
| store | `hub/store` | the SQLite file | one statement or transaction each | string times, row ids given again | atomic steps |
| agent collectors | `agent/collect` | none | read the OS and Docker | none | none |
| dashboard | `web` | none | show the API | none | none |

### How they interact

The run loop is the only evaluator. It reads tables that handlers and agents write, and it hands
events to the notification pipeline. The pipeline writes one `deliveries` row per channel before
it gives the job to the dispatcher, whose worker is another goroutine. The goroutines of the Azure
integration (sweep, cost query, actions) call the same pipeline for guardrails, so the queue and
the journal of guardrails have several writers. `ReloadNotify` and `ReloadAzure` are called by the
handlers of the settings page and replace what the other goroutines read. SQLite is opened with
one connection: a statement or a transaction is one atomic step, and everything between two of
them can be interleaved, or cut by a crash. That is the grain of the models.

## 2. The modules

| module | what it is |
|---|---|
| `AlertLog` | abstract: per key, the journal reads fired, resolved, fired, ... and removal forgets a key |
| `AlertMachine` | the evaluator, `checkStale`, `New`'s restore, the host and rule handlers, hellos and samples |
| `MCAlertMachine` | values of `DefaultRules` for TLC |
| `AlertProofs` | theorems about `AlertMachine`, and that it implements `AlertLog` |
| `Notify` | the notification pipeline, the dispatcher and its worker, `deliveries` |
| `NotifyProofs` | theorems about `Notify` |
| `AzureOps` | actions, schedules, the failure journal, the inventory sweep, the reload of the settings |
| `AzureProofs` | theorems about `AzureOps` |
| `AzureProvision` | runs that create machines, deletions, their records, the restart |
| `ProvisionProofs` | theorems about `AzureProvision` |
| `OffHours`, `MCOffHours` | the windows of a schedule, their boundaries, what the minute tick and the boot make of them |
| `OffHoursProofs` | theorems about `OffHours` |
| `HostLink` | the agent's sessions and buffer, the WebSocket, the hub's handler of each connection, the saves of the interval |
| `LinkProofs` | theorems about `HostLink` |
| `History`, `MCHistory` | samples, their roll-up, the purge |
| `HistoryProofs` | theorems about `History` |
| `Accounts`, `MCAccounts` | accounts, sessions, sign-in, the limiter |
| `AccountsProofs` | theorems about `Accounts` |

The modules meet at their edges rather than in one product: `AlertMachine` produces the alternating
journal that `Notify` starts from; `AzureOps` sees a boundary come every `Period`, `OffHours` says
when that is; `HostLink` stores samples in the order `AlertMachine` takes them and `History` rolls
them up.

### AlertMachine

State: `hosts`, `rules`, `journal` are the tables, functions of row ids (the last event of a key is the
row with the largest id, as `LastEventPerKey` selects it); `cells` is `Machine.cells`; `pc`,
`seenHosts`, `seenRules`, `silent`, `out` are the local variables of `Hub.evaluate` and `checkStale` at
their database calls. `evaluate` is `EvalHosts`, `EvalRules`, `EvalObserve` (the samples and the pure
`Evaluate`, which nothing can interleave), then one `InsertEvent` or `SkipEvent` per transition.
`MarkStale` is `CheckStale` (the select) and one `MarkOffline` per host (the updates). `Boot` is a
crash at any point followed by `New`: default rules, cells restored from the journal. Every handler is
one transaction. A metric is `Absent` or one of `Levels`; a sample may be older than now (the agent's
buffer), and `Report` refuses one that is not newer than the last.

Row ids are the largest plus one, as SQLite gives them without AUTOINCREMENT, because
`Machine.Forget` (machine.go:59) is never called: the cell of a deleted rule or host survives and
is found again by the next row that gets its id. The history variables name what the code gives up
on: `lost` (an insert failed or was refused by the foreign key) and `recycled` (the row id of the
key may be given again). `clearAt` records the last clear observation of a key.

Left out: the time between the insert of a sample and the write of its host's status
(`handler.go:164`, `:173`), which are one step here, and between the reading of the clock and the
queries of `evaluate` (`hub.go:206`), which here reads it with the samples.

### Notify

`events`, `gone`, `rows` are the tables. Each process (the run loop, and the goroutines in `Syncs`)
has `pc`, `view` (the settings and the time it read), `batch`, `plan`, `jobs`, `drops`: the local
variables of `notify`, `notifyGuardrails`, `releaseHeld`, `remind` and `replayDeliveries` between
database calls. A transition goes `Journal` -> `NotifyStart` -> `NextEvent` -> `AddRow` per channel
-> `Lock`, `EnqueueOne` per job, `Unlock` -> `RecordDrop` per dropped row -> `EnqueueReturns`. The
worker is `Pop`, `Wait`, `Woken`, `Send`, `Backoff`, `Record`. `Send` answers independently of
whether the channel took the message (an answer can be lost), and `cancelled` is what a webhook or
Teams call under way becomes when the context ends. `Stop` cancels the context, `Boot` kills the
process at any step and starts another.

Abstractions: each alert key is of a host of its own; quiet hours begin and end when they like; a
message is its event, channel and kind; errors of the database are left out except the foreign key that
refuses a row for a deleted event; the alternation of fired and resolved is taken from `AlertMachine`,
which establishes it; the event of a host muted or of a rule deleted between the queries of `evaluate`
and its insert (`hub.go:207`) does not occur; a process reads its view in one step, although
`ReloadNotify` stores settings and channels in two atomics. History: `heard` (what channels took),
`unowed` (events and channels without a row: the channel was off when the event was notified, a crash
came before the row, or the purge took it since), `undropped` (drops a crash kept from being recorded),
`tainted` (row ids deleted while somebody held them).

### AzureOps

`task[a]` is the goroutine of action `a` (`mark`, `post`, `await`, `close`, then the journal of
`schedule_failed` in two steps, read and insert); `loop` and `todo` are the run loop in
`interruptActions` and `runSchedules`, with the copies of the schedules it works from; `sweep` is
`syncAzureInventory` between its read and its store; `reload` is the settings handler between
`SaveConfig`, the purge and the new settings. `cloud` and `ops` are Azure: it may take an operation
whose answer is lost (`Post`), and ends it when it likes (`AzureEnds`), whether or not the hub still
listens. HTTP handlers are enabled before the loop has interrupted the old actions, as in
`cmd/smhub`. A boundary of every schedule comes every `Period`; 0 stands for `last_boundary` NULL.

`StartActionFrom`'s check and insert are one step: the partial unique index makes the insert fail
exactly when the check would have refused. History: `decided` (boundaries decided since a schedule
was created), `overtaken` (actions interrupted by the boot of the process that runs them),
`overlap` (two writers of `schedule_failed` between read and insert). Both exceptions are
necessary: without `overtaken` TLC finds two callers, without `overlap` two fired in a row.

Left out: whether an action starts or stops the machine, the state a row shows and its read-back, the
Location of an operation without a status (`async.go:144`; for an action it ends with the operation,
and here is one with it), errors of the database, two saves of the settings at once, the cost query,
the orphan scan.

### AzureProvision

`runs` and `recorded`/`deleted` are the tables `azure_provisions` and `azure_provision_resources`;
`worker[p]` is first the handler (`StartProvision`, `CreateHost`) and then the goroutine
(`MarkRunning`, `ReadVNet`, then `Put`, `AwaitPut`, `Record` for the NIC and again for the VM,
`Finish`); `deleter[d]` is a deletion: `DeleteProvision` (what it read from the table), `Check` (the
tag of one resource), `Delete`, `AwaitDelete`, `Mark`. `cloud`, `ops`, `removing` are Azure. A PUT or
a DELETE is sent again after a 429, a 5xx or silence, and any of those may hide one that Azure took;
a poll may fail whatever becomes of the operation. The answer to a PUT of one of the `Nameless` kinds
may lack the Azure-AsyncOperation header, and `Await` then ends with the Location or at once,
whatever Azure does after: such a creation is `Blind`, "unwatched" while Azure builds and "unseen"
once it has ended either way, and of a run with one success means that Azure took it. The Location
of a deletion is not told apart from its end. A NIC attached to a VM cannot be removed, a
resource being removed cannot be created. People delete, replace or untag resources by hand.

Nothing in the code keeps a deletion from running beside another one or beside a new run of the same
name, and the resources of a name have the same ids whichever run creates them, so both happen here.
History: `overtaken` (as in `AzureOps`), `overlap` (names with a run and a deletion alive at once),
`unnamed` (resources a run asked for and ended without recording), `swapped` (resources people
changed while a deletion of that name ran). Each is the exception of one property, and for each TLC
finds a violation when the exception is taken out: section 6 says what that means for the hub.

Left out: what refuses a run before its row exists, the verdict on outbound access, `host_id`, the
text of errors, a change of the configured subnet, the deletion of an orphan (`azure/orphans.go`),
statements that fail other than the two records of resources. A request that the hub has given up on
has reached Azure by then or never does.

### OffHours

An instant is a minute of UTC and a wall-clock time a minute of the zone, which has one offset
before a change and another after it. `TimeDate` is Go's `time.Date` (external): the offset found at
the wall-clock time read as UTC, or at the instant that gives. `Clock`, `Around`, `Merged`, `Off`,
`LastBoundary` are `clock`, `intervals`, `merge`, `Off`, `LastBoundary`; `Minute` and `CatchUp` are
`applySchedules` and `catchUpSchedules`, up to the action they ask for, which `AzureOps` carries out;
`Sleep` is a minute in which the hub is down or Azure is not configured. The reference is `Meant`,
computed once over all days with no look-back, no snapping and no repeated hour: off from the first
time the wall shows the start to the first time it shows the end.

### HostLink

`agent` is `Run` and `session` (`away`, `welcome`, `replay`, `live`), its buffer and what it drained;
`up` and `down` are what is in flight on each connection, `cut` the connections the network lost and
`ends` who closed them. Every connection has its `handler` goroutine on the hub, from `ReadHello`
over `WriteWelcome`, `Register`, `CloseOld` to `TakeSample`, `InsertSample` and `HandlerEnds`; those of
older connections run on while a newer one is served. A save of the settings is `PutRead`, `PutStore`,
`PutApply` (`Reconfigure` under the lock) and `PutPush` (the write, after the lock); one of its four
writes may fail before or after the interval is stored (`PutFails`). A write on a
connection that is cut may succeed and be lost; one that fails may have arrived. Agent and hub
restart anywhere. A connection's number is used again once both sides have forgotten it. History:
`owed` (samples the agent knows it could not send and has not sent since), `strays` (connections that
missed an interval; `None` once two saves overlapped; `Unapplied` once a save failed with the interval
stored and not applied).

### History

`table[t]` holds the rows of `samples` and its roll-ups; a row is the set of the samples it was
computed from, so that properties speak of samples, not of averages. `Hourly` begins `Aggregate`,
`Fill` computes one window of one table for all hosts, `NextTable` goes on, `Purge` cuts the tables;
`Report` is a sample that arrives between any two of them and `FillFails` a statement that fails. The
hub may `Stop` anywhere, is down for a time (`TickDown`, `MaxDown` in all), in which it hears nothing,
and does the hourly work at once at its `Boot`; what the agents send of the meantime comes late. A
hub that is killed again and again before that work is done counts as down. Times are compared as
the text SQLite holds: a position is the place of an instant in that order, in which an instant
within a second comes before the second itself.
The retentions are `Lasting`: each lasts two windows of the next table, the longest silence of all
hosts while the hub is up, the lateness of a sample, all hours that fail and all the time the hub is
down, less one second, and is over before that of the next table (the defaults are, by far: 24 hours
of samples for windows of 10 minutes, 30 days of these for windows of an hour, a year of those for
windows of a day, unless the hub is down for most of a day). `MCHistory` takes the shortest ones
that are, and TLC evaluates that. `skipped` names the samples the code never rolls up: those that
arrive behind the newest window of all hosts, and those before the first window.

### Accounts

`req[r]` is an HTTP request between its steps: `Setup` (the count of accounts), `CreateUser`; `LetIn`
(the limiter), `Verify` (the row and the password), `Wrong` or `Right` (the limiter again),
`CreateSession`; `Finish` (the state of a Microsoft sign-in, taken and deleted), `Identified`;
`Authorize` (the `auth` wrapper) and then the write of an administrator. Each is one statement,
transaction or locked call. All attempts come from one address. Row ids are given again as SQLite
does. A restart forgets limiter, pending sign-ins and requests. History: a session's `owner`, `via`
and `state`, and `stale` (the account was removed before the session was opened); `guesses` (the
failures of the last lockout of time).

## 3. What is checked

Each run asks one question; `PROJECT.json` lists its properties and, for each, a mutant of the code
that TLC finds to violate it under the same configuration. `CHECK_DEADLOCK FALSE` is set because the
bounds stop the system, which itself never stops.

| run | bounds | states | question |
|---|---|---|---|
| `alerts` | 1 host id, 1 rule id, duration 2, clock to 4, 2 samples or hellos, 2 edits, 1 restart, 1 failed insert | 1.1 M | do cells and journal agree, does the journal alternate, does an alert wait its duration and end (liveness) |
| `notify_rows` | 2 channels (a mail, a webhook), queue of 2, 2 attempts, 2 events, 4 rows, 1 restart, 1 edit of route, quiet hours, channel or host | 5.1 M | rows: carriers, claims, listeners |
| `notify_queue` | 1 channel, queue of 2, 4 events of 2 keys, one of them `offline`, 4 rows, 1 attempt, 2 quiet edits, 1 restart | 6.7 M | overflow, order |
| `notify_remind` | interval 2, purge after 2, clock to 4, 1 event, 3 rows, 1 restart, 1 mute or deleted rule | 3.6 M | spacing of reminders |
| `notify_live` | the loop and one Azure goroutine, queue of 1, 2 events, 2 rows, 2 quiet edits, no restart | 0.2 M | liveness of rows |
| `azure` | 1 resource, 2 actions, period 2, clock to 3, 2 changes (settings, schedule, restart, by hand) | 5.9 M | actions and schedules |
| `provision` | 1 name, 2 runs, 1 deletion at a time, a PUT of a VM may be answered without naming its operation, 1 change (by hand, host added, restart) | 6.1 M | runs and deletions, what a success means |
| `link` | 1 host, 2 connections not forgotten, 2 samples, inbox of 1, 2 saves, each of which may fail, 2 intervals, 1 fault | 1.9 M | what is lost, refused, stored; who is served; the interval; does the agent come back (liveness) |
| `history` | 2 hosts (6 samples and 1), windows of 1 and 2, retentions 4 and 6, clock to 8, 1 sample during the hourly work, one second with a fraction, 1 failed statement of the roll-up, any number of stops, down for 1 in all, late by as much | 4.5 M | the roll-up and the purge, across a hub that is down |
| `accounts` | 2 requests, 3 addresses, 3 accounts, 2 sessions, 1 Microsoft sign-in, limit 2, lockout 2, clock to 2, 1 restart, 7 sign-ins or writes | 2.0 M | administrators, sessions, guesses |
| `windows` | days of 6 hours of 2 minutes, weeks of 7 days, 76 window lists, 5 zones, clock over 3 days around the change, 10 minutes without a look, catch-up of 6 minutes | 0.3 M | are the windows what they mean, is each turn acted on |
| `doc_shutdown` | small | | a violation, section 6 |

Why these are enough to see the interesting cases. A rule can be deleted and its id given again, and a
duration of 2 with a clock to 4 lets a breach begin, lapse and begin again; two rule ids, with which a
global rule is shadowed by a rule of the host, were checked for the safety properties over 9 M states.
A queue of 2 with 4 rows overflows and drops in every order of start and end; a queue of 1 with two
goroutines drops on any concurrency. Two actions on one resource are the smallest that can be two
callers; a period of 2 with a clock to 3 has a boundary missed, one decided and one to come. Two runs
of one name are the smallest that can race; properties of provisioning relate only resources of one
name, so a second name adds nothing. Where every answer names its operation, two deletions at once were
checked with the same invariants over 16 M states, and two changes over 5.6 M; the configuration that
is kept has one of each, for time, and the theorems hold for any number. Two connections are the one in
use and the one it replaces; a second fault and a third sample multiply the states of `link` without a
new case. In `history` the clock is long enough for each table to be filled, purged and filled again;
the hub may be down before, between or after the hour that fails, and boots before anybody is heard.
The retentions are the shortest: with the second of them one shorter than `Lasting` asks, TLC shows a
row that shrinks. A hub that is down for longer than a host is silent (one host, down for 2, clock to
10, 3.1 M states) and samples that are late while it is up (2.1 M states) were checked with the same
properties. Two requests are the smallest race of `accounts`; three accounts let one be removed and its
id given to another while an administrator is left. In `windows` the start of a window is one of 5
minutes and its end any minute of a day, daily, twice a week, over a weekend and over four days, and
the zones are east and west of UTC, with gaps and repetitions of an hour and a repetition of half an
hour. Where a counter is bounded (`MaxEvents`, `MaxEdits`, `MaxChanges`, `MaxRows`, `MaxActions`,
`MaxRuns`, `MaxBoots`, `MaxDown`, `MaxTime`), the bound is a conjunct of the action that would pass it,
and a theorem, where there is one, holds for every value of it.

## 4. Fairness

`AlertMachine`: weak fairness of the steps of the evaluation and of the stale check, because the
ticker of the run loop fires for ever and a step of the loop does not wait for anything else. No
fairness of samples, handlers, edits or restarts.

`Notify`: weak fairness of the steps of the loop, of the Azure goroutine and of the worker, all of
which are goroutines that the Go scheduler runs; strong fairness of `Lock` and of `Pop` and `Wait`,
because they take a `sync.Mutex`, whose starvation mode hands it to a waiter within bounded time.
A channel's call always ends, as the HTTP client and the SMTP dialogue have time limits. No fairness
of people, crashes or of new events.

`HostLink`: weak fairness of the steps of the agent, of each handler's and of the saves', goroutines
that Go runs, each of whose steps ends: reads have a deadline, dials and writes a time limit. No
fairness of faults, samples or of people.

`AzureOps`, `AzureProvision`, `OffHours`, `History` and `Accounts` have only safety properties and no
fairness: Azure may never answer, the hub may be down, people come when they like.

## 5. What is proved

The theorems hold for every value of the constants, from the named assumptions of the modules
(`ConstantsAssumption`, `NotifyAssumption`, `AzureAssumption`, `NoScheduleAssumption`,
`ProvisionAssumption`, `LinkAssumption`, `HistoryAssumption`, `AccountsAssumption`,
`OffHoursAssumption`: bounds are natural numbers, sets finite or not empty, kinds of keys disjoint, a
window of `History` a multiple of the one below, `None` neither a boundary nor a time). The invariants
that the runs check are not inductive as they stand; each proof strengthens them first.

- `AlertProofs`. `TypeCorrect`. `CellsAgreeWithJournal`: what the cell of a key says, what the journal
  says last and what is still to be inserted are one story (`Agree`), and something is to be inserted
  only while `evaluate` does so (`Batch`). A boot reads the cells off the journal, so it restores
  `Agree` wherever it cuts. `NoEarlyAlert`: a pending cell has waited since its last clear observation
  (`Waits`). `ImplementsAlertLog`: with `Agree`, every step appends to the rows of the keys the log
  tells of what `AlertLog` allows, takes away a key with all its rows, or leaves them alone.
- `NotifyProofs`. `TypeCorrect`. `SentOnlyIfHeard`: a row recorded as sent was taken by its channel.
  `SentWasHeard` alone says nothing of jobs on their way, so `HeardInv` adds that the ids which
  queues, jobs and rows hold refer to something (`ReferencesExist`), that a job carries the entry of
  its row unless the row was tainted (`JobsMatchRows`), and that an answer of acceptance in the
  worker's hands means the channel has the message (`AcceptedWasHeard`).
  `PendingIsCarriedOnce` from `CarriedInv`: each id, whether or not a row has it, has at most one
  place among queue, worker, jobs, drops and replay (`Once`), since a new row takes the id of a
  deleted one; nobody moves before the replay (`QuietBoot`); a release still finds held what it read
  (`ReleaseReads`). `OnlyRecoveriesLeft` from the same invariant and what `victim` picks.
  `RemindersAreSpaced` from `SpacedInv`: what is planned is due, and for each channel once.
  `EveryListenerHearsTheEnd` from `EndInv`: the loop tells of the last event of an alert, whose
  listeners do not change any more (`TellsTheLast`), excuses only what its view lacks
  (`OffIsExcused`), and for an end that is planned and not written the property holds of the plan
  (`EndIsTold`).
  `EndIsHeardLast` from `OrderInv`, which follows the rows of an offline alert: they are written in the
  order of their events by the loop alone (`RowsInOrder`), never held (`NeverHeld`), each pending one
  has a carrier once the replay has begun (`OnItsWay`), and none is behind a later one of its key and
  channel, in the jobs of the loop (`LoopInOrder`), the queue (`QueueInOrder`) or with the worker
  (`WorkerInOrder`). It says nothing of other alerts, whose start quiet hours may hold.
- `AzureProofs`. `TypeCorrect`. `OneCaller` and `NeverHeldByNobody` from `HoldInv`: two actions of a
  resource are never both open (the index), and whoever is busy is open unless a boot overtook it.
  `SuccessIsAzures` from `DoneInv`: a task asks once and closes well only after seeing its operation
  done. `ActsOncePerBoundary` from `BoundaryInv`: every decided boundary is at or before the recorded
  one, and the copies the loop works from are no more recent than the table. `NoFailureTwice` from
  `AltInv`: who has read the journal of `schedule_failed` and has yet to insert is alone
  (`OneWriter`), and what it read is still so (`StillNews`), for resources not in `overlap`.
- `ProvisionProofs`. `TypeCorrect`. `SuccessIsBuilt` from `BuiltInv`: the record of a run is what its
  goroutine has passed, and each entry an operation Azure ended well or is `Blind` to; a creation that
  is blind stays so. `BuildsAlone` and
  `NeverHeldByNobody` from `HoldInv`. `AlwaysNamed` from `NamedInv`, on top of `BuiltInv`: a run and
  a deletion of one name alive together have been seen (`OverlapSeen`), and what a deletion is about
  to mark is gone (`GoneWhenMarked`). `DeletesItsOwn` from `SafeInv`: what a deletion has checked and
  has still to delete, and what Azure is removing, is the hub's unless people replaced it meanwhile.
- `LinkProofs`. `TypeCorrect`, and from one inductive invariant `UnsentAlwaysKept`, `OnePlaceUsed`,
  `NeverZombie`, `RefusedAlwaysStored`. It is `TypeOK`, `UnsentIsKept` and `NoZombie` with `Memory` (what
  the agent holds in each state: one sample in buffer and replay together), `Links` (a connection
  the agent has left is closed by it, one not welcomed is not registered nor a target of a save) and
  `Ordered`: nothing is newer than the newest sample taken, and on the connection in use samples are
  in flight in ascending order, none older than what is stored or on its way elsewhere. `IntervalAgreed`
  adds what each side knows of the interval at each step of a welcome, a save and a delivery: an
  agent that is no stray has the interval in force, or it is on its way to it (`Telling`). In force is
  what the handler's configuration holds, and that is the setting unless a save failed in between
  (`OneRequest`).
- `HistoryProofs`. `SampleCountsOnce`: a row of the first table is one sample (`Raw`), a coarser row
  stands at the beginning of a whole past window and was computed from samples within it (`Rows`), and
  the window to compute next is a whole one (`Work`). Two rows of a table then stand for different
  hosts or for windows that do not meet, late samples, failures and restarts notwithstanding.
  `RowsNeverShrinkIfLasting` and `PurgedIsRolledUpIfLasting` have `Lasting` as their hypothesis, which
  the code does not enforce (section 6); without it both properties fail. A row shrinks if it is
  computed again after the purge has cut its source, so `Retained` says that the newest rows of each
  table are made of rows the source still has (`Again`), and that what the windows have passed is in
  the table or skipped (`RolledUp`). A purge keeps to both if no table has fallen behind by a
  retention: its newest row ends no earlier than the last hour that did not fail, less a window and
  `Lag`, which is the silence, the lateness and the time the hub has been down so far (`NewestRecent`;
  while the hub is down the last hour moves with the clock and `Lag` with it), and while it has none
  its source has nothing older (`SourceRecent`). That is not inductive: whether an hour's work brings a
  table up to date depends on rows on their way through the tables below, which a purge, a failed
  statement or a stop may meet anywhere. `Carried` names for each table the row its next one will come
  from, as a place in some table below that the work has not passed and no purge may take, or says that
  there is nothing to bring; `Opened` and `FirstWindow` say where the windows of the present hour
  began, and `Downhill` that no table is ahead of its source.
- `OffHoursProofs`. `WindowsAreMeant` (`OffIsMeant`) and `TurnsAreActedOn` (`ActsOnItsTurns`), for every
  list of windows, every horizon and every zone with one change of its offset that is `OnTheHour`: what
  is skipped ends on a full hour and is no more than one, what is repeated is within the look-back of
  `clock`, and no midnight is skipped or repeated. `clock` then gives the first instant that shows a
  time (`ClockIsFirst`); a window that is open is one of the four days `intervals` looks at
  (`SeenIsOff`), and merging changes nothing (`MergedCovers`), so that `Off` is what is meant. The last
  boundary is the last turn of what those days hold (`LastBoundaryIs`), which is a turn of the schedule
  unless it is a midnight within a `LongOff` (`BoundaryIsMeant`). Acting on turns needs `ActedIfPlain`:
  what is recorded is as recent as the last boundary was at the last look; and it needs `Apart`, no day
  begins with the change (section 6). `MCOffHours` assumes both of its zones, and TLC evaluates that.
- `AccountsProofs`. `TypeCorrect`, `LocalAdminAlways`, `SessionsAlwaysTheirs`, `GuessesAlwaysBounded`.
  `LimiterInv`: the failures remembered are no more than the limiter's entry counts, and the entry
  with the attempts under way stays within the limit and the number of requests. `AdminInv`: a
  request past its authorization implies accounts (that a local administrator stays is then the
  check inside the transaction). `OwnerInv`: a request that is not stale knows a living account.
  `StateInv`: a state in a session or a request is not pending any more, and is in one of them only.

Only model-checked: liveness, which needs fairness and ENABLED (`AlertsEnd`, `PendingSettles`,
`HeldIsReleased`, `ComesBack`).

## 6. Where code and documentation part

A run shows `doc_shutdown` (`findings` in `PROJECT.json`): a webhook interrupted by the shutdown is
recorded as failed and never replayed.

Others met while modelling, each the reason for an exception in a property or for a history variable:

- `ARCHITECTURE_EN.md:142` ("Deleting a host removes everything about it in one statement"): its cell in
  memory survives, as does that of a deleted rule, because `Machine.Forget` (machine.go:59) has no
  caller; a new row with the same id inherits it, and its first breach is silent.
- A crash between an event and its rows leaves nobody owed (`notify.go:54`); a full queue can lose a
  recovery to a newer job (`dispatcher.go:103`); the minute tick evaluates before it releases, so
  that an end may be heard before its held start (`hub.go:164`); a pending or held row survives the
  muting of its host; reminders are remembered per event, not per channel, so a channel leaving quiet
  hours may wait an interval more; a reminder may follow a resolved that another goroutine journals.
- `MarkStale` selects and then updates: a sample between the two is overwritten (`hosts.go:183`).
- A new or re-enabled schedule acts at once on its past boundary; deleting one forgets its boundary and
  leaves its `schedule_failed` firing; one deleted after the loop read it is still applied; two writers
  of `schedule_failed` can both insert; an action started before the boot's `interruptActions` is
  recorded as interrupted while it runs, and a second may start beside it; a crash between the saving
  of a scope and its purge leaves the rows of the old one.
- The badge counts an alert that nothing will resolve when a rule for one host shadows the global rule
  that fired there: `Evaluate` judges only the host's rule (`evaluate.go:101`), and `firingEvents`
  (`api_hosts.go:106`) drops only muted hosts and deleted rules, "two cases that can never produce a
  matching 'resolved'" (`api_hosts.go:77`).
- `deliveries.id` has no AUTOINCREMENT: the id of a row deleted with its host is given again, and the
  old job, queued or being sent, marks the new row sent (`dispatcher.go:115`; `dispatcher.go:98`:
  "nothing ever claims a delivery that never left"). The history variable `tainted` of `Notify`.
- A sweep that reads the scope before a reload and stores after it brings back the resources of the old
  scope, and no later sweep covers them (`azure_sync.go:134`; `azure_sync.go:18` wants them purged).
- Schedules. `intervals` looks back two days: of an off time that began before the midnight of two days
  ago (Friday evening to Monday morning, or any longer one) it computes, at each midnight, a start
  later than the recorded boundary, and the hub stops the machine again although somebody has started
  it by hand (`schedule.go:98`; `ARCHITECTURE_EN.md:360`: "the hub never fights a person"). It is
  `LongOff` in `OffHours`. A window wholly inside the skipped hour becomes empty, its end is not after
  its start, and `LastBoundary` reports the start: the machine is stopped and not started until the
  next boundary (`schedule.go:210`; `Swallowed`). Where the gap is half an hour, the next full hour is
  not "the first instant of the new offset" (`schedule.go:135`); where the clock changes at midnight
  west of UTC, the midnight that does not exist is 23:00 of the day before, and the windows of that day
  are computed from the wrong one (`schedule.go:99`). Where the gap ends at midnight (23:00 to 24:00), a
  window from the skipped hour to "00:00" is empty and its start is reported as the last boundary. The
  last three are not `OnTheHour` or not `Apart`, and outside the zones of `MCOffHours`.
- The interval of an agent. One welcomed before a change of the settings and registered after
  `Reconfigure` listed the connections keeps the old one (`handler.go:66`, `:126`); two saves at once can
  leave table, handler and agents apart (`api_settings.go:38`); an inbox that is full drops an interval
  (`link.go:190`). `strays` in `HostLink`. A save of several settings that fails after the interval is
  stored returns before `Reconfigure` (`api_settings.go:41`): table and agents then differ, and saving
  the same value again does not repair it, since it equals what is stored (`:46`); saving another value
  does, and so does a restart of the hub (`Unapplied`; until then `IntervalKnown` says that the agent has
  the interval the handler holds). Of the sixty places of the agent's buffer (`link.go:41`) one is
  ever used, as nothing is sampled while the agent is away: theorem `OnePlaceUsed`.
- Retention: the settings page accepts a retention as short as the next window (`api_settings.go:34`);
  the windows are then computed again from a source the purge has cut, and shrink (`retention.go:33`:
  "Rewriting a window gives the same result"). `Lasting` is what the page would have to ask for. Hosts
  that are silent together for as long as a retention have the same effect, whatever it is set to: the
  newest window is computed again every hour, while the purge cuts its source. So has a hub that is
  down for that long: it does the hourly work as soon as it boots (`hub.go:156`), before the agents are
  back, and if a statement of it fails, samples are purged that were never rolled up. `Lasting` counts
  all the time the hub is down (`MaxDown`). A late sample behind the newest window of all hosts is
  never rolled up, nor is the one before the first window.
- A sign-in that has read an account which is then removed opens a session for its id, and whoever is
  given the id next owns that session (`users.go:140`; `stale` in `Accounts`).
- Provisioning: a resource whose answer is lost, or whose run crashes before the record, exists without
  a row naming it (`azure_provision.go:108`, "the hub must not create something it cannot name
  afterwards"); a deletion and a run of one name may overlap, and a living machine be marked as deleted,
  since rows are found by resource id; deleting the record of an old run deletes the newer machine of
  the same name; tags are read before the first DELETE and not before each
  (`azure_provision.go:182`, "checked again in Azure before every DELETE"); a PUT over a resource
  somebody else created adopts it; a PUT answered without an `Azure-AsyncOperation` header is followed
  by its `Location`, or not at all (`async.go:60`, `:75`), which "is earlier than the machine being
  ready" (`async.go:70`): a run is recorded as succeeded while Azure still builds, or before it fails
  (`Blind`); a run refused because its host name is taken leaves a failed row
  (`ARCHITECTURE_EN.md:441`, "creates nothing at all").

## 7. Not modelled, and what remains

Not modelled, as they hold no state the properties are about or are a library's: wording and
formatting, payloads and MIME, password hashing, the verification of an ID token, HTTP routing and
TLS, collectors and the dashboard, the opening and migration of the database.

Not modelled, though it is the program's own logic: the Azure client's retries and its token cache
(their outcomes are what `AzureOps` and `AzureProvision` choose from); the cost sweep and the orphan
scan; the budget and orphan rules; the change of a password; the key cache of the Microsoft
sign-in; the tables of containers and host information; the series the pages draw; the broadcaster.

Worth doing next: a model of the token cache and its three sources; the budget thresholds against a
reference definition.

--------------------------- MODULE AzureProvision ---------------------------
(***************************************************************************)
(* Creating and deleting machines: hub/azure_provision.go, CreateVM        *)
(* (azure/provision.go), DeleteCreated (azure/delete.go) and the tables    *)
(* azure_provisions and azure_provision_resources.                         *)
(*                                                                         *)
(* A run is created by a handler and carried on by a goroutine: the row of *)
(* the run, the row of the host, then a NIC and a VM, each awaited and     *)
(* recorded before the next.  A deletion is a goroutine of its own, and    *)
(* nothing keeps it from running beside another deletion or a new run of   *)
(* the same name.  The resources of a name have the same ids in Azure      *)
(* whichever run creates them, and a PUT on an id that exists updates it.  *)
(*                                                                         *)
(* Azure may lose the answer to what it took; people use it by hand; the   *)
(* hub may crash at any step, and its handlers are up before its run loop. *)
(* Left out: what refuses a run before its row exists, the text of errors  *)
(* (delete_error too), the outbound verdict, host_id, a change of subnet,  *)
(* and statements that fail, other than the records of resources.  A       *)
(* request the hub has given up on has reached Azure by then, or never; a  *)
(* deletion followed by its Location is one followed by its operation.     *)
(***************************************************************************)
EXTENDS Integers, Sequences

CONSTANTS
  Names,      \* names of machines; two spellings of one name are two names
  Deleters,   \* goroutines that delete
  Nameless,   \* bound: kinds of resource Azure may take without naming the operation
  MaxRuns, MaxChanges   \* bounds

RunIds == 1..MaxRuns
Kinds == {"nic", "vm"}

ASSUME ProvisionAssumption ==
  Names # {} /\ Nameless \subseteq Kinds /\ MaxRuns \in Nat /\ MaxChanges \in Nat

Things == Names \X Kinds
Statuses == {"pending", "running", "succeeded", "failed", "interrupted"}
Run == [name : Names, status : Statuses]
WorkerSteps == {"none", "host", "mark", "read", "put", "await", "record", "finish"}
Blind == {"unwatched", "unseen"}   \* creations whose end the hub cannot learn
OpStates == {"none", "queued", "done", "failed"} \cup Blind
Worker == [pc : WorkerSteps, kind : Kinds, ok : BOOLEAN]
DeleterSteps == {"none", "check", "delete", "await", "mark"}
Deleter == [pc : DeleterSteps, name : Names, left : SUBSET Kinds, unread : SUBSET Kinds,
            ans : {"none", "done", "failed"}]

VARIABLES
  cloud,      \* Azure: what exists, with the tag of the hub (ours) or without
  ops,        \* Azure: the creation of each resource by each run; unwatched while
              \* it goes on, then unseen, when its answer named no operation
  removing,   \* Azure: the deletions it has taken and not ended
  hosts,      \* names in hosts
  runs,       \* azure_provisions, by id
  recorded,   \* azure_provision_resources: the kinds of each run
  deleted,    \* those with a deleted_at
  worker,     \* the handler, then the goroutine, of each run
  deleter,    \* the goroutines of the deletions
  booting,    \* Run has still to interrupt the runs of the last process
  changes,    \* counts the restarts and what people change, for the bound
  overtaken,  \* history: runs interrupted by the boot of their own process
  overlap,    \* history: names with a run and a deletion at once
  unnamed,    \* history: resources a run asked for and ended without recording
  swapped     \* history: resources people changed while a deletion of the name ran

azure == <<cloud, ops, removing>>
tables == <<hosts, runs, recorded, deleted>>
procs == <<worker, deleter, booting>>
history == <<overtaken, overlap, unnamed, swapped>>
vars == <<azure, tables, procs, changes, history>>

AnyName == CHOOSE n \in Names : TRUE
NoWorker == [pc |-> "none", kind |-> "nic", ok |-> FALSE]
NoDeleter == [pc |-> "none", name |-> AnyName, left |-> {}, unread |-> {}, ans |-> "none"]

Goto(p, step) == worker' = [worker EXCEPT ![p].pc = step]
Fails(p) == worker' = [worker EXCEPT ![p].pc = "finish", ![p].ok = FALSE]
Target(p) == <<runs[p].name, worker[p].kind>>
Creation(p) == <<p, worker[p].kind>>
Deleting(n) == \E d \in Deleters : deleter[d].pc # "none" /\ deleter[d].name = n

-----------------------------------------------------------------------------
(* StartProvision: the row of the run, then the row of the host. *)

\* Mutant: a run that has not begun does not hold its name.
InFlightRunning(n) == \E p \in DOMAIN runs : runs[p].name = n /\ runs[p].status = "running"

\* The partial unique index of azure_provisions.
InFlight(n) == \E p \in DOMAIN runs :
                 runs[p].name = n /\ runs[p].status \in {"pending", "running"}

StartProvision(n) ==
  /\ ~InFlight(n) /\ Len(runs) < MaxRuns
  /\ runs' = Append(runs, [name |-> n, status |-> "pending"])
  /\ Goto(Len(runs) + 1, "host")
  /\ overlap' = IF Deleting(n) THEN overlap \cup {n} ELSE overlap
  /\ UNCHANGED <<azure, hosts, recorded, deleted, deleter, booting, changes, overtaken,
                 unnamed, swapped>>

\* CreateHost: the name of a host is unique, so the run of a known one fails.
CreateHost(p) ==
  /\ worker[p].pc = "host"
  /\ IF runs[p].name \in hosts THEN Fails(p) /\ UNCHANGED hosts
     ELSE hosts' = hosts \cup {runs[p].name} /\ Goto(p, "mark")
  /\ UNCHANGED <<azure, runs, recorded, deleted, deleter, booting, changes, history>>

-----------------------------------------------------------------------------
(* runProvision and CreateVM. *)

MarkRunning(p) ==
  /\ worker[p].pc = "mark" /\ Goto(p, "read")
  /\ runs' = [runs EXCEPT ![p].status = IF @ = "pending" THEN "running" ELSE @]
  /\ UNCHANGED <<azure, hosts, recorded, deleted, deleter, booting, changes, history>>

ReadVNet(p) ==
  /\ worker[p].pc = "read"
  /\ Goto(p, "put") \/ Fails(p)
  /\ UNCHANGED <<azure, tables, deleter, booting, changes, history>>

\* What Azure may do with a PUT: a VM needs its NIC, and a resource that is
\* being deleted is refused.
Takes(x) == x \notin removing /\ (x[2] = "vm" => cloud[<<x[1], "nic">>] # "none")
Taken(p, op) == /\ Takes(Target(p))
                /\ cloud' = [cloud EXCEPT ![Target(p)] = "ours"]
                /\ ops' = [ops EXCEPT ![Creation(p)] = op]

\* Whether the answer to a PUT names the operation.
Answers(k) == {"queued"} \cup IF k \in Nameless THEN {"unwatched"} ELSE {}

\* put: the answer carries an Azure-AsyncOperation header, or it does not; the
\* request is sent again after a 429, a 5xx or no answer at all, and any of
\* those may hide one that Azure took.
Put(p) ==
  /\ worker[p].pc = "put"
  /\ \/ (\E op \in Answers(worker[p].kind) : Taken(p, op)) /\ Goto(p, "await") /\ UNCHANGED unnamed
     \/ Taken(p, "queued") /\ UNCHANGED <<worker, unnamed>>
     \/ /\ Taken(p, "queued") \/ UNCHANGED <<cloud, ops>>
        /\ Fails(p) /\ unnamed' = unnamed \cup {Target(p)}
  /\ UNCHANGED <<removing, tables, deleter, booting, changes, overtaken, overlap, swapped>>

\* Mutant: an accepted creation is taken for a finished one.
AcceptedIsBuilt(p) == TRUE

\* Await: nil when Azure says the operation succeeded; without that header, when
\* its Location stops answering 202 or, after a 200 or 201, at once, both of which
\* may come before the creation ends.
Built(p) == ops[Creation(p)] \in {"done"} \cup Blind

\* A poll may fail, or the budget run out, whatever becomes of the operation.
AwaitPut(p) ==
  /\ worker[p].pc = "await"
  /\ \/ Built(p) /\ Goto(p, "record") /\ UNCHANGED unnamed
     \/ Fails(p) /\ unnamed' = unnamed \cup {Target(p)}
  /\ UNCHANGED <<azure, tables, deleter, booting, changes, overtaken, overlap, swapped>>

\* onCreated: recorded before the next call; when it cannot be, the run stops.
Record(p) ==
  /\ worker[p].pc = "record"
  /\ \/ /\ recorded' = [recorded EXCEPT ![p] = @ \cup {worker[p].kind}]
        /\ worker' = [worker EXCEPT ![p] = [pc |-> IF @.kind = "nic" THEN "put" ELSE "finish",
                                            kind |-> "vm", ok |-> @.kind = "vm"]]
        /\ UNCHANGED unnamed
     \/ Fails(p) /\ unnamed' = unnamed \cup {Target(p)} /\ UNCHANGED recorded
  /\ UNCHANGED <<azure, hosts, runs, deleted, deleter, booting, changes, overtaken, overlap,
                 swapped>>

\* finishProvision closes the row whatever its status is by now.
Finish(p) ==
  /\ worker[p].pc = "finish"
  /\ runs' = [runs EXCEPT ![p].status = IF worker[p].ok THEN "succeeded" ELSE "failed"]
  /\ worker' = [worker EXCEPT ![p] = NoWorker]
  /\ UNCHANGED <<azure, hosts, recorded, deleted, deleter, booting, changes, history>>

\* Mutant: what has not begun is not interrupted.
OpenRunning == {p \in DOMAIN runs : runs[p].status = "running"}

Open == {p \in DOMAIN runs : runs[p].status \in {"pending", "running"}}

\* interruptProvisions: what a previous process left is closed, not resumed.
Interrupt ==
  /\ booting /\ booting' = FALSE
  /\ runs' = [p \in DOMAIN runs |->
                IF p \in Open THEN [runs[p] EXCEPT !.status = "interrupted"] ELSE runs[p]]
  /\ overtaken' = overtaken \cup {p \in Open : worker[p].pc # "none"}
  /\ UNCHANGED <<azure, hosts, recorded, deleted, worker, deleter, changes, overlap, unnamed,
                 swapped>>

-----------------------------------------------------------------------------
(* DeleteProvision and DeleteCreated. *)

Thing(d, K) == <<deleter[d].name, IF "vm" \in K THEN "vm" ELSE "nic">>   \* deleteOrder
First(d) == Thing(d, deleter[d].left)
Stops(d) == deleter' = [deleter EXCEPT ![d] = NoDeleter]

\* What the run recorded and nobody deleted, as it is now.
DeleteProvision(d, p) ==
  /\ deleter[d].pc = "none" /\ recorded[p] \ deleted[p] # {}
  /\ deleter' = [deleter EXCEPT ![d] =
       [pc |-> "check", name |-> runs[p].name, left |-> recorded[p] \ deleted[p],
        unread |-> recorded[p] \ deleted[p], ans |-> "none"]]
  /\ overlap' = IF \E q \in DOMAIN runs : worker[q].pc # "none" /\ runs[q].name = runs[p].name
                THEN overlap \cup {runs[p].name} ELSE overlap
  /\ UNCHANGED <<azure, tables, worker, booting, changes, overtaken, unnamed, swapped>>

\* Mutant: the tag does not matter.
OursAnyway(x) == TRUE

\* ours: what is gone is no reason to stop.
Ours(x) == cloud[x] # "foreign"

\* Every tag is read before anything is deleted; a read that fails refuses.
Check(d) ==
  /\ deleter[d].pc = "check"
  /\ LET x == Thing(d, deleter[d].unread)
         unread == deleter[d].unread \ {x[2]}
     IN  \/ Stops(d)
         \/ Ours(x) /\ deleter' = [deleter EXCEPT ![d].unread = unread,
                                   ![d].pc = IF unread = {} THEN "delete" ELSE "check"]
  /\ UNCHANGED <<azure, tables, worker, booting, changes, history>>

\* A NIC attached to a VM is refused.
Removable(x) == cloud[x] # "none" /\ (x[2] = "nic" => cloud[<<x[1], "vm">>] = "none")

\* The DELETE, sent again after a 429, a 5xx or no answer; what Azure no longer
\* has is as good as deleted.
Delete(d) ==
  /\ deleter[d].pc = "delete"
  /\ \/ /\ cloud[First(d)] = "none" /\ UNCHANGED removing
        /\ deleter' = [deleter EXCEPT ![d].pc = "mark"]
     \/ /\ Removable(First(d)) /\ removing' = removing \cup {First(d)}
        /\ deleter' = [deleter EXCEPT ![d].pc = "await", ![d].ans = "none"]
     \/ /\ Removable(First(d)) /\ removing' = removing \cup {First(d)} /\ UNCHANGED deleter
     \/ /\ \/ Removable(First(d)) /\ removing' = removing \cup {First(d)}
           \/ UNCHANGED removing
        /\ Stops(d)
  /\ UNCHANGED <<cloud, ops, tables, worker, booting, changes, history>>

\* Mutant: an accepted deletion is taken for a finished one.
AcceptedIsGone(d) == TRUE

Gone(d) == deleter[d].ans = "done"

AwaitDelete(d) ==
  /\ deleter[d].pc = "await"
  /\ \/ Gone(d) /\ deleter' = [deleter EXCEPT ![d].pc = "mark"]
     \/ Stops(d)
  /\ UNCHANGED <<azure, tables, worker, booting, changes, history>>

\* Mutant: the machine is marked, not the resource.
MachineRows(x) == {p \in DOMAIN runs : runs[p].name = x[1]}

\* The rows with the id of a resource, whichever run recorded it.
RowsOf(x) == {p \in DOMAIN runs : runs[p].name = x[1] /\ x[2] \in recorded[p]}

\* onDeleted: the resource is marked as deleted, or the deletion stops.
Mark(d) ==
  /\ deleter[d].pc = "mark"
  /\ LET x == First(d)
         left == deleter[d].left \ {x[2]}
     IN  \/ /\ deleted' = [p \in RunIds |-> IF p \in RowsOf(x) THEN deleted[p] \cup {x[2]}
                                                              ELSE deleted[p]]
            /\ IF left = {} THEN Stops(d)
               ELSE deleter' = [deleter EXCEPT ![d].left = left, ![d].pc = "delete"]
         \/ Stops(d) /\ UNCHANGED deleted
  /\ UNCHANGED <<azure, hosts, runs, recorded, worker, booting, changes, history>>

-----------------------------------------------------------------------------
(* Azure, people, crashes. *)

\* How a creation ended, as far as the hub can learn it.
Learned(op, end) == IF op = "unwatched" THEN "unseen" ELSE end

\* A creation ends; one that fails leaves its resource behind or not.
AzureBuilds(p, k) ==
  /\ ops[<<p, k>>] \in {"queued", "unwatched"}
  /\ \/ ops' = [ops EXCEPT ![<<p, k>>] = Learned(@, "done")] /\ UNCHANGED cloud
     \/ /\ ops' = [ops EXCEPT ![<<p, k>>] = Learned(@, "failed")]
        /\ LET x == <<runs[p].name, k>>
           IN  \/ UNCHANGED cloud
               \/ cloud[x] = "ours" /\ Removable(x) /\ cloud' = [cloud EXCEPT ![x] = "none"]
  /\ UNCHANGED <<removing, tables, procs, changes, history>>

\* A deletion ends, and whoever waits for it can learn how.
AzureRemoves(x) ==
  /\ x \in removing /\ removing' = removing \ {x}
  /\ \E ans \in {"done", "failed"} :
       /\ IF ans = "done" THEN Removable(x) /\ cloud' = [cloud EXCEPT ![x] = "none"]
                          ELSE UNCHANGED cloud
       /\ deleter' = [d \in Deleters |-> IF deleter[d].pc = "await" /\ First(d) = x
                                         THEN [deleter[d] EXCEPT !.ans = ans] ELSE deleter[d]]
  /\ UNCHANGED <<ops, tables, worker, booting, changes, history>>

Change == changes < MaxChanges /\ changes' = changes + 1

\* Somebody deletes a resource, or creates one of that name, or takes its tag.
ByHand(x) ==
  /\ Change /\ x \notin removing
  /\ \/ Removable(x) /\ cloud' = [cloud EXCEPT ![x] = "none"]
     \/ cloud[x] # "foreign" /\ cloud' = [cloud EXCEPT ![x] = "foreign"]
  /\ swapped' = IF Deleting(x[1]) THEN swapped \cup {x} ELSE swapped
  /\ UNCHANGED <<ops, removing, tables, procs, overtaken, overlap, unnamed>>

\* The page of the hosts.
DeleteHost(n) ==
  /\ n \in hosts /\ hosts' = hosts \ {n}
  /\ UNCHANGED <<azure, runs, recorded, deleted, procs, changes, history>>

AddHost(n) ==
  /\ Change /\ n \notin hosts /\ hosts' = hosts \cup {n}
  /\ UNCHANGED <<azure, runs, recorded, deleted, procs, history>>

\* The process ends anywhere and starts again.
Boot ==
  /\ Change /\ booting' = TRUE
  /\ worker' = [p \in RunIds |-> NoWorker] /\ deleter' = [d \in Deleters |-> NoDeleter]
  /\ unnamed' = unnamed \cup {Target(p) : p \in {q \in DOMAIN runs :
                                             worker[q].pc \in {"put", "await", "record"}}}
  /\ UNCHANGED <<azure, tables, overtaken, overlap, swapped>>

RunStep(p) == CreateHost(p) \/ MarkRunning(p) \/ ReadVNet(p) \/ Put(p) \/ AwaitPut(p)
              \/ Record(p) \/ Finish(p)
Deletion(d) == \/ Check(d) \/ Delete(d) \/ AwaitDelete(d) \/ Mark(d)
               \/ \E p \in DOMAIN runs : DeleteProvision(d, p)
Azure == \/ \E p \in DOMAIN runs, k \in Kinds : AzureBuilds(p, k)
         \/ \E x \in Things : AzureRemoves(x)
People == \/ \E n \in Names : StartProvision(n) \/ DeleteHost(n) \/ AddHost(n)
          \/ \E x \in Things : ByHand(x)

Init ==
  /\ cloud = [x \in Things |-> "none"] /\ ops = [x \in RunIds \X Kinds |-> "none"] /\ removing = {}
  /\ hosts = {} /\ runs = <<>>
  /\ recorded = [p \in RunIds |-> {}] /\ deleted = [p \in RunIds |-> {}]
  /\ worker = [p \in RunIds |-> NoWorker] /\ deleter = [d \in Deleters |-> NoDeleter]
  /\ booting = TRUE /\ changes = 0
  /\ overtaken = {} /\ overlap = {} /\ unnamed = {} /\ swapped = {}

Next == \/ \E p \in DOMAIN runs : RunStep(p)
        \/ \E d \in Deleters : Deletion(d)
        \/ Azure \/ People \/ Interrupt \/ Boot

Spec == Init /\ [][Next]_vars

-----------------------------------------------------------------------------
(* Properties. *)

\* Types of Azure, the tables and the goroutines; what is deleted was recorded.
TypeOK ==
  /\ cloud \in [Things -> {"none", "ours", "foreign"}]
  /\ ops \in [RunIds \X Kinds -> OpStates] /\ removing \subseteq Things
  /\ hosts \subseteq Names /\ runs \in Seq(Run) /\ Len(runs) <= MaxRuns
  /\ recorded \in [RunIds -> SUBSET Kinds] /\ deleted \in [RunIds -> SUBSET Kinds]
  /\ \A p \in RunIds : deleted[p] \subseteq recorded[p]
  /\ worker \in [RunIds -> Worker] /\ deleter \in [Deleters -> Deleter]
  /\ booting \in BOOLEAN /\ changes \in 0..MaxChanges
  /\ overtaken \subseteq DOMAIN runs /\ overlap \subseteq Names
  /\ unnamed \subseteq Things /\ swapped \subseteq Things

Building(p) == worker[p].pc \in {"put", "await", "record"}

\* Two runs never create the same machine at once (0005_provisions.sql: they
\* "would PUT the same resource ids and race each other into a state neither of
\* them recorded").  Excepted: a run interrupted by the boot of its own process.
OneBuilder ==
  \A p, q \in DOMAIN runs \ overtaken :
    p # q /\ runs[p].name = runs[q].name => ~(Building(p) /\ Building(q))

\* What costs money can be found: a resource with the tag of the hub is on the
\* record of a run, not marked as deleted, or in the hands of a run that will
\* record it.  Excepted: what a run lost sight of, through an answer that never
\* came or a crash, and names that were created and deleted at once.
NamedWhileItExists ==
  \A x \in Things :
    cloud[x] = "ours" /\ x \notin unnamed /\ x[1] \notin overlap =>
      \E p \in DOMAIN runs :
        runs[p].name = x[1] /\ \/ x[2] \in recorded[p] \ deleted[p]
                               \/ Building(p) /\ worker[p].kind = x[2]

\* A run recorded as succeeded has its NIC and its VM on record, and Azure has
\* finished building both (async.go, Await: "the first real VM was recorded as
\* succeeded two seconds after the request because that 201 was taken as
\* finished").  Excepted: a creation Azure took without an Azure-AsyncOperation
\* header, whose Location ends "earlier than the machine being ready"
\* (async.go:70): all that is certain of it is that Azure took it.
SucceededWasBuilt ==
  \A p \in DOMAIN runs : runs[p].status = "succeeded" =>
    \A k \in Kinds : k \in recorded[p] /\ ops[<<p, k>>] \in {"done"} \cup Blind

\* The hub destroys nothing that does not carry its tag (delete.go, ErrNotOurs:
\* "the guard that makes a mistyped id harmless").  Excepted: what people
\* replaced while the deletion ran, after its tag was read.
DeletesOnlyOurs ==
  [][\A x \in Things : cloud[x] = "foreign" /\ cloud'[x] = "none"
       => x \in swapped \/ changes' # changes]_vars

\* No run holds its name for ever: one that is pending or running has a
\* goroutine that will close it, or the boot has yet to interrupt it.
HeldByItsRun ==
  \A p \in DOMAIN runs :
    runs[p].status \in {"pending", "running"} => booting \/ worker[p].pc # "none"
=============================================================================

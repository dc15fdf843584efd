--------------------------- MODULE ProvisionProofs ---------------------------
(***************************************************************************)
(* Proofs about AzureProvision: types; what a succeeded run stands for; who *)
(* builds a machine and who holds its name; that what exists can be named;  *)
(* that only what is the hub's is deleted.                                  *)
(*                                                                          *)
(* BuiltInv: the record of a run grows in step with its goroutine, and      *)
(* names only creations that Azure ended well, or whose end the hub cannot  *)
(* learn.                                                                   *)
(* HoldInv: one open run per name, and whoever builds is open.              *)
(* NamedInv: a deletion that is about to mark a resource has seen it gone,  *)
(* unless a run of that name has been beside it.                            *)
(* SafeInv: what a deletion has checked or asked for is the hub's, unless   *)
(* people replaced it while it ran.                                         *)
(***************************************************************************)
EXTENDS AzureProvision, TLAPS

\* Runs are numbered from 1.
LEMMA RunsBounded ==
  ASSUME TypeOK
  PROVE  /\ DOMAIN runs \subseteq RunIds /\ DOMAIN runs = 1..Len(runs) /\ Len(runs) \in Nat
         /\ \A p \in DOMAIN runs : runs[p] \in Run /\ runs[p].name \in Names
<1>1. runs \in Seq(Run) /\ Len(runs) \in Nat /\ DOMAIN runs = 1..Len(runs) /\ Len(runs) <= MaxRuns
  BY DEF TypeOK
<1>2. DOMAIN runs \subseteq RunIds
  BY <1>1, ProvisionAssumption DEF RunIds
<1>3. ASSUME NEW p \in DOMAIN runs PROVE runs[p] \in Run /\ runs[p].name \in Names
  <2>1. runs[p] \in Run
    BY <1>1
  <2> QED BY <2>1 DEF Run
<1> QED
  BY <1>1, <1>2, <1>3

\* What a step does to the goroutine of a run.
LEMMA WorkerTyped ==
  ASSUME NEW f \in [RunIds -> Worker], NEW p \in RunIds, NEW s \in WorkerSteps
  PROVE  /\ [f EXCEPT ![p].pc = s] \in [RunIds -> Worker]
         /\ [f EXCEPT ![p].pc = s, ![p].ok = FALSE] \in [RunIds -> Worker]
         /\ [f EXCEPT ![p] = NoWorker] \in [RunIds -> Worker]
         /\ [f EXCEPT ![p] = [pc |-> IF @.kind = "nic" THEN "put" ELSE "finish",
                              kind |-> "vm", ok |-> @.kind = "vm"]] \in [RunIds -> Worker]
<1>1. NoWorker \in Worker /\ f[p] \in Worker
  BY DEF NoWorker, Worker, WorkerSteps, Kinds
<1>2. [f[p] EXCEPT !.pc = s] \in Worker /\ [f[p] EXCEPT !.pc = s, !.ok = FALSE] \in Worker
  BY <1>1 DEF Worker
<1>3. [pc |-> IF f[p].kind = "nic" THEN "put" ELSE "finish", kind |-> "vm",
       ok |-> f[p].kind = "vm"] \in Worker
  BY DEF Worker, WorkerSteps, Kinds
<1> QED
  BY <1>1, <1>2, <1>3

\* What a step does to the goroutine of a deletion.
LEMMA DeleterTyped ==
  ASSUME NEW f \in [Deleters -> Deleter], NEW d \in Deleters, NEW s \in DeleterSteps,
         NEW K \in SUBSET Kinds, NEW ans \in {"none", "done", "failed"}
  PROVE  /\ [f EXCEPT ![d].pc = s] \in [Deleters -> Deleter]
         /\ [f EXCEPT ![d].pc = s, ![d].ans = ans] \in [Deleters -> Deleter]
         /\ [f EXCEPT ![d].unread = K, ![d].pc = s] \in [Deleters -> Deleter]
         /\ [f EXCEPT ![d].left = K, ![d].pc = s] \in [Deleters -> Deleter]
         /\ [f EXCEPT ![d] = NoDeleter] \in [Deleters -> Deleter]
         /\ [f[d] EXCEPT !.ans = ans] \in Deleter
<1>1. NoDeleter \in Deleter /\ f[d] \in Deleter
  BY ProvisionAssumption DEF NoDeleter, Deleter, DeleterSteps, AnyName
<1>2. /\ [f[d] EXCEPT !.pc = s] \in Deleter /\ [f[d] EXCEPT !.pc = s, !.ans = ans] \in Deleter
      /\ [f[d] EXCEPT !.unread = K, !.pc = s] \in Deleter
      /\ [f[d] EXCEPT !.left = K, !.pc = s] \in Deleter /\ [f[d] EXCEPT !.ans = ans] \in Deleter
  BY <1>1 DEF Deleter
<1> QED
  BY <1>1, <1>2

\* The rows of the runs: one is marked or closed, all that are open are
\* interrupted, one is added.
LEMMA RunsTyped ==
  ASSUME NEW s \in Seq(Run), NEW p \in DOMAIN s, NEW st \in Statuses
  PROVE  LET t == [s EXCEPT ![p].status = st]
         IN  /\ t \in Seq(Run) /\ Len(t) = Len(s) /\ DOMAIN t = DOMAIN s
             /\ t[p] = [s[p] EXCEPT !.status = st] /\ t[p].status = st
             /\ \A q \in DOMAIN s : t[q].name = s[q].name /\ (q # p => t[q] = s[q])
<1>1. s[p] \in Run
  OBVIOUS
<1>2. [s[p] EXCEPT !.status = st] \in Run
  BY <1>1 DEF Run
<1> QED
  BY <1>1, <1>2 DEF Run

\* The rows a boot interrupts stay rows (InterruptAzureProvisions).
LEMMA InterruptedTyped ==
  ASSUME NEW s \in Seq(Run), NEW O \in SUBSET DOMAIN s
  PROVE  LET t == [p \in DOMAIN s |-> IF p \in O THEN [s[p] EXCEPT !.status = "interrupted"] ELSE s[p]]
         IN  /\ t \in Seq(Run) /\ Len(t) = Len(s) /\ DOMAIN t = DOMAIN s
             /\ \A p \in DOMAIN s : t[p].name = s[p].name
                                 /\ t[p].status = IF p \in O THEN "interrupted" ELSE s[p].status
<1>1. \A p \in DOMAIN s : s[p] \in Run
  OBVIOUS
<1>2. \A p \in DOMAIN s : [s[p] EXCEPT !.status = "interrupted"] \in Run
  BY <1>1 DEF Run, Statuses
<1> QED
  BY <1>1, <1>2 DEF Run

\* What a run works on.
LEMMA TargetTyped ==
  ASSUME TypeOK, NEW p \in DOMAIN runs
  PROVE  p \in RunIds /\ Target(p) \in Things /\ worker[p].kind \in Kinds
<1>1. p \in RunIds /\ runs[p].name \in Names /\ worker[p] \in Worker
  BY RunsBounded DEF TypeOK
<1> QED BY <1>1 DEF Target, Things, Worker

\* What a deletion works on.
LEMMA ThingTyped ==
  ASSUME TypeOK, NEW d \in Deleters, NEW K \in SUBSET Kinds
  PROVE  Thing(d, K) \in Things /\ Thing(d, K)[1] = deleter[d].name /\ Thing(d, K)[2] \in Kinds
         /\ (K # {} => Thing(d, K)[2] \in K) /\ deleter[d] \in Deleter
<1>1. deleter[d] \in Deleter
  BY DEF TypeOK
<1>2. deleter[d].name \in Names
  BY <1>1 DEF Deleter
<1>3. ASSUME K # {}, "vm" \notin K PROVE "nic" \in K
  BY <1>3 DEF Kinds
<1> QED
  BY <1>1, <1>2, <1>3 DEF Thing, Things, Kinds

\* A new run.
LEMMA Started ==
  ASSUME TypeOK, NEW n \in Names, StartProvision(n)
  PROVE  \E q \in RunIds :
           /\ q = Len(runs) + 1 /\ q \notin DOMAIN runs /\ DOMAIN runs' = DOMAIN runs \cup {q}
           /\ runs' \in Seq(Run) /\ Len(runs') <= MaxRuns
           /\ \A p \in DOMAIN runs : runs'[p] = runs[p]
           /\ runs'[q] = [name |-> n, status |-> "pending"]
           /\ worker' = [worker EXCEPT ![q].pc = "host"] /\ worker' \in [RunIds -> Worker]
<1> DEFINE q == Len(runs) + 1
<1>1. Len(runs) \in Nat /\ Len(runs) < MaxRuns /\ MaxRuns \in Nat /\ runs \in Seq(Run)
  BY ProvisionAssumption DEF TypeOK, StartProvision
<1>2. q \in RunIds /\ q \notin DOMAIN runs
  BY <1>1 DEF RunIds
<1>3. [name |-> n, status |-> "pending"] \in Run
  BY DEF Run, Statuses
<1>4. /\ runs' \in Seq(Run) /\ Len(runs') = q /\ DOMAIN runs' = DOMAIN runs \cup {q}
      /\ \A p \in DOMAIN runs : runs'[p] = runs[p]
      /\ runs'[q] = [name |-> n, status |-> "pending"]
  BY <1>1, <1>3 DEF StartProvision
<1>5. worker' = [worker EXCEPT ![q].pc = "host"] /\ worker' \in [RunIds -> Worker]
  BY <1>2, WorkerTyped DEF StartProvision, Goto, TypeOK, WorkerSteps
<1>6. Len(runs') <= MaxRuns
  BY <1>1, <1>4
<1> QED
  BY <1>2, <1>4, <1>5, <1>6

\* Every step of the goroutine of a run keeps the types.
LEMMA RunTypeStep ==
  ASSUME TypeOK, NEW p \in DOMAIN runs, RunStep(p)
  PROVE  TypeOK'
<1> USE DEF vars, azure, tables, procs, history
<1>1. p \in RunIds /\ Target(p) \in Things /\ worker[p].kind \in Kinds /\ runs[p] \in Run
  BY RunsBounded, TargetTyped
<1>2. /\ \A s \in WorkerSteps : [worker EXCEPT ![p].pc = s] \in [RunIds -> Worker]
      /\ [worker EXCEPT ![p].pc = "finish", ![p].ok = FALSE] \in [RunIds -> Worker]
      /\ [worker EXCEPT ![p] = NoWorker] \in [RunIds -> Worker]
      /\ [worker EXCEPT ![p] = [pc |-> IF @.kind = "nic" THEN "put" ELSE "finish",
                                kind |-> "vm", ok |-> @.kind = "vm"]] \in [RunIds -> Worker]
  <2>1. worker \in [RunIds -> Worker] /\ "none" \in WorkerSteps
    BY DEF TypeOK, WorkerSteps
  <2>2. \A s \in WorkerSteps : [worker EXCEPT ![p].pc = s] \in [RunIds -> Worker]
    BY <1>1, <2>1, WorkerTyped
  <2>3. [worker EXCEPT ![p].pc = "finish", ![p].ok = FALSE] \in [RunIds -> Worker]
    <3>1. "finish" \in WorkerSteps
      BY DEF WorkerSteps
    <3> QED BY <1>1, <2>1, <3>1, WorkerTyped
  <2>4. [worker EXCEPT ![p] = NoWorker] \in [RunIds -> Worker]
    BY <1>1, <2>1, WorkerTyped
  <2>5. [worker EXCEPT ![p] = [pc |-> IF @.kind = "nic" THEN "put" ELSE "finish",
                               kind |-> "vm", ok |-> @.kind = "vm"]] \in [RunIds -> Worker]
    BY <1>1, <2>1, WorkerTyped
  <2> QED BY <2>2, <2>3, <2>4, <2>5
<1>3. runs[p].name \in Names /\ runs[p].status \in Statuses
  BY <1>1 DEF Run
<1>4. CASE CreateHost(p)
  <2>1. worker' \in [RunIds -> Worker] /\ hosts' \subseteq Names
    <3>1. "mark" \in WorkerSteps /\ hosts \subseteq Names
      BY DEF WorkerSteps, TypeOK
    <3>2. hosts' \subseteq Names
      BY <1>3, <1>4, <3>1 DEF CreateHost
    <3>3. CASE Fails(p)
      BY <1>2, <3>2, <3>3 DEF Fails
    <3>4. CASE Goto(p, "mark")
      BY <1>2, <3>1, <3>2, <3>4 DEF Goto
    <3> QED BY <1>4, <3>3, <3>4 DEF CreateHost
  <2> QED BY <1>4, <2>1 DEF CreateHost, TypeOK
<1>5. CASE MarkRunning(p)
  <2>1. (IF runs[p].status = "pending" THEN "running" ELSE runs[p].status) \in Statuses
    BY <1>3 DEF Statuses
  <2>2. runs' \in Seq(Run) /\ Len(runs') = Len(runs) /\ DOMAIN runs' = DOMAIN runs
    BY <1>5, <2>1, RunsTyped DEF MarkRunning, TypeOK
  <2>3. worker' \in [RunIds -> Worker]
    BY <1>2, <1>5 DEF MarkRunning, Goto, WorkerSteps
  <2> QED BY <1>5, <2>2, <2>3 DEF MarkRunning, TypeOK
<1>6. CASE ReadVNet(p)
  <2>1. worker' \in [RunIds -> Worker]
    BY <1>2, <1>6 DEF ReadVNet, Fails, Goto, WorkerSteps
  <2> QED BY <1>6, <2>1 DEF ReadVNet, TypeOK
<1>7. CASE Put(p)
  <2>1. worker' \in [RunIds -> Worker]
    BY <1>2, <1>7 DEF Put, Fails, Goto, WorkerSteps, TypeOK
  <2>2. /\ cloud' \in [Things -> {"none", "ours", "foreign"}]
        /\ ops' \in [RunIds \X Kinds -> OpStates]
    BY <1>1, <1>7 DEF Put, Taken, TypeOK, Creation, Answers, OpStates, Blind
  <2>3. unnamed' \subseteq Things
    BY <1>1, <1>7 DEF Put, TypeOK
  <2> QED BY <1>7, <2>1, <2>2, <2>3 DEF Put, TypeOK
<1>8. CASE AwaitPut(p)
  <2>1. worker' \in [RunIds -> Worker] /\ unnamed' \subseteq Things
    BY <1>1, <1>2, <1>8 DEF AwaitPut, Fails, Goto, WorkerSteps, TypeOK
  <2> QED BY <1>8, <2>1 DEF AwaitPut, TypeOK
<1>9. CASE Record(p)
  <2>1. worker' \in [RunIds -> Worker] /\ unnamed' \subseteq Things
    BY <1>1, <1>2, <1>9 DEF Record, Fails, TypeOK
  <2>2. /\ recorded' \in [RunIds -> SUBSET Kinds]
        /\ \A q \in RunIds : recorded[q] \subseteq recorded'[q]
    <3>1. recorded' = recorded \/ recorded' = [recorded EXCEPT ![p] = recorded[p] \cup {worker[p].kind}]
      BY <1>9 DEF Record
    <3>2. recorded \in [RunIds -> SUBSET Kinds]
      BY DEF TypeOK
    <3> QED BY <1>1, <3>1, <3>2
  <2> QED BY <1>9, <2>1, <2>2 DEF Record, TypeOK
<1>10. CASE Finish(p)
  <2>1. (IF worker[p].ok THEN "succeeded" ELSE "failed") \in Statuses
    BY DEF Statuses
  <2>2. runs' \in Seq(Run) /\ Len(runs') = Len(runs) /\ DOMAIN runs' = DOMAIN runs
    BY <1>10, <2>1, RunsTyped DEF Finish, TypeOK
  <2>3. worker' \in [RunIds -> Worker]
    BY <1>2, <1>10 DEF Finish
  <2> QED BY <1>10, <2>2, <2>3 DEF Finish, TypeOK
<1> QED
  BY <1>4, <1>5, <1>6, <1>7, <1>8, <1>9, <1>10 DEF RunStep

\* So does every step of a deletion.
LEMMA DeletionTypeStep ==
  ASSUME TypeOK, NEW d \in Deleters, Deletion(d)
  PROVE  TypeOK'
<1> USE DEF vars, azure, tables, procs, history
<1>1. /\ \A s \in DeleterSteps : [deleter EXCEPT ![d].pc = s] \in [Deleters -> Deleter]
      /\ \A s \in DeleterSteps, ans \in {"none", "done", "failed"} :
           [deleter EXCEPT ![d].pc = s, ![d].ans = ans] \in [Deleters -> Deleter]
      /\ \A s \in DeleterSteps, K \in SUBSET Kinds :
           /\ [deleter EXCEPT ![d].unread = K, ![d].pc = s] \in [Deleters -> Deleter]
           /\ [deleter EXCEPT ![d].left = K, ![d].pc = s] \in [Deleters -> Deleter]
      /\ [deleter EXCEPT ![d] = NoDeleter] \in [Deleters -> Deleter]
  <2>1. deleter \in [Deleters -> Deleter] /\ "none" \in DeleterSteps /\ {} \in SUBSET Kinds
    BY DEF TypeOK, DeleterSteps
  <2> QED BY <2>1, DeleterTyped
<1>2. deleter[d].left \in SUBSET Kinds /\ deleter[d].unread \in SUBSET Kinds
  BY DEF TypeOK, Deleter
<1>3. First(d) \in Things /\ First(d)[2] \in Kinds
  BY <1>2, ThingTyped DEF First
<1>4. CASE Check(d)
  <2>1. deleter' \in [Deleters -> Deleter]
    <3>1. CASE Stops(d) BY <1>1, <3>1 DEF Stops
    <3>2. CASE ~Stops(d)
      <4> DEFINE U == deleter[d].unread \ {Thing(d, deleter[d].unread)[2]}
      <4>1. deleter' = [deleter EXCEPT ![d].unread = U, ![d].pc = IF U = {} THEN "delete" ELSE "check"]
        BY <1>4, <3>2 DEF Check
      <4>2. U \in SUBSET Kinds /\ (IF U = {} THEN "delete" ELSE "check") \in DeleterSteps
        BY <1>2 DEF DeleterSteps
      <4> HIDE DEF U
      <4> QED BY <1>1, <4>1, <4>2
    <3> QED BY <3>1, <3>2
  <2> QED BY <1>4, <2>1 DEF Check, TypeOK
<1>5. CASE Delete(d)
  <2>1. deleter' \in [Deleters -> Deleter]
    <3>1. deleter' \in {deleter, [deleter EXCEPT ![d].pc = "mark"], [deleter EXCEPT ![d] = NoDeleter],
                        [deleter EXCEPT ![d].pc = "await", ![d].ans = "none"]}
      BY <1>5 DEF Delete, Stops
    <3>2. deleter \in [Deleters -> Deleter] /\ "mark" \in DeleterSteps /\ "await" \in DeleterSteps
      BY DEF TypeOK, DeleterSteps
    <3>3. [deleter EXCEPT ![d].pc = "await", ![d].ans = "none"] \in [Deleters -> Deleter]
      BY <1>1, <3>2
    <3>4. [deleter EXCEPT ![d].pc = "mark"] \in [Deleters -> Deleter]
      BY <1>1, <3>2
    <3> QED BY <1>1, <3>1, <3>2, <3>3, <3>4
  <2>2. removing' \subseteq Things
    BY <1>3, <1>5 DEF Delete, TypeOK
  <2> QED BY <1>5, <2>1, <2>2 DEF Delete, TypeOK
<1>6. CASE AwaitDelete(d)
  <2>1. deleter' \in [Deleters -> Deleter]
    <3>1. deleter' \in {[deleter EXCEPT ![d].pc = "mark"], [deleter EXCEPT ![d] = NoDeleter]}
      BY <1>6 DEF AwaitDelete, Stops
    <3>2. [deleter EXCEPT ![d].pc = "mark"] \in [Deleters -> Deleter]
      <4>1. deleter \in [Deleters -> Deleter] /\ "mark" \in DeleterSteps
        BY DEF TypeOK, DeleterSteps
      <4> QED BY <1>1, <4>1
    <3> QED BY <1>1, <3>1, <3>2
  <2> QED BY <1>6, <2>1 DEF AwaitDelete, TypeOK
<1>7. CASE Mark(d)
  <2>1. deleter' \in [Deleters -> Deleter]
    <3> DEFINE K == deleter[d].left \ {First(d)[2]}
    <3>1. K \in SUBSET Kinds /\ "delete" \in DeleterSteps
      BY <1>2 DEF DeleterSteps
    <3>2. deleter' \in {[deleter EXCEPT ![d] = NoDeleter], [deleter EXCEPT ![d].left = K, ![d].pc = "delete"]}
      BY <1>7 DEF Mark, Stops
    <3> HIDE DEF K
    <3>3. [deleter EXCEPT ![d].left = K, ![d].pc = "delete"] \in [Deleters -> Deleter]
      BY <1>1, <3>1
    <3> QED BY <1>1, <3>2, <3>3
  <2>2. deleted' \in [RunIds -> SUBSET Kinds] /\ \A p \in RunIds : deleted'[p] \subseteq recorded[p]
    BY <1>3, <1>7 DEF Mark, RowsOf, TypeOK
  <2> QED BY <1>7, <2>1, <2>2 DEF Mark, TypeOK
<1>8. ASSUME NEW p \in DOMAIN runs, DeleteProvision(d, p) PROVE TypeOK'
  <2>1. p \in RunIds /\ runs[p].name \in Names
    BY RunsBounded
  <2>2. [pc |-> "check", name |-> runs[p].name, left |-> recorded[p] \ deleted[p],
         unread |-> recorded[p] \ deleted[p], ans |-> "none"] \in Deleter
    BY <2>1 DEF Deleter, DeleterSteps, TypeOK
  <2>3. deleter' \in [Deleters -> Deleter] /\ overlap' \subseteq Names
    BY <1>8, <2>1, <2>2 DEF DeleteProvision, TypeOK
  <2> QED BY <1>8, <2>3 DEF DeleteProvision, TypeOK
<1> QED
  BY <1>4, <1>5, <1>6, <1>7, <1>8 DEF Deletion

\* Every step keeps the types.
LEMMA TypeStep ==
  ASSUME TypeOK, [Next]_vars
  PROVE  TypeOK'
<1> USE DEF vars, azure, tables, procs, history
<1>1. ASSUME NEW p \in DOMAIN runs, NEW k \in Kinds, AzureBuilds(p, k) PROVE TypeOK'
  BY <1>1, RunsBounded DEF AzureBuilds, Learned, OpStates, Blind, TypeOK, Things
<1>2. ASSUME NEW x \in Things, AzureRemoves(x) PROVE TypeOK'
  <2>1. \A d \in Deleters, ans \in {"done", "failed"} :
          deleter[d] \in Deleter /\ [deleter[d] EXCEPT !.ans = ans] \in Deleter
    BY DEF TypeOK, Deleter
  <2>2. deleter' \in [Deleters -> Deleter]
    BY <1>2, <2>1 DEF AzureRemoves
  <2>3. cloud' \in [Things -> {"none", "ours", "foreign"}] /\ removing' \subseteq Things
    BY <1>2 DEF AzureRemoves, TypeOK
  <2> QED BY <1>2, <2>2, <2>3 DEF AzureRemoves, TypeOK
<1>3. ASSUME NEW n \in Names, StartProvision(n) PROVE TypeOK'
  <2>1. runs' \in Seq(Run) /\ Len(runs') <= MaxRuns /\ DOMAIN runs \subseteq DOMAIN runs'
        /\ worker' \in [RunIds -> Worker]
    BY <1>3, Started
  <2> QED BY <1>3, <2>1 DEF StartProvision, TypeOK
<1>4. ASSUME NEW n \in Names, DeleteHost(n) \/ AddHost(n) PROVE TypeOK'
  BY <1>4, ProvisionAssumption DEF DeleteHost, AddHost, Change, TypeOK
<1>5. ASSUME NEW x \in Things, ByHand(x) PROVE TypeOK'
  BY <1>5, ProvisionAssumption DEF ByHand, Change, TypeOK
<1>6. CASE Interrupt
  <2>1. Open \in SUBSET DOMAIN runs
    BY DEF Open
  <2>2. runs' \in Seq(Run) /\ Len(runs') = Len(runs) /\ DOMAIN runs' = DOMAIN runs
    <3>1. /\ runs \in Seq(Run)
          /\ runs' = [p \in DOMAIN runs |->
                        IF p \in Open THEN [runs[p] EXCEPT !.status = "interrupted"] ELSE runs[p]]
      BY <1>6 DEF Interrupt, TypeOK
    <3>2. LET t == [p \in DOMAIN runs |->
                      IF p \in Open THEN [runs[p] EXCEPT !.status = "interrupted"] ELSE runs[p]]
          IN  t \in Seq(Run) /\ Len(t) = Len(runs) /\ DOMAIN t = DOMAIN runs
      BY <2>1, <3>1, InterruptedTyped, ZenonT(60)
    <3> QED BY <3>1, <3>2, ZenonT(60)
  <2>3. /\ UNCHANGED <<cloud, ops, removing, hosts, recorded, deleted, worker, deleter, changes,
                      overlap, unnamed, swapped>>
        /\ booting' = FALSE /\ overtaken' \subseteq overtaken \cup Open
    BY <1>6 DEF Interrupt, azure
  <2>4. /\ cloud' \in [Things -> {"none", "ours", "foreign"}]
        /\ ops' \in [RunIds \X Kinds -> OpStates] /\ removing' \subseteq Things
        /\ hosts' \subseteq Names /\ overlap' \subseteq Names
        /\ unnamed' \subseteq Things /\ swapped' \subseteq Things
    BY <2>3 DEF TypeOK
  <2>5. /\ recorded' \in [RunIds -> SUBSET Kinds] /\ deleted' \in [RunIds -> SUBSET Kinds]
        /\ \A p \in RunIds : deleted'[p] \subseteq recorded'[p]
        /\ worker' \in [RunIds -> Worker] /\ deleter' \in [Deleters -> Deleter]
        /\ booting' \in BOOLEAN /\ changes' \in 0..MaxChanges
    BY <2>3 DEF TypeOK
  <2>6. Len(runs') <= MaxRuns /\ overtaken' \subseteq DOMAIN runs'
    BY <2>1, <2>2, <2>3 DEF TypeOK
  <2> QED BY <2>2, <2>4, <2>5, <2>6 DEF TypeOK
<1>7. CASE Boot
  <2>1. NoWorker \in Worker /\ NoDeleter \in Deleter
    BY ProvisionAssumption DEF NoWorker, Worker, WorkerSteps, Kinds, NoDeleter, Deleter, DeleterSteps, AnyName
  <2>2. unnamed' \subseteq Things
    BY <1>7, TargetTyped DEF Boot, TypeOK
  <2> QED BY <1>7, <2>1, <2>2, ProvisionAssumption DEF Boot, Change, TypeOK
<1>8. CASE UNCHANGED vars
  BY <1>8 DEF TypeOK
<1> QED
  BY <1>1, <1>2, <1>3, <1>4, <1>5, <1>6, <1>7, <1>8, RunTypeStep, DeletionTypeStep
     DEF Next, Azure, People

\* Every behaviour keeps every variable typed, and marks as deleted only what
\* was recorded, for every set of names, every number of deletions and of runs.
THEOREM TypeCorrect == Spec => []TypeOK
<1>1. ASSUME Init PROVE TypeOK
  <2>1. NoWorker \in Worker /\ NoDeleter \in Deleter /\ 0 \in 0..MaxChanges /\ MaxRuns \in Nat
    BY ProvisionAssumption DEF NoWorker, Worker, WorkerSteps, Kinds, NoDeleter, Deleter, DeleterSteps, AnyName
  <2>2. "none" \in OpStates
    BY DEF OpStates
  <2> QED BY <1>1, <2>1, <2>2 DEF Init, TypeOK
<1> QED
  BY <1>1, TypeStep, PTL DEF Spec
-----------------------------------------------------------------------------
(* What a run has built and recorded. *)

Begins == {"host", "mark", "read"}
Ended == {"none", "finish"}

\* Where a creation is when its run has gone on.
Past == {"done"} \cup Blind

BuiltAt(p) ==
  /\ p \notin DOMAIN runs => recorded[p] = {} /\ worker[p] = NoWorker
  /\ \A k \in recorded[p] : ops[<<p, k>>] \in Past
  /\ worker[p].pc \in Begins => worker[p].kind = "nic"
  /\ worker[p].pc \notin Ended => recorded[p] = IF worker[p].kind = "nic" THEN {} ELSE {"nic"}
  /\ worker[p].pc = "record" => ops[<<p, worker[p].kind>>] \in Past
  /\ worker[p].pc = "finish" /\ worker[p].ok => recorded[p] = Kinds
  /\ p \in DOMAIN runs /\ runs[p].status = "succeeded" => recorded[p] = Kinds
BuiltInv == \A p \in RunIds : BuiltAt(p)

\* A run that a step does not concern.
LEMMA BuiltFrame ==
  ASSUME NEW q \in RunIds, BuiltAt(q), worker'[q] = worker[q], recorded'[q] = recorded[q],
         recorded[q] \subseteq Kinds, worker[q].kind \in Kinds,
         \A k \in Kinds : ops[<<q, k>>] \in Past => ops'[<<q, k>>] \in Past,
         q \in DOMAIN runs <=> q \in DOMAIN runs',
         q \in DOMAIN runs /\ runs'[q].status = "succeeded" => runs[q].status = "succeeded"
  PROVE  BuiltAt(q)'
BY DEF BuiltAt

\* A goroutine goes on, or gives up.
LEMMA GotoEffect ==
  ASSUME NEW p \in RunIds, NEW s, worker \in [RunIds -> Worker], Goto(p, s)
  PROVE  /\ worker'[p].pc = s /\ worker'[p].kind = worker[p].kind /\ worker'[p].ok = worker[p].ok
         /\ \A q \in RunIds \ {p} : worker'[q] = worker[q]
<1>1. worker[p] \in Worker /\ worker' = [worker EXCEPT ![p].pc = s]
  BY DEF Goto
<1>2. worker'[p] = [worker[p] EXCEPT !.pc = s]
  BY <1>1
<1> QED
  BY <1>1, <1>2 DEF Worker

\* A goroutine that fails goes to its end with the failure.
LEMMA FailsEffect ==
  ASSUME NEW p \in RunIds, worker \in [RunIds -> Worker], Fails(p)
  PROVE  /\ worker'[p].pc = "finish" /\ worker'[p].kind = worker[p].kind /\ worker'[p].ok = FALSE
         /\ \A q \in RunIds \ {p} : worker'[q] = worker[q]
<1>1. worker[p] \in Worker /\ worker' = [worker EXCEPT ![p].pc = "finish", ![p].ok = FALSE]
  BY DEF Fails
<1>2. worker'[p] = [worker[p] EXCEPT !.pc = "finish", !.ok = FALSE]
  BY <1>1
<1> QED
  BY <1>1, <1>2 DEF Worker

\* The steps of the goroutine of a run.
LEMMA BuiltRunStep ==
  ASSUME TypeOK, BuiltInv, NEW p \in DOMAIN runs, RunStep(p)
  PROVE  BuiltInv'
<1> USE DEF vars, azure, tables, procs, history
<1>1. /\ p \in RunIds /\ worker[p] \in Worker /\ worker[p].kind \in Kinds /\ DOMAIN runs \subseteq RunIds
      /\ worker \in [RunIds -> Worker] /\ recorded \in [RunIds -> SUBSET Kinds]
      /\ ops \in [RunIds \X Kinds -> OpStates] /\ runs \in Seq(Run)
      /\ BuiltAt(p) /\ \A q \in RunIds : worker[q].kind \in Kinds
  BY RunsBounded, TargetTyped DEF TypeOK, BuiltInv, Worker
<1>2. ASSUME NEW q \in RunIds PROVE BuiltAt(q)
  BY DEF BuiltInv
<1>3. CASE CreateHost(p)
  <2>1. UNCHANGED <<ops, runs, recorded>> /\ \A q \in RunIds \ {p} : worker'[q] = worker[q]
    BY <1>1, <1>3, GotoEffect, FailsEffect DEF CreateHost
  <2>2. worker'[p].kind = worker[p].kind /\ (worker'[p].pc = "mark" \/ (worker'[p].pc = "finish" /\ worker'[p].ok = FALSE))
    <3>1. CASE Goto(p, "mark") BY <1>1, <3>1, GotoEffect
    <3>2. CASE Fails(p) BY <1>1, <3>2, FailsEffect
    <3> QED BY <1>3, <3>1, <3>2 DEF CreateHost
  <2>3. BuiltAt(p)'
    BY <1>1, <1>3, <2>1, <2>2 DEF BuiltAt, Begins, Ended, CreateHost
  <2>4. ASSUME NEW q \in RunIds \ {p} PROVE BuiltAt(q)'
    BY <1>1, <1>2, <2>1, BuiltFrame
  <2> QED BY <2>3, <2>4 DEF BuiltInv
<1>4. CASE MarkRunning(p)
  <2>1. (IF runs[p].status = "pending" THEN "running" ELSE runs[p].status) \in Statuses
    BY <1>1, RunsBounded DEF Statuses, Run
  <2>2. DOMAIN runs' = DOMAIN runs /\ \A q \in DOMAIN runs : runs'[q].status = "succeeded" => runs[q].status = "succeeded"
    BY <1>1, <1>4, <2>1, RunsTyped DEF MarkRunning
  <2>3. UNCHANGED <<ops, recorded>> /\ \A q \in RunIds \ {p} : worker'[q] = worker[q]
    BY <1>1, <1>4, GotoEffect DEF MarkRunning
  <2>4. worker'[p].kind = worker[p].kind /\ worker'[p].pc = "read"
    BY <1>1, <1>4, GotoEffect DEF MarkRunning
  <2>5. BuiltAt(p)'
    BY <1>1, <1>4, <2>2, <2>3, <2>4 DEF BuiltAt, Begins, Ended, MarkRunning
  <2>6. ASSUME NEW q \in RunIds \ {p} PROVE BuiltAt(q)'
    BY <1>1, <1>2, <2>2, <2>3, BuiltFrame
  <2> QED BY <2>5, <2>6 DEF BuiltInv
<1>5. CASE ReadVNet(p)
  <2>1. UNCHANGED <<ops, runs, recorded>> /\ \A q \in RunIds \ {p} : worker'[q] = worker[q]
    BY <1>1, <1>5, GotoEffect, FailsEffect DEF ReadVNet
  <2>2. worker'[p].kind = worker[p].kind /\ (worker'[p].pc = "put" \/ (worker'[p].pc = "finish" /\ worker'[p].ok = FALSE))
    <3>1. CASE Goto(p, "put") BY <1>1, <3>1, GotoEffect
    <3>2. CASE Fails(p) BY <1>1, <3>2, FailsEffect
    <3> QED BY <1>5, <3>1, <3>2 DEF ReadVNet
  <2>3. BuiltAt(p)'
    BY <1>1, <1>5, <2>1, <2>2 DEF BuiltAt, Begins, Ended, ReadVNet
  <2>4. ASSUME NEW q \in RunIds \ {p} PROVE BuiltAt(q)'
    BY <1>1, <1>2, <2>1, BuiltFrame
  <2> QED BY <2>3, <2>4 DEF BuiltInv
<1>6. CASE Put(p)
  <2>1. UNCHANGED <<runs, recorded>> /\ \A q \in RunIds \ {p} : worker'[q] = worker[q]
    BY <1>1, <1>6, GotoEffect, FailsEffect DEF Put
  <2>2. /\ worker'[p].kind = worker[p].kind
        /\ worker'[p].pc \in {"put", "await"} \/ (worker'[p].pc = "finish" /\ worker'[p].ok = FALSE)
    <3>1. CASE Goto(p, "await") BY <1>1, <3>1, GotoEffect
    <3>2. CASE UNCHANGED worker BY <1>6, <3>2 DEF Put
    <3>3. CASE Fails(p) BY <1>1, <3>3, FailsEffect
    <3> QED BY <1>6, <3>1, <3>2, <3>3 DEF Put
  <2>3. ops' = ops \/ \E op \in OpStates : ops' = [ops EXCEPT ![<<p, worker[p].kind>>] = op]
    BY <1>6 DEF Put, Taken, Answers, Creation, OpStates, Blind
  <2>4. \A q \in RunIds, k \in Kinds : q # p \/ k # worker[p].kind => ops'[<<q, k>>] = ops[<<q, k>>]
    BY <1>1, <2>3
  <2>5. worker[p].kind \notin recorded[p]
    BY <1>1, <1>6 DEF BuiltAt, Ended, Put
  <2>6. BuiltAt(p)'
    BY <1>1, <1>6, <2>1, <2>2, <2>4, <2>5 DEF BuiltAt, Begins, Ended, Put
  <2>7. ASSUME NEW q \in RunIds \ {p} PROVE BuiltAt(q)'
    <3>1. \A k \in Kinds : ops'[<<q, k>>] = ops[<<q, k>>]
      BY <2>4
    <3> QED BY <1>1, <1>2, <2>1, <3>1, BuiltFrame
  <2> QED BY <2>6, <2>7 DEF BuiltInv
<1>7. CASE AwaitPut(p)
  <2>1. UNCHANGED <<ops, runs, recorded>> /\ \A q \in RunIds \ {p} : worker'[q] = worker[q]
    BY <1>1, <1>7, GotoEffect, FailsEffect DEF AwaitPut
  <2>2. /\ worker'[p].kind = worker[p].kind
        /\ \/ worker'[p].pc = "record" /\ ops[<<p, worker[p].kind>>] \in Past
           \/ worker'[p].pc = "finish" /\ worker'[p].ok = FALSE
    BY <1>1, <1>7, GotoEffect, FailsEffect DEF AwaitPut, Built, Creation, Past
  <2>3. BuiltAt(p)'
    BY <1>1, <1>7, <2>1, <2>2 DEF BuiltAt, Begins, Ended, AwaitPut
  <2>4. ASSUME NEW q \in RunIds \ {p} PROVE BuiltAt(q)'
    BY <1>1, <1>2, <2>1, BuiltFrame
  <2> QED BY <2>3, <2>4 DEF BuiltInv
<1>8. CASE Record(p)
  <2>1. UNCHANGED <<ops, runs>> /\ \A q \in RunIds \ {p} : worker'[q] = worker[q] /\ recorded'[q] = recorded[q]
    BY <1>1, <1>8 DEF Record, Fails
  <2>2. \/ /\ recorded'[p] = recorded[p] \cup {worker[p].kind}
           /\ worker'[p] = [pc |-> IF worker[p].kind = "nic" THEN "put" ELSE "finish",
                            kind |-> "vm", ok |-> worker[p].kind = "vm"]
        \/ recorded' = recorded /\ worker'[p].pc = "finish" /\ worker'[p].ok = FALSE
    BY <1>1, <1>8 DEF Record, Fails, Worker
  <2>3. /\ recorded[p] = IF worker[p].kind = "nic" THEN {} ELSE {"nic"}
        /\ ops[<<p, worker[p].kind>>] \in Past /\ worker[p].kind \in {"nic", "vm"}
    BY <1>1, <1>8 DEF BuiltAt, Ended, Record, Kinds
  <2>4. BuiltAt(p)'
    <3>1. CASE recorded' = recorded /\ worker'[p].pc = "finish" /\ worker'[p].ok = FALSE
      BY <1>1, <2>1, <3>1 DEF BuiltAt, Begins, Ended
    <3>2. CASE worker[p].kind = "nic" /\ recorded'[p] = {"nic"}
               /\ worker'[p] = [pc |-> "put", kind |-> "vm", ok |-> FALSE]
      BY <1>1, <2>1, <2>3, <3>2 DEF BuiltAt, Begins, Ended
    <3>3. CASE worker[p].kind = "vm" /\ recorded'[p] = {"nic", "vm"}
               /\ worker'[p] = [pc |-> "finish", kind |-> "vm", ok |-> TRUE]
      BY <1>1, <2>1, <2>3, <3>3 DEF BuiltAt, Begins, Ended, Kinds
    <3> QED BY <2>2, <2>3, <3>1, <3>2, <3>3
  <2>5. ASSUME NEW q \in RunIds \ {p} PROVE BuiltAt(q)'
    BY <1>1, <1>2, <2>1, BuiltFrame
  <2> QED BY <2>4, <2>5 DEF BuiltInv
<1>9. CASE Finish(p)
  <2>1. (IF worker[p].ok THEN "succeeded" ELSE "failed") \in Statuses
    BY DEF Statuses
  <2>2. /\ DOMAIN runs' = DOMAIN runs /\ runs'[p].status = IF worker[p].ok THEN "succeeded" ELSE "failed"
        /\ \A q \in DOMAIN runs \ {p} : runs'[q] = runs[q]
    BY <1>1, <1>9, <2>1, RunsTyped DEF Finish
  <2>3. UNCHANGED <<ops, recorded>> /\ worker'[p] = NoWorker /\ \A q \in RunIds \ {p} : worker'[q] = worker[q]
    BY <1>1, <1>9 DEF Finish
  <2>4. BuiltAt(p)'
    BY <1>1, <1>9, <2>2, <2>3 DEF BuiltAt, Begins, Ended, Finish, NoWorker
  <2>5. ASSUME NEW q \in RunIds \ {p} PROVE BuiltAt(q)'
    BY <1>1, <1>2, <2>2, <2>3, BuiltFrame
  <2> QED BY <2>4, <2>5 DEF BuiltInv
<1> QED
  BY <1>3, <1>4, <1>5, <1>6, <1>7, <1>8, <1>9 DEF RunStep

\* A run records what it has seen finished, in order, and succeeds after the last.
LEMMA BuiltStep ==
  ASSUME TypeOK, BuiltInv, [Next]_vars
  PROVE  BuiltInv'
<1> USE DEF vars, azure, tables, procs, history
<1>1. /\ worker \in [RunIds -> Worker] /\ recorded \in [RunIds -> SUBSET Kinds] /\ DOMAIN runs \subseteq RunIds
      /\ ops \in [RunIds \X Kinds -> OpStates] /\ runs \in Seq(Run)
      /\ \A q \in RunIds : BuiltAt(q) /\ worker[q].kind \in Kinds
  BY RunsBounded DEF TypeOK, BuiltInv, Worker
<1>2. CASE UNCHANGED <<ops, runs, recorded, worker>>
  BY <1>1, <1>2 DEF BuiltInv, BuiltAt
<1>3. ASSUME NEW p \in DOMAIN runs, NEW k \in Kinds, AzureBuilds(p, k) PROVE BuiltInv'
  <2>1. UNCHANGED <<runs, recorded, worker>>
    BY <1>3 DEF AzureBuilds
  <2>2. ASSUME NEW q \in RunIds, NEW j \in Kinds, ops[<<q, j>>] \in Past PROVE ops'[<<q, j>>] \in Past
    BY <1>1, <1>3, <2>2 DEF AzureBuilds, Learned, Past, Blind
  <2>3. ASSUME NEW q \in RunIds PROVE BuiltAt(q)'
    BY <1>1, <2>1, <2>2, BuiltFrame
  <2> QED BY <2>3 DEF BuiltInv
<1>4. ASSUME NEW n \in Names, StartProvision(n) PROVE BuiltInv'
  <2>1. PICK q \in RunIds :
          /\ q \notin DOMAIN runs /\ DOMAIN runs' = DOMAIN runs \cup {q}
          /\ \A p \in DOMAIN runs : runs'[p] = runs[p]
          /\ runs'[q] = [name |-> n, status |-> "pending"]
          /\ worker' = [worker EXCEPT ![q].pc = "host"]
    BY <1>4, Started
  <2>2. UNCHANGED <<ops, recorded>> /\ worker'[q] = [NoWorker EXCEPT !.pc = "host"]
        /\ \A p \in RunIds \ {q} : worker'[p] = worker[p]
    BY <1>1, <1>4, <2>1 DEF StartProvision, BuiltAt
  <2>3. BuiltAt(q)'
    <3>1. worker'[q].pc = "host" /\ worker'[q].kind = "nic" /\ recorded'[q] = {} /\ q \in DOMAIN runs'
          /\ runs'[q].status = "pending"
      <4>1. BuiltAt(q)
        BY <1>1
      <4>2. recorded[q] = {}
        BY <2>1, <4>1 DEF BuiltAt
      <4> QED BY <2>1, <2>2, <4>2 DEF NoWorker
    <3> QED BY <3>1 DEF BuiltAt, Begins, Ended
  <2>4. ASSUME NEW p \in RunIds \ {q} PROVE BuiltAt(p)'
    BY <1>1, <2>1, <2>2, BuiltFrame
  <2> QED BY <2>3, <2>4 DEF BuiltInv
<1>5. CASE Interrupt
  <2>1. Open \in SUBSET DOMAIN runs
    BY DEF Open
  <2>2. runs' = [p \in DOMAIN runs |->
                   IF p \in Open THEN [runs[p] EXCEPT !.status = "interrupted"] ELSE runs[p]]
    BY <1>5 DEF Interrupt
  <2>3. DOMAIN runs' = DOMAIN runs /\ \A q \in DOMAIN runs : runs'[q].status = "succeeded" => runs[q].status = "succeeded"
    BY <1>1, <2>1, <2>2, InterruptedTyped
  <2>4. UNCHANGED <<ops, recorded, worker>>
    BY <1>5 DEF Interrupt
  <2>5. ASSUME NEW q \in RunIds PROVE BuiltAt(q)'
    BY <1>1, <2>3, <2>4, BuiltFrame
  <2> QED BY <2>5 DEF BuiltInv
<1>6. CASE Boot
  <2>1. UNCHANGED <<ops, recorded, runs>> /\ \A q \in RunIds : worker'[q] = NoWorker
    BY <1>6 DEF Boot
  <2>2. ASSUME NEW q \in RunIds PROVE BuiltAt(q)'
    <3>1. worker'[q] = NoWorker /\ worker'[q].pc = "none"
      BY <2>1 DEF NoWorker
    <3>2. recorded'[q] = recorded[q] /\ DOMAIN runs' = DOMAIN runs /\ runs'[q] = runs[q] /\ ops' = ops
      BY <2>1
    <3> QED BY <1>1, <3>1, <3>2 DEF BuiltAt, Begins, Ended
  <2> QED BY <2>2 DEF BuiltInv
<1>7. ASSUME NEW d \in Deleters, Deletion(d) PROVE UNCHANGED <<ops, runs, recorded, worker>>
  BY <1>7 DEF Deletion, Check, Delete, AwaitDelete, Mark, DeleteProvision
<1>8. ASSUME NEW x \in Things, AzureRemoves(x) \/ ByHand(x) PROVE UNCHANGED <<ops, runs, recorded, worker>>
  BY <1>8 DEF AzureRemoves, ByHand
<1>9. ASSUME NEW n \in Names, DeleteHost(n) \/ AddHost(n) PROVE UNCHANGED <<ops, runs, recorded, worker>>
  BY <1>9 DEF DeleteHost, AddHost
<1> QED
  BY <1>2, <1>3, <1>4, <1>5, <1>6, <1>7, <1>8, <1>9, BuiltRunStep DEF Next, Azure, People

\* What a run has passed is built.
LEMMA BuiltAlways == Spec => []BuiltInv
<1>1. Init => BuiltInv
  BY DEF Init, BuiltInv, BuiltAt, Begins, Ended, NoWorker
<1>2. TypeOK /\ BuiltInv /\ [Next]_vars => BuiltInv'
  BY BuiltStep
<1> QED
  BY <1>1, <1>2, TypeCorrect, PTL DEF Spec

\* A run recorded as succeeded has a NIC and a VM on its record that Azure
\* finished building, whatever answers are lost and wherever the hub crashes, but
\* for a creation whose answer named no operation to follow: of that one only the
\* acceptance is certain.
THEOREM SuccessIsBuilt == Spec => []SucceededWasBuilt
<1>1. TypeOK /\ BuiltInv => SucceededWasBuilt
  BY RunsBounded DEF BuiltInv, BuiltAt, SucceededWasBuilt, Past
<1> QED
  BY <1>1, TypeCorrect, BuiltAlways, PTL
-----------------------------------------------------------------------------
(* Who builds a machine, and who holds its name. *)

Works(p) == worker[p].pc \notin Ended

\* Two runs of one name are never both open.
OneOpen == \A p, q \in Open : runs[p].name = runs[q].name => p = q

WorksOpen == \A p \in DOMAIN runs \ overtaken : Works(p) => p \in Open

HoldInv == OneOpen /\ WorksOpen /\ HeldByItsRun

\* A step that opens no run, starts no goroutine and ends none of an open one.
LEMMA HoldFrame ==
  ASSUME HoldInv, DOMAIN runs' = DOMAIN runs, overtaken' = overtaken, booting => booting',
         \A p \in DOMAIN runs : /\ runs'[p].name = runs[p].name
                                /\ p \in Open' <=> p \in Open
                                /\ Works(p)' => Works(p)
                                /\ (p \in Open /\ worker[p].pc # "none") => (booting' \/ worker'[p].pc # "none")
  PROVE  HoldInv'
<1>1. OneOpen'
  BY DEF HoldInv, OneOpen, Open
<1>2. WorksOpen'
  BY DEF HoldInv, WorksOpen
<1>3. HeldByItsRun'
  BY DEF HoldInv, HeldByItsRun, Open
<1> QED
  BY <1>1, <1>2, <1>3 DEF HoldInv

\* A step that leaves the runs alone, and no goroutine of a run but one that
\* goes on or gives up.
LEMMA HoldGoes ==
  ASSUME HoldInv, NEW p \in RunIds, DOMAIN runs \subseteq RunIds, UNCHANGED <<runs, overtaken, booting>>,
         Works(p), worker'[p].pc # "none", \A q \in RunIds \ {p} : worker'[q] = worker[q]
  PROVE  HoldInv'
<1>1. Open' = Open /\ \A q \in DOMAIN runs : Works(q)' => Works(q)
  BY DEF Open, Works
<1>2. \A q \in DOMAIN runs : worker[q].pc # "none" => worker'[q].pc # "none"
  OBVIOUS
<1> QED
  BY <1>1, <1>2, HoldFrame

\* The steps of the goroutine of a run.
LEMMA HoldRunStep ==
  ASSUME TypeOK, HoldInv, NEW p \in DOMAIN runs, RunStep(p)
  PROVE  HoldInv'
<1> USE DEF vars, azure, tables, procs, history
<1>1. /\ p \in RunIds /\ DOMAIN runs \subseteq RunIds /\ worker \in [RunIds -> Worker]
      /\ runs \in Seq(Run) /\ runs[p].status \in Statuses
  <2>1. runs[p] \in Run
    BY RunsBounded
  <2> QED BY <2>1, RunsBounded DEF TypeOK, Run
<1>2. CASE CreateHost(p) \/ ReadVNet(p) \/ Put(p) \/ AwaitPut(p)
  <2>1. UNCHANGED <<runs, overtaken, booting>> /\ Works(p)
    BY <1>2 DEF CreateHost, ReadVNet, Put, AwaitPut, Works, Ended
  <2>2. \/ \E s \in WorkerSteps \ {"none"} : Goto(p, s)
        \/ Fails(p) \/ UNCHANGED worker
    BY <1>2 DEF CreateHost, ReadVNet, Put, AwaitPut, WorkerSteps
  <2>3. worker'[p].pc # "none" /\ \A q \in RunIds \ {p} : worker'[q] = worker[q]
    <3>1. ASSUME NEW s \in WorkerSteps \ {"none"}, Goto(p, s)
          PROVE  worker'[p].pc # "none" /\ \A q \in RunIds \ {p} : worker'[q] = worker[q]
      BY <1>1, <3>1, GotoEffect
    <3>2. CASE Fails(p) BY <1>1, <3>2, FailsEffect
    <3>3. CASE UNCHANGED worker BY <2>1, <3>3 DEF Works, Ended
    <3> QED BY <2>2, <3>1, <3>2, <3>3
  <2> QED BY <1>1, <2>1, <2>3, HoldGoes
<1>3. CASE Record(p)
  <2>1. UNCHANGED <<runs, overtaken, booting>> /\ Works(p) /\ worker'[p].pc # "none"
        /\ \A q \in RunIds \ {p} : worker'[q] = worker[q]
    <3>1. CASE Fails(p) BY <1>1, <1>3, <3>1, FailsEffect DEF Record, Works, Ended
    <3>2. CASE ~Fails(p) BY <1>1, <1>3, <3>2 DEF Record, Works, Ended
    <3> QED BY <3>1, <3>2
  <2> QED BY <1>1, <2>1, HoldGoes
<1>4. CASE MarkRunning(p)
  <2>1. (IF runs[p].status = "pending" THEN "running" ELSE runs[p].status) \in Statuses
    BY <1>1 DEF Statuses
  <2>2. /\ DOMAIN runs' = DOMAIN runs /\ runs'[p].status = IF runs[p].status = "pending" THEN "running" ELSE runs[p].status
        /\ \A q \in DOMAIN runs : runs'[q].name = runs[q].name /\ (q # p => runs'[q] = runs[q])
    BY <1>1, <1>4, <2>1, RunsTyped DEF MarkRunning
  <2>3. worker'[p].pc = "read" /\ \A q \in RunIds \ {p} : worker'[q] = worker[q]
    BY <1>1, <1>4, GotoEffect DEF MarkRunning
  <2>4. \A q \in DOMAIN runs : q \in Open' <=> q \in Open
    BY <2>2 DEF Open
  <2>5. Works(p) /\ UNCHANGED <<overtaken, booting>>
    BY <1>4 DEF MarkRunning, Works, Ended
  <2>6. \A q \in DOMAIN runs : (Works(q)' => Works(q)) /\ (worker[q].pc # "none" => worker'[q].pc # "none")
    BY <1>1, <2>3, <2>5 DEF Works
  <2> QED BY <2>2, <2>4, <2>5, <2>6, HoldFrame
<1>5. CASE Finish(p)
  <2>1. (IF worker[p].ok THEN "succeeded" ELSE "failed") \in Statuses
    BY DEF Statuses
  <2>2. /\ DOMAIN runs' = DOMAIN runs /\ runs'[p].status \in {"succeeded", "failed"}
        /\ \A q \in DOMAIN runs : runs'[q].name = runs[q].name /\ (q # p => runs'[q] = runs[q])
    BY <1>1, <1>5, <2>1, RunsTyped DEF Finish
  <2>3. worker'[p].pc = "none" /\ UNCHANGED <<overtaken, booting>> /\ \A q \in RunIds \ {p} : worker'[q] = worker[q]
    BY <1>1, <1>5 DEF Finish, NoWorker
  <2>4. Open' = Open \ {p}
    BY <2>2 DEF Open
  <2>5. ~Works(p)' /\ \A q \in DOMAIN runs \ {p} : Works(q)' <=> Works(q)
    BY <1>1, <2>3 DEF Works, Ended
  <2>6. OneOpen'
    BY <2>2, <2>4 DEF HoldInv, OneOpen, Open
  <2>7. WorksOpen'
    BY <2>2, <2>3, <2>4, <2>5 DEF HoldInv, WorksOpen
  <2>8. HeldByItsRun'
    BY <1>1, <2>2, <2>3 DEF HoldInv, HeldByItsRun
  <2> QED BY <2>6, <2>7, <2>8 DEF HoldInv
<1> QED
  BY <1>2, <1>3, <1>4, <1>5 DEF RunStep

\* No step opens a second run of a name, nor leaves an open one to nobody.
LEMMA HoldStep ==
  ASSUME TypeOK, HoldInv, [Next]_vars
  PROVE  HoldInv'
<1> USE DEF vars, azure, tables, procs, history
<1>1. /\ DOMAIN runs \subseteq RunIds /\ worker \in [RunIds -> Worker] /\ runs \in Seq(Run)
      /\ overtaken \subseteq DOMAIN runs
  BY RunsBounded DEF TypeOK
<1>2. CASE UNCHANGED <<runs, worker, booting, overtaken>>
  BY <1>2 DEF HoldInv, OneOpen, WorksOpen, HeldByItsRun, Open, Works
<1>3. ASSUME NEW n \in Names, StartProvision(n) PROVE HoldInv'
  <2>1. PICK q \in RunIds :
          /\ q \notin DOMAIN runs /\ DOMAIN runs' = DOMAIN runs \cup {q}
          /\ \A p \in DOMAIN runs : runs'[p] = runs[p]
          /\ runs'[q] = [name |-> n, status |-> "pending"]
          /\ worker' = [worker EXCEPT ![q].pc = "host"]
    BY <1>3, Started
  <2>2. UNCHANGED <<overtaken, booting>> /\ worker'[q].pc = "host" /\ \A p \in RunIds \ {q} : worker'[p] = worker[p]
    BY <1>1, <1>3, <2>1, GotoEffect DEF StartProvision, Goto
  <2>3. Open' = Open \cup {q} /\ runs'[q].name = n
    BY <2>1 DEF Open
  <2>4. \A p \in Open : p \in DOMAIN runs /\ runs[p].name # n /\ runs'[p] = runs[p]
    BY <1>3, <2>1 DEF StartProvision, InFlight, Open
  <2>5. OneOpen'
    BY <2>3, <2>4 DEF HoldInv, OneOpen
  <2>6. WorksOpen'
    BY <1>1, <2>1, <2>2, <2>3 DEF HoldInv, WorksOpen, Works
  <2>7. HeldByItsRun'
    BY <1>1, <2>1, <2>2 DEF HoldInv, HeldByItsRun
  <2> QED BY <2>5, <2>6, <2>7 DEF HoldInv
<1>4. CASE Interrupt
  <2>1. Open \in SUBSET DOMAIN runs
    BY DEF Open
  <2>2. runs' = [p \in DOMAIN runs |->
                   IF p \in Open THEN [runs[p] EXCEPT !.status = "interrupted"] ELSE runs[p]]
    BY <1>4 DEF Interrupt
  <2>3. DOMAIN runs' = DOMAIN runs
        /\ \A p \in DOMAIN runs : runs'[p].status = IF p \in Open THEN "interrupted" ELSE runs[p].status
    BY <1>1, <2>1, <2>2, InterruptedTyped
  <2>4. Open' = {}
    BY <2>3 DEF Open
  <2>5. UNCHANGED worker /\ overtaken' = overtaken \cup {p \in Open : worker[p].pc # "none"}
    BY <1>4 DEF Interrupt
  <2>6. WorksOpen'
    BY <2>3, <2>5 DEF HoldInv, WorksOpen, Works, Ended
  <2> QED BY <2>3, <2>4, <2>6 DEF HoldInv, OneOpen, HeldByItsRun, Open
<1>5. CASE Boot
  <2>1. UNCHANGED <<runs, overtaken>> /\ booting' = TRUE /\ \A p \in RunIds : worker'[p].pc = "none"
    BY <1>5 DEF Boot, NoWorker
  <2> QED BY <1>1, <2>1 DEF HoldInv, OneOpen, WorksOpen, HeldByItsRun, Open, Works, Ended
<1>6. ASSUME NEW d \in Deleters, Deletion(d) PROVE UNCHANGED <<runs, worker, booting, overtaken>>
  BY <1>6 DEF Deletion, Check, Delete, AwaitDelete, Mark, DeleteProvision
<1>7. ASSUME NEW x \in Things, AzureRemoves(x) \/ ByHand(x) PROVE UNCHANGED <<runs, worker, booting, overtaken>>
  BY <1>7 DEF AzureRemoves, ByHand
<1>8. ASSUME NEW n \in Names, DeleteHost(n) \/ AddHost(n) PROVE UNCHANGED <<runs, worker, booting, overtaken>>
  BY <1>8 DEF DeleteHost, AddHost
<1>9. ASSUME NEW p \in DOMAIN runs, NEW k \in Kinds, AzureBuilds(p, k)
      PROVE  UNCHANGED <<runs, worker, booting, overtaken>>
  BY <1>9 DEF AzureBuilds
<1> QED
  BY <1>2, <1>3, <1>4, <1>5, <1>6, <1>7, <1>8, <1>9, HoldRunStep DEF Next, Azure, People

\* Whoever builds is open, and what is open has somebody.
LEMMA HoldAlways == Spec => []HoldInv
<1>1. Init => HoldInv
  BY DEF Init, HoldInv, OneOpen, WorksOpen, HeldByItsRun, Open, Works
<1>2. TypeOK /\ HoldInv /\ [Next]_vars => HoldInv'
  BY HoldStep
<1> QED
  BY <1>1, <1>2, TypeCorrect, PTL DEF Spec

\* Two runs never create one machine at once, for every number of runs and of
\* restarts, but for a run that the boot of its own process interrupted.
THEOREM BuildsAlone == Spec => []OneBuilder
<1>1. HoldInv => OneBuilder
  BY DEF HoldInv, OneOpen, WorksOpen, OneBuilder, Building, Works, Ended
<1> QED
  BY <1>1, HoldAlways, PTL

\* A run that is open has a goroutine that will close it, or the boot has yet
\* to interrupt it: no crash leaves a name taken for ever.
THEOREM NeverHeldByNobody == Spec => []HeldByItsRun
<1>1. HoldInv => HeldByItsRun
  BY DEF HoldInv
<1> QED
  BY <1>1, HoldAlways, PTL
-----------------------------------------------------------------------------
(* What exists can be named. *)

Active(d) == deleter[d].pc # "none"
Sees(d) == deleter[d].pc = "mark" \/ (deleter[d].pc = "await" /\ deleter[d].ans = "done")

\* A deletion and a run of one name that are alive together have been seen.
OverlapSeen ==
  \A d \in Deleters, q \in DOMAIN runs :
    Active(d) /\ worker[q].pc # "none" /\ runs[q].name = deleter[d].name => deleter[d].name \in overlap

\* What a deletion is about to mark is gone.
GoneWhenMarked ==
  \A d \in Deleters : Sees(d) /\ deleter[d].name \notin overlap => cloud[First(d)] # "ours"

NamedInv == OverlapSeen /\ GoneWhenMarked /\ NamedWhileItExists

NamedBy(p, x) == runs[p].name = x[1] /\ ((x[2] \in recorded[p] \ deleted[p])
                                        \/ (Building(p) /\ worker[p].kind = x[2]))

\* What the goroutine of a run leaves alone.
LEMMA RunStepEffect ==
  ASSUME TypeOK, NEW p \in DOMAIN runs, RunStep(p)
  PROVE  /\ DOMAIN runs' = DOMAIN runs /\ \A q \in DOMAIN runs : runs'[q].name = runs[q].name
         /\ worker[p].pc # "none" /\ \A q \in RunIds \ {p} : worker'[q] = worker[q]
         /\ UNCHANGED <<removing, deleted, deleter, booting, changes, overtaken, overlap, swapped>>
         /\ \A q \in RunIds : recorded[q] \subseteq recorded'[q]
         /\ unnamed \subseteq unnamed'
<1> USE DEF azure, tables, procs, history
<1>1. /\ p \in RunIds /\ worker \in [RunIds -> Worker] /\ runs \in Seq(Run) /\ runs[p] \in Run
      /\ recorded \in [RunIds -> SUBSET Kinds]
  BY RunsBounded DEF TypeOK
<1>2. UNCHANGED <<removing, deleted, deleter, booting, changes, overtaken, overlap, swapped>>
  BY DEF RunStep, CreateHost, MarkRunning, ReadVNet, Put, AwaitPut, Record, Finish
<1>3. worker[p].pc # "none" /\ unnamed \subseteq unnamed'
  BY DEF RunStep, CreateHost, MarkRunning, ReadVNet, Put, AwaitPut, Record, Finish
<1>4. \A q \in RunIds \ {p} : worker'[q] = worker[q]
  <2>1. \/ \E s \in WorkerSteps : Goto(p, s)
        \/ Fails(p) \/ UNCHANGED worker
        \/ \E w \in Worker : worker' = [worker EXCEPT ![p] = w]
    <3>1. CASE Record(p)
      <4>1. worker[p].kind \in Kinds
        BY <1>1 DEF Worker
      <4>2. [pc |-> IF worker[p].kind = "nic" THEN "put" ELSE "finish", kind |-> "vm",
             ok |-> worker[p].kind = "vm"] \in Worker
        BY DEF Worker, WorkerSteps, Kinds
      <4> QED BY <3>1, <4>2 DEF Record
    <3>2. CASE Finish(p)
      <4>1. NoWorker \in Worker
        BY DEF NoWorker, Worker, WorkerSteps, Kinds
      <4> QED BY <3>2, <4>1 DEF Finish
    <3>3. CASE ~Record(p) /\ ~Finish(p)
      BY <3>3 DEF RunStep, CreateHost, MarkRunning, ReadVNet, Put, AwaitPut, WorkerSteps
    <3> QED BY <3>1, <3>2, <3>3
  <2>2. ASSUME NEW s \in WorkerSteps, Goto(p, s) PROVE \A q \in RunIds \ {p} : worker'[q] = worker[q]
    BY <1>1, <2>2, GotoEffect
  <2> QED BY <1>1, <2>1, <2>2, FailsEffect
<1>5. DOMAIN runs' = DOMAIN runs /\ \A q \in DOMAIN runs : runs'[q].name = runs[q].name
  <2>1. runs' = runs \/ \E st \in Statuses : runs' = [runs EXCEPT ![p].status = st]
    <3>1. (IF runs[p].status = "pending" THEN "running" ELSE runs[p].status) \in Statuses
          /\ (IF worker[p].ok THEN "succeeded" ELSE "failed") \in Statuses
      BY <1>1 DEF Run, Statuses
    <3>2. CASE MarkRunning(p) BY <3>1, <3>2 DEF MarkRunning
    <3>3. CASE Finish(p) BY <3>1, <3>3 DEF Finish
    <3>4. CASE ~MarkRunning(p) /\ ~Finish(p)
      BY <3>4 DEF RunStep, CreateHost, ReadVNet, Put, AwaitPut, Record
    <3> QED BY <3>2, <3>3, <3>4
  <2>2. ASSUME NEW st \in Statuses, runs' = [runs EXCEPT ![p].status = st]
        PROVE  DOMAIN runs' = DOMAIN runs /\ \A q \in DOMAIN runs : runs'[q].name = runs[q].name
    BY <1>1, <2>2, RunsTyped
  <2> QED BY <2>1, <2>2
<1>6. \A q \in RunIds : recorded[q] \subseteq recorded'[q]
  <2>1. CASE Record(p)
    <3>1. recorded' = recorded \/ recorded' = [recorded EXCEPT ![p] = recorded[p] \cup {worker[p].kind}]
      BY <2>1 DEF Record
    <3> QED BY <1>1, <3>1
  <2>2. CASE ~Record(p)
    BY <2>2 DEF RunStep, CreateHost, MarkRunning, ReadVNet, Put, AwaitPut, Finish
  <2> QED BY <2>1, <2>2
<1> QED
  BY <1>2, <1>3, <1>4, <1>5, <1>6

\* A step that starts neither a run nor a deletion, and makes nothing the hub's.
LEMMA OverlapFrame ==
  ASSUME OverlapSeen, DOMAIN runs' = DOMAIN runs, overlap \subseteq overlap',
         \A q \in DOMAIN runs : runs'[q].name = runs[q].name /\ (worker'[q].pc # "none" => worker[q].pc # "none"),
         \A d \in Deleters : Active(d)' => Active(d) /\ deleter'[d].name = deleter[d].name
  PROVE  OverlapSeen'
BY DEF OverlapSeen

\* Who brings back none of the resources deleted last leaves them gone.
LEMMA GoneFrame ==
  ASSUME GoneWhenMarked, UNCHANGED deleter, overlap \subseteq overlap',
         \A d \in Deleters : cloud'[First(d)] = "ours" => cloud[First(d)] = "ours"
  PROVE  GoneWhenMarked'
BY DEF GoneWhenMarked, Sees, First, Thing

\* Who creates nothing and forgets nothing leaves everything named.
LEMMA NamedFrame ==
  ASSUME NamedWhileItExists, overlap \subseteq overlap', unnamed \subseteq unnamed',
         DOMAIN runs \subseteq DOMAIN runs',
         \A x \in Things : cloud'[x] = "ours" /\ x \notin unnamed' /\ x[1] \notin overlap' =>
           /\ cloud[x] = "ours"
           /\ \A p \in DOMAIN runs : NamedBy(p, x) => NamedBy(p, x)'
  PROVE  NamedWhileItExists'
<1>1. \A x \in Things : cloud[x] = "ours" /\ x \notin unnamed /\ x[1] \notin overlap =>
        \E p \in DOMAIN runs : NamedBy(p, x)
  BY DEF NamedWhileItExists, NamedBy
<1>2. ASSUME NEW x \in Things, cloud'[x] = "ours", x \notin unnamed', x[1] \notin overlap'
      PROVE  \E p \in DOMAIN runs' : NamedBy(p, x)'
  BY <1>1, <1>2
<1> QED
  BY <1>2 DEF NamedWhileItExists, NamedBy

\* The steps of the goroutine of a run.
LEMMA NamedRunStep ==
  ASSUME TypeOK, BuiltInv, NamedInv, NEW p \in DOMAIN runs, RunStep(p)
  PROVE  NamedInv'
<1> USE DEF azure, tables, procs, history
<1>1. /\ p \in RunIds /\ Target(p) \in Things /\ DOMAIN runs \subseteq RunIds
      /\ worker \in [RunIds -> Worker] /\ cloud \in [Things -> {"none", "ours", "foreign"}]
      /\ recorded \in [RunIds -> SUBSET Kinds] /\ deleted \in [RunIds -> SUBSET Kinds]
      /\ deleted[p] \subseteq recorded[p] /\ worker[p].kind \in Kinds
      /\ \A d \in Deleters : deleter[d].left \in SUBSET Kinds
  BY RunsBounded, TargetTyped DEF TypeOK, Deleter
<1>2. /\ DOMAIN runs' = DOMAIN runs /\ \A q \in DOMAIN runs : runs'[q].name = runs[q].name
      /\ worker[p].pc # "none" /\ \A q \in RunIds \ {p} : worker'[q] = worker[q]
      /\ deleted' = deleted /\ deleter' = deleter /\ overlap' = overlap
      /\ \A q \in RunIds : recorded[q] \subseteq recorded'[q]
      /\ unnamed \subseteq unnamed'
  BY RunStepEffect
<1>3. OverlapSeen'
  BY <1>1, <1>2, OverlapFrame DEF NamedInv, Active
<1>4. cloud' = cloud \/ (worker[p].pc = "put" /\ cloud' = [cloud EXCEPT ![Target(p)] = "ours"])
  BY DEF RunStep, CreateHost, MarkRunning, ReadVNet, Put, Taken, AwaitPut, Record, Finish
<1>5. GoneWhenMarked'
  <2>1. ASSUME NEW d \in Deleters, Sees(d), deleter[d].name \notin overlap PROVE First(d) # Target(p)
    <3>1. Active(d) /\ runs[p].name # deleter[d].name
      BY <1>2, <2>1 DEF NamedInv, OverlapSeen, Active, Sees
    <3> QED BY <3>1 DEF First, Thing, Target
  <2>2. \A d \in Deleters : Sees(d) /\ deleter[d].name \notin overlap => cloud'[First(d)] # "ours"
    <3>1. \A d \in Deleters : First(d) \in Things
      BY <1>1, ThingTyped DEF First
    <3> QED BY <1>1, <1>4, <2>1, <3>1 DEF NamedInv, GoneWhenMarked
  <2> QED BY <1>2, <2>2 DEF GoneWhenMarked, Sees, First, Thing
<1>6. NamedWhileItExists'
  <2>1. ASSUME NEW x \in Things, NEW q \in DOMAIN runs, q # p, NamedBy(q, x) PROVE NamedBy(q, x)'
    BY <1>1, <1>2, <2>1 DEF NamedBy, Building
  <2>2. ASSUME NEW x \in Things, x # Target(p), NamedBy(p, x) PROVE NamedBy(p, x)'
    <3>1. x = <<x[1], x[2]>>
      BY DEF Things
    <3>2. x[2] \in recorded[p] \ deleted[p]
      BY <2>2, <3>1 DEF NamedBy, Target
    <3> QED BY <1>1, <1>2, <2>2, <3>2 DEF NamedBy
  <2>3. CASE Put(p)
    <3>1. /\ worker'[p].kind = worker[p].kind /\ (worker'[p].pc \in {"put", "await"} \/ Target(p) \in unnamed')
      <4>1. CASE Goto(p, "await") BY <1>1, <4>1, GotoEffect
      <4>2. CASE UNCHANGED worker BY <2>3, <4>2 DEF Put
      <4>3. CASE Fails(p) /\ unnamed' = unnamed \cup {Target(p)} BY <1>1, <4>3, FailsEffect
      <4> QED BY <2>3, <4>1, <4>2, <4>3 DEF Put
    <3>2. ASSUME NEW x \in Things, cloud'[x] = "ours", x \notin unnamed', x[1] \notin overlap'
          PROVE  \E q \in DOMAIN runs' : NamedBy(q, x)'
      <4>1. CASE x = Target(p)
        BY <1>2, <3>1, <3>2, <4>1 DEF NamedBy, Building, Target
      <4>2. CASE x # Target(p)
        <5>1. cloud[x] = "ours" /\ x \notin unnamed /\ x[1] \notin overlap
          BY <1>1, <1>2, <1>4, <3>2, <4>2
        <5>2. PICK q \in DOMAIN runs : NamedBy(q, x)
          BY <5>1 DEF NamedInv, NamedWhileItExists, NamedBy
        <5> QED BY <1>2, <2>1, <2>2, <4>2, <5>2
      <4> QED BY <4>1, <4>2
    <3> QED BY <3>2 DEF NamedWhileItExists, NamedBy
  <2>4. ASSUME cloud' = cloud,
               \A x \in Things : x = Target(p) /\ Building(p) /\ x \notin unnamed' => NamedBy(p, x)'
        PROVE  NamedWhileItExists'
    <3>1. ASSUME NEW x \in Things, x \notin unnamed', NamedBy(p, x) PROVE NamedBy(p, x)'
      <4>1. CASE x # Target(p) BY <2>2, <3>1, <4>1
      <4>2. CASE x = Target(p) /\ Building(p) BY <2>4, <3>1, <4>2
      <4>3. CASE ~Building(p)
        BY <1>1, <1>2, <3>1, <4>3 DEF NamedBy
      <4> QED BY <4>1, <4>2, <4>3
    <3> QED BY <1>2, <2>1, <2>4, <3>1, NamedFrame DEF NamedInv
  <2>5. CASE AwaitPut(p)
    <3>1. cloud' = cloud /\ (Target(p) \in unnamed' \/ (worker'[p].pc = "record" /\ worker'[p].kind = worker[p].kind))
      <4>1. CASE Goto(p, "record") BY <1>1, <2>5, <4>1, GotoEffect DEF AwaitPut
      <4>2. CASE ~Goto(p, "record") BY <2>5, <4>2 DEF AwaitPut
      <4> QED BY <4>1, <4>2
    <3> QED BY <1>2, <2>4, <3>1 DEF NamedBy, Building, Target
  <2>6. CASE Record(p)
    <3>1. cloud' = cloud /\ (Target(p) \in unnamed' \/ recorded' = [recorded EXCEPT ![p] = recorded[p] \cup {worker[p].kind}])
      BY <2>6 DEF Record
    <3>2. worker[p].kind \notin recorded[p]
      <4>1. BuiltAt(p)
        BY <1>1 DEF BuiltInv
      <4> QED BY <2>6, <4>1 DEF BuiltAt, Ended, Record
    <3>3. worker[p].kind \notin deleted[p]
      BY <1>1, <3>2
    <3>4. ASSUME NEW x \in Things, x = Target(p), x \notin unnamed' PROVE NamedBy(p, x)'
      <4>1. x[1] = runs[p].name /\ x[2] = worker[p].kind
        BY <3>4 DEF Target
      <4>2. x[2] \in recorded'[p] \ deleted'[p]
        BY <1>1, <1>2, <3>1, <3>3, <3>4, <4>1
      <4> QED BY <1>2, <4>1, <4>2 DEF NamedBy
    <3> QED BY <2>4, <3>1, <3>4
  <2>7. CASE CreateHost(p) \/ MarkRunning(p) \/ ReadVNet(p) \/ Finish(p)
    <3>1. ~Building(p) /\ cloud' = cloud
      BY <2>7 DEF CreateHost, MarkRunning, ReadVNet, Finish, Building
    <3> QED BY <2>4, <3>1
  <2> QED BY <2>3, <2>5, <2>6, <2>7 DEF RunStep
<1> QED
  BY <1>3, <1>5, <1>6 DEF NamedInv

\* What a deletion may do with its own state.
Keeps(d) == deleter'[d].name = deleter[d].name /\ deleter'[d].left = deleter[d].left
Checks(d) ==
  /\ deleter[d].pc = "check" /\ Keeps(d) /\ Ours(Thing(d, deleter[d].unread))
  /\ deleter'[d].unread = deleter[d].unread \ {Thing(d, deleter[d].unread)[2]}
  /\ deleter'[d].pc = IF deleter'[d].unread = {} THEN "delete" ELSE "check"
Asks(d) ==
  /\ deleter[d].pc = "delete" /\ Keeps(d)
  /\ \/ deleter'[d].pc = "mark" /\ cloud[First(d)] = "none"
     \/ deleter'[d].pc = "await" /\ deleter'[d].ans = "none"
     \/ deleter'[d].pc = "delete"
Learns(d) == deleter[d].pc = "await" /\ deleter[d].ans = "done" /\ Keeps(d) /\ deleter'[d].pc = "mark"
Advances(d) ==
  /\ deleter[d].pc = "mark" /\ deleter'[d].pc = "delete" /\ deleter'[d].name = deleter[d].name
  /\ deleter'[d].left = deleter[d].left \ {First(d)[2]} /\ deleter'[d].left # {}
StartsOn(d, p) ==
  /\ deleter[d].pc = "none" /\ deleter'[d].pc = "check" /\ deleter'[d].name = runs[p].name
  /\ deleter'[d].unread = deleter'[d].left /\ deleter'[d].left # {}
  /\ (\E q \in DOMAIN runs : worker[q].pc # "none" /\ runs[q].name = runs[p].name) => runs[p].name \in overlap'
Moves(d) == \/ deleter'[d].pc = "none"
            \/ Checks(d) \/ Asks(d) \/ Learns(d) \/ Advances(d)
            \/ \E p \in DOMAIN runs : StartsOn(d, p)

\* What a step of a deletion does, and what it leaves alone.
LEMMA DeletionEffect ==
  ASSUME TypeOK, NEW d \in Deleters, Deletion(d)
  PROVE  /\ UNCHANGED <<cloud, runs, recorded, worker, unnamed, swapped, changes>>
         /\ overlap \subseteq overlap' /\ \A e \in Deleters \ {d} : deleter'[e] = deleter[e]
         /\ Moves(d)
         /\ removing' = removing \/ (deleter[d].pc = "delete" /\ removing' = removing \cup {First(d)})
         /\ deleted' = deleted \/ Mark(d)
<1> USE DEF azure, tables, procs, history
<1>1. deleter \in [Deleters -> Deleter] /\ deleter[d] \in Deleter
  BY DEF TypeOK
<1>2. UNCHANGED <<cloud, runs, recorded, worker, unnamed, swapped, changes>> /\ overlap \subseteq overlap'
  BY DEF Deletion, Check, Delete, AwaitDelete, Mark, DeleteProvision
<1>3. removing' = removing \/ (deleter[d].pc = "delete" /\ removing' = removing \cup {First(d)})
  BY DEF Deletion, Check, Delete, AwaitDelete, Mark, DeleteProvision
<1>4. deleted' = deleted \/ Mark(d)
  BY DEF Deletion, Check, Delete, AwaitDelete, DeleteProvision
<1>5. CASE Stops(d)
  <2>1. deleter'[d].pc = "none" /\ \A e \in Deleters \ {d} : deleter'[e] = deleter[e]
    BY <1>1, <1>5 DEF Stops, NoDeleter
  <2> QED BY <1>2, <1>3, <1>4, <2>1 DEF Moves
<1>6. CASE Check(d) /\ ~Stops(d)
  <2> DEFINE U == deleter[d].unread \ {Thing(d, deleter[d].unread)[2]}
  <2>1. /\ deleter[d].pc = "check" /\ Ours(Thing(d, deleter[d].unread))
        /\ deleter' = [deleter EXCEPT ![d].unread = U, ![d].pc = IF U = {} THEN "delete" ELSE "check"]
    BY <1>6 DEF Check
  <2> HIDE DEF U
  <2>2. deleter'[d] = [deleter[d] EXCEPT !.unread = U, !.pc = IF U = {} THEN "delete" ELSE "check"]
        /\ \A e \in Deleters \ {d} : deleter'[e] = deleter[e]
    BY <1>1, <2>1
  <2>3. Keeps(d) /\ deleter'[d].unread = U /\ deleter'[d].pc = IF U = {} THEN "delete" ELSE "check"
    BY <1>1, <2>2 DEF Keeps, Deleter
  <2>4. Checks(d)
    BY <2>1, <2>3 DEF Checks, U
  <2> QED BY <1>2, <1>3, <1>4, <2>2, <2>4 DEF Moves
<1>7. CASE Delete(d) /\ ~Stops(d)
  <2>1. /\ deleter[d].pc = "delete"
        /\ \/ deleter' = [deleter EXCEPT ![d].pc = "mark"] /\ cloud[First(d)] = "none"
           \/ deleter' = [deleter EXCEPT ![d].pc = "await", ![d].ans = "none"]
           \/ deleter' = deleter
    BY <1>7 DEF Delete
  <2>2. /\ \/ deleter'[d] = [deleter[d] EXCEPT !.pc = "mark"] /\ cloud[First(d)] = "none"
           \/ deleter'[d] = [deleter[d] EXCEPT !.pc = "await", !.ans = "none"]
           \/ deleter'[d] = deleter[d]
        /\ \A e \in Deleters \ {d} : deleter'[e] = deleter[e]
    BY <1>1, <2>1
  <2>3. Asks(d)
    BY <1>1, <2>1, <2>2 DEF Asks, Keeps, Deleter
  <2> QED BY <1>2, <1>3, <1>4, <2>2, <2>3 DEF Moves
<1>8. CASE AwaitDelete(d) /\ ~Stops(d)
  <2>1. deleter[d].pc = "await" /\ deleter[d].ans = "done" /\ deleter' = [deleter EXCEPT ![d].pc = "mark"]
    BY <1>8 DEF AwaitDelete, Gone
  <2>2. deleter'[d] = [deleter[d] EXCEPT !.pc = "mark"] /\ \A e \in Deleters \ {d} : deleter'[e] = deleter[e]
    BY <1>1, <2>1
  <2>3. Learns(d)
    BY <1>1, <2>1, <2>2 DEF Learns, Keeps, Deleter
  <2> QED BY <1>2, <1>3, <1>4, <2>2, <2>3 DEF Moves
<1>9. CASE Mark(d) /\ ~Stops(d)
  <2> DEFINE K == deleter[d].left \ {First(d)[2]}
  <2>1. deleter[d].pc = "mark" /\ K # {} /\ deleter' = [deleter EXCEPT ![d].left = K, ![d].pc = "delete"]
    BY <1>9 DEF Mark
  <2> HIDE DEF K
  <2>2. deleter'[d] = [deleter[d] EXCEPT !.left = K, !.pc = "delete"]
        /\ \A e \in Deleters \ {d} : deleter'[e] = deleter[e]
    BY <1>1, <2>1
  <2>3. deleter'[d].left = K /\ deleter'[d].pc = "delete" /\ deleter'[d].name = deleter[d].name
    BY <1>1, <2>2 DEF Deleter
  <2>4. Advances(d)
    BY <2>1, <2>3 DEF Advances, K
  <2> QED BY <1>2, <1>3, <1>4, <2>2, <2>4 DEF Moves
<1>10. ASSUME NEW p \in DOMAIN runs, DeleteProvision(d, p) PROVE Moves(d) /\ \A e \in Deleters \ {d} : deleter'[e] = deleter[e]
  <2> DEFINE K == recorded[p] \ deleted[p]
  <2>1. /\ deleter[d].pc = "none" /\ K # {}
        /\ deleter' = [deleter EXCEPT ![d] =
             [pc |-> "check", name |-> runs[p].name, left |-> K, unread |-> K, ans |-> "none"]]
    BY <1>10 DEF DeleteProvision
  <2>2. (\E q \in DOMAIN runs : worker[q].pc # "none" /\ runs[q].name = runs[p].name) => runs[p].name \in overlap'
    BY <1>10 DEF DeleteProvision
  <2> HIDE DEF K
  <2>3. StartsOn(d, p) /\ \A e \in Deleters \ {d} : deleter'[e] = deleter[e]
    BY <1>1, <2>1, <2>2 DEF StartsOn
  <2> QED BY <2>3 DEF Moves
<1> QED
  BY <1>2, <1>3, <1>4, <1>5, <1>6, <1>7, <1>8, <1>9, <1>10 DEF Deletion

\* The steps of a deletion.
LEMMA NamedDeletionStep ==
  ASSUME TypeOK, NamedInv, NEW d \in Deleters, Deletion(d)
  PROVE  NamedInv'
<1>1. /\ UNCHANGED <<cloud, runs, recorded, worker, unnamed>>
      /\ overlap \subseteq overlap' /\ \A e \in Deleters \ {d} : deleter'[e] = deleter[e]
      /\ Moves(d) /\ (deleted' = deleted \/ Mark(d))
  BY DeletionEffect
<1>2. OverlapSeen'
  <2>1. ASSUME NEW q \in DOMAIN runs, Active(d)', worker[q].pc # "none", runs[q].name = deleter'[d].name
        PROVE  deleter'[d].name \in overlap'
    <3>1. CASE Active(d) /\ deleter'[d].name = deleter[d].name
      BY <1>1, <2>1, <3>1 DEF NamedInv, OverlapSeen
    <3>2. CASE \E p \in DOMAIN runs : StartsOn(d, p)
      BY <2>1, <3>2 DEF StartsOn
    <3> QED BY <1>1, <2>1, <3>1, <3>2 DEF Moves, Active, Checks, Asks, Learns, Advances, Keeps
  <2>2. ASSUME NEW e \in Deleters \ {d}, NEW q \in DOMAIN runs, Active(e)', worker[q].pc # "none",
               runs[q].name = deleter'[e].name
        PROVE  deleter'[e].name \in overlap'
    BY <1>1, <2>2 DEF NamedInv, OverlapSeen, Active
  <2> QED BY <1>1, <2>1, <2>2 DEF OverlapSeen
<1>3. GoneWhenMarked'
  <2>1. ASSUME Sees(d)', deleter'[d].name \notin overlap' PROVE cloud'[First(d)'] # "ours"
    <3>1. Keeps(d) /\ (cloud[First(d)] = "none" \/ Sees(d))
      BY <1>1, <2>1 DEF Moves, Checks, Asks, Learns, Advances, StartsOn, Sees
    <3>2. First(d)' = First(d) /\ deleter[d].name \notin overlap
      BY <1>1, <2>1, <3>1 DEF First, Thing, Keeps
    <3> QED BY <1>1, <3>1, <3>2 DEF NamedInv, GoneWhenMarked
  <2>2. ASSUME NEW e \in Deleters \ {d}, Sees(e)', deleter'[e].name \notin overlap' PROVE cloud'[First(e)'] # "ours"
    <3>1. Sees(e) /\ First(e)' = First(e) /\ deleter[e].name \notin overlap
      BY <1>1, <2>2 DEF Sees, First, Thing
    <3> QED BY <1>1, <3>1 DEF NamedInv, GoneWhenMarked
  <2> QED BY <2>1, <2>2 DEF GoneWhenMarked
<1>4. NamedWhileItExists'
  <2>1. ASSUME NEW x \in Things, cloud[x] = "ours", x \notin unnamed, x[1] \notin overlap,
               NEW p \in DOMAIN runs, NamedBy(p, x)
        PROVE  NamedBy(p, x)'
    <3>1. CASE deleted' = deleted
      BY <1>1, <2>1, <3>1 DEF NamedBy, Building
    <3>2. CASE Mark(d)
      <4>1. p \in RunIds /\ x = <<x[1], x[2]>> /\ First(d) = <<First(d)[1], First(d)[2]>>
        BY RunsBounded DEF Things, First, Thing
      <4>2. deleter[d].pc = "mark" /\ First(d)[1] = deleter[d].name
        BY <3>2 DEF Mark, First, Thing
      <4>3. x # First(d)
        BY <2>1, <4>2 DEF NamedInv, GoneWhenMarked, Sees
      <4>4. deleted' = deleted \/ deleted' = [q \in RunIds |-> IF q \in RowsOf(First(d))
                                                   THEN deleted[q] \cup {First(d)[2]} ELSE deleted[q]]
        BY <3>2 DEF Mark
      <4>5. runs[p].name = x[1]
        BY <2>1 DEF NamedBy
      <4>6. x[2] \in recorded[p] \ deleted[p] => x[2] \notin deleted'[p]
        BY <4>1, <4>3, <4>4, <4>5 DEF RowsOf
      <4> QED BY <1>1, <2>1, <4>6 DEF NamedBy, Building
    <3> QED BY <1>1, <3>1, <3>2
  <2> QED BY <1>1, <2>1, NamedFrame DEF NamedInv
<1> QED
  BY <1>2, <1>3, <1>4 DEF NamedInv

\* What the end of a deletion in Azure does to those who wait for it.
LEMMA RemovesEffect ==
  ASSUME TypeOK, NEW x \in Things, AzureRemoves(x)
  PROVE  /\ x \in removing /\ removing' = removing \ {x}
         /\ UNCHANGED <<runs, recorded, deleted, worker, overlap, unnamed, swapped>>
         /\ cloud' = cloud \/ cloud' = [cloud EXCEPT ![x] = "none"]
         /\ \A d \in Deleters : /\ Keeps(d) /\ deleter'[d].pc = deleter[d].pc
                                /\ deleter'[d].unread = deleter[d].unread
                                /\ Sees(d)' => Sees(d) \/ cloud'[First(d)] = "none"
<1> USE DEF azure, tables, procs, history
<1>1. deleter \in [Deleters -> Deleter] /\ cloud \in [Things -> {"none", "ours", "foreign"}]
      /\ \A d \in Deleters : deleter[d].left \in SUBSET Kinds
  BY DEF TypeOK, Deleter
<1>2. PICK ans \in {"done", "failed"} :
        /\ IF ans = "done" THEN Removable(x) /\ cloud' = [cloud EXCEPT ![x] = "none"] ELSE UNCHANGED cloud
        /\ deleter' = [d \in Deleters |-> IF deleter[d].pc = "await" /\ First(d) = x
                                          THEN [deleter[d] EXCEPT !.ans = ans] ELSE deleter[d]]
  BY DEF AzureRemoves
<1>3. ASSUME NEW d \in Deleters
      PROVE  /\ Keeps(d) /\ deleter'[d].pc = deleter[d].pc /\ deleter'[d].unread = deleter[d].unread
             /\ Sees(d)' => Sees(d) \/ cloud'[First(d)] = "none"
  <2>1. deleter[d] \in Deleter /\ First(d) \in Things
    BY <1>1, ThingTyped DEF First
  <2>2. CASE deleter[d].pc = "await" /\ First(d) = x
    <3>1. deleter'[d] = [deleter[d] EXCEPT !.ans = ans]
      BY <1>2, <2>2
    <3>2. Keeps(d) /\ deleter'[d].pc = deleter[d].pc /\ deleter'[d].unread = deleter[d].unread
          /\ deleter'[d].ans = ans
      BY <2>1, <3>1 DEF Keeps, Deleter
    <3>3. ans = "done" => cloud'[First(d)] = "none"
      BY <1>1, <1>2, <2>1, <2>2
    <3> QED BY <2>2, <3>2, <3>3 DEF Sees
  <2>3. CASE ~(deleter[d].pc = "await" /\ First(d) = x)
    <3>1. deleter'[d] = deleter[d]
      BY <1>2, <2>3
    <3> QED BY <3>1 DEF Keeps, Sees
  <2> QED BY <2>2, <2>3
<1>4. cloud' = cloud \/ cloud' = [cloud EXCEPT ![x] = "none"]
  BY <1>2
<1> QED
  BY <1>3, <1>4 DEF AzureRemoves

\* Every step keeps the resources of the hub on a record or in the hands of a run.
LEMMA NamedStep ==
  ASSUME TypeOK, BuiltInv, NamedInv, [Next]_vars
  PROVE  NamedInv'
<1> USE DEF vars, azure, tables, procs, history
<1>1. /\ DOMAIN runs \subseteq RunIds /\ worker \in [RunIds -> Worker]
      /\ cloud \in [Things -> {"none", "ours", "foreign"}]
      /\ \A p \in DOMAIN runs : runs[p].name \in Names
  BY RunsBounded DEF TypeOK
<1>2. ASSUME UNCHANGED <<runs, recorded, deleted, worker, deleter, overlap, unnamed>>,
             \A x \in Things : cloud'[x] = "ours" => cloud[x] = "ours"
      PROVE  NamedInv'
  <2>1. OverlapSeen'
    BY <1>2, OverlapFrame DEF NamedInv, Active
  <2>2. \A d \in Deleters : First(d) \in Things
    BY ThingTyped DEF First, TypeOK, Deleter
  <2>3. GoneWhenMarked'
    BY <1>2, <2>2, GoneFrame DEF NamedInv
  <2>4. NamedWhileItExists'
    BY <1>2, NamedFrame DEF NamedInv, NamedBy, Building
  <2> QED BY <2>1, <2>3, <2>4 DEF NamedInv
<1>3. ASSUME NEW p \in DOMAIN runs, NEW k \in Kinds, AzureBuilds(p, k) PROVE NamedInv'
  <2>1. \A x \in Things : cloud'[x] = "ours" => cloud[x] = "ours"
    BY <1>1, <1>3 DEF AzureBuilds
  <2> QED BY <1>2, <1>3, <2>1 DEF AzureBuilds
<1>4. ASSUME NEW x \in Things, ByHand(x) PROVE NamedInv'
  <2>1. \A y \in Things : cloud'[y] = "ours" => cloud[y] = "ours"
    BY <1>1, <1>4 DEF ByHand
  <2> QED BY <1>2, <1>4, <2>1 DEF ByHand
<1>5. ASSUME NEW n \in Names, DeleteHost(n) \/ AddHost(n) PROVE NamedInv'
  BY <1>2, <1>5 DEF DeleteHost, AddHost
<1>6. ASSUME NEW x \in Things, AzureRemoves(x) PROVE NamedInv'
  <2>1. /\ UNCHANGED <<runs, recorded, deleted, worker, overlap, unnamed>>
        /\ cloud' = cloud \/ cloud' = [cloud EXCEPT ![x] = "none"]
        /\ \A d \in Deleters : /\ Keeps(d) /\ deleter'[d].pc = deleter[d].pc
                               /\ Sees(d)' => Sees(d) \/ cloud'[First(d)] = "none"
    BY <1>6, RemovesEffect
  <2>2. \A y \in Things : cloud'[y] = "ours" => cloud[y] = "ours"
    BY <1>1, <2>1
  <2>3. OverlapSeen'
    BY <2>1, OverlapFrame DEF NamedInv, Active, Keeps
  <2>4. GoneWhenMarked'
    <3>1. \A d \in Deleters : First(d)' = First(d) /\ First(d) \in Things
      BY <2>1, ThingTyped DEF First, Thing, Keeps, TypeOK, Deleter
    <3>2. ASSUME NEW d \in Deleters, Sees(d)', deleter'[d].name \notin overlap' PROVE cloud'[First(d)'] # "ours"
      <4>1. deleter[d].name \notin overlap
        BY <2>1, <3>2 DEF Keeps
      <4>2. CASE Sees(d) BY <2>2, <3>1, <4>1, <4>2 DEF NamedInv, GoneWhenMarked
      <4>3. CASE cloud'[First(d)] = "none" BY <3>1, <4>3
      <4> QED BY <2>1, <3>2, <4>2, <4>3
    <3> QED BY <3>2 DEF GoneWhenMarked
  <2>5. NamedWhileItExists'
    BY <2>1, <2>2, NamedFrame DEF NamedInv, NamedBy, Building
  <2> QED BY <2>3, <2>4, <2>5 DEF NamedInv
<1>7. ASSUME NEW n \in Names, StartProvision(n) PROVE NamedInv'
  <2>1. PICK q \in RunIds :
          /\ q \notin DOMAIN runs /\ DOMAIN runs' = DOMAIN runs \cup {q}
          /\ \A p \in DOMAIN runs : runs'[p] = runs[p]
          /\ runs'[q] = [name |-> n, status |-> "pending"]
          /\ worker' = [worker EXCEPT ![q].pc = "host"]
    BY <1>7, Started
  <2>2. /\ UNCHANGED <<cloud, recorded, deleted, deleter, unnamed>> /\ overlap \subseteq overlap'
        /\ Deleting(n) => n \in overlap'
    BY <1>7 DEF StartProvision
  <2>3. \A p \in RunIds \ {q} : worker'[p] = worker[p]
    BY <1>1, <2>1
  <2>4. OverlapSeen'
    <3>1. ASSUME NEW d \in Deleters, NEW p \in DOMAIN runs', Active(d)', worker'[p].pc # "none",
                 runs'[p].name = deleter'[d].name
          PROVE  deleter'[d].name \in overlap'
      <4>1. CASE p = q BY <2>1, <2>2, <3>1, <4>1 DEF Deleting, Active
      <4>2. CASE p # q BY <1>1, <2>1, <2>2, <2>3, <3>1, <4>2 DEF NamedInv, OverlapSeen, Active
      <4> QED BY <4>1, <4>2
    <3> QED BY <3>1 DEF OverlapSeen
  <2>5. GoneWhenMarked'
    BY <2>2, GoneFrame DEF NamedInv
  <2>6. NamedWhileItExists'
    <3>1. \A x \in Things, p \in DOMAIN runs : NamedBy(p, x) => NamedBy(p, x)'
      BY <1>1, <2>1, <2>2, <2>3 DEF NamedBy, Building
    <3>2. DOMAIN runs \subseteq DOMAIN runs'
      BY <2>1
    <3> QED BY <2>2, <3>1, <3>2, NamedFrame DEF NamedInv
  <2> QED BY <2>4, <2>5, <2>6 DEF NamedInv
<1>8. CASE Interrupt
  <2>1. Open \in SUBSET DOMAIN runs /\ runs \in Seq(Run)
    BY DEF Open, TypeOK
  <2>2. runs' = [p \in DOMAIN runs |->
                   IF p \in Open THEN [runs[p] EXCEPT !.status = "interrupted"] ELSE runs[p]]
    BY <1>8 DEF Interrupt
  <2>3. DOMAIN runs' = DOMAIN runs /\ \A p \in DOMAIN runs : runs'[p].name = runs[p].name
    BY <2>1, <2>2, InterruptedTyped
  <2>4. UNCHANGED <<cloud, recorded, deleted, worker, deleter, overlap, unnamed>>
    BY <1>8 DEF Interrupt
  <2>5. OverlapSeen'
    BY <2>3, <2>4, OverlapFrame DEF NamedInv, Active
  <2>6. GoneWhenMarked'
    BY <2>4, GoneFrame DEF NamedInv
  <2>7. NamedWhileItExists'
    BY <2>3, <2>4, NamedFrame DEF NamedInv, NamedBy, Building
  <2> QED BY <2>5, <2>6, <2>7 DEF NamedInv
<1>9. CASE Boot
  <2>1. /\ UNCHANGED <<cloud, runs, recorded, deleted, overlap>>
        /\ \A p \in RunIds : worker'[p].pc = "none"
        /\ \A d \in Deleters : deleter'[d].pc = "none"
        /\ unnamed' = unnamed \cup {Target(p) : p \in {q \in DOMAIN runs : Building(q)}}
    BY <1>9 DEF Boot, NoWorker, NoDeleter, Building
  <2>2. OverlapSeen' /\ GoneWhenMarked'
    BY <2>1 DEF OverlapSeen, GoneWhenMarked, Active, Sees
  <2>3. NamedWhileItExists'
    <3>1. ASSUME NEW x \in Things, x \notin unnamed', NEW p \in DOMAIN runs, NamedBy(p, x) PROVE NamedBy(p, x)'
      <4>1. x = <<x[1], x[2]>>
        BY DEF Things
      <4>2. ~(Building(p) /\ worker[p].kind = x[2] /\ runs[p].name = x[1])
        BY <2>1, <3>1, <4>1 DEF Target
      <4> QED BY <2>1, <3>1, <4>2 DEF NamedBy
    <3> QED BY <2>1, <3>1, NamedFrame DEF NamedInv
  <2> QED BY <2>2, <2>3 DEF NamedInv
<1>10. CASE UNCHANGED vars
  BY <1>2, <1>10
<1> QED
  BY <1>3, <1>4, <1>5, <1>6, <1>7, <1>8, <1>9, <1>10, NamedRunStep, NamedDeletionStep DEF Next, Azure, People

\* What carries the tag of the hub is on the record of a run or in the hands of
\* one, for every set of names and every number of runs, deletions and crashes,
\* but for what a run lost sight of and for names created and deleted at once.
THEOREM AlwaysNamed == Spec => []NamedWhileItExists
<1>1. Init => NamedInv
  BY DEF Init, NamedInv, OverlapSeen, GoneWhenMarked, NamedWhileItExists, Active, Sees, NoDeleter
<1>2. TypeOK /\ BuiltInv /\ NamedInv /\ [Next]_vars => NamedInv'
  BY NamedStep
<1>3. NamedInv => NamedWhileItExists
  BY DEF NamedInv
<1> QED
  BY <1>1, <1>2, <1>3, TypeCorrect, BuiltAlways, PTL DEF Spec
-----------------------------------------------------------------------------
(* Only what is the hub's is deleted. *)

Mine(x) == cloud[x] = "foreign" => x \in swapped

\* What a deletion has checked, and has still to delete, is the hub's.
SafeDeleter(d) ==
  deleter[d].pc # "none" =>
    /\ deleter[d].left # {}
    /\ \A k \in deleter[d].left :
         (deleter[d].pc = "check" => k \notin deleter[d].unread) => Mine(<<deleter[d].name, k>>)

SafeInv == (\A d \in Deleters : SafeDeleter(d)) /\ (\A x \in removing : Mine(x))

\* A step that takes no tag, starts no deletion and asks for none.
LEMMA SafeFrame ==
  ASSUME SafeInv, TypeOK, removing' \subseteq removing, \A x \in Things : Mine(x) => Mine(x)',
         \A d \in Deleters : deleter'[d].pc = "none" \/
            (Keeps(d) /\ deleter'[d].pc = deleter[d].pc /\ deleter'[d].unread = deleter[d].unread)
  PROVE  SafeInv'
<1>1. \A x \in removing' : Mine(x)'
  BY DEF SafeInv, TypeOK
<1>2. ASSUME NEW d \in Deleters, deleter'[d].pc # "none" PROVE SafeDeleter(d)'
  <2>1. Keeps(d) /\ deleter'[d].pc = deleter[d].pc /\ deleter'[d].unread = deleter[d].unread
    BY <1>2
  <2>2. SafeDeleter(d) /\ \A k \in deleter[d].left : <<deleter[d].name, k>> \in Things
    BY DEF SafeInv, TypeOK, Deleter, Things
  <2>3. deleter'[d].left = deleter[d].left /\ deleter'[d].name = deleter[d].name
    BY <2>1 DEF Keeps
  <2>4. ASSUME NEW k \in deleter[d].left, deleter[d].pc = "check" => k \notin deleter[d].unread
        PROVE  Mine(<<deleter[d].name, k>>)'
    <3>1. Mine(<<deleter[d].name, k>>) /\ <<deleter[d].name, k>> \in Things
      BY <1>2, <2>1, <2>2, <2>4 DEF SafeDeleter
    <3> QED BY <2>3, <3>1 DEF Mine
  <2> QED BY <1>2, <2>1, <2>2, <2>3, <2>4 DEF SafeDeleter
<1> QED
  BY <1>1, <1>2 DEF SafeInv, SafeDeleter

\* The steps of a deletion.
LEMMA SafeDeletionStep ==
  ASSUME TypeOK, SafeInv, NEW d \in Deleters, Deletion(d)
  PROVE  SafeInv'
<1>1. /\ UNCHANGED <<cloud, swapped>> /\ \A e \in Deleters \ {d} : deleter'[e] = deleter[e]
      /\ Moves(d)
      /\ removing' = removing \/ (deleter[d].pc = "delete" /\ removing' = removing \cup {First(d)})
  BY DeletionEffect
<1>2. SafeDeleter(d) /\ deleter[d].left \in SUBSET Kinds /\ deleter[d].unread \in SUBSET Kinds
  BY DEF SafeInv, TypeOK, Deleter
<1>3. \A x : Mine(x)' <=> Mine(x)
  BY <1>1 DEF Mine
<1>4. deleter[d].pc = "delete" => Mine(First(d))
  <2>1. ASSUME deleter[d].pc = "delete" PROVE First(d)[2] \in deleter[d].left /\ First(d) = <<deleter[d].name, First(d)[2]>>
    BY <1>2, <2>1, ThingTyped DEF First, Thing, SafeDeleter
  <2> QED BY <1>2, <2>1 DEF SafeDeleter
<1>5. \A x \in removing' : Mine(x)'
  BY <1>1, <1>3, <1>4 DEF SafeInv
<1>6. ASSUME NEW e \in Deleters \ {d} PROVE SafeDeleter(e)'
  BY <1>1, <1>3 DEF SafeInv, SafeDeleter, Mine
<1>7. SafeDeleter(d)'
  <2>1. CASE deleter'[d].pc = "none" BY <2>1 DEF SafeDeleter
  <2>2. CASE Checks(d)
    <3> DEFINE x == Thing(d, deleter[d].unread)
    <3>1. Mine(x) /\ x[1] = deleter[d].name /\ x = <<x[1], x[2]>>
      BY <2>2 DEF Checks, Ours, Mine, Thing
    <3>2. /\ deleter[d].pc = "check" /\ deleter'[d].left = deleter[d].left /\ deleter'[d].name = deleter[d].name
          /\ deleter'[d].unread = deleter[d].unread \ {x[2]}
          /\ deleter'[d].pc = IF deleter'[d].unread = {} THEN "delete" ELSE "check"
      BY <2>2 DEF Checks, Keeps
    <3> HIDE DEF x
    <3>3. ASSUME NEW k \in deleter[d].left, k \notin deleter'[d].unread PROVE Mine(<<deleter[d].name, k>>)
      <4>1. CASE k = x[2] BY <3>1, <4>1
      <4>2. CASE k \notin deleter[d].unread BY <1>2, <3>2, <4>2 DEF SafeDeleter
      <4> QED BY <3>2, <3>3, <4>1, <4>2
    <3> QED BY <1>1, <1>2, <3>2, <3>3 DEF SafeDeleter, Mine
  <2>3. CASE Asks(d)
    BY <1>1, <1>2, <2>3 DEF Asks, Keeps, SafeDeleter, Mine
  <2>4. CASE Learns(d)
    BY <1>1, <1>2, <2>4 DEF Learns, Keeps, SafeDeleter, Mine
  <2>5. CASE Advances(d)
    BY <1>1, <1>2, <2>5 DEF Advances, SafeDeleter, Mine
  <2>6. CASE \E p \in DOMAIN runs : StartsOn(d, p)
    BY <2>6 DEF StartsOn, SafeDeleter
  <2> QED BY <1>1, <2>1, <2>2, <2>3, <2>4, <2>5, <2>6 DEF Moves
<1> QED
  BY <1>5, <1>6, <1>7 DEF SafeInv

\* Every step keeps the targets of the deletions the hub's; only people change what is not.
LEMMA SafeStep ==
  ASSUME TypeOK, SafeInv, [Next]_vars
  PROVE  SafeInv' /\ \A x \in Things : cloud[x] = "foreign" /\ cloud'[x] = "none" => x \in swapped \/ changes' # changes
<1> USE DEF vars, azure, tables, procs, history
<1> DEFINE Kept == \A x \in Things : cloud[x] = "foreign" /\ cloud'[x] = "none" => x \in swapped \/ changes' # changes
<1>1. cloud \in [Things -> {"none", "ours", "foreign"}] /\ removing \subseteq Things
  BY DEF TypeOK
<1>2. ASSUME UNCHANGED <<deleter, removing, swapped>>, \A x \in Things : cloud'[x] # cloud[x] => cloud'[x] # "foreign"
      PROVE  SafeInv'
  <2>1. \A x \in Things : Mine(x) => Mine(x)'
    BY <1>2 DEF Mine
  <2> QED BY <1>2, <2>1, SafeFrame DEF Keeps
<1>3. ASSUME NEW p \in DOMAIN runs, RunStep(p) PROVE SafeInv' /\ Kept
  <2>1. UNCHANGED <<deleter, removing, swapped>>
    BY <1>3, RunStepEffect
  <2>2. cloud' = cloud \/ cloud' = [cloud EXCEPT ![Target(p)] = "ours"]
    BY <1>3 DEF RunStep, CreateHost, MarkRunning, ReadVNet, Put, Taken, AwaitPut, Record, Finish
  <2>3. \A x \in Things : cloud'[x] = cloud[x] \/ cloud'[x] = "ours"
    BY <1>1, <2>2
  <2> QED BY <1>2, <2>1, <2>3
<1>4. ASSUME NEW d \in Deleters, Deletion(d) PROVE SafeInv' /\ Kept
  <2>1. cloud' = cloud
    BY <1>4, DeletionEffect
  <2> QED BY <1>4, <2>1, SafeDeletionStep
<1>5. ASSUME NEW p \in DOMAIN runs, NEW k \in Kinds, AzureBuilds(p, k) PROVE SafeInv' /\ Kept
  <2>1. \A x \in Things : cloud'[x] = cloud[x] \/ (cloud'[x] = "none" /\ cloud[x] = "ours")
    BY <1>1, <1>5 DEF AzureBuilds
  <2> QED BY <1>2, <1>5, <2>1 DEF AzureBuilds
<1>6. ASSUME NEW x \in Things, AzureRemoves(x) PROVE SafeInv' /\ Kept
  <2>1. /\ x \in removing /\ removing' = removing \ {x} /\ UNCHANGED swapped
        /\ cloud' = cloud \/ cloud' = [cloud EXCEPT ![x] = "none"]
        /\ \A d \in Deleters : Keeps(d) /\ deleter'[d].pc = deleter[d].pc /\ deleter'[d].unread = deleter[d].unread
    BY <1>6, RemovesEffect
  <2>2. Mine(x)
    BY <2>1 DEF SafeInv
  <2>3. Kept
    BY <1>1, <2>1, <2>2 DEF Mine
  <2>4. \A y \in Things : Mine(y) => Mine(y)'
    BY <1>1, <2>1 DEF Mine
  <2> QED BY <2>1, <2>3, <2>4, SafeFrame
<1>7. ASSUME NEW n \in Names, StartProvision(n) \/ DeleteHost(n) \/ AddHost(n) PROVE SafeInv' /\ Kept
  BY <1>2, <1>7 DEF StartProvision, DeleteHost, AddHost
<1>8. ASSUME NEW x \in Things, ByHand(x) PROVE SafeInv' /\ Kept
  <2>1. changes \in Nat /\ changes' = changes + 1 /\ x \notin removing /\ UNCHANGED <<deleter, removing>>
    BY <1>8, ProvisionAssumption DEF ByHand, Change, TypeOK
  <2>2. Kept
    BY <2>1
  <2>3. swapped' = (IF Deleting(x[1]) THEN swapped \cup {x} ELSE swapped) /\ \A y \in Things \ {x} : cloud'[y] = cloud[y]
    BY <1>1, <1>8 DEF ByHand
  <2>4. \A y \in Things \ {x} : Mine(y) => Mine(y)'
    BY <2>3 DEF Mine
  <2>5. \A y \in removing' : Mine(y)'
    BY <1>1, <2>1, <2>4 DEF SafeInv
  <2>6. ASSUME NEW d \in Deleters PROVE SafeDeleter(d)'
    <3>1. SafeDeleter(d) /\ \A k \in deleter[d].left : <<deleter[d].name, k>> \in Things
      BY DEF SafeInv, TypeOK, Deleter, Things
    <3>2. ASSUME deleter[d].pc # "none", NEW k \in deleter[d].left, Mine(<<deleter[d].name, k>>)
          PROVE  Mine(<<deleter[d].name, k>>)'
      <4>1. CASE x = <<deleter[d].name, k>>
        BY <2>1, <2>3, <3>2, <4>1 DEF Mine, Deleting
      <4>2. CASE x # <<deleter[d].name, k>>
        BY <2>1, <2>4, <3>1, <3>2, <4>2 DEF Mine
      <4> QED BY <4>1, <4>2
    <3> QED BY <2>1, <3>1, <3>2 DEF SafeDeleter, Mine
  <2> QED BY <2>2, <2>5, <2>6 DEF SafeInv
<1>9. CASE Interrupt
  BY <1>2, <1>9 DEF Interrupt
<1>10. CASE Boot
  <2>1. UNCHANGED <<cloud, removing, swapped>> /\ \A d \in Deleters : deleter'[d].pc = "none"
    BY <1>10 DEF Boot, NoDeleter
  <2> QED BY <2>1, SafeFrame DEF Mine
<1>11. CASE UNCHANGED vars
  BY <1>2, <1>11
<1> QED
  BY <1>3, <1>4, <1>5, <1>6, <1>7, <1>8, <1>9, <1>10, <1>11 DEF Next, Azure, People

\* The hub destroys nothing that does not carry its tag, but for what people
\* replaced while the deletion of that name ran, for every number of runs and
\* deletions, and through every retry, crash and overlap.
THEOREM DeletesItsOwn == Spec => DeletesOnlyOurs
<1>1. Init => SafeInv
  BY DEF Init, SafeInv, SafeDeleter, NoDeleter
<1>2. TypeOK /\ SafeInv /\ [Next]_vars => SafeInv'
  BY SafeStep
<1>3. TypeOK /\ SafeInv /\ [Next]_vars =>
        [\A x \in Things : cloud[x] = "foreign" /\ cloud'[x] = "none" => x \in swapped \/ changes' # changes]_vars
  BY SafeStep
<1> QED
  BY <1>1, <1>2, <1>3, TypeCorrect, PTL DEF Spec, DeletesOnlyOurs
=============================================================================

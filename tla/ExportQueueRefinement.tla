------------------------- MODULE ExportQueueRefinement -------------------------
(***************************************************************************)
(* ExportQueue implements ExportLease: the lock file of a job is its       *)
(* lease.  Each step of the queue is one step of the lease or none.        *)
(***************************************************************************)
EXTENDS ExportQueueProofs

\* What the lease contract sees of the rows.
StatusBar == [i \in Job |-> row[i].status]
ResultBar == [i \in Job |-> row[i].result]

\* One row is replaced.
LEMMA BarAt ==
  ASSUME row \in [Job -> Row], NEW j \in Job, NEW r \in Row,
         row' = [row EXCEPT ![j] = r]
  PROVE  /\ StatusBar' = [StatusBar EXCEPT ![j] = r.status]
         /\ ResultBar' = [ResultBar EXCEPT ![j] = r.result]
BY DEF StatusBar, ResultBar

\* A replaced row that keeps its result is a move of the lease.
LEMMA MoveMaps ==
  ASSUME row \in [Job -> Row], NEW j \in Job, NEW r \in Row,
         row' = [row EXCEPT ![j] = r], r.result = row[j].result,
         NEW from, row[j].status \in from
  PROVE  Lease!Move(j, from, r.status) /\ ResultBar' = ResultBar
<1>1. ResultBar' = [ResultBar EXCEPT ![j] = r.result]
  BY BarAt
<1>2. ResultBar' = ResultBar
  BY <1>1 DEF ResultBar
<1>3. /\ StatusBar' = [StatusBar EXCEPT ![j] = r.status]
      /\ StatusBar[j] = row[j].status
  BY BarAt DEF StatusBar
<1> QED
  BY <1>2, <1>3 DEF Lease!Move, StatusBar

\* So is a change of its status.
LEMMA StatusMaps ==
  ASSUME row \in [Job -> Row], NEW j \in Job, NEW s \in Status, SetStatus(j, s),
         NEW from, row[j].status \in from
  PROVE  Lease!Move(j, from, s) /\ ResultBar' = ResultBar
<1> DEFINE r == [row[j] EXCEPT !.status = s]
<1>1. r \in Row /\ r.status = s /\ r.result = row[j].result
  BY DEF Row
<1>2. row' = [row EXCEPT ![j] = r]
  BY DEF SetStatus
<1> QED
  BY <1>1, <1>2, MoveMaps

\* Rows that say the same and equal claims are a stuttering step.
LEMMA StutterMaps ==
  ASSUME claim' = claim,
         \A i \in Job : /\ row'[i].status = row[i].status
                        /\ row'[i].result = row[i].result
  PROVE  UNCHANGED Lease!vars
BY DEF Lease!vars

\* A creation is one; the row that did not exist had no result.
LEMMA CreateMaps ==
  ASSUME row \in [Job -> Row], KeyInv, NEW p \in Proc, NEW j \in Job,
         NEW k \in Key \cup {None}, Enqueue(p, k, j)
  PROVE  Lease!Create(j)
<1>1. NewRow(k) \in Row /\ NewRow(k).status = "queued" /\ NewRow(k).result = None
  BY DEF NewRow, Absent, Row, Status, Open
<1>2. row[j].status = "absent" /\ row[j].result = None
  BY DEF Enqueue, KeyInv
<1>3. Lease!Move(j, {"absent"}, "queued") /\ ResultBar' = ResultBar
  BY <1>1, <1>2, MoveMaps DEF Enqueue
<1> QED
  BY <1>3 DEF Lease!Create, ResultBar, Enqueue

\* Giving a claim back with the rows as they are yields the lease.
LEMMA YieldMaps ==
  ASSUME row' = row, NEW p \in Proc, NEW j \in Job, claim[j] = p, Release(p, j)
  PROVE  Lease!Yield(j, p)
BY DEF Lease!Yield, Lease!Owned, Release

\* Every step of the queue is a step of the lease, or leaves it alone.
LEMMA LeaseStep ==
  ASSUME IInv, KeyInv, [Next]_vars
  PROVE  [Lease!Next]_(Lease!vars)
<1> DEFINE Mapped == [Lease!Next]_(Lease!vars)
<1>a. row \in [Job -> Row] /\ claim \in [Job -> Proc \cup {None}]
  BY DEF IInv, TypeOK
<1>b. ASSUME row' = row, claim' = claim PROVE Mapped
  BY <1>b, StutterMaps
<1>c. ASSUME NEW p \in Proc, NEW j \in Job, phase[p][j] # "idle" PROVE claim[j] = p
  BY <1>c DEF IInv, ClaimHeld
<1>d. ASSUME NEW p \in Proc, NEW j \in Job, phase[p][j] # "idle", row' = row,
             Release(p, j)
      PROVE  Mapped
  BY <1>d, <1>c, YieldMaps DEF Lease!Next
<1>1. ASSUME NEW p \in Proc, NEW j \in Job, Request(p, j) PROVE Mapped
  <2>1. ASSUME NEW k \in Key \cup {None}, Enqueue(p, k, j) PROVE Mapped
    BY <2>1, <1>a, CreateMaps DEF Lease!Next
  <2>2. ASSUME NEW k \in Key, CreateExisting(p, k, j) PROVE Mapped
    BY <2>2, <1>b DEF CreateExisting, durable
  <2>3. ASSUME CancelSignal(p, j) PROVE Mapped
    <3>1. row' = row
      BY <2>3 DEF CancelSignal, durable
    <3>2. CASE row[j].status = "queued" /\ phase[p][j] = "registered"
      BY <2>3, <3>1, <3>2, <1>d DEF CancelSignal
    <3> QED
      BY <2>3, <3>1, <3>2, <1>b DEF CancelSignal
  <2> QED
    BY <1>1, <2>1, <2>2, <2>3 DEF Request, CreateNew, Retry
<1>2. ASSUME NEW p \in Proc, NEW j \in Job, CancelCommit(p, j) PROVE Mapped
  <2>1. row[j].status \in Lease!Open /\ "cancelled" \in Status
    BY <1>2 DEF CancelCommit, IInv, CancelOpen, Open, Lease!Open, Status, Terminal
  <2>2. Lease!Move(j, Lease!Open, "cancelled") /\ ResultBar' = ResultBar
    BY <1>2, <1>a, <2>1, StatusMaps DEF CancelCommit
  <2>3. Lease!Cancel(j)
    BY <1>2, <2>2 DEF Lease!Cancel, CancelCommit, ResultBar
  <2> QED
    BY <2>3 DEF Lease!Next
<1>3. ASSUME NEW p \in Proc, NEW j \in Job, Submission(p, j) PROVE Mapped
  <2>1. ASSUME NEW m \in Mode, TryClaim(p, j, m) PROVE Mapped
    <3>1. Lease!Acquire(j, p)
      BY <2>1 DEF TryClaim, Obtainable, Lease!Acquire, durable
    <3> QED
      BY <3>1 DEF Lease!Next
  <2>2. ASSUME NEW m \in Mode, ClaimContended(p, j, m) PROVE Mapped
    BY <2>2, <1>b DEF ClaimContended, durable
  <2>3. CASE PrepareRecovery(p, j)
    <3>1. CASE row[j].status \in Open
      <4>1. /\ Recovered(row[j]) \in Row
            /\ Recovered(row[j]).status = "queued"
            /\ Recovered(row[j]).result = row[j].result
        BY <1>a, RecoveredTyped DEF Recovered, Row
      <4>2. row' = [row EXCEPT ![j] = Recovered(row[j])] /\ claim' = claim
        BY <2>3, <3>1 DEF PrepareRecovery
      <4>3. row[j].status \in Lease!Open
        BY <3>1 DEF Open, Lease!Open
      <4>4. Lease!Move(j, Lease!Open, "queued") /\ ResultBar' = ResultBar
        BY <4>1, <4>2, <4>3, <1>a, MoveMaps
      <4>5. claim[j] = p
        BY <2>3, <1>c DEF PrepareRecovery
      <4>6. Lease!Requeue(j, p)
        BY <4>2, <4>4, <4>5 DEF Lease!Requeue, Lease!Owned, ResultBar
      <4> QED
        BY <4>6 DEF Lease!Next
    <3> QED
      BY <2>3, <3>1, <1>d DEF PrepareRecovery
  <2>4. CASE Recheck(p, j)
    BY <2>4, <1>b, <1>d DEF Recheck, durable
  <2>5. CASE PoolSubmit(p, j)
    BY <2>5, <1>b DEF PoolSubmit, durable
  <2>6. CASE PoolClosedRetry(p, j)
    BY <2>6, <1>d DEF PoolClosedRetry, durable
  <2>7. CASE PoolClosedNew(p, j)
    <3>1. CASE row[j].status = "queued"
      <4>1. row[j].status \in Lease!Open /\ "failed" \in Status
        BY <3>1 DEF Lease!Open, Status, Terminal
      <4>2. Lease!Move(j, Lease!Open, "failed") /\ ResultBar' = ResultBar
        BY <2>7, <3>1, <4>1, <1>a, StatusMaps DEF PoolClosedNew
      <4>3. claim[j] = p
        BY <2>7, <1>c DEF PoolClosedNew
      <4>4. Lease!Fail(j, p)
        BY <2>7, <4>2, <4>3 DEF Lease!Fail, Lease!Owned, PoolClosedNew, Release, ResultBar
      <4> QED
        BY <4>4 DEF Lease!Next
    <3> QED
      BY <2>7, <3>1, <1>d DEF PoolClosedNew
  <2> QED
    BY <1>3, <2>1, <2>2, <2>3, <2>4, <2>5, <2>6, <2>7 DEF Submission
<1>4. ASSUME NEW p \in Proc, NEW j \in Job, Worker(p, j) PROVE Mapped
  <2>1. CASE StartRun(p, j)
    <3>1. CASE row[j].status = "queued" /\ j \notin signal[p]
      <4>1. SetStatus(j, "running") /\ claim' = claim /\ claim[j] = p
        BY <2>1, <3>1, <1>c DEF StartRun
      <4>2. "running" \in Status
        BY DEF Status, Open
      <4>3. Lease!Move(j, {"queued"}, "running") /\ ResultBar' = ResultBar
        BY <3>1, <4>1, <4>2, <1>a, StatusMaps
      <4>4. Lease!Begin(j, p)
        BY <4>1, <4>3 DEF Lease!Begin, Lease!Owned, ResultBar
      <4> QED
        BY <4>4 DEF Lease!Next
    <3> QED
      BY <2>1, <3>1, <1>b DEF StartRun
  <2>2. CASE Finish(p, j)
    <3> DEFINE r == Outcome(p, j)
    <3>1. /\ row' = [row EXCEPT ![j] = r] /\ claim' = claim
          /\ phase[p][j] \in Ending
      BY <2>2 DEF Finish
    <3>2. row[j] \in Row /\ r \in Row /\ claim[j] = p
      BY <3>1, <1>a, <1>c, OutcomeTyped DEF Ending
    <3>3. row[j].status \in {"running", "cancelled"}
      BY <3>1 DEF IInv, WorkerRow
    <3>4. CASE CancelSeen(p, j) \/ phase[p][j] = "cancelling"
      <4>1. r.status = "cancelled" /\ r.result = row[j].result
        BY <3>2, <3>4 DEF Outcome, Row
      <4>2. CASE row[j].status = "cancelled"
        <5>1. \A i \in Job : /\ row'[i].status = row[i].status
                             /\ row'[i].result = row[i].result
          BY <3>1, <4>1, <4>2, <1>a
        <5> QED
          BY <3>1, <5>1, StutterMaps
      <4>3. CASE row[j].status = "running"
        <5>1. row[j].status \in Lease!Open
          BY <4>3 DEF Lease!Open
        <5>2. Lease!Move(j, Lease!Open, "cancelled") /\ ResultBar' = ResultBar
          BY <3>1, <3>2, <4>1, <5>1, <1>a, MoveMaps
        <5>3. Lease!Cancel(j)
          BY <3>1, <5>2 DEF Lease!Cancel, ResultBar
        <5> QED
          BY <5>3 DEF Lease!Next
      <4> QED
        BY <3>3, <4>2, <4>3
    <3>5. CASE ~CancelSeen(p, j) /\ phase[p][j] = "failing"
      <4>1. r.status = "failed" /\ r.result = row[j].result
        BY <3>2, <3>5 DEF Outcome, Row
      <4>2. row[j].status \in Lease!Open
        BY <3>3, <3>5 DEF Lease!Open, CancelSeen
      <4>3. Lease!Move(j, Lease!Open, "failed") /\ ResultBar' = ResultBar
        BY <3>1, <3>2, <4>1, <4>2, <1>a, MoveMaps
      <4>4. Lease!Fail(j, p)
        BY <3>1, <3>2, <4>3 DEF Lease!Fail, Lease!Owned, ResultBar
      <4> QED
        BY <4>4 DEF Lease!Next
    <3>6. CASE ~CancelSeen(p, j) /\ phase[p][j] = "succeeding"
      <4>1. r = Succeeded(p, j)
        BY <3>6 DEF Outcome
      <4>2. /\ r.status = "succeeded"
            /\ r.result \in {p} \X Nat
        BY <3>2, <4>1 DEF Succeeded, Row
      <4>3. row[j].status \in {"running"}
        BY <3>3, <3>6 DEF CancelSeen
      <4>4. /\ StatusBar' = [StatusBar EXCEPT ![j] = "succeeded"]
            /\ ResultBar' = [ResultBar EXCEPT ![j] = r.result]
        <5> HIDE DEF r
        <5>1. /\ StatusBar' = [StatusBar EXCEPT ![j] = r.status]
              /\ ResultBar' = [ResultBar EXCEPT ![j] = r.result]
          BY <3>1, <3>2, <1>a, BarAt
        <5> QED
          BY <4>2, <5>1
      <4>5. Lease!Move(j, {"running"}, "succeeded")
        BY <4>3, <4>4 DEF Lease!Move, StatusBar
      <4>6. row'[j].result = r.result
        BY <3>1, <1>a
      <4>7. Lease!Succeed(j, p)
        BY <3>1, <3>2, <4>2, <4>4, <4>5, <4>6 DEF Lease!Succeed, Lease!Owned, ResultBar
      <4> QED
        BY <4>7 DEF Lease!Next
    <3> QED
      BY <3>1, <3>4, <3>5, <3>6 DEF Ending
  <2>3. CASE Leave(p, j)
    BY <2>3, <1>d DEF Leave, durable
  <2> QED
    BY <1>4, <1>b, <2>1, <2>2, <2>3 DEF Worker, RegisterFuture, Pick, Render, CheckRendered, BeginArtifact, EndArtifact, SkipArtifact, CheckPersisted, Step, durable
<1>5. ASSUME NEW p \in Proc, NEW j \in Job, Failure(p, j) PROVE Mapped
  <2>1. CASE PoolClosedFault(p, j)
    BY <2>1, <1>d DEF PoolClosedFault, durable
  <2>2. CASE StartFault(p, j)
    BY <2>2, <1>b, <1>d DEF StartFault, durable
  <2> QED
    BY <1>5, <1>b, <2>1, <2>2 DEF Failure, CancelFault, ClaimUnavailable, WorkerFault, Step, durable
<1>6. ASSUME NEW j \in Job, AgeOut(j) PROVE Mapped
  <2>1. claim' = claim
    BY <1>6 DEF AgeOut
  <2>2. \A i \in Job : /\ row'[i].status = row[i].status
                       /\ row'[i].result = row[i].result
    BY <1>6, <1>a DEF AgeOut, Row
  <2> QED
    BY <2>1, <2>2, StutterMaps
<1>7. ASSUME NEW p \in Proc, Crash(p) PROVE Mapped
  <2>1. Lease!Lose(p)
    BY <1>7 DEF Crash, Lease!Lose, durable
  <2> QED
    BY <2>1 DEF Lease!Next
<1>8. ASSUME NEW p \in Proc, Process(p) \/ ClosePool(p) PROVE Mapped
  BY <1>8, <1>b DEF Process, Start, StartDone, Exit, ClosePool, durable
<1>9. CASE UNCHANGED vars
  BY <1>9, <1>b DEF vars
<1> QED
  BY <1>1, <1>2, <1>3, <1>4, <1>5, <1>6, <1>7, <1>8, <1>9 DEF Next

\* A job is run, recovered, completed or failed only under its lock file, its
\* result comes with its success, and nothing else happens to it: the queue,
\* with its pools, crashes and failing writes, implements the lease.
THEOREM Implementation == Spec => LeaseContract
<1>1. Init => Lease!Init
  BY DEF Init, Absent, Lease!Init
<1>2. IInv /\ KeyInv /\ [Next]_vars => [Lease!Next]_(Lease!vars)
  BY LeaseStep
<1> QED
  BY <1>1, <1>2, Invariance, KeyInvariance, PTL DEF Spec, LeaseContract, Lease!Spec
=============================================================================

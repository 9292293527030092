-------------------------- MODULE ExportQueueProofs --------------------------
(***************************************************************************)
(* Proofs about ExportQueue for any number of processes, jobs and keys.    *)
(***************************************************************************)
EXTENDS ExportQueueProps, TLAPS

\* Moving the holder of a claim to a phase keeps the phases typed.
LEMMA GotoTyped ==
  ASSUME phase \in [Proc -> [Job -> Phase]],
         NEW p \in Proc, NEW j \in Job, NEW ph \in Phase, Goto(p, j, ph)
  PROVE  phase' \in [Proc -> [Job -> Phase]]
BY DEF Goto

\* Giving a claim back keeps claims and phases typed.
LEMMA ReleaseTyped ==
  ASSUME phase \in [Proc -> [Job -> Phase]], claim \in [Job -> Proc \cup {None}],
         NEW p \in Proc, NEW j \in Job, Release(p, j)
  PROVE  /\ phase' \in [Proc -> [Job -> Phase]]
         /\ claim' \in [Job -> Proc \cup {None}]
<1>1. "idle" \in Phase
  BY DEF Phase
<1>2. Goto(p, j, "idle")
  BY DEF Release
<1>3. phase' \in [Proc -> [Job -> Phase]]
  BY <1>1, <1>2, GotoTyped
<1>4. claim' \in [Job -> Proc \cup {None}]
  BY DEF Release
<1> QED
  BY <1>3, <1>4

\* Replacing one row by a typed row keeps the document typed.
LEMMA RowTyped ==
  ASSUME row \in [Job -> Row], NEW j \in Job, NEW r \in Row,
         row' = [row EXCEPT ![j] = r]
  PROVE  row' \in [Job -> Row]
OBVIOUS

\* Changing the status of a typed row gives a typed row.
LEMMA StatusTyped ==
  ASSUME NEW r \in Row, NEW s \in Status
  PROVE  [r EXCEPT !.status = s] \in Row
BY DEF Row

\* Recovery and the last mutation of a worker write typed rows.
LEMMA RecoveredTyped ==
  ASSUME NEW r \in Row
  PROVE  Recovered(r) \in Row
<1>1. "queued" \in Status
  BY DEF Status, Open
<1>2. r.recoveries + 1 \in Nat
  BY DEF Row
<1>3. Recovered(r) = [r EXCEPT !.status = "queued", !.recoveries = r.recoveries + 1]
  BY DEF Recovered, Row
<1> QED
  BY <1>1, <1>2, <1>3 DEF Row

\* The last mutation of a worker writes a typed row.
LEMMA OutcomeTyped ==
  ASSUME NEW p \in Proc, NEW j \in Job, row[j] \in Row
  PROVE  Outcome(p, j) \in Row
<1>1. /\ [row[j] EXCEPT !.status = "cancelled"] \in Row
      /\ [row[j] EXCEPT !.status = "failed"] \in Row
  BY StatusTyped DEF Status, Terminal
<1>2. Succeeded(p, j) \in Row
  <2>1. "succeeded" \in Status
    BY DEF Status, Terminal
  <2>2. <<p, row[j].recoveries>> \in Content
    BY DEF Row, Content
  <2>3. ASSUME NEW r \in Row, NEW s \in Status, NEW c \in Content, NEW b \in BOOLEAN
        PROVE  [r EXCEPT !.status = s, !.result = c, !.receipt = b] \in Row
    BY DEF Row
  <2>4. (j \in built[p]) \in BOOLEAN
    OBVIOUS
  <2> QED
    BY <2>1, <2>2, <2>3, <2>4 DEF Succeeded
<1> QED
  BY <1>1, <1>2 DEF Outcome

\* A new request keeps rows and pending submissions typed.
LEMMA EnqueueTyped ==
  ASSUME TypeOK, NEW p \in Proc, NEW k \in Key \cup {None}, NEW j \in Job,
         Enqueue(p, k, j)
  PROVE  TypeOK'
<1>1. NewRow(k) \in Row
  BY DEF NewRow, Absent, Row, Status, Open
<1>2. row' \in [Job -> Row]
  BY <1>1, RowTyped DEF Enqueue, TypeOK
<1>3. pending' \in [Proc -> SUBSET (Job \X Mode)]
  BY DEF Enqueue, TypeOK, Mode
<1> QED
  BY <1>2, <1>3 DEF Enqueue, TypeOK

\* Every action keeps the types.
LEMMA TypeStep == TypeOK /\ [Next]_vars => TypeOK'
<1> SUFFICES ASSUME TypeOK, [Next]_vars PROVE TypeOK'
  OBVIOUS
<1> DEFINE WithStatus(j, s) == [row[j] EXCEPT !.status = s]
<1>0. \A j \in Job : /\ row[j] \in Row
                     /\ Recovered(row[j]) \in Row
                     /\ \A s \in Status : WithStatus(j, s) \in Row
                     /\ [row[j] EXCEPT !.fresh = FALSE] \in Row
                     /\ \A p \in Proc : /\ Outcome(p, j) \in Row
                                        /\ <<p, row[j].recoveries>> \in Content
  <2> SUFFICES ASSUME NEW j \in Job, row[j] \in Row
               PROVE  /\ [row[j] EXCEPT !.fresh = FALSE] \in Row
                      /\ row[j].recoveries \in Nat
    BY RecoveredTyped, StatusTyped, OutcomeTyped DEF TypeOK, Content
  <2> QED
    BY DEF Row
<1> USE DEF TypeOK, durable, local, Status, Open, Terminal, Life, Phase, Holding, Submitting, Pooled, Executing, Rendering, Ending
<1>1. ASSUME NEW p \in Proc, NEW j \in Job, NEW k \in Key \cup {None}, CreateNew(p, k, j) PROVE TypeOK'
  BY <1>1, EnqueueTyped DEF CreateNew
<1>2. ASSUME NEW p \in Proc, NEW j \in Job, NEW k \in Key, CreateExisting(p, k, j) PROVE TypeOK'
  BY <1>2 DEF CreateExisting, Mode
<1>3. ASSUME NEW p \in Proc, NEW j \in Job, NEW src \in Job, Retry(p, src, j) PROVE TypeOK'
  BY <1>3, EnqueueTyped DEF Retry
<1>4. ASSUME NEW p \in Proc, NEW j \in Job, CancelSignal(p, j) PROVE TypeOK'
  BY <1>4, ReleaseTyped DEF CancelSignal
<1>5. ASSUME NEW p \in Proc, NEW j \in Job, CancelCommit(p, j) PROVE TypeOK'
  <2>1. [row[j] EXCEPT !.status = "cancelled"] \in Row
    BY <1>0
  <2>2. row' \in [Job -> Row]
    BY <1>5, <2>1 DEF CancelCommit, SetStatus
  <2> QED
    BY <1>5, <2>2 DEF CancelCommit
<1>6. ASSUME NEW p \in Proc, NEW j \in Job, NEW m \in Mode, TryClaim(p, j, m) PROVE TypeOK'
  BY <1>6 DEF TryClaim, Goto, Drop, AfterClaim, Mode
<1>7. ASSUME NEW p \in Proc, NEW j \in Job, NEW m \in Mode, ClaimContended(p, j, m) PROVE TypeOK'
  BY <1>7 DEF ClaimContended, Drop
<1>8. ASSUME NEW p \in Proc, NEW j \in Job, PrepareRecovery(p, j) PROVE TypeOK'
  <2>1. Recovered(row[j]) \in Row
    BY <1>0
  <2>2. row' \in [Job -> Row]
    BY <1>8, <2>1, RowTyped DEF PrepareRecovery
  <2>3. /\ phase' \in [Proc -> [Job -> Phase]]
        /\ claim' \in [Job -> Proc \cup {None}]
    BY <1>8, ReleaseTyped, GotoTyped DEF PrepareRecovery
  <2> QED
    BY <1>8, <2>2, <2>3 DEF PrepareRecovery
<1>9. ASSUME NEW p \in Proc, NEW j \in Job, Recheck(p, j) PROVE TypeOK'
  BY <1>9, ReleaseTyped, GotoTyped DEF Recheck
<1>10. ASSUME NEW p \in Proc, NEW j \in Job, PoolSubmit(p, j) PROVE TypeOK'
  BY <1>10 DEF PoolSubmit, Goto
<1>11. ASSUME NEW p \in Proc, NEW j \in Job, PoolClosedRetry(p, j) PROVE TypeOK'
  BY <1>11 DEF PoolClosedRetry, Release, Goto
<1>12. ASSUME NEW p \in Proc, NEW j \in Job, PoolClosedNew(p, j) PROVE TypeOK'
  <2>1. [row[j] EXCEPT !.status = "failed"] \in Row
    BY <1>0
  <2>2. row' \in [Job -> Row]
    BY <1>12, <2>1 DEF PoolClosedNew, SetStatus
  <2> QED
    BY <1>12, <2>2, ReleaseTyped DEF PoolClosedNew
<1>13. ASSUME NEW p \in Proc, NEW j \in Job, RegisterFuture(p, j) PROVE TypeOK'
  BY <1>13 DEF RegisterFuture, Goto
<1>14. ASSUME NEW p \in Proc, NEW j \in Job, Pick(p, j) PROVE TypeOK'
  BY <1>14 DEF Pick, Goto
<1>15. ASSUME NEW p \in Proc, NEW j \in Job, StartRun(p, j) PROVE TypeOK'
  <2>1. [row[j] EXCEPT !.status = "running"] \in Row
    BY <1>0
  <2>2. row' \in [Job -> Row]
    BY <1>15, <2>1 DEF StartRun, SetStatus
  <2> QED
    BY <1>15, <2>2, GotoTyped DEF StartRun
<1>16. ASSUME NEW p \in Proc, NEW j \in Job, NEW o \in Phase, Render(p, j, o) PROVE TypeOK'
  BY <1>16 DEF Render, Step, Goto
<1>17. ASSUME NEW p \in Proc, NEW j \in Job, CheckRendered(p, j) PROVE TypeOK'
  BY <1>17 DEF CheckRendered, Step, Goto
<1>18. ASSUME NEW p \in Proc, NEW j \in Job, BeginArtifact(p, j) PROVE TypeOK'
  BY <1>18 DEF BeginArtifact, Step, Goto
<1>19. ASSUME NEW p \in Proc, NEW j \in Job, EndArtifact(p, j) PROVE TypeOK'
  BY <1>0, <1>19 DEF EndArtifact, Step, Goto
<1>20. ASSUME NEW p \in Proc, NEW j \in Job, SkipArtifact(p, j) PROVE TypeOK'
  BY <1>20 DEF SkipArtifact, Step, Goto
<1>21. ASSUME NEW p \in Proc, NEW j \in Job, CheckPersisted(p, j) PROVE TypeOK'
  BY <1>21 DEF CheckPersisted, Step, Goto
<1>22. ASSUME NEW p \in Proc, NEW j \in Job, Finish(p, j) PROVE TypeOK'
  <2>1. Outcome(p, j) \in Row
    BY <1>0
  <2>2. row' \in [Job -> Row]
    BY <1>22, <2>1, RowTyped DEF Finish
  <2> QED
    BY <1>22, <2>2, GotoTyped DEF Finish
<1>23. ASSUME NEW p \in Proc, NEW j \in Job, Leave(p, j) PROVE TypeOK'
  BY <1>23 DEF Leave, Release, Goto
<1>24. ASSUME NEW p \in Proc, NEW j \in Job, CancelFault(p, j) PROVE TypeOK'
  BY <1>24 DEF CancelFault, Fails
<1>25. ASSUME NEW p \in Proc, NEW j \in Job, NEW m \in Mode, ClaimUnavailable(p, j, m) PROVE TypeOK'
  BY <1>25 DEF ClaimUnavailable, Drop, Fails
<1>26. ASSUME NEW p \in Proc, NEW j \in Job, PoolClosedFault(p, j) PROVE TypeOK'
  BY <1>26 DEF PoolClosedFault, Release, Goto, Fails
<1>27. ASSUME NEW p \in Proc, NEW j \in Job, WorkerFault(p, j) PROVE TypeOK'
  BY <1>27, GotoTyped DEF WorkerFault, Step, Fails
<1>28. ASSUME NEW p \in Proc, NEW j \in Job, StartFault(p, j) PROVE TypeOK'
  BY <1>28, ReleaseTyped DEF StartFault, Fails
<1>29. ASSUME NEW j \in Job, AgeOut(j) PROVE TypeOK'
  <2>1. row' \in [Job -> Row]
    BY <1>0, <1>29 DEF AgeOut
  <2> QED
    BY <1>29, <2>1 DEF AgeOut
<1>30. ASSUME NEW p \in Proc, Start(p) PROVE TypeOK'
  BY <1>30 DEF Start, Candidates, Mode
<1>31. ASSUME NEW p \in Proc, StartDone(p) PROVE TypeOK'
  BY <1>31 DEF StartDone
<1>32. ASSUME NEW p \in Proc, Exit(p) PROVE TypeOK'
  BY <1>32 DEF Exit
<1>33. ASSUME NEW p \in Proc, ClosePool(p) PROVE TypeOK'
  BY <1>33 DEF ClosePool
<1>34. ASSUME NEW p \in Proc, Crash(p) PROVE TypeOK'
  BY <1>34 DEF Crash, Fails
<1>35. CASE UNCHANGED vars
  BY <1>35 DEF vars
<1> HIDE DEF TypeOK, durable, local, Status, Open, Terminal, Life, Phase, Holding, Submitting, Pooled, Executing, Rendering, Ending
<1>36. ASSUME NEW p \in Proc, NEW j \in Job, Request(p, j) \/ CancelCommit(p, j) PROVE TypeOK'
  BY <1>36, <1>1, <1>2, <1>3, <1>4, <1>5 DEF Request
<1>37. ASSUME NEW p \in Proc, NEW j \in Job, Submission(p, j) PROVE TypeOK'
  BY <1>37, <1>6, <1>7, <1>8, <1>9, <1>10, <1>11, <1>12 DEF Submission
<1>38. ASSUME NEW p \in Proc, NEW j \in Job, Worker(p, j) PROVE TypeOK'
  BY <1>38, <1>13, <1>14, <1>15, <1>16, <1>17, <1>18, <1>19, <1>20, <1>21, <1>22, <1>23 DEF Worker
<1>39. ASSUME NEW p \in Proc, NEW j \in Job, Failure(p, j) PROVE TypeOK'
  BY <1>39, <1>24, <1>25, <1>26, <1>27, <1>28 DEF Failure
<1>40. ASSUME NEW p \in Proc, Process(p) \/ ClosePool(p) \/ Crash(p) PROVE TypeOK'
  BY <1>40, <1>30, <1>31, <1>32, <1>33, <1>34 DEF Process
<1> QED
  BY <1>29, <1>35, <1>36, <1>37, <1>38, <1>39, <1>40 DEF Next

\* The type invariant holds of every reachable state.
THEOREM Typing == Spec => []TypeOK
<1>1. Init => TypeOK
  BY DEF Init, TypeOK, Absent, Row, Status, Open, Terminal, Life, Phase, Content
<1>2. QED
  BY <1>1, TypeStep, PTL DEF Spec

\* What Goto, Release, SetStatus and a row replacement do, point by point.
LEMMA GotoAt ==
  ASSUME phase \in [Proc -> [Job -> Phase]],
         NEW p \in Proc, NEW j \in Job, NEW ph, Goto(p, j, ph)
  PROVE  /\ phase'[p][j] = ph
         /\ \A q \in Proc, i \in Job :
              q # p \/ i # j => phase'[q][i] = phase[q][i]
BY DEF Goto

\* What giving a claim back changes, point by point.
LEMMA ReleaseAt ==
  ASSUME phase \in [Proc -> [Job -> Phase]], claim \in [Job -> Proc \cup {None}],
         NEW p \in Proc, NEW j \in Job, Release(p, j)
  PROVE  /\ phase'[p][j] = "idle"
         /\ \A q \in Proc, i \in Job :
              q # p \/ i # j => phase'[q][i] = phase[q][i]
         /\ claim'[j] = None
         /\ \A i \in Job : i # j => claim'[i] = claim[i]
<1>1. Goto(p, j, "idle")
  BY DEF Release
<1> QED
  BY <1>1, GotoAt DEF Release

\* What replacing a row changes, point by point.
LEMMA RowAt ==
  ASSUME row \in [Job -> Row], NEW j \in Job, NEW r, row' = [row EXCEPT ![j] = r]
  PROVE  row'[j] = r /\ \A i \in Job : i # j => row'[i] = row[i]
OBVIOUS

\* What changing a status changes, point by point.
LEMMA StatusAt ==
  ASSUME row \in [Job -> Row], NEW j \in Job, NEW s, SetStatus(j, s)
  PROVE  /\ row'[j].status = s
         /\ row'[j].recoveries = row[j].recoveries
         /\ \A i \in Job : i # j => row'[i] = row[i]
BY DEF SetStatus, Row

\* The inductive invariant without the types, for one job.
HolderInv(p, j) ==
  /\ phase[p][j] # "idle" <=> claim[j] = p
  /\ phase[p][j] \in Rendering \cup Ending =>
       row[j].status \in {"running", "cancelled"}
  /\ <<p, j>> \in cancelling => row[j].status \in Open
  /\ j \in built[p] =>
       /\ phase[p][j] \in {"persisted", "leaving"} \cup Ending
       /\ phase[p][j] # "leaving" => file[j] = <<p, row[j].recoveries>>

ResultInv(j) ==
  row[j].status = "succeeded" =>
    row[j].result # None /\ (row[j].receipt => file[j] = row[j].result)

JobInv(j) == ResultInv(j) /\ \A p \in Proc : HolderInv(p, j)

JobsInv == \A j \in Job : JobInv(j)

\* The invariant speaks of one job at a time.
LEMMA InvByJob == TypeOK => (IInv <=> JobsInv)
<1> SUFFICES ASSUME TypeOK PROVE IInv <=> JobsInv
  OBVIOUS
<1>1. CancelOpen <=> \A j \in Job, p \in Proc :
                       <<p, j>> \in cancelling => row[j].status \in Open
  BY DEF CancelOpen, TypeOK
<1> QED
  BY <1>1 DEF IInv, JobsInv, JobInv, HolderInv, ResultInv, ClaimHeld, WorkerRow, Written, ReceiptMatchesArtifact

\* A step that leaves everything about a job alone keeps its invariant.
SameJob(j) ==
  /\ row'[j] = row[j] /\ file'[j] = file[j] /\ claim'[j] = claim[j]
  /\ \A p \in Proc : /\ phase'[p][j] = phase[p][j]
                     /\ j \in built'[p] => j \in built[p]
                     /\ <<p, j>> \in cancelling' => <<p, j>> \in cancelling

\* A step that leaves a job alone keeps what the invariant says of it.
LEMMA SameJobKeeps == ASSUME NEW j \in Job, JobInv(j), SameJob(j) PROVE JobInv(j)'
<1>1. ASSUME NEW p \in Proc PROVE HolderInv(p, j)'
  <2>1. /\ phase'[p][j] = phase[p][j]
        /\ j \in built'[p] => j \in built[p]
        /\ <<p, j>> \in cancelling' => <<p, j>> \in cancelling
    BY DEF SameJob
  <2>2. HolderInv(p, j)
    BY DEF JobInv
  <2> QED
    BY <2>1, <2>2 DEF HolderInv, SameJob
<1> QED
  BY <1>1 DEF JobInv, ResultInv, SameJob

\* While p holds a phase of j, every other process is idle there.
LEMMA OthersIdle ==
  ASSUME TypeOK, NEW j \in Job, JobInv(j), NEW p \in Proc, phase[p][j] # "idle"
  PROVE  \A q \in Proc : q # p => phase[q][j] = "idle" /\ j \notin built[q]
BY DEF JobInv, HolderInv, Ending

\* The holder moves on and touches nothing but its own phase.
LEMMA MoveKeeps ==
  ASSUME TypeOK, \A i \in Job : JobInv(i), NEW p \in Proc, NEW j \in Job,
         NEW ph \in Holding, Goto(p, j, ph), phase[p][j] # "idle",
         ph \in Rendering \cup Ending => phase[p][j] \in Rendering \cup Ending,
         j \in built[p] => /\ ph \in {"persisted", "leaving"} \cup Ending
                           /\ phase[p][j] = "leaving" => ph = "leaving",
         UNCHANGED <<row, file, claim, built, cancelling>>
  PROVE  \A i \in Job : JobInv(i)'
<1>1. /\ phase'[p][j] = ph
      /\ \A q \in Proc, i \in Job : q # p \/ i # j => phase'[q][i] = phase[q][i]
  BY GotoAt DEF TypeOK
<1>2. ph # "idle"
  BY DEF Holding, Submitting, Pooled, Executing, Rendering, Ending
<1>3. HolderInv(p, j)'
  BY <1>1, <1>2 DEF JobInv, HolderInv
<1>4. \A i \in Job \ {j} : SameJob(i)
  BY <1>1 DEF SameJob
<1>5. \A q \in Proc \ {p} : HolderInv(q, j)'
  BY <1>1 DEF JobInv, HolderInv
<1> QED
  BY <1>3, <1>4, <1>5, SameJobKeeps DEF JobInv, ResultInv

\* The holder gives the claim back.
LEMMA ReleaseKeeps ==
  ASSUME TypeOK, \A i \in Job : JobInv(i), NEW p \in Proc, NEW j \in Job,
         Release(p, j), phase[p][j] # "idle",
         UNCHANGED <<row, file>>,
         \A q \in Proc : built'[q] \subseteq built[q], j \notin built'[p],
         \A q \in Proc, i \in Job : <<q, i>> \in cancelling' =>
           <<q, i>> \in cancelling \/ row[i].status \in Open
  PROVE  \A i \in Job : JobInv(i)'
<1>1. /\ phase'[p][j] = "idle"
      /\ \A q \in Proc, i \in Job : q # p \/ i # j => phase'[q][i] = phase[q][i]
      /\ claim'[j] = None
      /\ \A i \in Job : i # j => claim'[i] = claim[i]
  BY ReleaseAt DEF TypeOK
<1>2. \A q \in Proc : q # p => phase[q][j] = "idle" /\ j \notin built[q]
  BY OthersIdle
<1>3. None \notin Proc
  BY ConstantsOK
<1>4. HolderInv(p, j)'
  BY <1>1, <1>3 DEF JobInv, HolderInv, Rendering, Ending
<1>5. \A q \in Proc \ {p} : HolderInv(q, j)'
  BY <1>1, <1>2, <1>3 DEF JobInv, HolderInv, Rendering, Ending
<1>6. ASSUME NEW i \in Job \ {j}, NEW q \in Proc PROVE HolderInv(q, i)'
  <2>1. /\ phase'[q][i] = phase[q][i] /\ claim'[i] = claim[i]
        /\ i \in built'[q] => i \in built[q]
        /\ <<q, i>> \in cancelling' =>
             <<q, i>> \in cancelling \/ row[i].status \in Open
    BY <1>1
  <2>2. HolderInv(q, i)
    BY DEF JobInv
  <2> QED
    BY <2>1, <2>2 DEF HolderInv
<1> QED
  BY <1>4, <1>5, <1>6 DEF JobInv, ResultInv

\* The holder rewrites the row outside any cancel() and moves on.
LEMMA RowKeeps ==
  ASSUME TypeOK, \A i \in Job : JobInv(i), NEW p \in Proc, NEW j \in Job,
         NEW ph \in Holding, Goto(p, j, ph), phase[p][j] # "idle", cancelling = {},
         \A i \in Job : i # j => row'[i] = row[i],
         ph \in Rendering \cup Ending => row'[j].status \in {"running", "cancelled"},
         j \in built[p] => ph = "leaving",
         ResultInv(j)',
         UNCHANGED <<file, claim, built, cancelling>>
  PROVE  \A i \in Job : JobInv(i)'
<1>1. /\ phase'[p][j] = ph
      /\ \A q \in Proc, i \in Job : q # p \/ i # j => phase'[q][i] = phase[q][i]
  BY GotoAt DEF TypeOK
<1>2. \A q \in Proc : q # p => phase[q][j] = "idle" /\ j \notin built[q]
  BY OthersIdle
<1>3. ph # "idle"
  BY DEF Holding, Submitting, Pooled, Executing, Rendering, Ending
<1>4. HolderInv(p, j)'
  BY <1>1, <1>3 DEF JobInv, HolderInv
<1>5. \A q \in Proc \ {p} : HolderInv(q, j)'
  BY <1>1, <1>2 DEF JobInv, HolderInv, Rendering, Ending
<1>6. \A i \in Job \ {j} : SameJob(i)
  BY <1>1 DEF SameJob
<1> QED
  BY <1>4, <1>5, <1>6, SameJobKeeps DEF JobInv

\* Every action keeps the inductive invariant.
LEMMA InvStep == IInv /\ [Next]_vars => IInv'
<1> SUFFICES ASSUME IInv, [Next]_vars PROVE IInv'
  OBVIOUS
<1> DEFINE Kept == \A i \in Job : JobInv(i)'
<1>a. TypeOK /\ \A i \in Job : JobInv(i)
  BY InvByJob DEF IInv, JobsInv
<1>b. TypeOK'
  BY <1>a, TypeStep
<1>c. Kept => IInv'
  <2>1. TypeOK' => (IInv' <=> JobsInv')
    BY InvByJob, PTL
  <2> QED
    BY <1>b, <2>1 DEF JobsInv
<1>d. \A p \in Proc, j \in Job : j \in built[p] =>
        phase[p][j] \in {"persisted", "leaving"} \cup Ending
  BY <1>a DEF JobInv, HolderInv
<1> USE <1>a DEF durable, local, Holding, Submitting, Pooled, Executing, Rendering, Ending
<1>e. ASSUME NEW p \in Proc, NEW j \in Job, NEW k, Enqueue(p, k, j) PROVE Kept
  <2>1. /\ row'[j].status = "queued"
        /\ \A i \in Job : i # j => row'[i] = row[i]
    BY <1>e, RowAt DEF Enqueue, TypeOK, NewRow, Absent
  <2>2. UNCHANGED <<claim, phase, file, built, cancelling>> /\ cancelling = {}
    BY <1>e DEF Enqueue, MutationFree
  <2>3. row[j].status = "absent"
    BY <1>e DEF Enqueue
  <2>4. JobInv(j)'
    BY <2>1, <2>2, <2>3 DEF JobInv, HolderInv, ResultInv
  <2>5. \A i \in Job \ {j} : SameJob(i)
    BY <2>1, <2>2 DEF SameJob
  <2> QED
    BY <2>4, <2>5, SameJobKeeps
<1>f. ASSUME UNCHANGED <<row, file, claim, phase, built, cancelling>> PROVE Kept
  BY <1>f, SameJobKeeps DEF SameJob
<1>1. ASSUME NEW p \in Proc, NEW j \in Job, Request(p, j) PROVE Kept
  <2>1. ASSUME NEW k \in Key \cup {None}, CreateNew(p, k, j) PROVE Kept
    BY <2>1, <1>e DEF CreateNew
  <2>2. ASSUME NEW k \in Key, CreateExisting(p, k, j) PROVE Kept
    BY <2>2, <1>f DEF CreateExisting
  <2>3. ASSUME NEW src \in Job, Retry(p, src, j) PROVE Kept
    BY <2>3, <1>e DEF Retry
  <2>4. ASSUME CancelSignal(p, j) PROVE Kept
    <3>1. \A q \in Proc, i \in Job : <<q, i>> \in cancelling' =>
            <<q, i>> \in cancelling \/ row[i].status \in Open
      BY <2>4 DEF CancelSignal
    <3>2. CASE row[j].status = "queued" /\ phase[p][j] = "registered"
      <4>1. Release(p, j) /\ UNCHANGED <<row, file, built>>
        BY <2>4, <3>2 DEF CancelSignal
      <4> QED
        BY <4>1, <3>1, <3>2, <1>d, ReleaseKeeps
    <3>3. CASE ~(row[j].status = "queued" /\ phase[p][j] = "registered")
      <4>1. UNCHANGED <<row, file, claim, phase, built>>
        BY <2>4, <3>3 DEF CancelSignal
      <4> QED
        BY <4>1, <3>1 DEF JobInv, HolderInv, ResultInv
    <3> QED
      BY <3>2, <3>3
  <2> QED
    BY <1>1, <2>1, <2>2, <2>3, <2>4 DEF Request
<1>2. ASSUME NEW p \in Proc, NEW j \in Job, CancelCommit(p, j) PROVE Kept
  <2>1. /\ row'[j].status = "cancelled" /\ row'[j].recoveries = row[j].recoveries
        /\ \A i \in Job : i # j => row'[i] = row[i]
    BY <1>2, StatusAt DEF CancelCommit, TypeOK
  <2>2. UNCHANGED <<claim, phase, file, built>> /\ cancelling' = {}
    BY <1>2 DEF CancelCommit
  <2>3. JobInv(j)'
    <3>1. ASSUME NEW q \in Proc PROVE HolderInv(q, j)'
      <4>1. HolderInv(q, j)
        BY DEF JobInv
      <4> QED
        BY <4>1, <2>1, <2>2 DEF HolderInv
    <3> QED
      BY <3>1, <2>1 DEF JobInv, ResultInv
  <2>4. \A i \in Job \ {j} : SameJob(i)
    BY <2>1, <2>2 DEF SameJob
  <2> QED
    BY <2>3, <2>4, SameJobKeeps
<1>3. ASSUME NEW p \in Proc, NEW j \in Job, Submission(p, j) PROVE Kept
  <2>1. ASSUME NEW m \in Mode, TryClaim(p, j, m) PROVE Kept
    <3>1. PICK ph \in Submitting : Goto(p, j, ph)
      BY <2>1 DEF TryClaim, AfterClaim, Mode
    <3>2. /\ phase'[p][j] = ph
          /\ \A q \in Proc, i \in Job : q # p \/ i # j => phase'[q][i] = phase[q][i]
      BY <3>1, GotoAt DEF TypeOK
    <3>3. /\ claim[j] = None /\ claim' = [claim EXCEPT ![j] = p]
          /\ UNCHANGED <<row, file, built, cancelling>>
      BY <2>1 DEF TryClaim, Obtainable
    <3>4. \A q \in Proc : phase[q][j] = "idle" /\ j \notin built[q]
      <4>1. \A q \in Proc : phase[q][j] = "idle"
        <5>1. None \notin Proc
          BY ConstantsOK
        <5>2. ASSUME NEW q \in Proc PROVE phase[q][j] # "idle" <=> claim[j] = q
          <6>1. HolderInv(q, j)
            BY DEF JobInv
          <6> QED
            BY <6>1 DEF HolderInv
        <5> QED
          BY <3>3, <5>1, <5>2
      <4> QED
        BY <4>1, <1>d
    <3>5. claim'[j] = p /\ \A i \in Job : i # j => claim'[i] = claim[i]
      BY <3>3 DEF TypeOK
    <3>6. \A q \in Proc : HolderInv(q, j)'
      BY <3>2, <3>3, <3>4, <3>5 DEF JobInv, HolderInv
    <3>7. \A i \in Job \ {j} : SameJob(i)
      BY <3>2, <3>3, <3>5 DEF SameJob
    <3> QED
      BY <3>3, <3>6, <3>7, SameJobKeeps DEF JobInv, ResultInv
  <2>2. ASSUME NEW m \in Mode, ClaimContended(p, j, m) PROVE Kept
    BY <2>2, <1>f DEF ClaimContended
  <2>3. ASSUME PrepareRecovery(p, j) PROVE Kept
    <3>1. CASE row[j].status \in Open
      <4>1. row'[j] = Recovered(row[j]) /\ \A i \in Job : i # j => row'[i] = row[i]
        BY <2>3, <3>1, RowAt DEF PrepareRecovery, TypeOK
      <4>2. row'[j].status = "queued"
        BY <4>1, <1>a DEF Recovered, TypeOK, Row
      <4>3. Goto(p, j, "ready") /\ phase[p][j] = "recovering" /\ cancelling = {}
        BY <2>3, <3>1 DEF PrepareRecovery, MutationFree
      <4>4. UNCHANGED <<file, claim, built, cancelling>>
        BY <2>3, <3>1 DEF PrepareRecovery
      <4> QED
        BY <4>1, <4>2, <4>3, <4>4, <1>d, RowKeeps DEF ResultInv
    <3>2. CASE row[j].status \notin Open
      BY <2>3, <3>2, <1>d, ReleaseKeeps DEF PrepareRecovery
    <3> QED
      BY <3>1, <3>2
  <2>4. ASSUME Recheck(p, j) PROVE Kept
    <3>1. CASE row[j].status = "queued"
      BY <2>4, <3>1, <1>d, MoveKeeps DEF Recheck
    <3>2. CASE row[j].status # "queued"
      BY <2>4, <3>2, <1>d, ReleaseKeeps DEF Recheck
    <3> QED
      BY <3>1, <3>2
  <2>5. ASSUME PoolSubmit(p, j) PROVE Kept
    BY <2>5, <1>d, MoveKeeps DEF PoolSubmit
  <2>6. ASSUME PoolClosedRetry(p, j) PROVE Kept
    BY <2>6, <1>d, ReleaseKeeps DEF PoolClosedRetry
  <2>7. ASSUME PoolClosedNew(p, j) PROVE Kept
    <3>1. CASE row[j].status = "queued"
      <4>1. /\ row'[j].status = "failed"
            /\ \A i \in Job : i # j => row'[i] = row[i]
        BY <2>7, <3>1, StatusAt DEF PoolClosedNew, TypeOK
      <4>2. /\ phase'[p][j] = "idle" /\ claim'[j] = None
            /\ \A q \in Proc, i \in Job : q # p \/ i # j => phase'[q][i] = phase[q][i]
            /\ \A i \in Job : i # j => claim'[i] = claim[i]
        BY <2>7, ReleaseAt DEF PoolClosedNew, TypeOK
      <4>3. /\ UNCHANGED <<file, built, cancelling>> /\ cancelling = {}
            /\ phase[p][j] = "ready"
        BY <2>7 DEF PoolClosedNew, MutationFree
      <4>4. \A q \in Proc : j \notin built[q] /\ phase'[q][j] = "idle"
        BY <4>2, <4>3, <1>d, OthersIdle
      <4>5. JobInv(j)'
        BY <4>1, <4>2, <4>3, <4>4, ConstantsOK DEF JobInv, HolderInv, ResultInv
      <4>6. \A i \in Job \ {j} : SameJob(i)
        BY <4>1, <4>2, <4>3 DEF SameJob
      <4> QED
        BY <4>5, <4>6, SameJobKeeps
    <3>2. CASE row[j].status # "queued"
      BY <2>7, <3>2, <1>d, ReleaseKeeps DEF PoolClosedNew
    <3> QED
      BY <3>1, <3>2
  <2> QED
    BY <1>3, <2>1, <2>2, <2>3, <2>4, <2>5, <2>6, <2>7 DEF Submission
<1>4. ASSUME NEW p \in Proc, NEW j \in Job, Worker(p, j) PROVE Kept
  <2>1. CASE RegisterFuture(p, j)
    BY <2>1, <1>d, MoveKeeps DEF RegisterFuture
  <2>2. CASE Pick(p, j)
    BY <2>2, <1>d, MoveKeeps DEF Pick
  <2>3. CASE StartRun(p, j)
    <3>1. CASE row[j].status = "queued" /\ j \notin signal[p]
      <4>1. row'[j].status = "running" /\ \A i \in Job : i # j => row'[i] = row[i]
        BY <2>3, <3>1, StatusAt DEF StartRun, TypeOK
      <4> QED
        BY <2>3, <3>1, <4>1, <1>d, RowKeeps DEF StartRun, ResultInv, MutationFree
    <3>2. CASE ~(row[j].status = "queued" /\ j \notin signal[p])
      BY <2>3, <3>2, <1>d, MoveKeeps DEF StartRun
    <3> QED
      BY <3>1, <3>2
  <2>4. ASSUME NEW o \in Phase, Render(p, j, o) PROVE Kept
    BY <2>4, <1>d, MoveKeeps DEF Render, Step
  <2>5. CASE CheckRendered(p, j)
    BY <2>5, <1>d, MoveKeeps DEF CheckRendered, Step
  <2>6. CASE BeginArtifact(p, j)
    <3>1. /\ phase'[p][j] = "writing" /\ phase[p][j] = "checked"
          /\ \A q \in Proc, i \in Job : q # p \/ i # j => phase'[q][i] = phase[q][i]
      BY <2>6, GotoAt DEF BeginArtifact, Step, TypeOK
    <3>2. \A i \in Job : i # j => file'[i] = file[i]
      BY <2>6 DEF BeginArtifact, TypeOK
    <3>3. UNCHANGED <<row, claim, built, cancelling>>
      BY <2>6 DEF BeginArtifact, Step
    <3>4. \A q \in Proc : j \notin built[q]
      BY <3>1, <1>d, OthersIdle
    <3>5. JobInv(j)'
      <4>1. ASSUME NEW q \in Proc PROVE HolderInv(q, j)'
        <5>1. HolderInv(q, j)
          BY DEF JobInv
        <5> QED
          BY <5>1, <3>1, <3>3, <3>4 DEF HolderInv
      <4>2. row[j].status # "succeeded"
        BY <3>1 DEF JobInv, HolderInv
      <4> QED
        BY <4>1, <4>2, <3>3 DEF JobInv, ResultInv
    <3>6. \A i \in Job \ {j} : SameJob(i)
      BY <3>1, <3>2, <3>3 DEF SameJob
    <3> QED
      BY <3>5, <3>6, SameJobKeeps
  <2>7. CASE EndArtifact(p, j)
    <3>1. /\ phase'[p][j] = "persisted" /\ phase[p][j] = "writing"
          /\ \A q \in Proc, i \in Job : q # p \/ i # j => phase'[q][i] = phase[q][i]
      BY <2>7, GotoAt DEF EndArtifact, Step, TypeOK
    <3>2. /\ file'[j] = <<p, row[j].recoveries>>
          /\ \A i \in Job : i # j => file'[i] = file[i]
      BY <2>7 DEF EndArtifact, TypeOK
    <3>3. /\ UNCHANGED <<row, claim, cancelling>>
          /\ built'[p] = built[p] \cup {j}
          /\ \A q \in Proc : q # p => built'[q] = built[q]
      BY <2>7 DEF EndArtifact, Step, TypeOK
    <3>4. \A q \in Proc : j \notin built[q]
      BY <3>1, <1>d, OthersIdle
    <3>5. JobInv(j)'
      <4>1. ASSUME NEW q \in Proc PROVE HolderInv(q, j)'
        <5>1. HolderInv(q, j)
          BY DEF JobInv
        <5> QED
          BY <5>1, <3>1, <3>2, <3>3, <3>4 DEF HolderInv
      <4>2. row[j].status # "succeeded"
        BY <3>1 DEF JobInv, HolderInv
      <4> QED
        BY <4>1, <4>2, <3>3 DEF JobInv, ResultInv
    <3>6. \A i \in Job \ {j} : SameJob(i)
      BY <3>1, <3>2, <3>3 DEF SameJob
    <3> QED
      BY <3>5, <3>6, SameJobKeeps
  <2>8. CASE SkipArtifact(p, j)
    BY <2>8, <1>d, MoveKeeps DEF SkipArtifact, Step
  <2>9. CASE CheckPersisted(p, j)
    BY <2>9, <1>d, MoveKeeps DEF CheckPersisted, Step
  <2>10. CASE Finish(p, j)
    <3>1. row'[j] = Outcome(p, j) /\ \A i \in Job : i # j => row'[i] = row[i]
      BY <2>10, RowAt DEF Finish, TypeOK
    <3>2. UNCHANGED <<claim, file, built, cancelling>> /\ cancelling = {}
      BY <2>10 DEF Finish, MutationFree
    <3>3. phase[p][j] \in Ending /\ Goto(p, j, "leaving")
      BY <2>10 DEF Finish
    <3>4. ResultInv(j)'
      <4>1. row[j] \in Row
        BY DEF TypeOK
      <4>2. CASE row'[j] = Succeeded(p, j)
        <5>1. /\ row'[j].result = <<p, row[j].recoveries>>
              /\ row'[j].receipt = (j \in built[p])
          BY <4>1, <4>2 DEF Succeeded, Row
        <5>2. <<p, row[j].recoveries>> # None
          BY <4>1, ConstantsOK DEF Row
        <5>3. j \in built[p] => file[j] = <<p, row[j].recoveries>>
          BY <3>3 DEF JobInv, HolderInv
        <5> QED
          BY <5>1, <5>2, <5>3, <3>2 DEF ResultInv
      <4>3. CASE \E s \in {"cancelled", "failed"} : row'[j] = [row[j] EXCEPT !.status = s]
        BY <4>1, <4>3 DEF ResultInv, Row
      <4> QED
        BY <3>1, <4>2, <4>3 DEF Outcome
    <3> QED
      BY <3>1, <3>2, <3>3, <3>4, RowKeeps
  <2>11. CASE Leave(p, j)
    <3>1. /\ Release(p, j) /\ phase[p][j] = "leaving"
          /\ UNCHANGED <<row, file, cancelling>>
      BY <2>11 DEF Leave
    <3>2. /\ \A q \in Proc : built'[q] \subseteq built[q]
          /\ j \notin built'[p]
      BY <2>11 DEF Leave, TypeOK
    <3> QED
      BY <3>1, <3>2, ReleaseKeeps
  <2> QED
    BY <1>4, <2>1, <2>2, <2>3, <2>4, <2>5, <2>6, <2>7, <2>8, <2>9, <2>10, <2>11 DEF Worker
<1>5. ASSUME NEW p \in Proc, NEW j \in Job, Failure(p, j) PROVE Kept
  <2>1. CASE CancelFault(p, j)
    <3>1. UNCHANGED <<row, file, claim, phase, built>> /\ cancelling' = {}
      BY <2>1 DEF CancelFault
    <3> QED
      BY <3>1, SameJobKeeps DEF SameJob
  <2>2. ASSUME NEW m \in Mode, ClaimUnavailable(p, j, m) PROVE Kept
    BY <2>2, <1>f DEF ClaimUnavailable
  <2>3. CASE PoolClosedFault(p, j)
    BY <2>3, <1>d, ReleaseKeeps DEF PoolClosedFault
  <2>4. CASE WorkerFault(p, j)
    BY <2>4, <1>d, MoveKeeps DEF WorkerFault, Step
  <2>5. CASE StartFault(p, j)
    <3>1. UNCHANGED <<row, file, built, cancelling>>
      BY <2>5 DEF StartFault
    <3>2. CASE UNCHANGED <<claim, phase>>
      BY <3>1, <3>2, <1>f
    <3>3. CASE phase[p][j] = "recovering" /\ Release(p, j)
      BY <3>1, <3>3, <1>d, ReleaseKeeps
    <3> QED
      BY <2>5, <3>2, <3>3 DEF StartFault
  <2> QED
    BY <1>5, <2>1, <2>2, <2>3, <2>4, <2>5 DEF Failure
<1>6. ASSUME NEW j \in Job, AgeOut(j) PROVE Kept
  <2>1. \A i \in Job : /\ row'[i].status = row[i].status
                       /\ row'[i].recoveries = row[i].recoveries
                       /\ row'[i].result = row[i].result
                       /\ row'[i].receipt = row[i].receipt
    BY <1>6 DEF AgeOut, TypeOK, Row
  <2>2. UNCHANGED <<file, claim, phase, built, cancelling>>
    BY <1>6 DEF AgeOut
  <2> QED
    BY <2>1, <2>2 DEF JobInv, HolderInv, ResultInv
<1>7. ASSUME NEW p \in Proc, Process(p) \/ ClosePool(p) PROVE Kept
  BY <1>7, <1>f DEF Process, Start, StartDone, Exit, ClosePool
<1>8. ASSUME NEW p \in Proc, Crash(p) PROVE Kept
  <2>1. /\ \A j \in Job : claim'[j] = IF claim[j] = p THEN None ELSE claim[j]
        /\ \A j \in Job : phase'[p][j] = "idle"
        /\ \A q \in Proc : q # p => phase'[q] = phase[q] /\ built'[q] = built[q]
        /\ built'[p] = {}
        /\ cancelling' \subseteq cancelling
        /\ UNCHANGED <<row, file>>
    BY <1>8 DEF Crash, TypeOK
  <2>2. ASSUME NEW j \in Job PROVE HolderInv(p, j)'
    BY <2>1, ConstantsOK DEF JobInv, HolderInv
  <2>3. ASSUME NEW j \in Job, NEW q \in Proc \ {p} PROVE HolderInv(q, j)'
    BY <2>1, ConstantsOK DEF JobInv, HolderInv
  <2> QED
    BY <2>1, <2>2, <2>3 DEF JobInv, ResultInv
<1>9. ASSUME UNCHANGED vars PROVE Kept
  BY <1>9, <1>f DEF vars
<1> QED
  BY <1>c, <1>1, <1>2, <1>3, <1>4, <1>5, <1>6, <1>7, <1>8, <1>9 DEF Next

\* The inductive invariant holds of every reachable state.
THEOREM Invariance == Spec => []IInv
<1>1. Init => IInv
  <2> SUFFICES ASSUME Init PROVE IInv
    OBVIOUS
  <2>1. TypeOK
    BY DEF Init, TypeOK, Absent, Row, Status, Open, Terminal, Life, Phase, Content
  <2>2. \A j \in Job : JobInv(j)
    BY ConstantsOK DEF Init, Absent, JobInv, HolderInv, ResultInv, Rendering, Ending
  <2> QED
    BY <2>1, <2>2, InvByJob DEF JobsInv
<1> QED
  BY <1>1, InvStep, PTL DEF Spec

\* At most one process executes a job, for any number of processes.
THEOREM ExclusiveExecution == Spec => []OneExecutor
<1>1. IInv => OneExecutor
  BY DEF IInv, ClaimHeld, OneExecutor, TypeOK, Executing, Rendering, Ending
<1> QED
  BY <1>1, Invariance, PTL

\* The file of a succeeded job is the one its receipt describes.
THEOREM ReceiptsMatch == Spec => []ReceiptMatchesArtifact
<1>1. IInv => ReceiptMatchesArtifact
  BY DEF IInv
<1> QED
  BY <1>1, Invariance, PTL

\* No step changes what a terminal row says.
LEMMA VerdictStep ==
  ASSUME IInv, [Next]_vars, NEW i \in Job, row[i].status \in Terminal
  PROVE  Verdict(row'[i]) = Verdict(row[i])
<1> DEFINE Same == Verdict(row'[i]) = Verdict(row[i])
<1> USE DEF Open, Terminal, Verdict
<1>a. row \in [Job -> Row]
  BY DEF IInv, TypeOK
<1>b. row'[i] = row[i] => Same
  OBVIOUS
<1>c. ASSUME NEW p \in Proc, NEW j \in Job, NEW k, Enqueue(p, k, j) PROVE row'[i] = row[i]
  BY <1>a, <1>c, RowAt DEF Enqueue
<1>1. ASSUME NEW p \in Proc, NEW j \in Job, Request(p, j) PROVE row'[i] = row[i]
  BY <1>1, <1>c DEF Request, CreateNew, CreateExisting, Retry, CancelSignal, durable
<1>2. ASSUME NEW p \in Proc, NEW j \in Job, CancelCommit(p, j) PROVE row'[i] = row[i]
  <2>1. row[j].status \in Open
    BY <1>2 DEF CancelCommit, IInv, CancelOpen
  <2>2. i # j
    BY <2>1
  <2> QED
    BY <1>2, <2>2, <1>a, StatusAt DEF CancelCommit
<1>3. ASSUME NEW p \in Proc, NEW j \in Job, Submission(p, j) PROVE row'[i] = row[i]
  <2>1. CASE PrepareRecovery(p, j)
    BY <2>1, <1>a, RowAt DEF PrepareRecovery
  <2>2. CASE PoolClosedNew(p, j)
    BY <2>2, <1>a, StatusAt DEF PoolClosedNew
  <2> QED
    BY <1>3, <2>1, <2>2 DEF Submission, TryClaim, ClaimContended, Recheck, PoolSubmit, PoolClosedRetry, durable
<1>4. ASSUME NEW p \in Proc, NEW j \in Job, Worker(p, j) PROVE Same
  <2>1. CASE StartRun(p, j)
    BY <2>1, <1>a, <1>b, StatusAt DEF StartRun
  <2>2. CASE Finish(p, j)
    <3>1. row'[j] = Outcome(p, j) /\ (i # j => row'[i] = row[i])
      BY <2>2, <1>a, RowAt DEF Finish
    <3>2. CASE i = j
      <4>1. row[j].status = "cancelled"
        BY <2>2, <3>2 DEF Finish, IInv, WorkerRow
      <4>2. row'[j] = [row[j] EXCEPT !.status = "cancelled"]
        BY <3>1, <4>1 DEF Outcome, CancelSeen
      <4> QED
        BY <1>a, <3>2, <4>1, <4>2 DEF Row
    <3> QED
      BY <3>1, <3>2, <1>b
  <2> QED
    BY <1>4, <1>b, <2>1, <2>2 DEF Worker, RegisterFuture, Pick, Render, CheckRendered, BeginArtifact, EndArtifact, SkipArtifact, CheckPersisted, Leave, Step, durable
<1>5. ASSUME NEW p \in Proc, NEW j \in Job, Failure(p, j) PROVE row'[i] = row[i]
  BY <1>5 DEF Failure, CancelFault, ClaimUnavailable, PoolClosedFault, WorkerFault, StartFault, Step, durable
<1>6. ASSUME NEW j \in Job, AgeOut(j) PROVE Same
  BY <1>6, <1>a DEF AgeOut, Row
<1>7. ASSUME NEW p \in Proc, Process(p) \/ ClosePool(p) \/ Crash(p) PROVE row'[i] = row[i]
  BY <1>7 DEF Process, Start, StartDone, Exit, ClosePool, Crash, durable
<1>8. CASE UNCHANGED vars
  BY <1>8 DEF vars
<1> QED
  BY <1>b, <1>1, <1>2, <1>3, <1>4, <1>5, <1>6, <1>7, <1>8 DEF Next

\* A cancelled, failed or succeeded job stays as it is, whoever is still at it.
THEOREM TerminalStays == Spec => TerminalForever
<1>1. IInv /\ [Next]_vars =>
        [\A j \in Job : row[j].status \in Terminal =>
           Verdict(row'[j]) = Verdict(row[j])]_vars
  BY VerdictStep
<1> QED
  BY <1>1, Invariance, PTL DEF Spec, TerminalForever

\* Only committed rows carry a key or a result; with that, fresh keys stay apart.
KeyInv ==
  /\ OneFreshJobPerKey
  /\ \A i \in Job : row[i].status = "absent" =>
                     row[i].key = None /\ row[i].result = None

\* A step other than a creation: keys stay, freshness and existence do not return.
KeyKept(i) ==
  /\ row'[i].key = row[i].key
  /\ row'[i].fresh => row[i].fresh
  /\ row'[i].status = "absent" =>
       row[i].status = "absent" /\ row'[i].result = row[i].result

\* Every step keeps the fresh keys apart.
LEMMA KeyStep ==
  ASSUME TypeOK, KeyInv, [Next]_vars
  PROVE  KeyInv'
<1> DEFINE Kept == \A i \in Job : KeyKept(i)
<1>a. row \in [Job -> Row]
  BY DEF TypeOK
<1>b. Kept => KeyInv'
  BY DEF KeyInv, OneFreshJobPerKey, KeyKept
<1>c. ASSUME row' = row PROVE Kept
  BY <1>c DEF KeyKept
<1>d. ASSUME NEW j \in Job, NEW s \in Status \ {"absent"}, SetStatus(j, s) PROVE Kept
  BY <1>a, <1>d DEF SetStatus, KeyKept, Row
<1>e. ASSUME NEW p \in Proc, NEW j \in Job, NEW k \in Key \cup {None},
             Enqueue(p, k, j), k = None \/ Match(k) = {}
      PROVE  KeyInv'
  <2>1. /\ row'[j].key = k /\ row'[j].status = "queued"
        /\ \A i \in Job : i # j => row'[i] = row[i]
    BY <1>e, <1>a, RowAt DEF Enqueue, NewRow, Absent
  <2>2. ASSUME NEW i \in Job \ {j}, k # None, row[i].key = k, row[i].fresh PROVE FALSE
    <3>1. row[i].status = "absent"
      BY <1>e, <2>2 DEF Match
    <3> QED
      BY <2>2, <3>1 DEF KeyInv
  <2> QED
    BY <2>1, <2>2 DEF KeyInv, OneFreshJobPerKey
<1>1. ASSUME NEW p \in Proc, NEW j \in Job, Request(p, j) PROVE KeyInv'
  <2>1. ASSUME NEW k \in Key, CreateExisting(p, k, j) PROVE Kept
    BY <2>1, <1>c DEF CreateExisting, durable
  <2>2. ASSUME CancelSignal(p, j) PROVE Kept
    BY <2>2, <1>c DEF CancelSignal, durable
  <2> QED
    BY <1>1, <1>b, <1>e, <2>1, <2>2 DEF Request, CreateNew, Retry
<1>2. ASSUME NEW p \in Proc, NEW j \in Job, CancelCommit(p, j) PROVE Kept
  BY <1>2, <1>d DEF CancelCommit, Status, Open, Terminal
<1>3. ASSUME NEW p \in Proc, NEW j \in Job, Submission(p, j) PROVE Kept
  <2>1. CASE PrepareRecovery(p, j)
    <3>1. CASE row' = [row EXCEPT ![j] = Recovered(@)]
      BY <3>1, <1>a DEF Recovered, KeyKept, Row
    <3> QED
      BY <2>1, <3>1, <1>c DEF PrepareRecovery
  <2>2. CASE PoolClosedNew(p, j)
    BY <2>2, <1>c, <1>d DEF PoolClosedNew, Status, Open, Terminal
  <2>3. CASE row' = row
    BY <2>3, <1>c
  <2> QED
    BY <1>3, <2>1, <2>2, <2>3 DEF Submission, TryClaim, ClaimContended, Recheck, PoolSubmit, PoolClosedRetry, durable
<1>4. ASSUME NEW p \in Proc, NEW j \in Job, Worker(p, j) PROVE Kept
  <2>1. CASE StartRun(p, j)
    BY <2>1, <1>c, <1>d DEF StartRun, Status, Open, Terminal
  <2>2. CASE Finish(p, j)
    <3>1. row'[j] = Outcome(p, j) /\ \A i \in Job : i # j => row'[i] = row[i]
      BY <2>2, <1>a, RowAt DEF Finish
    <3>2. /\ row'[j].key = row[j].key /\ row'[j].fresh = row[j].fresh
          /\ row'[j].status # "absent"
      BY <3>1, <1>a DEF Outcome, Succeeded, Row
    <3> QED
      BY <3>1, <3>2 DEF KeyKept
  <2>3. CASE row' = row
    BY <2>3, <1>c
  <2> QED
    BY <1>4, <2>1, <2>2, <2>3 DEF Worker, RegisterFuture, Pick, Render, CheckRendered, BeginArtifact, EndArtifact, SkipArtifact, CheckPersisted, Leave, Step, durable
<1>5. ASSUME NEW p \in Proc, NEW j \in Job, Failure(p, j) PROVE Kept
  BY <1>5, <1>c DEF Failure, CancelFault, ClaimUnavailable, PoolClosedFault, WorkerFault, StartFault, Step, durable
<1>6. ASSUME NEW j \in Job, AgeOut(j) PROVE Kept
  BY <1>6, <1>a DEF AgeOut, Row, KeyKept
<1>7. ASSUME NEW p \in Proc, Process(p) \/ ClosePool(p) \/ Crash(p) PROVE Kept
  BY <1>7, <1>c DEF Process, Start, StartDone, Exit, ClosePool, Crash, durable
<1>8. CASE UNCHANGED vars
  BY <1>8, <1>b, <1>c DEF vars
<1> QED
  BY <1>b, <1>1, <1>2, <1>3, <1>4, <1>5, <1>6, <1>7, <1>8 DEF Next

\* What KeyInv says of keys and rows that do not exist yet always holds.
LEMMA KeyInvariance == Spec => []KeyInv
<1>1. Init => KeyInv
  BY DEF Init, KeyInv, OneFreshJobPerKey, Absent
<1>2. TypeOK /\ KeyInv /\ [Next]_vars => KeyInv'
  BY KeyStep
<1> QED
  BY <1>1, <1>2, Typing, PTL DEF Spec

\* Whatever the number of processes, a fresh key names at most one job.
THEOREM KeysUnique == Spec => []OneFreshJobPerKey
<1>1. KeyInv => OneFreshJobPerKey
  BY DEF KeyInv
<1> QED
  BY <1>1, KeyInvariance, PTL

-----------------------------------------------------------------------------
(* Without failures, every open job is covered.                            *)

\* A thread of p has the job in hand, or is about to ask for it.
Waiting(p, j) == phase[p][j] # "idle" \/ \E m \in Mode : <<j, m>> \in pending[p]

CoverPhase(j) ==
  /\ row[j].status = "running" => \E p \in Proc : phase[p][j] \in Rendering \cup Ending
  /\ \A p \in Proc : phase[p][j] = "leaving" => row[j].status \in Terminal

CoverSignal(j) ==
  \A p \in Proc : j \in signal[p] => <<p, j>> \in cancelling \/ row[j].status \in Terminal

CoverOpen(j) ==
  /\ \A p \in Proc : Waiting(p, j) => row[j].status # "absent"
  /\ row[j].status \in Open =>
       \/ \E p \in Proc : Waiting(p, j) \/ <<p, j>> \in cancelling \/ ~PoolOpen(p)

\* An open job is covered by a thread, by the cancellation inside the lock, or
\* by the next start of a process whose pool is closed.
Covered(j) == CoverPhase(j) /\ CoverSignal(j) /\ CoverOpen(j)

CoverInv ==
  /\ \A c, d \in cancelling : c = d
  /\ failures = 0 => \A j \in Job : Covered(j)

\* A step concerns one job, and no process starts or closes.
Beside(j) ==
  /\ life' = life /\ failures' = failures
  /\ \A i \in Job \ {j} :
       /\ row'[i].status = row[i].status
       /\ \A p \in Proc :
            /\ phase'[p][i] = phase[p][i] /\ (i \in signal'[p] <=> i \in signal[p])
            /\ \A m \in Mode : <<i, m>> \in pending'[p] <=> <<i, m>> \in pending[p]
            /\ <<p, i>> \in cancelling' <=> <<p, i>> \in cancelling

LEMMA CoverStep ==
  ASSUME CoverInv, NEW j \in Job, Beside(j), failures = 0 => Covered(j)',
         \A c, d \in cancelling' : c = d
  PROVE  CoverInv'
<1>1. ASSUME failures = 0, NEW i \in Job \ {j} PROVE Covered(i)'
  <2>1. Covered(i)
    BY <1>1 DEF CoverInv
  <2>2. \A p \in Proc : (Waiting(p, i)' <=> Waiting(p, i)) /\ (PoolOpen(p)' <=> PoolOpen(p))
    BY DEF Beside, Waiting, PoolOpen
  <2>3. CoverPhase(i)' /\ CoverSignal(i)'
    BY <2>1 DEF Covered, CoverPhase, CoverSignal, Beside
  <2>4. CoverOpen(i)'
    BY <2>1, <2>2 DEF Covered, CoverOpen, Beside
  <2> QED
    BY <2>3, <2>4 DEF Covered
<1>2. failures' = failures
  BY DEF Beside
<1> QED
  BY <1>1, <1>2 DEF CoverInv

\* A thread moves on with its job, whose row may change.
LEMMA CoverMoves ==
  ASSUME TypeOK, CoverInv, NEW p \in Proc, NEW j \in Job, NEW ph \in Holding, Goto(p, j, ph),
         UNCHANGED <<life, signal, cancelling, failures>>,
         \A q \in Proc, i \in Job \ {j}, m \in Mode :
           <<i, m>> \in pending'[q] <=> <<i, m>> \in pending[q],
         \A i \in Job \ {j} : row'[i].status = row[i].status,
         failures = 0 =>
           /\ row'[j].status # "absent"
           /\ row[j].status \in Terminal => row'[j].status \in Terminal
           /\ ph = "leaving" => row'[j].status \in Terminal
           /\ row'[j].status = "running" =>
                \/ ph \in Rendering \cup Ending
                \/ row[j].status = "running" /\ phase[p][j] \notin Rendering \cup Ending
           /\ \A q \in Proc \ {p} : phase[q][j] # "leaving"
  PROVE  CoverInv'
<1>1. /\ phase'[p][j] = ph
      /\ \A q \in Proc, i \in Job : q # p \/ i # j => phase'[q][i] = phase[q][i]
  BY GotoAt DEF TypeOK
<1>2. Beside(j)
  BY <1>1 DEF Beside
<1>3. Waiting(p, j)'
  BY <1>1 DEF Waiting, Holding, Submitting, Pooled, Executing, Rendering, Ending
<1>4. ASSUME failures = 0 PROVE Covered(j)'
  <2>1. Covered(j)
    BY <1>4 DEF CoverInv
  <2>2. CoverPhase(j)'
    BY <1>1, <1>4, <2>1 DEF Covered, CoverPhase
  <2>3. CoverSignal(j)'
    BY <1>4, <2>1 DEF Covered, CoverSignal
  <2>4. CoverOpen(j)'
    BY <1>3, <1>4 DEF CoverOpen
  <2> QED
    BY <2>2, <2>3, <2>4 DEF Covered
<1> QED
  BY <1>2, <1>4, CoverStep DEF CoverInv

\* A claim is given back while the row is not open, or the pool is closed.
LEMMA CoverReleases ==
  ASSUME TypeOK, CoverInv, NEW p \in Proc, NEW j \in Job, Release(p, j),
         UNCHANGED <<life, pending, failures>>,
         \A q \in Proc, i \in Job : i \in signal'[q] => i \in signal[q],
         \A q \in Proc, i \in Job \ {j} : i \in signal[q] => i \in signal'[q],
         cancelling' = cancelling,
         \A i \in Job \ {j} : row'[i].status = row[i].status,
         row[j].status # "absent" => row'[j].status # "absent",
         row[j].status \in Terminal => row'[j].status \in Terminal,
         failures = 0 /\ row'[j].status \in Open =>
           row'[j].status = "queued" /\ ~PoolOpen(p) /\ row[j].status = "queued"
  PROVE  CoverInv'
<1>1. /\ phase'[p][j] = "idle"
      /\ \A q \in Proc, i \in Job : q # p \/ i # j => phase'[q][i] = phase[q][i]
  BY ReleaseAt DEF TypeOK
<1>2. Beside(j)
  BY <1>1 DEF Beside
<1>3. ASSUME failures = 0 PROVE Covered(j)'
  <2>1. Covered(j)
    BY <1>3 DEF CoverInv
  <2>2. row'[j].status # "running"
    BY <1>3 DEF Open
  <2>3. CoverPhase(j)'
    BY <1>1, <1>3, <2>1, <2>2 DEF Covered, CoverPhase, Ending
  <2>4. CoverSignal(j)'
    BY <2>1 DEF Covered, CoverSignal
  <2>5. \A q \in Proc : Waiting(q, j)' => Waiting(q, j)
    BY <1>1 DEF Waiting
  <2>6. ~PoolOpen(p) => ~PoolOpen(p)'
    BY DEF PoolOpen
  <2>7. CoverOpen(j)'
    BY <1>3, <2>1, <2>5, <2>6 DEF Covered, CoverOpen
  <2> QED
    BY <2>3, <2>4, <2>7 DEF Covered
<1> QED
  BY <1>2, <1>3, CoverStep DEF CoverInv

\* Nothing that the invariant speaks of changes.
LEMMA CoverStays ==
  ASSUME CoverInv, UNCHANGED <<life, pending, phase, signal, cancelling, failures>>,
         \A i \in Job : row'[i].status = row[i].status
  PROVE  CoverInv'
<1>1. ASSUME failures = 0, NEW i \in Job PROVE Covered(i)'
  <2>1. Covered(i)
    BY <1>1 DEF CoverInv
  <2> QED
    BY <2>1 DEF Covered, CoverPhase, CoverSignal, CoverOpen, Waiting, PoolOpen
<1> QED
  BY <1>1 DEF CoverInv

\* What a thread that has the job in hand knows without failures.
LEMMA InHand ==
  ASSUME TypeOK, IInv, CoverInv, failures = 0, NEW p \in Proc, NEW j \in Job,
         phase[p][j] # "idle"
  PROVE  /\ Covered(j) /\ row[j].status # "absent"
         /\ \A q \in Proc \ {p} : phase[q][j] = "idle"
         /\ row[j].status = "running" => phase[p][j] \in Rendering \cup Ending
<1>1. Covered(j)
  BY DEF CoverInv
<1>2. \A q \in Proc \ {p} : phase[q][j] = "idle"
  BY InvByJob, OthersIdle DEF JobsInv
<1>3. "idle" \notin Rendering \cup Ending
  BY DEF Rendering, Ending
<1> QED
  BY <1>1, <1>2, <1>3 DEF Covered, CoverPhase, CoverOpen, Waiting

LEMMA RequestCovers ==
  ASSUME TypeOK, CoverInv, NEW p \in Proc, NEW j \in Job, Request(p, j)
  PROVE  CoverInv'
<1>1. ASSUME NEW k \in Key \cup {None}, Enqueue(p, k, j) PROVE CoverInv'
  <2>1. row[j].status = "absent" /\ row'[j].status = "queued" /\ cancelling = {}
    BY <1>1 DEF Enqueue, TypeOK, NewRow, Absent, MutationFree
  <2>2. Beside(j) /\ UNCHANGED <<phase, signal, cancelling, failures>>
    BY <1>1 DEF Beside, Enqueue, TypeOK
  <2>3. ASSUME failures = 0 PROVE Covered(j)'
    <3>1. Covered(j)
      BY <2>3 DEF CoverInv
    <3>2. \A q \in Proc : phase[q][j] # "leaving" /\ j \notin signal[q]
      BY <2>1, <3>1 DEF Covered, CoverPhase, CoverSignal, Terminal
    <3>3. Waiting(p, j)'
      BY <1>1 DEF Waiting, Enqueue, TypeOK, Mode
    <3> QED
      BY <2>1, <2>2, <3>2, <3>3 DEF Covered, CoverPhase, CoverSignal, CoverOpen
  <2> QED
    BY <2>1, <2>2, <2>3, CoverStep
<1>2. ASSUME NEW k \in Key, CreateExisting(p, k, j) PROVE CoverInv'
  <2>1. Beside(j) /\ UNCHANGED <<row, phase, signal, cancelling, failures>>
    BY <1>2 DEF Beside, CreateExisting, TypeOK, durable
  <2>2. row[j].status = "queued" /\ Waiting(p, j)'
    BY <1>2 DEF Waiting, CreateExisting, TypeOK, Mode
  <2>3. ASSUME failures = 0 PROVE Covered(j)'
    BY <2>1, <2>2, <2>3 DEF CoverInv, Covered, CoverPhase, CoverSignal, CoverOpen
  <2> QED
    BY <2>1, <2>3, CoverStep DEF CoverInv
<1>3. ASSUME CancelSignal(p, j) PROVE CoverInv'
  <2>1. /\ cancelling = {} /\ cancelling' = {<<p, j>>} /\ row[j].status \in Open
        /\ UNCHANGED <<row, life, pending, failures>>
    BY <1>3 DEF CancelSignal, MutationFree, durable
  <2>2. /\ \A q \in Proc, i \in Job : q # p \/ i # j => phase'[q][i] = phase[q][i]
        /\ phase'[p][j] = phase[p][j]
             \/ (row[j].status = "queued" /\ phase'[p][j] = "idle")
    BY <1>3, ReleaseAt DEF CancelSignal, TypeOK
  <2>3. \A q \in Proc, i \in Job : q # p \/ i # j => (i \in signal'[q] <=> i \in signal[q])
    BY <1>3 DEF CancelSignal, TypeOK
  <2>4. Beside(j)
    BY <2>1, <2>2, <2>3 DEF Beside
  <2>5. ASSUME failures = 0 PROVE Covered(j)'
    <3>1. Covered(j) /\ row[j].status \notin Terminal
      BY <2>1, <2>5 DEF CoverInv, Open, Terminal
    <3>2. CoverPhase(j)'
      BY <2>1, <2>2, <3>1 DEF Covered, CoverPhase
    <3>3. CoverSignal(j)'
      BY <2>1, <2>3, <3>1 DEF Covered, CoverSignal
    <3>4. CoverOpen(j)'
      BY <2>1 DEF CoverOpen, Open
    <3> QED
      BY <3>2, <3>3, <3>4 DEF Covered
  <2> QED
    BY <2>1, <2>4, <2>5, CoverStep
<1> QED
  BY <1>1, <1>2, <1>3 DEF Request, CreateNew, Retry

LEMMA CommitCovers ==
  ASSUME TypeOK, CoverInv, NEW p \in Proc, NEW j \in Job, CancelCommit(p, j)
  PROVE  CoverInv'
<1>1. /\ cancelling = {<<p, j>>} /\ cancelling' = {}
      /\ UNCHANGED <<life, pending, phase, failures>>
  BY DEF CancelCommit, CoverInv
<1>2. row'[j].status = "cancelled" /\ \A i \in Job \ {j} : row'[i].status = row[i].status
  BY StatusAt DEF CancelCommit, TypeOK
<1>3. \A q \in Proc, i \in Job \ {j} : i \in signal'[q] <=> i \in signal[q]
  BY DEF CancelCommit, TypeOK
<1>4. Beside(j)
  BY <1>1, <1>2, <1>3 DEF Beside
<1>5. Covered(j)'
  BY <1>2 DEF Covered, CoverPhase, CoverSignal, CoverOpen, Terminal, Open
<1> QED
  BY <1>1, <1>4, <1>5, CoverStep

LEMMA SubmissionCovers ==
  ASSUME TypeOK, IInv, CoverInv, NEW p \in Proc, NEW j \in Job, Submission(p, j)
  PROVE  CoverInv'
<1> USE DEF durable
<1>1. ASSUME NEW m \in Mode, TryClaim(p, j, m) PROVE CoverInv'
  <2>1. /\ claim[j] = None /\ Waiting(p, j) /\ Goto(p, j, AfterClaim[m])
        /\ UNCHANGED <<row, life, signal, cancelling, failures>>
    BY <1>1 DEF TryClaim, Obtainable, Waiting
  <2>2. AfterClaim[m] \in Submitting /\ AfterClaim[m] \in Holding
    BY DEF AfterClaim, Submitting, Holding, Mode
  <2>3. \A q \in Proc : phase[q][j] = "idle"
    BY <2>1, ConstantsOK DEF IInv, ClaimHeld
  <2>4. \A q \in Proc, i \in Job \ {j}, n \in Mode :
          <<i, n>> \in pending'[q] <=> <<i, n>> \in pending[q]
    BY <1>1 DEF TryClaim, Drop, TypeOK
  <2>5. failures = 0 => row[j].status # "absent"
    BY <2>1 DEF CoverInv, Covered, CoverOpen
  <2>6. "leaving" \notin Submitting /\ "idle" \notin Rendering \cup Ending
    BY DEF Submitting, Rendering, Ending
  <2> QED
    BY <2>1, <2>2, <2>3, <2>4, <2>5, <2>6, CoverMoves
<1>2. ASSUME NEW m \in Mode, ClaimContended(p, j, m) PROVE CoverInv'
  <2>1. PICK q \in Proc : claim[j] = q
    BY <1>2 DEF ClaimContended, Obtainable, TypeOK
  <2>2. Waiting(q, j)'
    BY <1>2, <2>1 DEF ClaimContended, Waiting, IInv, ClaimHeld
  <2>3. Beside(j) /\ UNCHANGED <<row, phase, signal, cancelling, failures>>
    BY <1>2 DEF Beside, ClaimContended, Drop, TypeOK
  <2>4. \A r \in Proc : Waiting(r, j)' => Waiting(r, j)
    BY <1>2 DEF Waiting, ClaimContended, Drop, TypeOK
  <2>5. ASSUME failures = 0 PROVE Covered(j)'
    BY <2>2, <2>3, <2>4, <2>5 DEF CoverInv, Covered, CoverPhase, CoverSignal, CoverOpen
  <2> QED
    BY <2>3, <2>5, CoverStep DEF CoverInv
<1>3. ASSUME PrepareRecovery(p, j) PROVE CoverInv'
  <2>1. /\ phase[p][j] = "recovering"
        /\ UNCHANGED <<life, pending, signal, cancelling, failures>>
    BY <1>3 DEF PrepareRecovery
  <2>2. CASE row[j].status \in Open
    <3>1. Goto(p, j, "ready") /\ row' = [row EXCEPT ![j] = Recovered(row[j])]
      BY <1>3, <2>2 DEF PrepareRecovery
    <3>2. row'[j].status = "queued" /\ \A i \in Job \ {j} : row'[i].status = row[i].status
      BY <3>1 DEF TypeOK, Recovered, Row
    <3>3. "ready" \in Holding /\ row[j].status \notin Terminal
      BY <2>2 DEF Holding, Submitting, Open, Terminal
    <3>4. failures = 0 => \A q \in Proc \ {p} : phase[q][j] # "leaving"
      BY <2>1, InHand
    <3> QED
      BY <2>1, <3>1, <3>2, <3>3, <3>4, CoverMoves
  <2>3. CASE row[j].status \notin Open
    BY <1>3, <2>1, <2>3, CoverReleases DEF PrepareRecovery
  <2> QED
    BY <2>2, <2>3
<1>4. ASSUME NEW ph \in {"readyRetry", "submitted"}, phase[p][j] \in Submitting, Goto(p, j, ph),
             UNCHANGED <<row, life, pending, signal, cancelling, failures>>
      PROVE  CoverInv'
  <2>1. phase[p][j] # "idle" /\ ph \in Holding /\ ph # "leaving"
        /\ phase[p][j] \notin Rendering \cup Ending
    BY <1>4 DEF Submitting, Holding, Pooled, Rendering, Ending
  <2>2. failures = 0 => /\ row[j].status # "absent"
                        /\ \A q \in Proc \ {p} : phase[q][j] # "leaving"
    BY <2>1, InHand
  <2> QED
    BY <1>4, <2>1, <2>2, CoverMoves
<1>5. ASSUME Release(p, j), phase[p][j] \in Submitting,
             UNCHANGED <<row, life, pending, signal, cancelling, failures>>,
             row[j].status # "queued" \/ ~PoolOpen(p)
      PROVE  CoverInv'
  <2>1. phase[p][j] # "idle" /\ phase[p][j] \notin Rendering \cup Ending
    BY <1>5 DEF Submitting, Rendering, Ending
  <2>2. failures = 0 => row[j].status # "running"
    BY <2>1, InHand
  <2> QED
    BY <1>5, <2>2, CoverReleases DEF Open
<1>6. CASE Recheck(p, j)
  BY <1>4, <1>5, <1>6 DEF Recheck, Submitting
<1>7. CASE PoolSubmit(p, j)
  BY <1>4, <1>7 DEF PoolSubmit, Submitting
<1>8. CASE PoolClosedRetry(p, j)
  BY <1>5, <1>8 DEF PoolClosedRetry, Submitting
<1>9. CASE PoolClosedNew(p, j)
  <2>1. CASE row[j].status = "queued"
    <3>1. SetStatus(j, "failed") /\ Release(p, j)
          /\ UNCHANGED <<life, pending, signal, cancelling, failures>>
      BY <1>9, <2>1 DEF PoolClosedNew
    <3>2. row'[j].status = "failed" /\ \A i \in Job \ {j} : row'[i].status = row[i].status
      BY <3>1, StatusAt DEF TypeOK
    <3> QED
      BY <3>1, <3>2, CoverReleases DEF Open, Terminal
  <2>2. CASE row[j].status # "queued"
    BY <1>5, <1>9, <2>2 DEF PoolClosedNew, Submitting
  <2> QED
    BY <2>1, <2>2
<1> QED
  BY <1>1, <1>2, <1>3, <1>6, <1>7, <1>8, <1>9 DEF Submission

LEMMA WorkerCovers ==
  ASSUME TypeOK, IInv, CoverInv, NEW p \in Proc, NEW j \in Job, Worker(p, j)
  PROVE  CoverInv'
<1> USE DEF durable
<1>1. ASSUME NEW ph \in Holding, ph # "leaving", Goto(p, j, ph), phase[p][j] # "idle",
             phase[p][j] \in Rendering \cup Ending => ph \in Rendering \cup Ending,
             UNCHANGED <<row, life, pending, signal, cancelling, failures>>
      PROVE  CoverInv'
  <2>1. failures = 0 => /\ row[j].status # "absent"
                        /\ \A q \in Proc \ {p} : phase[q][j] # "leaving"
    BY <1>1, InHand
  <2> QED
    BY <1>1, <2>1, CoverMoves
<1>2. CASE RegisterFuture(p, j) \/ Pick(p, j)
  <2>1. PICK ph \in {"registered", "picked"} :
          /\ Goto(p, j, ph) /\ phase[p][j] \in Pooled
          /\ UNCHANGED <<row, life, pending, signal, cancelling, failures>>
    BY <1>2 DEF RegisterFuture, Pick, Pooled
  <2> QED
    BY <1>1, <2>1 DEF Holding, Pooled, Executing, Rendering, Ending
<1>3. ASSUME NEW from \in Rendering, NEW ph \in Rendering \cup Ending, Step(p, j, from, ph),
             failures' = failures
      PROVE  CoverInv'
  <2>1. ph \in Holding /\ ph # "leaving" /\ from # "idle"
    BY DEF Holding, Executing, Rendering, Ending
  <2> QED
    BY <1>1, <1>3, <2>1 DEF Step
<1>4. ASSUME NEW outcome, Render(p, j, outcome) PROVE CoverInv'
  BY <1>3, <1>4 DEF Render, Rendering, Ending
<1>5. CASE CheckRendered(p, j) \/ BeginArtifact(p, j) \/ EndArtifact(p, j)
  BY <1>3, <1>5 DEF CheckRendered, BeginArtifact, EndArtifact, Rendering, Ending
<1>6. CASE SkipArtifact(p, j) \/ CheckPersisted(p, j)
  BY <1>3, <1>6 DEF SkipArtifact, CheckPersisted, Rendering, Ending
<1>7. CASE StartRun(p, j)
  <2>1. /\ phase[p][j] = "picked" /\ cancelling = {} /\ phase[p][j] # "idle"
        /\ phase[p][j] \notin Rendering \cup Ending
        /\ UNCHANGED <<life, pending, signal, cancelling, failures>>
    BY <1>7 DEF StartRun, MutationFree, Rendering, Ending
  <2>2. failures = 0 =>
          /\ row[j].status # "absent" /\ row[j].status # "running"
          /\ \A q \in Proc \ {p} : phase[q][j] # "leaving"
          /\ j \in signal[p] => row[j].status \in Terminal
    BY <2>1, InHand DEF Covered, CoverSignal
  <2>3. CASE row[j].status = "queued" /\ j \notin signal[p]
    <3>1. SetStatus(j, "running") /\ Goto(p, j, "running")
      BY <1>7, <2>3 DEF StartRun
    <3>2. row'[j].status = "running" /\ \A i \in Job \ {j} : row'[i].status = row[i].status
      BY <3>1, StatusAt DEF TypeOK
    <3>3. "running" \in Holding /\ "running" \in Rendering \cup Ending
          /\ row[j].status \notin Terminal
      BY <2>3 DEF Holding, Executing, Rendering, Terminal
    <3> QED
      BY <2>1, <2>2, <3>1, <3>2, <3>3, CoverMoves
  <2>4. CASE ~(row[j].status = "queued" /\ j \notin signal[p])
    <3>1. Goto(p, j, "leaving") /\ row' = row /\ "leaving" \in Holding
      BY <1>7, <2>4 DEF StartRun, Holding, Executing
    <3>2. failures = 0 => row[j].status \in Terminal
      BY <2>2, <2>4 DEF TypeOK, Row, Status, Open
    <3> QED
      BY <2>1, <2>2, <3>1, <3>2, CoverMoves
  <2> QED
    BY <2>3, <2>4
<1>8. CASE Finish(p, j)
  <2>1. /\ Goto(p, j, "leaving") /\ "leaving" \in Holding /\ phase[p][j] # "idle"
        /\ UNCHANGED <<life, pending, signal, cancelling, failures>>
    BY <1>8 DEF Finish, Holding, Executing, Ending
  <2>2. row'[j] = Outcome(p, j) /\ \A i \in Job \ {j} : row'[i].status = row[i].status
    BY <1>8, RowAt DEF Finish, TypeOK
  <2>3. row'[j].status \in Terminal
    BY <2>2 DEF Outcome, Succeeded, TypeOK, Row, Terminal
  <2>4. failures = 0 => \A q \in Proc \ {p} : phase[q][j] # "leaving"
    BY <2>1, InHand
  <2> QED
    BY <2>1, <2>2, <2>3, <2>4, CoverMoves DEF Terminal
<1>9. CASE Leave(p, j)
  <2>1. /\ phase[p][j] = "leaving" /\ Release(p, j)
        /\ UNCHANGED <<row, life, pending, cancelling, failures>>
    BY <1>9 DEF Leave
  <2>2. /\ \A q \in Proc, i \in Job : i \in signal'[q] => i \in signal[q]
        /\ \A q \in Proc, i \in Job \ {j} : i \in signal[q] => i \in signal'[q]
    BY <1>9 DEF Leave, TypeOK
  <2>3. failures = 0 => row[j].status \in Terminal
    BY <2>1 DEF CoverInv, Covered, CoverPhase
  <2>4. Open \cap Terminal = {}
    BY DEF Open, Terminal
  <2> QED
    BY <2>1, <2>2, <2>3, <2>4, CoverReleases
<1> QED
  BY <1>2, <1>4, <1>5, <1>6, <1>7, <1>8, <1>9 DEF Worker

LEMMA FailureCovers ==
  ASSUME TypeOK, CoverInv, NEW p \in Proc,
         (\E j \in Job : Failure(p, j)) \/ Crash(p)
  PROVE  CoverInv'
<1>1. CASE \E j \in Job : CancelFault(p, j) \/ StartFault(p, j)
  BY <1>1 DEF CancelFault, StartFault, Fails, TypeOK, CoverInv
<1>2. CASE \E j \in Job : \/ \E m \in Mode : ClaimUnavailable(p, j, m)
                          \/ PoolClosedFault(p, j)
  <2>1. Fails /\ cancelling' = cancelling
    BY <1>2 DEF ClaimUnavailable, PoolClosedFault
  <2> QED
    BY <2>1 DEF Fails, TypeOK, CoverInv
<1>3. CASE \E j \in Job : WorkerFault(p, j)
  BY <1>3 DEF WorkerFault, Step, Fails, TypeOK, CoverInv
<1>4. CASE Crash(p)
  BY <1>4 DEF Crash, Fails, TypeOK, CoverInv
<1> QED
  BY <1>1, <1>2, <1>3, <1>4 DEF Failure

LEMMA ProcessCovers ==
  ASSUME TypeOK, CoverInv, NEW p \in Proc, Process(p) \/ ClosePool(p)
  PROVE  CoverInv'
<1>1. UNCHANGED <<row, phase, cancelling, failures>>
  BY DEF Process, Start, StartDone, Exit, ClosePool, durable
<1>2. \A q \in Proc, i \in Job : i \in signal'[q] => i \in signal[q]
  BY DEF Process, Start, StartDone, Exit, ClosePool, TypeOK
<1>3. ASSUME failures = 0, NEW i \in Job PROVE CoverPhase(i)' /\ CoverSignal(i)'
  BY <1>1, <1>2, <1>3 DEF CoverInv, Covered, CoverPhase, CoverSignal
<1>4. ASSUME failures = 0, NEW i \in Job, Start(p) PROVE CoverOpen(i)'
  <2>1. CoverOpen(i)
    BY <1>4 DEF CoverInv, Covered
  <2>2. \A q \in Proc \ {p} : pending'[q] = pending[q]
    BY <1>4 DEF Start, TypeOK
  <2>3. \A m \in Mode : <<i, m>> \in pending'[p] => row[i].status \in Open
    BY <1>4 DEF Start, TypeOK, Candidates
  <2>4. row[i].status \in Open => <<i, "recover">> \in pending'[p]
    BY <1>4 DEF Start, TypeOK, Candidates
  <2>5. "absent" \notin Open /\ "recover" \in Mode
    BY DEF Open, Mode
  <2> QED
    BY <1>1, <2>1, <2>2, <2>3, <2>4, <2>5 DEF CoverOpen, Waiting
<1>5. ASSUME failures = 0, NEW i \in Job, StartDone(p) \/ Exit(p) \/ ClosePool(p)
      PROVE  CoverOpen(i)'
  <2>1. pending' = pending /\ \A q \in Proc : ~PoolOpen(q) => ~PoolOpen(q)'
    BY <1>5 DEF StartDone, Exit, ClosePool, PoolOpen, TypeOK
  <2> QED
    BY <1>1, <1>5, <2>1 DEF CoverInv, Covered, CoverOpen, Waiting
<1> QED
  BY <1>1, <1>3, <1>4, <1>5 DEF CoverInv, Covered, Process

LEMMA CoverInvStep == IInv /\ CoverInv /\ [Next]_vars => CoverInv'
<1> SUFFICES ASSUME IInv, CoverInv, [Next]_vars PROVE CoverInv'
  OBVIOUS
<1>1. TypeOK
  BY DEF IInv
<1>2. ASSUME (\E j \in Job : AgeOut(j)) \/ UNCHANGED vars PROVE CoverInv'
  <2>1. UNCHANGED <<life, pending, phase, signal, cancelling, failures>>
    BY <1>2 DEF AgeOut, vars, local
  <2>2. \A i \in Job : row'[i].status = row[i].status
    <3>1. ASSUME NEW j \in Job, AgeOut(j), NEW i \in Job PROVE row'[i].status = row[i].status
      <4>1. row' = [row EXCEPT ![j] = [row[j] EXCEPT !.fresh = FALSE]]
        BY <3>1 DEF AgeOut
      <4>2. [row[j] EXCEPT !.fresh = FALSE].status = row[j].status
        BY <1>1 DEF TypeOK, Row
      <4> QED
        BY <1>1, <4>1, <4>2 DEF TypeOK
    <3> QED
      BY <1>2, <3>1 DEF vars
  <2> QED
    BY <2>1, <2>2, CoverStays
<1> QED
  BY <1>1, <1>2, RequestCovers, CommitCovers, SubmissionCovers, WorkerCovers, FailureCovers,
     ProcessCovers DEF Next

\* While nothing failed and every pool is open, each open job has a thread that
\* will run it, for any number of processes that create, race and restart.
THEOREM NobodyStranded == Spec => []NothingStranded
<1>1. Init => CoverInv
  BY DEF Init, CoverInv, Covered, CoverPhase, CoverSignal, CoverOpen, Waiting, Absent, Open
<1>2. IInv /\ CoverInv /\ [Next]_vars => CoverInv'
  BY CoverInvStep
<1>3. CoverInv => NothingStranded
  BY DEF CoverInv, Covered, CoverOpen, NothingStranded, Attended, Waiting, MutationFree
<1> QED
  BY <1>1, <1>2, <1>3, Invariance, PTL DEF Spec
=============================================================================

------------------------- MODULE GenerationJobProofs -------------------------
(***************************************************************************)
(* Proofs about GenerationJob for any number of managers and jobs.         *)
(***************************************************************************)
EXTENDS GenerationJobProps, TLAPS

\* Changing the status of a typed object gives a typed object.
LEMMA StatusTyped ==
  ASSUME NEW o \in Object, NEW s \in Status
  PROVE  [o EXCEPT !.status = s] \in Object
BY DEF Object

\* What is stored of an object is typed, and what it says.
LEMMA SavedTyped ==
  ASSUME NEW o \in Object, NEW j
  PROVE  /\ Saved(j, o) \in Object
         /\ Saved(j, o).hook = o.hook
         /\ Saved(j, o).status = Public(j, o)
<1>1. Public(j, o) \in Status
  BY DEF Public, Object, Status, Executing
<1> QED
  BY <1>1 DEF Saved, Object

\* Saving a typed object keeps the records typed.
LEMMA SaveTyped ==
  ASSUME rec \in [Job -> Object], faults \in Nat,
         NEW j \in Job, NEW o \in Object, TrySave(j, o)
  PROVE  rec' \in [Job -> Object] /\ faults' \in Nat
<1>1. Saved(j, o) \in Object
  BY SavedTyped
<1> QED
  BY <1>1 DEF TrySave, Save, SaveRaises

\* Keeping a typed object keeps the memories typed.
LEMMA KeepTyped ==
  ASSUME mem \in [Mgr -> [Job -> Object]],
         NEW m \in Mgr, NEW j \in Job, NEW o \in Object, Keep(m, j, o)
  PROVE  mem' \in [Mgr -> [Job -> Object]]
BY DEF Keep

\* What the hook leaves behind is typed.
LEMMA CallTyped ==
  ASSUME calls \in [Job -> Nat], settled \subseteq Job,
         NEW j \in Job, NEW o, CallHook(j, o)
  PROVE  calls' \in [Job -> Nat] /\ settled' \subseteq Job
BY DEF CallHook

\* Cancelling keeps records and memories typed.
LEMMA CancelTyped ==
  ASSUME TypeOK, NEW m \in Mgr, NEW j \in Job, CancelExecution(m, j)
  PROVE  /\ rec' \in [Job -> Object] /\ faults' \in Nat
         /\ mem' \in [Mgr -> [Job -> Object]]
<1>1. CASE IsTerminal(m, j)
  BY <1>1 DEF CancelExecution, TypeOK
<1>2. CASE ~IsTerminal(m, j)
  <2> DEFINE o == WithStatus(m, j, "CANCELLED")
  <2>1. o \in Object
    <3>1. mem[m][j] \in Object /\ "CANCELLED" \in Status
      BY DEF TypeOK, Status, Terminal
    <3> QED
      BY <3>1, StatusTyped DEF WithStatus
  <2>2. Keep(m, j, o) /\ TrySave(j, o)
    BY <1>2 DEF CancelExecution
  <2> HIDE DEF o
  <2> QED
    BY <2>1, <2>2, SaveTyped, KeepTyped DEF TypeOK
<1> QED
  BY <1>1, <1>2

\* A thread that goes on keeps the workers typed.
LEMMA ToTyped ==
  ASSUME worker \in [Job -> Pc], NEW j \in Job, NEW pc \in Pc, To(j, pc)
  PROVE  worker' \in [Job -> Pc]
BY DEF To

\* The new hook and status of an object give a typed object.
LEMMA HookTyped ==
  ASSUME NEW o \in Object, NEW h \in Hook, NEW s \in Status, NEW b \in BOOLEAN
  PROVE  [o EXCEPT !.hook = h, !.unsure = b, !.status = s] \in Object
BY DEF Object

\* A receipt that was not saved leaves a typed object.
LEMMA UnreceiptedTyped ==
  ASSUME NEW o \in Object
  PROVE  /\ Unreceipted(o) \in Object
         /\ Unreceipted(o).hook = "reconcile"
         /\ Unreceipted(o).status = IF o.status \in {"COMPLETED", "SETTLING"}
                                    THEN "FAILED" ELSE o.status
BY DEF Unreceipted, Object, Hook, Status, Terminal

\* Recovery makes a typed object.
LEMMA RestoredTyped ==
  ASSUME NEW r \in Object
  PROVE  Restored(r) \in Object
BY DEF Restored, Object, Hook, Status, Terminal

\* Reading the record again makes a typed object.
LEMMA RefreshTyped ==
  ASSUME TypeOK, NEW m \in Mgr, NEW j \in Job
  PROVE  /\ Refresh(m, j) \in Object
         /\ rec[j].status # "none" =>
              /\ Refresh(m, j).status = rec[j].status
              /\ Refresh(m, j).hook =
                   IF rec[j].hook = "none" THEN mem[m][j].hook ELSE rec[j].hook
         /\ rec[j].status = "none" => Refresh(m, j) = mem[m][j]
<1>1. rec[j] \in Object /\ mem[m][j] \in Object
  BY DEF TypeOK
<1> QED
  BY <1>1 DEF Refresh, Object

\* A thread that is somewhere has a manager.
LEMMA AtHome ==
  ASSUME TypeOK, NEW j \in Job, Threads(j), worker[j] # "none"
  PROVE  home[j] \in Mgr /\ home[j] # None /\ Here(j) \in Object
BY GenerationOK DEF TypeOK, Threads, Here

\* The steps of a thread keep the types.
LEMMA WorkerTyped ==
  ASSUME Core, NEW j \in Job, Worker(j)
  PROVE  TypeOK'
<1> USE DEF Core, JobInv, Elsewhere, Calm, Pc, Publishing, kinds
<1>0. worker[j] # "none"
  BY DEF Worker, At, ThreadFails, Stop, BeginRun, Refuse, SaveSnapshot, Dispatch, RunFails, Delta, CompleteStream, BeginPublication, Settle, SaveSettlement, Publish, RefusePublication, Withdraw, Fail, LateHook, Finish
<1>1. TypeOK /\ home[j] \in Mgr /\ Here(j) \in Object
  BY <1>0, AtHome
<1>2. ASSUME NEW s \in Status
      PROVE  WithStatus(home[j], j, s) \in Object
  BY <1>1, StatusTyped DEF WithStatus, Here
<1>3. {"QUEUED", "GENERATING", "SETTLING", "COMPLETED", "FAILED", "CANCELLED"} \subseteq Status
  BY DEF Status, Terminal, Executing
<1>4. <<"worker", home[j]>> \in Holder /\ None \in Holder
  BY <1>1 DEF Holder, Claim
<1>5. ASSUME NEW o \in Object, Keep(home[j], j, o)
      PROVE  mem' \in [Mgr -> [Job -> Object]]
  BY <1>1, <1>5, KeepTyped DEF TypeOK
<1>6. ASSUME NEW o \in Object, TrySave(j, o)
      PROVE  rec' \in [Job -> Object] /\ faults' \in Nat
  BY <1>1, <1>6, SaveTyped DEF TypeOK
<1>7. ASSUME NEW o \in Object, Save(j, o) \/ SaveRaises
      PROVE  TrySave(j, o)
  BY <1>7 DEF TrySave
<1>8. ASSUME NEW pc \in Pc, To(j, pc)
      PROVE  worker' \in [Job -> Pc]
  BY <1>1, <1>8, ToTyped DEF TypeOK
<1>9. ASSUME ThreadFails(j) PROVE TypeOK'
  BY <1>1, <1>2, <1>3, <1>5, <1>8, <1>9 DEF ThreadFails, TypeOK
<1>10. ASSUME Stop(j) PROVE TypeOK'
  <2>1. rec' \in [Job -> Object] /\ faults' \in Nat /\ mem' \in [Mgr -> [Job -> Object]]
    BY <1>1, <1>10, CancelTyped DEF Stop
  <2> QED
    BY <1>1, <1>8, <1>10, <2>1 DEF Stop, TypeOK
<1>11. ASSUME BeginRun(j) PROVE TypeOK'
  BY <1>1, <1>2, <1>3, <1>5, <1>6, <1>7, <1>8, <1>11 DEF BeginRun, TypeOK
<1>12. ASSUME Refuse(j) PROVE TypeOK'
  BY <1>1, <1>8, <1>12 DEF Refuse, TypeOK
<1>13. ASSUME SaveSnapshot(j) PROVE TypeOK'
  BY <1>1, <1>6, <1>7, <1>8, <1>13 DEF SaveSnapshot, TypeOK
<1>14. ASSUME Dispatch(j) PROVE TypeOK'
  BY <1>1, <1>8, <1>14 DEF Dispatch, TypeOK
<1>15. ASSUME RunFails(j) PROVE TypeOK'
  BY <1>1, <1>8, <1>15 DEF RunFails, TypeOK
<1>16. ASSUME Delta(j) PROVE TypeOK'
  BY <1>1, <1>6, <1>7, <1>8, <1>16 DEF Delta, TypeOK
<1>17. ASSUME CompleteStream(j) PROVE TypeOK'
  BY <1>1, <1>8, <1>17 DEF CompleteStream, TypeOK
<1>18. ASSUME BeginPublication(j) PROVE TypeOK'
  <2>1. WithStatus(home[j], j, Interim(j)) \in Object
    BY <1>2, <1>3 DEF Interim
  <2>2. rec' \in [Job -> Object] /\ faults' \in Nat
    BY <1>1, <1>6, <1>7, <1>18, <2>1 DEF BeginPublication, TypeOK
  <2> QED
    BY <1>1, <1>4, <1>5, <1>8, <1>18, <2>1, <2>2 DEF BeginPublication, TypeOK
<1>19. ASSUME Settle(j) PROVE TypeOK'
  <2>1. PICK o \in Object : /\ CallHook(j, o)
                            /\ Keep(home[j], j, o) \/ Keep(home[j], j, [o EXCEPT !.status = "FAILED"])
                            /\ refused' \in {refused, refused \cup {j}}
    BY <1>19 DEF Settle
  <2>2. [o EXCEPT !.status = "FAILED"] \in Object
    BY <1>3, StatusTyped
  <2>3. calls' \in [Job -> Nat] /\ settled' \subseteq Job
    BY <1>1, <2>1, CallTyped DEF TypeOK
  <2> QED
    BY <1>1, <1>5, <1>8, <1>19, <2>1, <2>2, <2>3 DEF Settle, TypeOK
<1>20. ASSUME SaveSettlement(j) PROVE TypeOK'
  <2>1. Unreceipted(Here(j)) \in Object
    BY <1>1, UnreceiptedTyped
  <2>2. rec' \in [Job -> Object] /\ faults' \in Nat
    BY <1>1, <1>6, <1>7, <1>20 DEF SaveSettlement
  <2> QED
    BY <1>1, <1>5, <1>8, <1>20, <2>1, <2>2 DEF SaveSettlement, TypeOK
<1>21. ASSUME Publish(j) PROVE TypeOK'
  <2>1. Verdict(j) \in Status
    BY <1>1, <1>3 DEF Verdict, Object
  <2> QED
    BY <1>1, <1>2, <1>4, <1>5, <1>6, <1>7, <1>8, <1>21, <2>1 DEF Publish, TypeOK
<1>22. ASSUME RefusePublication(j) PROVE TypeOK'
  BY <1>1, <1>2, <1>3, <1>4, <1>5, <1>6, <1>8, <1>22 DEF RefusePublication, TypeOK
<1>23. ASSUME Withdraw(j) PROVE TypeOK'
  <2>1. [Here(j) EXCEPT !.status = "FAILED", !.unsure = TRUE] \in Object
    BY <1>1, <1>3 DEF Object
  <2> QED
    BY <1>1, <1>4, <1>5, <1>6, <1>8, <1>23, <2>1 DEF Withdraw, TypeOK
<1>24. ASSUME Fail(j) PROVE TypeOK'
  <2>1. rec' \in [Job -> Object] /\ faults' \in Nat /\ mem' \in [Mgr -> [Job -> Object]]
    BY <1>1, <1>2, <1>3, <1>5, <1>6, <1>24, CancelTyped DEF Fail, TypeOK
  <2> QED
    BY <1>1, <1>8, <1>24, <2>1 DEF Fail, TypeOK
<1>25. ASSUME LateHook(j) PROVE TypeOK'
  <2>1. PICK o \in Object :
          /\ CallHook(j, o)
          /\ \/ Save(j, o) /\ Keep(home[j], j, o)
             \/ SaveRaises /\ Keep(home[j], j, Unreceipted(o))
    BY <1>25 DEF LateHook
  <2>2. Unreceipted(o) \in Object
    BY UnreceiptedTyped
  <2>3. calls' \in [Job -> Nat] /\ settled' \subseteq Job
    BY <1>1, <2>1, CallTyped DEF TypeOK
  <2>4. rec' \in [Job -> Object] /\ faults' \in Nat
    BY <1>6, <1>7, <2>1
  <2> QED
    BY <1>1, <1>5, <1>8, <1>25, <2>1, <2>2, <2>3, <2>4 DEF LateHook, TypeOK
<1>26. ASSUME Finish(j) PROVE TypeOK'
  <2>1. rec' \in [Job -> Object] /\ faults' \in Nat
    BY <1>1, <1>6, <1>26 DEF Finish, TypeOK
  <2> QED
    BY <1>1, <1>8, <1>26, <2>1 DEF Finish, TypeOK
<1> QED
  BY <1>9, <1>10, <1>11, <1>12, <1>13, <1>14, <1>15, <1>16, <1>17, <1>18, <1>19, <1>20, <1>21, <1>22, <1>23, <1>24, <1>25, <1>26 DEF Worker

\* Every action keeps the types.
LEMMA TypeStep == Core /\ [Next]_vars => TypeOK'
<1> SUFFICES ASSUME Core, [Next]_vars PROVE TypeOK'
  OBVIOUS
<1> USE DEF objects, threads, kinds, grants, effects
<1>1. TypeOK /\ NoObject \in Object
  BY DEF Core, NoObject, Object, Status, Hook
<1>2. {"QUEUED", "ACCEPTING", "ACCEPTED", "ACCEPTANCE_UNCERTAIN", "REJECTED"} \subseteq Status
  BY DEF Status, Terminal, Executing, Decided
<1>3. ASSUME NEW m \in Mgr, NEW j \in Job, NEW s \in Status
      PROVE  WithStatus(m, j, s) \in Object
  BY <1>1, StatusTyped DEF WithStatus, TypeOK
<1>4. ASSUME NEW j \in Job, NEW o \in Object, Save(j, o) \/ SaveRaises
      PROVE  rec' \in [Job -> Object] /\ faults' \in Nat
  BY <1>1, <1>4, SaveTyped DEF TrySave, TypeOK
<1>5. ASSUME NEW m \in Mgr, NEW j \in Job, NEW o \in Object, Keep(m, j, o)
      PROVE  mem' \in [Mgr -> [Job -> Object]]
  BY <1>1, <1>5, KeepTyped DEF TypeOK
<1>6. ASSUME NEW m \in Mgr
      PROVE  /\ None \in Holder /\ <<"accept", m>> \in Holder
             /\ <<"written", m>> \in Holder /\ <<"accepted", m>> \in Holder
             /\ <<"recover", m>> \in Holder
  BY DEF Holder, Claim
<1>7. ASSUME NEW j \in Job, Worker(j) PROVE TypeOK'
  BY <1>7, WorkerTyped
<1>8. ASSUME NEW j \in Job, ChangeAuth(j) PROVE TypeOK'
  BY <1>1, <1>8 DEF ChangeAuth, TypeOK
<1>9. ASSUME NEW m \in Mgr, NEW j \in Job, StartPrepared(m, j) PROVE TypeOK'
  <2> DEFINE o == [NoObject EXCEPT !.status = "QUEUED"]
  <2>1. o \in Object
    BY <1>1, <1>2, StatusTyped
  <2>2. Keep(m, j, o) /\ Save(j, o)
    BY <1>9 DEF StartPrepared
  <2> HIDE DEF o
  <2>3. /\ rec' \in [Job -> Object] /\ faults' \in Nat
        /\ mem' \in [Mgr -> [Job -> Object]]
    BY <1>4, <1>5, <2>1, <2>2
  <2> QED
    BY <1>1, <1>9, <2>3 DEF StartPrepared, TypeOK, Pc
<1>10. ASSUME NEW m \in Mgr, NEW j \in Job, SignalCancel(m, j) PROVE TypeOK'
  BY <1>1, <1>10 DEF SignalCancel, TypeOK
<1>11. ASSUME NEW m \in Mgr, NEW j \in Job, CommitCancel(m, j) PROVE TypeOK'
  BY <1>1, <1>11, CancelTyped DEF CommitCancel, TypeOK
<1>12. ASSUME NEW m \in Mgr, NEW j \in Job, RefuseAccept(m, j) PROVE TypeOK'
  <2>1. Refresh(m, j) \in Object
    BY <1>1, RefreshTyped
  <2> QED
    BY <1>1, <1>5, <1>12, <2>1 DEF RefuseAccept, TypeOK
<1>13. ASSUME NEW m \in Mgr, NEW j \in Job, Accept(m, j) PROVE TypeOK'
  <2>1. [Refresh(m, j) EXCEPT !.status = "ACCEPTING"] \in Object
    BY <1>1, <1>2, RefreshTyped, StatusTyped
  <2>2. /\ rec' \in [Job -> Object] /\ faults' \in Nat
        /\ mem' \in [Mgr -> [Job -> Object]]
    BY <1>4, <1>5, <1>13, <2>1 DEF Accept
  <2> QED
    BY <1>1, <1>6, <1>13, <2>2 DEF Accept, TypeOK
<1>14. ASSUME NEW m \in Mgr, NEW j \in Job, WriteChapter(m, j) PROVE TypeOK'
  <2>1. holder' \in [Job -> Holder]
    BY <1>1, <1>6, <1>14 DEF WriteChapter, TypeOK
  <2>2. writes' \in [Job -> Nat]
    BY <1>1, <1>14 DEF WriteChapter, TypeOK
  <2> QED
    BY <1>1, <1>14, <2>1, <2>2 DEF WriteChapter, TypeOK
<1>15. ASSUME NEW m \in Mgr, NEW j \in Job, Accepted(m, j) PROVE TypeOK'
  <2>1. WithStatus(m, j, "ACCEPTED") \in Object
    BY <1>2, <1>3
  <2>2. /\ rec' \in [Job -> Object] /\ faults' \in Nat
        /\ mem' \in [Mgr -> [Job -> Object]]
    BY <1>4, <1>5, <1>15, <2>1 DEF Accepted, Concludes
  <2> QED
    BY <1>1, <1>6, <1>15, <2>2 DEF Accepted, Concludes, TypeOK
<1>16. ASSUME NEW m \in Mgr, NEW j \in Job, AcceptanceFails(m, j) PROVE TypeOK'
  <2>1. WithStatus(m, j, "ACCEPTANCE_UNCERTAIN") \in Object
    BY <1>2, <1>3
  <2>2. /\ rec' \in [Job -> Object] /\ faults' \in Nat
        /\ mem' \in [Mgr -> [Job -> Object]]
    BY <1>4, <1>5, <1>16, <2>1 DEF AcceptanceFails, Concludes, TrySave
  <2> QED
    BY <1>1, <1>6, <1>16, <2>2 DEF AcceptanceFails, Concludes, TypeOK
<1>24. ASSUME NEW m \in Mgr, NEW j \in Job, AnswerAccept(m, j) PROVE TypeOK'
  BY <1>1, <1>6, <1>24 DEF AnswerAccept, TypeOK
<1>17. ASSUME NEW m \in Mgr, NEW j \in Job, Reject(m, j) PROVE TypeOK'
  <2>1. WithStatus(m, j, "REJECTED") \in Object
    BY <1>2, <1>3
  <2>2. /\ rec' \in [Job -> Object] /\ faults' \in Nat
        /\ mem' \in [Mgr -> [Job -> Object]]
    BY <1>4, <1>5, <1>17, <2>1 DEF Reject, TrySave
  <2> QED
    BY <1>1, <1>17, <2>2 DEF Reject, TypeOK
<1>18. ASSUME NEW m \in Mgr, Boot(m) PROVE TypeOK'
  BY <1>1, <1>18 DEF Boot, TypeOK
<1>19. ASSUME NEW m \in Mgr, NEW j \in Job, RecoverRead(m, j) PROVE TypeOK'
  <2>1. Restored(rec[j]) \in Object
    BY <1>1, RestoredTyped DEF TypeOK
  <2>2. mem' \in [Mgr -> [Job -> Object]]
    BY <1>5, <1>19, <2>1 DEF RecoverRead
  <2>3. holder' \in [Job -> Holder]
    BY <1>1, <1>6, <1>19 DEF RecoverRead, TypeOK
  <2>4. todo' \in [Mgr -> SUBSET Job]
    BY <1>1, <1>19 DEF RecoverRead, TypeOK
  <2> QED
    BY <1>1, <1>19, <2>2, <2>3, <2>4 DEF RecoverRead, TypeOK
<1>20. ASSUME NEW m \in Mgr, NEW j \in Job, RecoverWrite(m, j) PROVE TypeOK'
  <2>1. mem[m][j] \in Object
    BY <1>1 DEF TypeOK
  <2>2. rec' \in [Job -> Object] /\ faults' \in Nat
    BY <1>4, <1>20, <2>1 DEF RecoverWrite
  <2> QED
    BY <1>1, <1>6, <1>20, <2>2 DEF RecoverWrite, TypeOK
<1>21. ASSUME NEW m \in Mgr, BootDone(m) PROVE TypeOK'
  BY <1>1, <1>21 DEF BootDone, TypeOK
<1>22. ASSUME NEW m \in Mgr, Exit(m) PROVE TypeOK'
  BY <1>1, <1>6, <1>22 DEF Exit, TypeOK, Pc
<1>23. CASE UNCHANGED vars
  BY <1>1, <1>23 DEF vars, TypeOK
<1> QED
  BY <1>7, <1>8, <1>9, <1>10, <1>11, <1>12, <1>13, <1>14, <1>15, <1>16, <1>24, <1>17, <1>18, <1>19, <1>20, <1>21, <1>22, <1>23 DEF Next, Review, Recovery

-----------------------------------------------------------------------------
\* A step leaves everything the invariant says of a job as it is.
SameJob(i) ==
  /\ rec'[i] = rec[i] /\ \A m \in Mgr : mem'[m][i] = mem[m][i]
  /\ home'[i] = home[i] /\ worker'[i] = worker[i] /\ holder'[i] = holder[i]
  /\ calls'[i] = calls[i] /\ writes'[i] = writes[i]
  /\ i \in hooked' <=> i \in hooked
  /\ i \in guarded' <=> i \in guarded
  /\ i \in settled' <=> i \in settled
  /\ i \in refused' <=> i \in refused
  /\ \A m \in Mgr : life[m] # "down" => life'[m] = life[m]
  /\ \A m \in Mgr : holder[i] = <<"recover", m>> /\ i \in todo[m] => i \in todo'[m]
  /\ \A m \in Mgr : <<m, i>> \in cancelling' => <<m, i>> \in cancelling

\* Then the invariant of the job holds after it.
LEMMA SameJobKeeps ==
  ASSUME TypeOK, NEW i \in Job, JobInv(i), SameJob(i)
  PROVE  JobInv(i)'
<1>1. home[i] \in Mgr \cup {None} /\ home'[i] = home[i]
  BY DEF TypeOK, SameJob
<1>2. /\ home[i] # None => Here(i)' = Here(i)
      /\ Late(i)' <=> Late(i)
      /\ Called(i)' <=> Called(i)
  BY <1>1 DEF SameJob, Here, Late, Called
<1>3. Threads(i)'
  BY <1>1, <1>2 DEF JobInv, Threads, SameJob
<1>4. Hooks(i)'
  BY <1>1, <1>2 DEF JobInv, Threads, Hooks, SameJob
<1>5. Drafts(i)'
  BY <1>1, <1>2 DEF JobInv, Threads, Drafts, SameJob, Publishing
<1>6. Settlements(i)'
  BY <1>1, <1>2 DEF JobInv, Threads, Settlements, SameJob
<1>7. Claims(i)'
  BY <1>1, <1>2 DEF JobInv, Claims, SameJob
<1>8. Manuscript(i)'
  BY DEF JobInv, Manuscript, SameJob
<1>9. Refusals(i)'
  BY <1>1 DEF JobInv, Refusals, SameJob
<1> QED
  BY <1>3, <1>4, <1>5, <1>6, <1>7, <1>8, <1>9 DEF JobInv

\* A step of a thread does not touch the other jobs.
LEMMA WorkerElsewhere ==
  ASSUME Core, NEW j \in Job, Worker(j), NEW i \in Job, i # j
  PROVE  SameJob(i)
<1>1. worker[j] # "none"
  BY DEF Worker, At, ThreadFails, Stop, BeginRun, Refuse, SaveSnapshot, Dispatch, RunFails, Delta, CompleteStream, BeginPublication, Settle, SaveSettlement, Publish, RefusePublication, Withdraw, Fail, LateHook, Finish
<1>2. TypeOK /\ home[j] \in Mgr
  BY <1>1, AtHome DEF Core, JobInv
<1>3. rec'[i] = rec[i]
  BY <1>2 DEF Worker, ThreadFails, Stop, BeginRun, Refuse, SaveSnapshot, Dispatch, RunFails, Delta, CompleteStream, BeginPublication, Settle, SaveSettlement, Publish, RefusePublication, Withdraw, Fail, LateHook, Finish, Calm, CancelExecution, TrySave, Save, SaveRaises, TypeOK
<1>4. \A m \in Mgr : mem'[m][i] = mem[m][i]
  BY <1>2 DEF Worker, ThreadFails, Stop, BeginRun, Refuse, SaveSnapshot, Dispatch, RunFails, Delta, CompleteStream, BeginPublication, Settle, SaveSettlement, Publish, RefusePublication, Withdraw, Fail, LateHook, Finish, Calm, CancelExecution, Keep, TypeOK
<1>5. worker'[i] = worker[i]
  BY <1>2 DEF Worker, ThreadFails, Stop, BeginRun, Refuse, SaveSnapshot, Dispatch, RunFails, Delta, CompleteStream, BeginPublication, Settle, SaveSettlement, Publish, RefusePublication, Withdraw, Fail, LateHook, Finish, To, TypeOK
<1>6. holder'[i] = holder[i]
  BY <1>2 DEF Worker, ThreadFails, Stop, BeginRun, Refuse, SaveSnapshot, Dispatch, RunFails, Delta, CompleteStream, BeginPublication, Settle, SaveSettlement, Publish, RefusePublication, Withdraw, Fail, LateHook, Finish, TypeOK
<1>7. calls'[i] = calls[i] /\ (i \in settled' <=> i \in settled)
  BY <1>2 DEF Worker, ThreadFails, Stop, BeginRun, Refuse, SaveSnapshot, Dispatch, RunFails, Delta, CompleteStream, BeginPublication, Settle, SaveSettlement, Publish, RefusePublication, Withdraw, Fail, LateHook, Finish, CallHook, TypeOK
<1>8. i \in refused' <=> i \in refused
  BY <1>2 DEF Worker, ThreadFails, Stop, BeginRun, Refuse, SaveSnapshot, Dispatch, RunFails, Delta, CompleteStream, BeginPublication, Settle, SaveSettlement, Publish, RefusePublication, Withdraw, Fail, LateHook, Finish
<1>9. Elsewhere
  BY DEF Worker, ThreadFails, Stop, BeginRun, Refuse, SaveSnapshot, Dispatch, RunFails, Delta, CompleteStream, BeginPublication, Settle, SaveSettlement, Publish, RefusePublication, Withdraw, Fail, LateHook, Finish
<1> QED
  BY <1>3, <1>4, <1>5, <1>6, <1>7, <1>8, <1>9 DEF SameJob, Elsewhere, kinds

\* What keeping and saving an object change of the job itself.
LEMMA KeepAt ==
  ASSUME mem \in [Mgr -> [Job -> Object]],
         NEW m \in Mgr, NEW j \in Job, NEW o, Keep(m, j, o)
  PROVE  /\ mem'[m][j] = o
         /\ \A n \in Mgr : n # m => mem'[n][j] = mem[n][j]
         /\ \A n \in Mgr, i \in Job : i # j => mem'[n][i] = mem[n][i]
BY DEF Keep

\* What is stored has the hook of the object, and its status unless that is a
\* completion whose hook is open.
LEMMA SaveAt ==
  ASSUME rec \in [Job -> Object], NEW j \in Job, NEW o \in Object, Save(j, o)
  PROVE  /\ rec'[j].hook = o.hook
         /\ rec'[j].status = Public(j, o)
         /\ \A i \in Job : i # j => rec'[i] = rec[i]
BY SavedTyped DEF Save

Early == {"start", "preflight", "streaming", "completed", "failing"}

\* A step of the thread before its publication leaves an object that is no draft,
\* and may save it.
LEMMA EarlyKeeps ==
  ASSUME TypeOK, TypeOK', NEW j \in Job, JobInv(j), worker[j] \in Early,
         NEW o \in Object, o.hook = Here(j).hook,
         o.status \notin Reviewable \cup {"none"},
         j \notin hooked => o.status # "SETTLING",
         mem'[home[j]][j] = o,
         \A m \in Mgr : m # home[j] => mem'[m][j] = mem[m][j],
         rec'[j] = rec[j] \/ (rec'[j].hook = o.hook /\ rec'[j].status = o.status),
         worker'[j] \in Early \cup {"finishing", "unstarted"},
         UNCHANGED <<life, todo, home, kinds, cancelling, calls, settled,
                     writes, holder>>,
         j \in refused' => worker'[j] = "failing" \/ (j \in refused /\ worker'[j] = "finishing"),
         j \in refused' \ refused => j \in guarded
  PROVE  JobInv(j)'
<1> USE DEF Early
<1>1. home[j] \in Mgr \ {None} /\ Here(j)' = o /\ mem[home[j]][j] = Here(j)
  BY AtHome DEF JobInv, Here
<1>2. /\ ~Late(j) /\ worker[j] \notin Publishing
      /\ worker'[j] \notin Publishing \cup {"none", "done", "dead"}
  BY DEF Late, Publishing
<1>3. /\ rec[j].status \notin Reviewable /\ writes[j] = 0 /\ calls[j] = 0
      /\ Here(j).hook = "none"
      /\ \A m \in Mgr : mem[m][j].status \notin Reviewable
  BY <1>1, <1>2 DEF JobInv, Drafts, Hooks
<1>4. /\ rec'[j].status \notin Reviewable
      /\ \A m \in Mgr : mem'[m][j].status \notin Reviewable
  BY <1>1, <1>3
<1>5. Threads(j)'
  BY <1>1, <1>2 DEF JobInv, Threads
<1>6. Hooks(j)'
  BY <1>1, <1>2, <1>3 DEF JobInv, Hooks, kinds, Called, Publishing
<1>7. Drafts(j)'
  BY <1>2, <1>3, <1>4 DEF Drafts
<1>8. Settlements(j)'
  BY <1>1, <1>3, <1>4 DEF JobInv, Settlements, kinds, Reviewable
<1>9. Claims(j)'
  <2>1. \A m \in Mgr : holder[j] \notin {<<"accept", m>>, <<"written", m>>, <<"accepted", m>>}
    BY <1>2 DEF JobInv, Claims
  <2>2. \A m \in Mgr : holder[j] = <<"recover", m>> => m # home[j]
    BY DEF JobInv, Claims, Threads
  <2> QED
    BY <1>1, <1>3, <1>4, <2>1, <2>2 DEF JobInv, Claims
<1>10. Manuscript(j)'
  BY <1>3, <1>4 DEF Manuscript, Reviewable, Decided
<1>11. Refusals(j)'
  BY <1>2, <1>4 DEF JobInv, Refusals, kinds
<1> QED
  BY <1>5, <1>6, <1>7, <1>8, <1>9, <1>10, <1>11 DEF JobInv

\* What is known of the object of a thread before its publication.
LEMMA EarlyObject ==
  ASSUME TypeOK, NEW j \in Job, JobInv(j), worker[j] \in Early
  PROVE  /\ home[j] \in Mgr /\ Here(j) \in Object
         /\ Here(j) = mem[home[j]][j]
         /\ Here(j).status \notin Reviewable \cup {"none"}
         /\ j \notin hooked => Here(j).status # "SETTLING"
         /\ j \in refused => worker[j] = "failing"
<1>1. worker[j] \notin {"none", "done", "dead", "finishing"} \cup Publishing
  BY DEF Early, Publishing
<1>2. home[j] \in Mgr /\ Here(j) \in Object /\ Here(j) = mem[home[j]][j]
  BY <1>1, AtHome DEF JobInv, Here
<1>3. Here(j).status \notin Reviewable
  BY <1>1, <1>2 DEF JobInv, Drafts, Late
<1> QED
  BY <1>1, <1>2, <1>3 DEF JobInv, Threads, Hooks, Refusals, Early, Publishing

\* Steps that only move the thread on.
LEMMA EarlyMove ==
  ASSUME TypeOK, TypeOK', NEW j \in Job, JobInv(j), worker[j] \in Early,
         NEW pc \in Early, To(j, pc), Calm, Elsewhere,
         UNCHANGED <<holder, calls, settled>>,
         j \in refused' => pc = "failing",
         j \in refused' \ refused => j \in guarded
  PROVE  JobInv(j)'
<1>1. /\ home[j] \in Mgr /\ Here(j) \in Object
      /\ Here(j) = mem[home[j]][j]
      /\ Here(j).status \notin Reviewable \cup {"none"}
      /\ j \notin hooked => Here(j).status # "SETTLING"
  BY EarlyObject
<1>2. worker'[j] = pc
  BY DEF To, TypeOK
<1> QED
  BY <1>1, <1>2, EarlyKeeps DEF Calm, Elsewhere

\* Steps that give the object another status, and may save it.
LEMMA EarlyStatus ==
  ASSUME TypeOK, TypeOK', NEW j \in Job, JobInv(j), worker[j] \in Early,
         NEW s \in {"GENERATING", "FAILED", "CANCELLED"},
         NEW pc \in Early \cup {"finishing", "unstarted"}, To(j, pc),
         Keep(home[j], j, WithStatus(home[j], j, s)),
         UNCHANGED rec \/ Save(j, WithStatus(home[j], j, s)), Elsewhere,
         UNCHANGED <<refused, holder, calls, settled>>,
         j \in refused => pc \in {"failing", "finishing"}
  PROVE  JobInv(j)'
<1> DEFINE o == WithStatus(home[j], j, s)
<1>1. /\ home[j] \in Mgr /\ Here(j) \in Object
      /\ Here(j) = mem[home[j]][j]
  BY EarlyObject
<1>2. s \in Status \ (Reviewable \cup {"none", "SETTLING"})
  BY DEF Status, Terminal, Executing, Reviewable, Decided
<1>3. o \in Object /\ o.hook = Here(j).hook /\ o.status = s
  BY <1>1, <1>2, StatusTyped DEF WithStatus, Object
<1>4. Keep(home[j], j, o) /\ (UNCHANGED rec \/ Save(j, o))
  OBVIOUS
<1> HIDE DEF o
<1>5. /\ mem'[home[j]][j] = o
      /\ \A m \in Mgr : m # home[j] => mem'[m][j] = mem[m][j]
  BY <1>1, <1>4, KeepAt DEF TypeOK
<1>6. rec'[j] = rec[j] \/ (rec'[j].hook = o.hook /\ rec'[j].status = o.status)
  <2>1. Public(j, o) = o.status
    BY <1>2, <1>3 DEF Public
  <2> QED
    BY <1>3, <1>4, <2>1, SaveAt DEF TypeOK
<1>7. worker'[j] = pc
  BY DEF To, TypeOK
<1> QED
  BY <1>2, <1>3, <1>5, <1>6, <1>7, EarlyKeeps DEF Elsewhere

\* Steps that save the object as it is.
LEMMA EarlySave ==
  ASSUME TypeOK, TypeOK', NEW j \in Job, JobInv(j),
         worker[j] \in Early \ {"failing"},
         Save(j, Here(j)) \/ UNCHANGED rec, UNCHANGED mem,
         UNCHANGED worker \/ To(j, "failing"), Elsewhere,
         UNCHANGED <<refused, holder, calls, settled>>
  PROVE  JobInv(j)'
<1>1. /\ home[j] \in Mgr /\ Here(j) \in Object
      /\ Here(j) = mem[home[j]][j]
      /\ Here(j).status \notin Reviewable \cup {"none"}
      /\ j \notin hooked => Here(j).status # "SETTLING"
      /\ j \notin refused
  BY EarlyObject
<1>2. rec'[j] = rec[j] \/ (rec'[j].hook = Here(j).hook /\ rec'[j].status = Here(j).status)
  <2>1. Public(j, Here(j)) = Here(j).status
    BY <1>1 DEF Public, Reviewable
  <2> QED
    BY <1>1, <2>1, SaveAt DEF TypeOK
<1>3. worker'[j] \in Early
  BY DEF To, TypeOK, Early
<1> QED
  BY <1>1, <1>2, <1>3, EarlyKeeps DEF Elsewhere

\* The steps of a thread up to its publication, and its failure.
LEMMA EarlyStep ==
  ASSUME TypeOK, TypeOK', NEW j \in Job, JobInv(j),
         \/ ThreadFails(j) \/ Stop(j) \/ BeginRun(j) \/ Refuse(j)
         \/ SaveSnapshot(j) \/ Dispatch(j) \/ RunFails(j) \/ Delta(j)
         \/ CompleteStream(j) \/ Fail(j)
  PROVE  JobInv(j)'
<1> USE DEF At, Early
<1>1. j \in refused => worker[j] \notin {"start", "preflight", "streaming", "completed"}
  BY DEF JobInv, Refusals
<1>2. ASSUME Stop(j) \/ Fail(j), CancelExecution(home[j], j), To(j, "finishing")
      PROVE  JobInv(j)'
  <2>0. worker[j] \in Early
    BY <1>2 DEF Stop, Fail
  <2>1. CASE IsTerminal(home[j], j)
    <3>1. /\ home[j] \in Mgr /\ Here(j) \in Object
          /\ Here(j) = mem[home[j]][j]
          /\ Here(j).status \notin Reviewable \cup {"none"}
          /\ j \notin hooked => Here(j).status # "SETTLING"
      BY <2>0, EarlyObject
    <3>2. /\ UNCHANGED <<mem, rec, refused, holder, calls, settled>> /\ Elsewhere
          /\ worker'[j] = "finishing"
      BY <1>2, <2>1 DEF CancelExecution, Stop, Fail, To, TypeOK
    <3> QED
      BY <2>0, <3>1, <3>2, EarlyKeeps DEF Elsewhere
  <2>2. CASE ~IsTerminal(home[j], j)
    BY <1>2, <2>0, <2>2, EarlyStatus DEF CancelExecution, TrySave, SaveRaises, Stop, Fail
  <2> QED
    BY <2>1, <2>2
<1>3. CASE ThreadFails(j)
  BY <1>1, <1>3, EarlyStatus DEF ThreadFails
<1>4. CASE Stop(j)
  BY <1>2, <1>4 DEF Stop
<1>5. CASE BeginRun(j)
  BY <1>1, <1>5, EarlyStatus DEF BeginRun, SaveRaises
<1>6. CASE Refuse(j)
  BY <1>6, EarlyMove DEF Refuse, Permitted
<1>7. CASE SaveSnapshot(j)
  BY <1>7, EarlySave DEF SaveSnapshot, SaveRaises
<1>8. CASE Dispatch(j)
  BY <1>1, <1>8, EarlyMove DEF Dispatch
<1>9. CASE RunFails(j)
  BY <1>1, <1>9, EarlyMove DEF RunFails
<1>10. CASE Delta(j)
  BY <1>10, EarlySave DEF Delta, SaveRaises
<1>11. CASE CompleteStream(j)
  BY <1>1, <1>11, EarlyMove DEF CompleteStream
<1>12. CASE Fail(j)
  <2>1. CASE IsTerminal(home[j], j)
    <3>1. /\ home[j] \in Mgr /\ Here(j) \in Object
          /\ Here(j) = mem[home[j]][j]
          /\ Here(j).status \notin Reviewable \cup {"none"}
          /\ j \notin hooked => Here(j).status # "SETTLING"
      BY <1>12, EarlyObject DEF Fail
    <3>2. /\ UNCHANGED <<mem, rec, refused, holder, calls, settled>> /\ Elsewhere
          /\ worker'[j] = "finishing"
      BY <1>12, <2>1 DEF Fail, Calm, To, TypeOK
    <3> QED
      BY <1>12, <3>1, <3>2, EarlyKeeps DEF Elsewhere, Fail
  <2>2. CASE ~IsTerminal(home[j], j) /\ j \in cancelled[home[j]]
    BY <1>2, <1>12, <2>2 DEF Fail
  <2>3. CASE ~IsTerminal(home[j], j) /\ j \notin cancelled[home[j]]
    BY <1>12, <2>3, EarlyStatus DEF Fail, TrySave, SaveRaises
  <2> QED
    BY <2>1, <2>2, <2>3
<1> QED
  BY <1>3, <1>4, <1>5, <1>6, <1>7, <1>8, <1>9, <1>10, <1>11, <1>12

-----------------------------------------------------------------------------
\* What is known while a job is published: the lock is the worker's, and nothing
\* is decided.
LEMMA PublishingFacts ==
  ASSUME TypeOK, NEW j \in Job, JobInv(j), worker[j] \in Publishing
  PROVE  /\ home[j] \in Mgr /\ Here(j) \in Object
         /\ Here(j) = mem[home[j]][j]
         /\ holder[j] = <<"worker", home[j]>>
         /\ writes[j] = 0
         /\ rec[j].status \notin Decided
         /\ Here(j).status \notin Decided \cup {"none"}
         /\ j \in refused => /\ rec[j].status \notin Reviewable
                             /\ Here(j).status \notin Reviewable
                             /\ worker[j] # "settling"
         /\ \A m \in Mgr : m # home[j] /\ mem[m][j].status \in Reviewable => Called(j)
<1>1. worker[j] \notin {"none", "done", "dead", "finishing"}
  BY DEF Publishing
<1>2. home[j] \in Mgr /\ Here(j) \in Object /\ Here(j) = mem[home[j]][j]
  BY <1>1, AtHome DEF JobInv, Here
<1>3. ~Late(j)
  BY <1>1 DEF Late
<1> QED
  BY <1>1, <1>2, <1>3 DEF JobInv, Threads, Drafts, Refusals, Publishing

\* A step of a publication keeps the invariant of its job if what it leaves in
\* its object, in the record and outside fits together.
LEMMA PublicationKeeps ==
  ASSUME TypeOK, TypeOK', NEW j \in Job, JobInv(j),
         worker[j] \in Publishing \/ (worker[j] = "completed" /\ holder[j] = None),
         worker'[j] \in Publishing \cup {"finishing"},
         holder'[j] = IF worker'[j] \in Publishing
                        THEN <<"worker", home[j]>> ELSE None,
         NEW o \in Object, mem'[home[j]][j] = o,
         \A m \in Mgr : m # home[j] => mem'[m][j] = mem[m][j],
         rec'[j] = rec[j] \/ (rec'[j].hook = o.hook /\ rec'[j].status = Public(j, o)),
         o.status \notin Decided \cup {"none"},
         j \notin hooked => /\ o.hook = "none" /\ o.status # "SETTLING"
                            /\ calls'[j] = 0,
         UNCHANGED <<life, todo, home, kinds, cancelling, writes>>,
         calls'[j] \in {0, 1}, Called(j) => Called(j)',
         worker'[j] = "settling" => j \in hooked /\ calls'[j] = 0 /\ o.hook = "none",
         worker'[j] = "settled" => j \in hooked,
         worker'[j] \in {"settled", "publishing"} => Called(j)',
         calls'[j] = 0 /\ worker'[j] # "publishing" => o.hook = "none",
         worker'[j] = "finishing" /\ o.status \in Reviewable => Called(j)',
         j \in settled => j \in settled',
         j \in hooked =>
           /\ o.hook = "done" => j \in settled'
           /\ worker'[j] \in {"settled", "publishing"} /\ o.status = "SETTLING" =>
                o.hook = "done"
           /\ o.status = "COMPLETED" =>
                o.hook = "done" \/ worker'[j] \in {"settling", "uncertain"},
         rec'[j].status \in Reviewable =>
           /\ Called(j)'
           /\ j \in hooked => rec'[j].hook = "done"
           /\ j \in guarded => worker'[j] \notin Publishing,
         j \in guarded /\ worker'[j] \in Publishing =>
           worker'[j] = "uncertain" \/ o.status \notin Reviewable,
         j \in refused' =>
           /\ j \in guarded /\ worker'[j] # "settling"
           /\ rec'[j].status \notin Reviewable /\ o.status \notin Reviewable
  PROVE  JobInv(j)'
<1>1. home[j] \in Mgr /\ home[j] # None /\ Here(j)' = o /\ mem[home[j]][j] = Here(j)
  BY AtHome DEF JobInv, Here, Publishing
<1>2. writes[j] = 0 /\ rec[j].status \notin Decided
  BY PublishingFacts DEF JobInv, Drafts, Late, Reviewable, Publishing
<1>3. \A m \in Mgr : m # home[j] /\ mem[m][j].status \in Reviewable =>
                       Called(j) /\ worker[j] \in Publishing
  BY PublishingFacts DEF JobInv, Drafts, Late, Publishing
<1>4. rec'[j].status \notin Decided \cup {"none"}
  <2>1. rec[j].status # "none"
    BY DEF JobInv, Threads, Publishing
  <2>2. Public(j, o) \notin Decided \cup {"none"}
    BY DEF Public, Decided
  <2> QED
    BY <1>2, <2>1, <2>2
<1>5. worker'[j] \notin {"none", "done", "dead"}
  BY DEF Publishing
<1>6. Threads(j)'
  BY <1>1, <1>4, <1>5, GenerationOK DEF JobInv, Threads, Claim, Publishing
<1>7. Hooks(j)'
  <2>1. j \notin hooked => rec'[j].hook = "none" /\ rec'[j].status # "SETTLING"
    BY DEF JobInv, Hooks, Public
  <2>2. j \notin hooked => \A m \in Mgr : mem'[m][j].hook = "none" /\ mem'[m][j].status # "SETTLING"
    BY <1>1 DEF JobInv, Hooks
  <2> QED
    BY <1>1, <1>5, <2>1, <2>2 DEF JobInv, Hooks, kinds, Called, Publishing
<1>8. Drafts(j)'
  <2>1. worker'[j] = "finishing" /\ Called(j)' => Late(j)'
    BY DEF Late
  <2>2. ASSUME NEW m \in Mgr, mem'[m][j].status \in Reviewable
        PROVE  Late(j)' \/ (worker'[j] \in Publishing /\ (m # home'[j] => Called(j)'))
    BY <1>1, <1>3, <2>1, <2>2
  <2> QED
    BY <1>1, <1>2, <1>4, <2>1, <2>2 DEF Drafts
<1>9. Settlements(j)'
  <2>1. j \in hooked /\ rec'[j].hook = "done" => j \in settled'
    BY DEF JobInv, Settlements
  <2>2. ASSUME NEW m \in Mgr, j \in hooked, m # home[j]
        PROVE  /\ mem'[m][j].hook = "done" => j \in settled'
               /\ mem'[m][j].status \in Decided => mem'[m][j].hook = "done"
               /\ mem'[m][j].status = "COMPLETED" => mem'[m][j].hook = "done"
    BY <2>2 DEF JobInv, Settlements
  <2> QED
    BY <1>1, <2>1, <2>2 DEF Settlements, kinds
<1>10. Claims(j)'
  BY <1>1, GenerationOK DEF Claims, Claim
<1>11. Manuscript(j)'
  <2>1. \A m \in Mgr : mem'[m][j].status # "ACCEPTED"
    BY <1>1, <1>2 DEF JobInv, Manuscript, Decided
  <2> QED
    BY <1>2, <1>4, <2>1 DEF Manuscript, Decided
<1>12. Refusals(j)'
  <2>1. ASSUME NEW m \in Mgr, m # home[j], j \in guarded,
               worker'[j] \in Publishing \/ j \in refused'
        PROVE  mem'[m][j].status \notin Reviewable
    BY <1>3, <2>1 DEF JobInv, Refusals
  <2> QED
    BY <1>1, <2>1 DEF Refusals, kinds, Publishing
<1> QED
  BY <1>6, <1>7, <1>8, <1>9, <1>10, <1>11, <1>12 DEF JobInv

\* Taking the lock shows nothing yet.
LEMMA BeginPublicationKeeps ==
  ASSUME TypeOK, TypeOK', NEW j \in Job, JobInv(j), BeginPublication(j)
  PROVE  JobInv(j)'
<1> DEFINE o == WithStatus(home[j], j, Interim(j))
<1>1. worker[j] = "completed" /\ holder[j] = None /\ Permitted(j)
  BY DEF BeginPublication, At
<1>2. /\ home[j] \in Mgr /\ Here(j) \in Object /\ Here(j) = mem[home[j]][j]
      /\ j \notin refused
  BY <1>1, EarlyObject DEF Early
<1>3. calls[j] = 0 /\ Here(j).hook = "none" /\ rec[j].status \notin Reviewable
  BY <1>1, <1>2, AtHome DEF JobInv, Hooks, Drafts, Late, Publishing
<1>4. Interim(j) \in Status
  BY DEF Interim, Status, Terminal, Executing
<1>5. o \in Object /\ o.hook = "none" /\ o.status = Interim(j)
  BY <1>2, <1>3, <1>4 DEF WithStatus, Object
<1>6. /\ Keep(home[j], j, o)
      /\ \/ j \in hooked /\ Save(j, o) /\ To(j, "settling")
         \/ UNCHANGED rec /\ To(j, "uncertain")
         \/ j \notin hooked /\ UNCHANGED rec /\ To(j, "publishing")
  BY DEF BeginPublication, SaveRaises
<1> HIDE DEF o
<1>7. /\ mem'[home[j]][j] = o
      /\ \A m \in Mgr : m # home[j] => mem'[m][j] = mem[m][j]
  BY <1>2, <1>6, KeepAt DEF TypeOK
<1>8. /\ \/ j \in hooked /\ worker'[j] = "settling"
         \/ worker'[j] = "uncertain" /\ rec'[j] = rec[j]
         \/ j \notin hooked /\ worker'[j] = "publishing" /\ rec'[j] = rec[j]
      /\ \/ rec'[j] = rec[j]
         \/ j \in hooked /\ rec'[j].hook = o.hook /\ rec'[j].status = Public(j, o)
  BY <1>5, <1>6, SaveAt DEF To, TypeOK
<1>9. rec'[j].status \notin Reviewable
  BY <1>3, <1>5, <1>8 DEF Public, Interim, Reviewable, Decided
<1>10. /\ UNCHANGED <<life, todo, home, kinds, cancelling, writes, calls, settled, refused>>
       /\ holder'[j] = <<"worker", home[j]>>
  BY DEF BeginPublication, Elsewhere, TypeOK
<1>11. /\ o.status \notin Decided \cup {"none"}
       /\ j \notin hooked => o.status # "SETTLING"
       /\ j \in guarded => o.status \notin Reviewable
       /\ j \in hooked => worker'[j] \in {"settling", "uncertain"}
  BY <1>5, <1>8 DEF Interim, Reviewable, Decided
<1> QED
  BY <1>1, <1>2, <1>3, <1>5, <1>7, <1>8, <1>9, <1>10, <1>11, PublicationKeeps DEF Called, Publishing, kinds

\* What a call of the hook leaves behind.
LEMMA CallAt ==
  ASSUME TypeOK, NEW j \in Job, Here(j) \in Object, NEW o \in Object, CallHook(j, o),
         calls[j] = 0
  PROVE  /\ calls'[j] = 1 /\ \A i \in Job : i # j => calls'[i] = calls[i]
         /\ j \in settled => j \in settled'
         /\ \/ o.hook = "done" /\ j \in settled' /\ o.status = Here(j).status
            \/ /\ o.hook = "reconcile"
               /\ o.status = IF Here(j).status = "COMPLETED"
                                  \/ Here(j).status \notin Terminal
                             THEN "FAILED" ELSE Here(j).status
<1>1. calls'[j] = 1 /\ \A i \in Job : i # j => calls'[i] = calls[i]
  BY DEF CallHook, TypeOK
<1>2. CASE settled' = settled \cup {j} /\ o = [Here(j) EXCEPT !.hook = "done"]
  BY <1>1, <1>2 DEF Object
<1>3. CASE ~(settled' = settled \cup {j} /\ o = [Here(j) EXCEPT !.hook = "done"])
  <2>1. /\ UNCHANGED settled
        /\ o = [Here(j) EXCEPT !.hook = "reconcile", !.unsure = FALSE,
                  !.status = IF @ = "COMPLETED" \/ @ \notin Terminal
                             THEN "FAILED" ELSE @]
    BY <1>3 DEF CallHook
  <2> QED
    BY <1>1, <2>1 DEF Object
<1> QED
  BY <1>2, <1>3

\* The hook of a publication is called the first time.
LEMMA SettleKeeps ==
  ASSUME TypeOK, TypeOK', NEW j \in Job, JobInv(j), Settle(j)
  PROVE  JobInv(j)'
<1>1. worker[j] = "settling"
  BY DEF Settle, At
<1>2. /\ home[j] \in Mgr /\ Here(j) \in Object /\ Here(j) = mem[home[j]][j]
      /\ holder[j] = <<"worker", home[j]>>
      /\ Here(j).status \notin Decided \cup {"none"}
      /\ j \notin refused
      /\ \A m \in Mgr : m # home[j] /\ mem[m][j].status \in Reviewable => Called(j)
  BY <1>1, PublishingFacts DEF Publishing
<1>3. j \in hooked /\ calls[j] = 0
  BY <1>1 DEF JobInv, Hooks
<1>4. rec[j].status \notin Reviewable /\ (j \in guarded => Here(j).status \notin Reviewable)
  BY <1>1, <1>2, <1>3 DEF JobInv, Drafts, Called, Refusals, Publishing
<1>5. PICK u \in Object :
        /\ CallHook(j, u)
        /\ \/ Keep(home[j], j, u) /\ UNCHANGED refused
           \/ /\ Keep(home[j], j, [u EXCEPT !.status = "FAILED"])
              /\ refused' = refused \cup {j} /\ j \in guarded
  BY DEF Settle, Permitted
<1>6. PICK o \in Object : /\ Keep(home[j], j, o)
                          /\ o.hook = u.hook /\ o.status \in {u.status, "FAILED"}
                          /\ \/ UNCHANGED refused
                             \/ /\ j \in guarded /\ refused' = refused \cup {j}
                                /\ o.status = "FAILED"
  <2>1. "FAILED" \in Status
    BY DEF Status, Terminal
  <2>2. /\ [u EXCEPT !.status = "FAILED"] \in Object
        /\ [u EXCEPT !.status = "FAILED"].hook = u.hook
        /\ [u EXCEPT !.status = "FAILED"].status = "FAILED"
    BY <2>1 DEF Object
  <2> QED
    BY <1>5, <2>2
<1>8. /\ calls'[j] = 1 /\ (j \in settled => j \in settled')
      /\ o.hook # "none"
      /\ o.hook = "done" => j \in settled'
      /\ o.status \in {"COMPLETED", "SETTLING"} => o.hook = "done"
      /\ o.status \notin Decided \cup {"none"}
      /\ j \in guarded => o.status \notin Reviewable
      /\ j \in refused' => j \in guarded /\ o.status \notin Reviewable
  <2>1. "SETTLING" \notin Terminal /\ "COMPLETED" \in Terminal /\ "FAILED" \notin Reviewable
    BY DEF Terminal, Decided, Reviewable
  <2>2. j \in settled => j \in settled'
    BY <1>5 DEF CallHook
  <2>3. calls'[j] = 1
    BY <1>2, <1>3, <1>5, CallAt
  <2>4. \/ u.hook = "done" /\ j \in settled' /\ u.status = Here(j).status
        \/ u.hook = "reconcile" /\ u.status \in {"FAILED", Here(j).status} \ {"COMPLETED", "SETTLING"}
    BY <1>2, <1>3, <1>5, <2>1, CallAt
  <2> QED
    BY <1>2, <1>4, <1>6, <2>1, <2>2, <2>3, <2>4 DEF Reviewable
<1>9. /\ mem'[home[j]][j] = o
      /\ \A m \in Mgr : m # home[j] => mem'[m][j] = mem[m][j]
  BY <1>2, <1>6, KeepAt DEF TypeOK
<1>10. /\ UNCHANGED <<life, todo, home, kinds, cancelling, writes, rec, holder>>
       /\ worker'[j] = "settled"
  BY DEF Settle, Elsewhere, To, TypeOK
<1>11. /\ rec'[j] = rec[j] /\ rec'[j].status \notin Reviewable
       /\ holder'[j] = <<"worker", home[j]>>
       /\ Called(j)'
  BY <1>2, <1>4, <1>8, <1>10 DEF Called
<1>12. /\ worker[j] \in Publishing /\ worker'[j] \in Publishing
       /\ worker'[j] = "settled"
       /\ j \in hooked /\ calls'[j] \in {0, 1} /\ calls'[j] # 0
       /\ UNCHANGED <<life, todo, home, kinds, cancelling, writes>>
       /\ j \in refused' => j \in guarded
       /\ j \in guarded => o.status \notin Reviewable
  BY <1>1, <1>3, <1>8, <1>10 DEF Publishing
<1> QED
  BY <1>8, <1>9, <1>11, <1>12, PublicationKeeps

\* The receipt of the settlement is the first thing shown.
LEMMA SaveSettlementKeeps ==
  ASSUME TypeOK, TypeOK', NEW j \in Job, JobInv(j), SaveSettlement(j)
  PROVE  JobInv(j)'
<1>1. worker[j] = "settled"
  BY DEF SaveSettlement, At
<1>2. /\ home[j] \in Mgr /\ Here(j) \in Object /\ Here(j) = mem[home[j]][j]
      /\ holder[j] = <<"worker", home[j]>>
      /\ Here(j).status \notin Decided \cup {"none"}
      /\ j \in refused => rec[j].status \notin Reviewable /\ Here(j).status \notin Reviewable
  BY <1>1, PublishingFacts DEF Publishing
<1>3. j \in hooked /\ calls[j] = 1 /\ Called(j)
  BY <1>1 DEF JobInv, Hooks, Called
<1>4. /\ Here(j).hook = "done" => j \in settled
      /\ Here(j).status \in {"COMPLETED", "SETTLING"} => Here(j).hook = "done"
      /\ rec[j].status \in Reviewable => rec[j].hook = "done"
      /\ j \in guarded => rec[j].status \notin Reviewable /\ Here(j).status \notin Reviewable
      /\ j \in refused => j \in guarded
  BY <1>1, <1>2, <1>3 DEF JobInv, Settlements, Refusals, Publishing
<1>5. PICK o \in Object :
        /\ mem'[home[j]][j] = o
        /\ \A m \in Mgr : m # home[j] => mem'[m][j] = mem[m][j]
        /\ rec'[j] = rec[j] \/ (rec'[j].hook = o.hook /\ rec'[j].status = Public(j, o))
        /\ \/ o = Here(j)
           \/ /\ o.hook = "reconcile" /\ rec'[j] = rec[j]
              /\ o.status \notin {"COMPLETED", "SETTLING"}
              /\ o.status \in {Here(j).status, "FAILED"}
  <2>1. CASE Save(j, Here(j)) /\ UNCHANGED mem
    BY <1>2, <2>1, SaveAt DEF TypeOK
  <2>2. CASE SaveRaises /\ Keep(home[j], j, Unreceipted(Here(j)))
    BY <1>2, <2>2, UnreceiptedTyped, KeepAt DEF TypeOK, SaveRaises
  <2> QED
    BY <2>1, <2>2 DEF SaveSettlement
<1>6. /\ o.status \notin Decided \cup {"none"}
      /\ o.hook = "done" => j \in settled
      /\ o.status \in {"COMPLETED", "SETTLING"} => o.hook = "done"
      /\ j \in guarded => o.status \notin Reviewable
  BY <1>2, <1>4, <1>5 DEF Reviewable, Decided
<1>7. /\ rec'[j].status \in Reviewable => rec'[j].hook = "done"
      /\ j \in guarded => rec'[j].status \notin Reviewable
  BY <1>4, <1>5, <1>6 DEF Public, Reviewable, Decided
<1>8. /\ UNCHANGED <<life, todo, home, kinds, cancelling, writes, holder, calls, settled, refused>>
      /\ worker'[j] = "publishing"
  BY DEF SaveSettlement, Elsewhere, To, TypeOK
<1> QED
  BY <1>1, <1>2, <1>3, <1>4, <1>5, <1>6, <1>7, <1>8, PublicationKeeps DEF Called, Publishing

\* The publication ends with a settled draft or a status that shows none.
LEMMA PublishKeeps ==
  ASSUME TypeOK, TypeOK', NEW j \in Job, JobInv(j), Publish(j)
  PROVE  JobInv(j)'
<1> DEFINE o == WithStatus(home[j], j, Verdict(j))
<1>1. worker[j] = "publishing"
  BY DEF Publish, At
<1>2. /\ home[j] \in Mgr /\ Here(j) \in Object /\ Here(j) = mem[home[j]][j]
      /\ holder[j] = <<"worker", home[j]>>
      /\ Here(j).status \notin Decided \cup {"none"}
      /\ rec[j].status \notin Decided
      /\ j \in refused => rec[j].status \notin Reviewable /\ Here(j).status \notin Reviewable
  BY <1>1, PublishingFacts DEF Publishing
<1>3. /\ Called(j) /\ calls[j] \in {0, 1}
      /\ j \notin hooked => /\ Here(j).hook = "none" /\ Here(j).status # "SETTLING"
                            /\ calls[j] = 0
  BY <1>1, <1>2 DEF JobInv, Hooks
<1>4. /\ j \in hooked /\ Here(j).hook = "done" => j \in settled
      /\ j \in hooked /\ Here(j).status \in {"COMPLETED", "SETTLING"} => Here(j).hook = "done"
      /\ j \in hooked /\ rec[j].status \in Reviewable => rec[j].hook = "done"
      /\ j \in guarded => rec[j].status \notin Reviewable
      /\ j \in refused => j \in guarded
  BY <1>1, <1>2 DEF JobInv, Settlements, Refusals, Publishing
<1>5. /\ Verdict(j) \in {Here(j).status, "CANCELLED", "COMPLETED"}
      /\ j \in hooked /\ Verdict(j) = "COMPLETED" => Here(j).hook = "done"
      /\ j \in refused => Verdict(j) = Here(j).status
      /\ Verdict(j) = "SETTLING" => Here(j).status = "SETTLING"
  BY <1>4 DEF Publish, Verdict, AsksAgain, Interim, Permitted
<1>6. o \in Object /\ o.hook = Here(j).hook /\ o.status = Verdict(j)
  <2>1. Verdict(j) \in Status
    BY <1>2, <1>5 DEF Status, Terminal, Object
  <2> QED
    BY <1>2, <2>1 DEF WithStatus, Object
<1>7. /\ Keep(home[j], j, o)
      /\ \/ Save(j, o) /\ To(j, "finishing") /\ holder' = [holder EXCEPT ![j] = None]
         \/ UNCHANGED rec /\ To(j, "uncertain") /\ UNCHANGED holder
  BY DEF Publish, SaveRaises
<1> HIDE DEF o
<1>8. /\ mem'[home[j]][j] = o
      /\ \A m \in Mgr : m # home[j] => mem'[m][j] = mem[m][j]
  BY <1>2, <1>7, KeepAt DEF TypeOK
<1>9. /\ \/ /\ worker'[j] = "finishing" /\ holder'[j] = None
            /\ rec'[j].hook = o.hook /\ rec'[j].status = Public(j, o)
         \/ /\ worker'[j] = "uncertain" /\ rec'[j] = rec[j]
            /\ holder'[j] = <<"worker", home[j]>>
      /\ UNCHANGED <<life, todo, home, kinds, cancelling, writes, calls, settled, refused>>
  BY <1>2, <1>6, <1>7, SaveAt DEF Publish, Elsewhere, To, TypeOK
<1>10. /\ worker[j] \in Publishing /\ worker'[j] \in Publishing \cup {"finishing"}
       /\ worker'[j] \in {"finishing", "uncertain"}
       /\ worker'[j] \in Publishing => worker'[j] = "uncertain"
       /\ holder'[j] = IF worker'[j] \in Publishing
                         THEN <<"worker", home[j]>> ELSE None
       /\ rec'[j] = rec[j] \/ (rec'[j].hook = o.hook /\ rec'[j].status = Public(j, o))
       /\ Called(j)' /\ calls'[j] \in {0, 1}
       /\ UNCHANGED <<life, todo, home, kinds, cancelling, writes>>
  BY <1>1, <1>3, <1>9 DEF Publishing, Called, kinds
<1>11. /\ o.status \notin Decided \cup {"none"}
       /\ j \notin hooked => /\ o.hook = "none" /\ o.status # "SETTLING"
                             /\ calls'[j] = 0
       /\ calls'[j] = 0 => o.hook = "none"
       /\ j \in hooked /\ o.hook = "done" => j \in settled'
       /\ j \in settled => j \in settled'
       /\ j \in hooked /\ o.status = "COMPLETED" => o.hook = "done"
  <2>1. calls[j] = 0 => j \notin hooked
    BY <1>3 DEF Called
  <2> QED
    BY <1>2, <1>3, <1>4, <1>5, <1>6, <1>9, <2>1 DEF Decided
<1>12. /\ j \in hooked /\ rec'[j].status \in Reviewable => rec'[j].hook = "done"
       /\ j \in guarded /\ rec'[j].status \in Reviewable => worker'[j] \notin Publishing
  BY <1>4, <1>9, <1>11 DEF Public, Reviewable, Publishing
<1>13. j \in refused' => /\ j \in guarded
                         /\ rec'[j].status \notin Reviewable /\ o.status \notin Reviewable
  BY <1>2, <1>4, <1>5, <1>6, <1>9 DEF Public, Reviewable, Decided
<1> QED
  BY <1>6, <1>8, <1>10, <1>11, <1>12, <1>13, PublicationKeeps

\* A publication that ends with a failure leaves nothing for review.
LEMMA EndPublication ==
  ASSUME TypeOK, TypeOK', NEW j \in Job, JobInv(j), worker[j] \in Publishing,
         j \in hooked => worker[j] \in {"uncertain", "publishing"},
         NEW o \in Object, o.hook = Here(j).hook, o.status = "FAILED",
         Keep(home[j], j, o), TrySave(j, o), To(j, "finishing"), Elsewhere,
         holder' = [holder EXCEPT ![j] = None], UNCHANGED <<calls, settled>>,
         j \in refused' => j \in guarded /\ rec[j].status \notin Reviewable
  PROVE  JobInv(j)'
<1>1. home[j] \in Mgr /\ Here(j) = mem[home[j]][j]
  BY PublishingFacts
<1>2. /\ calls[j] \in {0, 1} /\ (j \notin hooked => Here(j).hook = "none" /\ calls[j] = 0)
      /\ calls[j] = 0 => Here(j).hook = "none"
      /\ rec[j].status \in Reviewable => Called(j)
      /\ j \in hooked /\ rec[j].status \in Reviewable => rec[j].hook = "done"
      /\ j \in hooked /\ Here(j).hook = "done" => j \in settled
  <2>1. calls[j] = 0 /\ j \in hooked => worker[j] = "uncertain"
    BY DEF JobInv, Hooks, Called
  <2> QED
    BY <1>1, <2>1 DEF JobInv, Hooks, Drafts, Settlements
<1>3. /\ mem'[home[j]][j] = o
      /\ \A m \in Mgr : m # home[j] => mem'[m][j] = mem[m][j]
  BY <1>1, KeepAt DEF TypeOK
<1>4. rec'[j] = rec[j] \/ (rec'[j].hook = o.hook /\ rec'[j].status = Public(j, o))
  BY SaveAt DEF TrySave, SaveRaises, TypeOK
<1>5. /\ worker'[j] = "finishing" /\ worker'[j] \notin Publishing
      /\ worker'[j] \notin {"settling", "settled", "publishing", "uncertain"}
      /\ holder'[j] = None
      /\ UNCHANGED <<life, todo, home, kinds, cancelling, writes, calls, settled>>
      /\ Called(j)' <=> Called(j)
  BY DEF To, Elsewhere, TypeOK, Publishing, Called, kinds
<1>6. /\ "FAILED" \notin Decided \cup {"none", "SETTLING", "COMPLETED"} \cup Reviewable
      /\ Public(j, o) = "FAILED"
  BY DEF Decided, Reviewable, Public
<1> QED
  BY <1>2, <1>3, <1>4, <1>5, <1>6, PublicationKeeps

\* The publications that fail.
LEMMA FailedPublicationKeeps ==
  ASSUME TypeOK, TypeOK', NEW j \in Job, JobInv(j),
         RefusePublication(j) \/ Withdraw(j)
  PROVE  JobInv(j)'
<1>1. "FAILED" \in Status /\ worker[j] \in Publishing
  BY DEF RefusePublication, Withdraw, At, Publishing, Status, Terminal
<1>2. /\ home[j] \in Mgr /\ Here(j) \in Object /\ Here(j) = mem[home[j]][j]
      /\ j \in refused => j \in guarded /\ rec[j].status \notin Reviewable
  BY <1>1, PublishingFacts DEF JobInv, Refusals
<1>3. CASE RefusePublication(j)
  <2> DEFINE o == WithStatus(home[j], j, "FAILED")
  <2>1. o \in Object /\ o.hook = Here(j).hook /\ o.status = "FAILED"
    BY <1>1, <1>2 DEF WithStatus, Object
  <2>2. Keep(home[j], j, o) /\ TrySave(j, o)
    BY <1>3 DEF RefusePublication
  <2>3. worker[j] = "publishing" /\ j \in guarded
    BY <1>3 DEF RefusePublication, At, AsksAgain
  <2>4. rec[j].status \notin Reviewable
    BY <1>1, <2>3 DEF JobInv, Refusals
  <2> HIDE DEF o
  <2> QED
    BY <1>1, <1>3, <2>1, <2>2, <2>3, <2>4, EndPublication DEF RefusePublication
<1>4. CASE Withdraw(j)
  <2> DEFINE o == [Here(j) EXCEPT !.status = "FAILED", !.unsure = TRUE]
  <2>1. o \in Object /\ o.hook = Here(j).hook /\ o.status = "FAILED"
    BY <1>1, <1>2 DEF Object
  <2>2. Keep(home[j], j, o) /\ TrySave(j, o)
    BY <1>4 DEF Withdraw
  <2>3. worker[j] = "uncertain"
    BY <1>4 DEF Withdraw, At
  <2> HIDE DEF o
  <2> QED
    BY <1>1, <1>2, <1>4, <2>1, <2>2, <2>3, EndPublication DEF Withdraw
<1> QED
  BY <1>3, <1>4

-----------------------------------------------------------------------------
\* The end of a thread, with or without the hook, keeps the invariant of its job.
LEMMA EndKeeps ==
  ASSUME TypeOK, TypeOK', NEW j \in Job, JobInv(j),
         worker[j] \in {"finishing", "unstarted", "unsaved"},
         worker'[j] = "done" \/ (worker[j] = "unstarted" /\ worker'[j] = "unsaved"),
         NEW o \in Object, mem'[home[j]][j] = o,
         \A m \in Mgr : m # home[j] => mem'[m][j] = mem[m][j],
         \/ o = Here(j)
         \/ /\ j \in hooked /\ calls[j] = 0
            /\ o.status \notin Reviewable \cup {"none"},
         o.hook = "done" => o = Here(j) \/ j \in settled',
         \/ rec'[j] = rec[j]
         \/ /\ worker[j] # "finishing" \/ (j \in hooked /\ calls[j] = 0)
            /\ rec'[j].hook = o.hook /\ rec'[j].status = Public(j, o),
         UNCHANGED <<life, todo, home, kinds, cancelling, writes, holder, refused>>,
         calls'[j] \in {0, 1}, calls'[j] # 0 => j \in hooked, Called(j)',
         j \in settled => j \in settled'
  PROVE  JobInv(j)'
<1>1. /\ home[j] \in Mgr /\ home[j] # None /\ Here(j)' = o /\ mem[home[j]][j] = Here(j)
      /\ worker[j] \notin Publishing /\ worker'[j] \notin Publishing
  BY AtHome DEF JobInv, Here, Publishing
<1>2. /\ worker'[j] = "unsaved" => /\ writes[j] = 0 /\ rec[j].status \notin Reviewable
                                   /\ \A m \in Mgr : mem[m][j].status \notin Reviewable
      /\ \A m \in Mgr : mem[m][j].status \in Reviewable => Late(j)
      /\ rec[j].status \in Reviewable => Late(j)
      /\ writes[j] # 0 => Late(j)
  BY <1>1 DEF JobInv, Drafts, Late
<1>3. ~Late(j) => o.status \notin Reviewable
  BY <1>1, <1>2
<1>4. Late(j) => rec'[j] = rec[j] /\ worker'[j] = "done"
  BY DEF Late, Called
<1>5. Late(j) \/ rec'[j].status \notin Reviewable
  BY <1>2, <1>3 DEF Public, Reviewable
<1>6. rec'[j].status # "none" /\ o.status # "none"
  BY <1>1 DEF JobInv, Threads, Public
<1>7. Threads(j)'
  BY <1>1, <1>6 DEF JobInv, Threads
<1>8. Hooks(j)'
  <2>1. j \notin hooked => o = Here(j) /\ calls'[j] = 0
    OBVIOUS
  <2>2. j \notin hooked => o.hook = "none" /\ o.status # "SETTLING"
    BY <1>1, <2>1 DEF JobInv, Hooks
  <2>3. j \notin hooked => rec'[j].hook = "none" /\ rec'[j].status # "SETTLING"
    BY <2>2 DEF JobInv, Hooks, Public
  <2>4. j \notin hooked => \A m \in Mgr : mem'[m][j].hook = "none" /\ mem'[m][j].status # "SETTLING"
    BY <1>1, <2>2 DEF JobInv, Hooks
  <2> QED
    BY <1>1, <2>1, <2>3, <2>4 DEF Hooks, kinds
<1>9. Drafts(j)'
  <2>1. worker'[j] = "done" => Late(j)'
    BY DEF Late
  <2>2. worker'[j] = "unsaved" => ~Late(j)
    BY <1>4
  <2> QED
    BY <1>1, <1>2, <1>3, <1>4, <1>5, <2>1, <2>2 DEF Drafts
<1>10. Settlements(j)'
  <2>1. j \in hooked /\ o.hook = "done" => j \in settled'
    BY <1>1 DEF JobInv, Settlements
  <2>2. j \in hooked /\ rec'[j].hook = "done" => j \in settled'
    BY <2>1 DEF JobInv, Settlements
  <2>3. j \in hooked /\ rec'[j].status \in Reviewable => rec'[j].hook = "done"
    BY <1>4, <1>5 DEF JobInv, Settlements
  <2>4. j \in hooked => /\ o.status \in Decided => o.hook = "done"
                        /\ o.status = "COMPLETED" => o.hook = "done"
    BY <1>1 DEF JobInv, Settlements, Reviewable
  <2>5. ASSUME NEW m \in Mgr, j \in hooked, m # home[j]
        PROVE  /\ mem'[m][j].hook = "done" => j \in settled'
               /\ mem'[m][j].status \in Decided => mem'[m][j].hook = "done"
               /\ mem'[m][j].status = "COMPLETED" => mem'[m][j].hook = "done"
    BY <2>5 DEF JobInv, Settlements
  <2> QED
    BY <1>1, <2>1, <2>2, <2>3, <2>4, <2>5 DEF Settlements, kinds
<1>11. Claims(j)'
  <2>1. \A m \in Mgr : holder[j] = <<"recover", m>> => m # home[j]
    BY DEF JobInv, Claims, Threads
  <2>2. ASSUME NEW m \in Mgr,
               holder[j] \in {<<"accept", m>>, <<"written", m>>, <<"accepted", m>>}
        PROVE  mem'[m][j].status = mem[m][j].status /\ rec'[j] = rec[j] /\ Late(j)'
    <3>1. Late(j) /\ Called(j)
      BY <2>2 DEF JobInv, Claims
    <3>2. o = Here(j) \/ m # home[j]
      BY <1>1, <3>1 DEF Late, Called
    <3> QED
      BY <1>1, <1>4, <3>1, <3>2 DEF Late
  <2>3. ASSUME NEW m \in Mgr, holder[j] = <<"recover", m>>
        PROVE  /\ mem'[m][j].status = "FAILED"
               /\ rec'[j].status \notin Reviewable
    BY <1>4, <1>5, <2>1, <2>3 DEF JobInv, Claims
  <2> QED
    BY <2>2, <2>3 DEF JobInv, Claims
<1>12. Manuscript(j)'
  <2>1. ~Late(j) => rec'[j].status # "ACCEPTED" /\ writes[j] = 0
                    /\ \A m \in Mgr : mem'[m][j].status # "ACCEPTED"
    BY <1>1, <1>2, <1>3, <1>5 DEF Reviewable, Decided
  <2>2. Late(j) => \A m \in Mgr : mem'[m][j].status = "ACCEPTED" => mem[m][j].status = "ACCEPTED"
    BY <1>1 DEF Reviewable, Decided
  <2> QED
    BY <1>4, <2>1, <2>2 DEF JobInv, Manuscript
<1>13. Refusals(j)'
  <2>1. j \in refused => /\ worker[j] = "finishing" /\ worker'[j] = "done"
                         /\ \A m \in Mgr : mem[m][j].status \notin Reviewable
                         /\ rec[j].status \notin Reviewable /\ j \in guarded
    BY DEF JobInv, Refusals
  <2>2. j \in refused => o.status \notin Reviewable
    BY <1>1, <2>1
  <2>3. j \in refused => rec'[j].status \notin Reviewable
    BY <2>1, <2>2 DEF Public, Reviewable
  <2> QED
    BY <1>1, <2>1, <2>2, <2>3 DEF Refusals, kinds
<1> QED
  BY <1>7, <1>8, <1>9, <1>10, <1>11, <1>12, <1>13 DEF JobInv

\* The finally clause, or a failed start, calls the hook the first time.
LEMMA LateHookKeeps ==
  ASSUME TypeOK, TypeOK', NEW j \in Job, JobInv(j), LateHook(j)
  PROVE  JobInv(j)'
<1>1. /\ worker[j] \in {"finishing", "unstarted"} /\ j \in hooked /\ calls[j] = 0
      /\ worker'[j] = IF worker[j] = "unstarted" THEN "unsaved" ELSE "done"
  BY DEF LateHook, At, HookOpen, To, TypeOK
<1>2. home[j] \in Mgr /\ Here(j) \in Object /\ Here(j) = mem[home[j]][j]
  BY <1>1, AtHome DEF JobInv, Here
<1>3. Here(j).status \notin Reviewable \cup {"none"}
  <2>1. ~Late(j) /\ worker[j] \notin Publishing
    BY <1>1 DEF Late, Called, Publishing
  <2> QED
    BY <1>1, <1>2, <2>1 DEF JobInv, Threads, Drafts
<1>4. PICK u \in Object :
        /\ CallHook(j, u)
        /\ \/ Save(j, u) /\ Keep(home[j], j, u)
           \/ SaveRaises /\ Keep(home[j], j, Unreceipted(u))
  BY DEF LateHook
<1>5. /\ u.hook = "done" => j \in settled'
      /\ u.status \in {Here(j).status, "FAILED"}
      /\ calls'[j] = 1
  BY <1>1, <1>2, <1>4, CallAt
<1>6. j \in settled => j \in settled'
  BY <1>4 DEF CallHook
<1>7. PICK o \in Object :
        /\ Keep(home[j], j, o)
        /\ o.status \in {u.status, "FAILED"} /\ (o.hook = "done" => u.hook = "done")
        /\ UNCHANGED rec \/ Save(j, o)
  BY <1>4, UnreceiptedTyped DEF SaveRaises
<1>8. o.status \notin Reviewable \cup {"none"}
  BY <1>3, <1>5, <1>7 DEF Reviewable, Decided
<1>9. /\ mem'[home[j]][j] = o
      /\ \A m \in Mgr : m # home[j] => mem'[m][j] = mem[m][j]
  BY <1>2, <1>7, KeepAt DEF TypeOK
<1>10. rec'[j] = rec[j] \/ (rec'[j].hook = o.hook /\ rec'[j].status = Public(j, o))
  BY <1>7, SaveAt DEF TypeOK
<1>11. /\ UNCHANGED <<life, todo, home, kinds, cancelling, writes, holder, refused>>
       /\ calls'[j] = 1 /\ Called(j)'
  BY <1>5 DEF LateHook, Elsewhere, kinds, Called
<1> QED
  BY <1>1, <1>5, <1>6, <1>7, <1>8, <1>9, <1>10, <1>11, EndKeeps

\* A thread ends with its hook called.
LEMMA FinishKeeps ==
  ASSUME TypeOK, TypeOK', NEW j \in Job, JobInv(j), Finish(j)
  PROVE  JobInv(j)'
<1>1. /\ worker[j] \in {"finishing", "unstarted", "unsaved"} /\ worker'[j] = "done"
      /\ worker[j] \in {"finishing", "unstarted"} => ~HookOpen(j)
  BY DEF Finish, At, To, TypeOK
<1>2. home[j] \in Mgr /\ home[j] # None /\ Here(j) \in Object /\ Here(j) = mem[home[j]][j]
  BY <1>1, AtHome DEF JobInv, Here
<1>3. /\ Called(j) /\ calls[j] \in {0, 1} /\ (calls[j] # 0 => j \in hooked)
  BY <1>1, <1>2 DEF JobInv, Hooks, HookOpen, Called
<1>4. \/ rec'[j] = rec[j]
      \/ /\ worker[j] # "finishing"
         /\ rec'[j].hook = Here(j).hook /\ rec'[j].status = Public(j, Here(j))
  BY <1>2, SaveAt DEF Finish, TrySave, SaveRaises, At, TypeOK
<1>5. /\ UNCHANGED <<mem, life, todo, home, kinds, cancelling, writes, holder, refused, calls, settled>>
      /\ Called(j)'
  BY <1>3 DEF Finish, Elsewhere, kinds, Called
<1> QED
  BY <1>1, <1>2, <1>3, <1>4, <1>5, EndKeeps

\* Every step of a thread keeps the invariant of every job.
LEMMA WorkerKeeps ==
  ASSUME Core, TypeOK', NEW j \in Job, Worker(j)
  PROVE  \A i \in Job : JobInv(i)'
<1>1. TypeOK /\ \A i \in Job : JobInv(i)
  BY DEF Core
<1>2. \A i \in Job : i # j => JobInv(i)'
  BY <1>1, WorkerElsewhere, SameJobKeeps
<1>3. JobInv(j)'
  <2>1. CASE \/ ThreadFails(j) \/ Stop(j) \/ BeginRun(j) \/ Refuse(j)
             \/ SaveSnapshot(j) \/ Dispatch(j) \/ RunFails(j) \/ Delta(j)
             \/ CompleteStream(j) \/ Fail(j)
    BY <1>1, <2>1, EarlyStep
  <2>2. CASE BeginPublication(j)
    BY <1>1, <2>2, BeginPublicationKeeps
  <2>3. CASE Settle(j)
    BY <1>1, <2>3, SettleKeeps
  <2>4. CASE SaveSettlement(j)
    BY <1>1, <2>4, SaveSettlementKeeps
  <2>5. CASE Publish(j)
    BY <1>1, <2>5, PublishKeeps
  <2>6. CASE RefusePublication(j) \/ Withdraw(j)
    BY <1>1, <2>6, FailedPublicationKeeps
  <2>7. CASE LateHook(j)
    BY <1>1, <2>7, LateHookKeeps
  <2>8. CASE Finish(j)
    BY <1>1, <2>8, FinishKeeps
  <2> QED
    BY <2>1, <2>2, <2>3, <2>4, <2>5, <2>6, <2>7, <2>8 DEF Worker
<1> QED
  BY <1>2, <1>3

-----------------------------------------------------------------------------
\* What is known while nobody keeps the review lock of a job across steps, or
\* somebody does who is not its worker.
LEMMA NotPublishing ==
  ASSUME TypeOK, NEW j \in Job, JobInv(j),
         \A m \in Mgr : holder[j] # <<"worker", m>>
  PROVE  /\ worker[j] \notin Publishing
         /\ rec[j].status \in Reviewable => Late(j) /\ Called(j)
         /\ \A m \in Mgr : mem[m][j].status \in Reviewable => Late(j)
         /\ j \in hooked /\ rec[j].status \in Reviewable => rec[j].hook = "done"
         /\ j \in hooked => \A m \in Mgr : mem[m][j].status \in Reviewable =>
                                             mem[m][j].hook = "done"
         /\ rec[j].status = "COMPLETED" => writes[j] = 0
<1>1. worker[j] \notin Publishing
  <2>1. worker[j] \in Publishing => home[j] \in Mgr
    BY AtHome DEF JobInv, Publishing
  <2> QED
    BY <2>1 DEF JobInv, Threads
<1>2. rec[j].status = "COMPLETED" => writes[j] = 0
  <2>1. writes[j] \in Nat /\ writes[j] <= 1
    BY DEF JobInv, Manuscript, TypeOK
  <2>2. rec[j].status = "COMPLETED" => writes[j] # 1
    BY DEF JobInv, Manuscript
  <2> QED
    BY <2>1, <2>2
<1> QED
  BY <1>1, <1>2 DEF JobInv, Drafts, Settlements, Reviewable, Publishing

\* A review or a recovery keeps the invariant of its job if what it leaves in
\* the object and in the record fits together.
LEMMA ReviewKeeps ==
  ASSUME TypeOK, TypeOK', NEW m \in Mgr, NEW j \in Job, JobInv(j),
         worker[j] # "none", worker[j] \notin Publishing,
         NEW o \in Object, mem'[m][j] = o, o.status # "none",
         \A n \in Mgr : n # m => mem'[n][j] = mem[n][j],
         rec'[j] = rec[j] \/ (rec'[j].hook = o.hook /\ rec'[j].status = Public(j, o)),
         UNCHANGED <<life, home, worker, kinds, cancelling, calls, settled, refused>>,
         \A n \in Mgr : holder'[j] # <<"worker", n>>,
         j \notin hooked => o.hook = "none" /\ o.status # "SETTLING",
         m = home[j] /\ worker[j] \notin {"done", "dead"} /\ calls[j] = 0 =>
           o.hook = "none",
         j \in hooked /\ o.hook = "done" => j \in settled,
         o.status \in Reviewable =>
           Late(j) /\ j \notin refused /\ (j \in hooked => o.hook = "done"),
         rec'[j].status \in Reviewable =>
           /\ Late(j) /\ Called(j) /\ j \notin refused
           /\ j \in hooked => rec'[j].hook = "done",
         writes'[j] # 0 => Late(j),
         Claims(j)', Manuscript(j)'
  PROVE  JobInv(j)'
<1>1. /\ home[j] \in Mgr /\ home[j] # None
      /\ Here(j)' = IF m = home[j] THEN o ELSE Here(j)
      /\ (Late(j)' <=> Late(j)) /\ (Called(j)' <=> Called(j))
  BY AtHome DEF JobInv, Here, Late, Called, kinds
<1>2. rec'[j].status # "none"
  BY DEF JobInv, Threads, Public
<1>3. Threads(j)'
  BY <1>1, <1>2 DEF JobInv, Threads
<1>4. Hooks(j)'
  <2>1. j \notin hooked => rec'[j].hook = "none" /\ rec'[j].status # "SETTLING"
    BY DEF JobInv, Hooks, Public
  <2>2. j \notin hooked => \A n \in Mgr : mem'[n][j].hook = "none" /\ mem'[n][j].status # "SETTLING"
    BY DEF JobInv, Hooks
  <2> QED
    BY <1>1, <2>1, <2>2 DEF JobInv, Hooks, kinds
<1>5. Drafts(j)'
  <2>1. \A n \in Mgr : mem'[n][j].status \in Reviewable => Late(j)
    BY DEF JobInv, Drafts
  <2> QED
    BY <1>1, <2>1 DEF Drafts
<1>6. Settlements(j)'
  <2>1. j \in hooked /\ rec'[j].hook = "done" => j \in settled
    BY DEF JobInv, Settlements
  <2>2. ASSUME NEW n \in Mgr, j \in hooked
        PROVE  /\ mem'[n][j].hook = "done" => j \in settled
               /\ mem'[n][j].status \in Decided => mem'[n][j].hook = "done"
               /\ mem'[n][j].status = "COMPLETED" => mem'[n][j].hook = "done"
    BY <2>2 DEF JobInv, Settlements, Reviewable, Publishing
  <2>3. worker[j] \notin {"settled", "publishing"}
    BY DEF Publishing
  <2> QED
    BY <1>1, <2>1, <2>2, <2>3 DEF Settlements, kinds
<1>7. Refusals(j)'
  BY <1>1 DEF JobInv, Refusals, kinds
<1> QED
  BY <1>3, <1>4, <1>5, <1>6, <1>7 DEF JobInv

\* Refreshing an object that may be reviewed tells it what the record says.
LEMMA RefreshFacts ==
  ASSUME TypeOK, NEW m \in Mgr, NEW j \in Job, JobInv(j),
         mem[m][j].status # "none", holder[j] = None,
         Accounted(j, mem[m][j].hook)
  PROVE  /\ worker[j] # "none" /\ Refresh(m, j) \in Object
         /\ Refresh(m, j).status = rec[j].status /\ rec[j].status # "none"
         /\ j \notin hooked => Refresh(m, j).hook = "none"
                               /\ Refresh(m, j).status # "SETTLING"
         /\ m = home[j] /\ worker[j] \notin {"done", "dead"} /\ calls[j] = 0 =>
              Refresh(m, j).hook = "none"
         /\ j \in hooked /\ Refresh(m, j).hook = "done" => j \in settled
         /\ j \in hooked /\ Refresh(m, j).status \in Reviewable =>
              Refresh(m, j).hook = "done"
<1>1. worker[j] # "none" /\ rec[j].status # "none"
  BY DEF JobInv, Threads, NoObject
<1>2. /\ Refresh(m, j) \in Object /\ Refresh(m, j).status = rec[j].status
      /\ Refresh(m, j).hook = IF rec[j].hook = "none" THEN mem[m][j].hook ELSE rec[j].hook
  BY <1>1, RefreshTyped
<1>3. j \notin hooked => /\ rec[j].hook = "none" /\ rec[j].status # "SETTLING"
                         /\ mem[m][j].hook = "none"
  BY DEF JobInv, Hooks
<1>4. \A n \in Mgr : holder[j] # <<"worker", n>>
  BY GenerationOK DEF Claim
<1>5. j \in hooked /\ rec[j].status \in Reviewable => rec[j].hook = "done"
  BY <1>4, NotPublishing
<1>6. m = home[j] /\ worker[j] \notin {"done", "dead"} /\ calls[j] = 0 => j \notin hooked
  <2>1. worker[j] \notin Publishing
    BY <1>4, NotPublishing
  <2>2. ASSUME m = home[j], worker[j] \notin {"done", "dead"}, calls[j] = 0, j \in hooked
        PROVE  mem[m][j].hook = "none"
    <3>1. home[j] # None /\ Here(j) = mem[m][j]
      BY <2>2, GenerationOK DEF Here
    <3>2. worker[j] \notin {"settled", "publishing", "uncertain", "unsaved"}
      BY <2>1, <2>2 DEF JobInv, Hooks, Called, Publishing
    <3> QED
      BY <2>2, <3>1, <3>2 DEF JobInv, Hooks
  <2> QED
    BY <2>2 DEF Accounted
<1>7. j \in hooked /\ Refresh(m, j).hook = "done" => j \in settled
  BY <1>2 DEF JobInv, Settlements
<1> QED
  BY <1>1, <1>2, <1>3, <1>5, <1>6, <1>7

\* An acceptance that is refused leaves the object as the record says.
LEMMA RefuseAcceptKeeps ==
  ASSUME TypeOK, TypeOK', NEW m \in Mgr, NEW j \in Job, JobInv(j),
         RefuseAccept(m, j)
  PROVE  JobInv(j)'
<1> DEFINE o == Refresh(m, j)
<1>1. /\ mem[m][j].status # "none" /\ holder[j] = None
      /\ Accounted(j, mem[m][j].hook) /\ Keep(m, j, o)
      /\ UNCHANGED <<rec, life, home, worker, kinds, cancelling, calls, settled, refused>>
      /\ UNCHANGED <<holder, writes>>
  BY DEF RefuseAccept, threads, grants, effects
<1>2. /\ worker[j] # "none" /\ o \in Object
      /\ o.status = rec[j].status /\ rec[j].status # "none"
      /\ j \notin hooked => o.hook = "none" /\ o.status # "SETTLING"
      /\ m = home[j] /\ worker[j] \notin {"done", "dead"} /\ calls[j] = 0 =>
           o.hook = "none"
      /\ j \in hooked /\ o.hook = "done" => j \in settled
      /\ j \in hooked /\ o.status \in Reviewable => o.hook = "done"
  BY <1>1, RefreshFacts
<1> HIDE DEF o
<1>3. \A n \in Mgr : holder'[j] # <<"worker", n>> /\ holder[j] # <<"worker", n>>
  BY <1>1, GenerationOK DEF Claim
<1>4. /\ worker[j] \notin Publishing
      /\ rec[j].status \in Reviewable => Late(j) /\ Called(j)
      /\ j \in hooked /\ rec[j].status \in Reviewable => rec[j].hook = "done"
  BY <1>3, NotPublishing
<1>5. j \in refused => rec[j].status \notin Reviewable
  BY DEF JobInv, Refusals
<1>6. mem'[m][j] = o /\ \A n \in Mgr : n # m => mem'[n][j] = mem[n][j]
  BY <1>1, KeepAt DEF TypeOK
<1>7. Claims(j)'
  BY <1>1, GenerationOK DEF Claims, Claim
<1>8. Manuscript(j)' /\ (writes[j] # 0 => Late(j))
  BY <1>1, <1>2, <1>6 DEF JobInv, Manuscript, Drafts
<1> QED
  BY <1>1, <1>2, <1>3, <1>4, <1>5, <1>6, <1>7, <1>8, ReviewKeeps

\* A claim is made on a settled draft that nobody has written.
LEMMA AcceptKeeps ==
  ASSUME TypeOK, TypeOK', NEW m \in Mgr, NEW j \in Job, JobInv(j), Accept(m, j)
  PROVE  JobInv(j)'
<1> DEFINE o == [Refresh(m, j) EXCEPT !.status = "ACCEPTING"]
<1>1. /\ mem[m][j].status # "none" /\ holder[j] = None /\ life[m] = "up"
      /\ Accounted(j, mem[m][j].hook) /\ Keep(m, j, o)
      /\ Accounted(j, Refresh(m, j).hook) /\ Refresh(m, j).status = "COMPLETED"
      /\ \/ Save(j, o) /\ holder' = [holder EXCEPT ![j] = <<"accept", m>>]
         \/ UNCHANGED rec /\ UNCHANGED holder
      /\ UNCHANGED <<life, home, worker, kinds, cancelling, calls, settled, refused>>
      /\ UNCHANGED writes
  BY DEF Accept, threads, grants, effects, SaveRaises
<1>2. /\ worker[j] # "none" /\ Refresh(m, j) \in Object
      /\ rec[j].status = "COMPLETED"
      /\ j \notin hooked => Refresh(m, j).hook = "none"
      /\ m = home[j] /\ worker[j] \notin {"done", "dead"} /\ calls[j] = 0 =>
           Refresh(m, j).hook = "none"
      /\ j \in hooked => Refresh(m, j).hook = "done" /\ j \in settled
  BY <1>1, RefreshFacts DEF Accounted
<1>3. "ACCEPTING" \in Status
  BY DEF Status, Terminal, Decided
<1>4. o \in Object /\ o.hook = Refresh(m, j).hook /\ o.status = "ACCEPTING"
  BY <1>2, <1>3 DEF Object
<1> HIDE DEF o
<1>5. \A n \in Mgr : holder[j] # <<"worker", n>>
  BY <1>1, GenerationOK DEF Claim
<1>6. /\ worker[j] \notin Publishing /\ Late(j) /\ Called(j) /\ writes[j] = 0
      /\ j \in hooked => rec[j].hook = "done"
  BY <1>2, <1>5, NotPublishing DEF Reviewable
<1>7. j \notin refused
  BY <1>2 DEF JobInv, Refusals, Reviewable
<1>8. mem'[m][j] = o /\ \A n \in Mgr : n # m => mem'[n][j] = mem[n][j]
  BY <1>1, KeepAt DEF TypeOK
<1>9. \/ rec'[j].hook = o.hook /\ rec'[j].status = "ACCEPTING" /\ holder'[j] = <<"accept", m>>
      \/ rec'[j] = rec[j] /\ holder'[j] = None
  BY <1>1, <1>4, SaveAt DEF TypeOK, Public
<1>10. Public(j, o) = "ACCEPTING"
  BY <1>4 DEF Public
<1>11. \A n \in Mgr : holder'[j] # <<"worker", n>>
  BY <1>9, GenerationOK DEF Claim
<1>12. Claims(j)'
  <2>1. Late(j)' /\ Called(j)'
    BY <1>1, <1>6 DEF Late, Called, kinds
  <2>2. CASE holder'[j] = None
    BY <2>2, GenerationOK DEF Claims, Claim
  <2>3. CASE holder'[j] = <<"accept", m>> /\ rec'[j].status = "ACCEPTING"
    <3>1. \A n \in Mgr : /\ holder'[j] = <<"accept", n>> => n = m
                          /\ holder'[j] # <<"written", n>>
                          /\ holder'[j] # <<"accepted", n>>
                          /\ holder'[j] # <<"recover", n>>
      BY <2>3
    <3>2. life'[m] = "up" /\ mem'[m][j].status = "ACCEPTING" /\ writes'[j] = 0
      BY <1>1, <1>4, <1>6, <1>8
    <3> QED
      BY <2>1, <2>3, <3>1, <3>2 DEF Claims
  <2> QED
    BY <1>9, <2>2, <2>3
<1>13. Manuscript(j)'
  <2>1. \A n \in Mgr : mem'[n][j].status # "ACCEPTED"
    BY <1>4, <1>6, <1>8 DEF JobInv, Manuscript
  <2>2. rec'[j].status # "ACCEPTED"
    BY <1>2, <1>9
  <2> QED
    BY <1>1, <1>6, <2>1, <2>2 DEF Manuscript
<1>14. rec'[j] = rec[j] \/ (rec'[j].hook = o.hook /\ rec'[j].status = Public(j, o))
  BY <1>9, <1>10
<1>15. j \in hooked => rec'[j].hook = "done" /\ o.hook = "done"
  BY <1>2, <1>4, <1>6, <1>9
<1> QED
  BY <1>1, <1>2, <1>4, <1>6, <1>7, <1>8, <1>11, <1>12, <1>13, <1>14, <1>15, ReviewKeeps

\* What an acceptance relies on while it has the lock.
LEMMA ClaimFacts ==
  ASSUME TypeOK, NEW m \in Mgr, NEW j \in Job, JobInv(j),
         holder[j] \in {<<"accept", m>>, <<"written", m>>, <<"accepted", m>>}
  PROVE  /\ worker[j] # "none" /\ worker[j] \notin Publishing
         /\ Late(j) /\ Called(j) /\ j \notin refused
         /\ mem[m][j] \in Object /\ life[m] = "up"
         /\ mem[m][j].status =
              IF holder[j] = <<"accepted", m>> THEN "ACCEPTED" ELSE "ACCEPTING"
         /\ rec[j].status \in {mem[m][j].status, "CANCELLED"}
         /\ j \in hooked => /\ mem[m][j].hook = "done" /\ j \in settled
                            /\ rec[j].status \in Reviewable => rec[j].hook = "done"
         /\ j \notin hooked => mem[m][j].hook = "none"
         /\ calls[j] = 0 => j \notin hooked
<1>1. /\ mem[m][j].status =
           IF holder[j] = <<"accepted", m>> THEN "ACCEPTED" ELSE "ACCEPTING"
      /\ rec[j].status \in {mem[m][j].status, "CANCELLED"}
      /\ Late(j) /\ Called(j) /\ life[m] = "up"
  BY DEF JobInv, Claims
<1>2. worker[j] # "none" /\ worker[j] \notin Publishing
  BY <1>1 DEF Late, Publishing
<1>3. j \notin refused /\ mem[m][j] \in Object
  BY <1>1 DEF JobInv, Refusals, Reviewable, Decided, TypeOK
<1> QED
  BY <1>1, <1>2, <1>3 DEF JobInv, Settlements, Hooks, Called, Decided

\* The chapter is written once under a claim.
LEMMA WriteChapterKeeps ==
  ASSUME TypeOK, TypeOK', NEW m \in Mgr, NEW j \in Job, JobInv(j), WriteChapter(m, j)
  PROVE  JobInv(j)'
<1>1. /\ holder[j] = <<"accept", m>> /\ holder'[j] = <<"written", m>>
      /\ UNCHANGED <<rec, mem, life, home, worker, kinds, cancelling, calls, settled, refused>>
  BY DEF WriteChapter, objects, threads, grants, TypeOK
<1>2. writes'[j] = 1
  BY DEF WriteChapter, JobInv, Claims, TypeOK
<1>3. /\ worker[j] # "none" /\ worker[j] \notin Publishing
      /\ Late(j) /\ Called(j) /\ j \notin refused
      /\ mem[m][j] \in Object /\ mem[m][j].status = "ACCEPTING"
      /\ rec[j].status \in {"ACCEPTING", "CANCELLED"}
      /\ j \in hooked => /\ mem[m][j].hook = "done" /\ j \in settled
                         /\ rec[j].status \in Reviewable => rec[j].hook = "done"
      /\ j \notin hooked => mem[m][j].hook = "none"
      /\ calls[j] = 0 => j \notin hooked
  <2>1. holder[j] # <<"accepted", m>>
    BY <1>1
  <2> QED
    BY <1>1, <2>1, ClaimFacts
<1>4. Late(j)' /\ Called(j)'
  BY <1>1, <1>3 DEF Late, Called, kinds
<1>5. Claims(j)'
  BY <1>1, <1>2, <1>4 DEF JobInv, Claims
<1>6. Manuscript(j)'
  <2>1. rec'[j].status \notin Executing \cup {"none", "COMPLETED", "REJECTED", "ACCEPTED"}
    BY <1>1, <1>3 DEF Executing
  <2> QED
    BY <1>2, <2>1 DEF Manuscript
<1>7. \A n \in Mgr : holder'[j] # <<"worker", n>>
  BY <1>1
<1> QED
  BY <1>1, <1>3, <1>5, <1>6, <1>7, ReviewKeeps

\* An acceptance stores the decision, or ends with the doubt.
LEMMA ConcludesKeeps ==
  ASSUME TypeOK, TypeOK', NEW m \in Mgr, NEW j \in Job, JobInv(j),
         Accepted(m, j) \/ AcceptanceFails(m, j)
  PROVE  JobInv(j)'
<1>1. PICK s \in {"ACCEPTED", "ACCEPTANCE_UNCERTAIN"} :
        /\ s = "ACCEPTED" => holder[j] = <<"written", m>>
        /\ holder[j] \in {<<"accept", m>>, <<"written", m>>, <<"accepted", m>>}
        /\ UNCHANGED rec \/ Save(j, WithStatus(m, j, s))
        /\ s = "ACCEPTED" => Save(j, WithStatus(m, j, s))
        /\ Concludes(m, j, s, IF s = "ACCEPTED" THEN <<"accepted", m>> ELSE None)
  BY DEF Accepted, AcceptanceFails, TrySave, SaveRaises
<1> DEFINE o == WithStatus(m, j, s)
<1>2. /\ worker[j] # "none" /\ worker[j] \notin Publishing
      /\ Late(j) /\ Called(j) /\ j \notin refused /\ life[m] = "up"
      /\ mem[m][j] \in Object /\ mem[m][j].status \in {"ACCEPTING", "ACCEPTED"}
      /\ rec[j].status \in {"ACCEPTING", "ACCEPTED", "CANCELLED"}
      /\ j \in hooked => /\ mem[m][j].hook = "done" /\ j \in settled
                         /\ rec[j].status \in Reviewable => rec[j].hook = "done"
      /\ j \notin hooked => mem[m][j].hook = "none"
      /\ calls[j] = 0 => j \notin hooked
  BY <1>1, ClaimFacts
<1>3. s \in Status
  BY DEF Status, Terminal, Decided
<1>4. o \in Object /\ o.hook = mem[m][j].hook /\ o.status = s
  BY <1>2, <1>3 DEF WithStatus, Object
<1>5. /\ UNCHANGED rec \/ Save(j, o)
      /\ s = "ACCEPTED" => Save(j, o)
      /\ Keep(m, j, o)
  BY <1>1 DEF Concludes
<1>6. /\ holder'[j] = IF s = "ACCEPTED" THEN <<"accepted", m>> ELSE None
      /\ UNCHANGED <<life, home, worker, kinds, cancelling, calls, settled, refused>>
      /\ UNCHANGED writes
  BY <1>1 DEF Concludes, threads, grants, effects, TypeOK
<1> HIDE DEF o
<1>7. mem'[m][j] = o /\ \A n \in Mgr : n # m => mem'[n][j] = mem[n][j]
  BY <1>5, KeepAt DEF TypeOK
<1>8. Public(j, o) = s
  BY <1>4 DEF Public
<1>9. /\ rec'[j] = rec[j] \/ (rec'[j].hook = o.hook /\ rec'[j].status = s)
      /\ s = "ACCEPTED" => rec'[j].status = s
  BY <1>4, <1>5, <1>8, SaveAt DEF TypeOK
<1>10. \A n \in Mgr : holder'[j] # <<"worker", n>>
  BY <1>6, GenerationOK DEF Claim
<1>11. s = "ACCEPTED" => writes[j] = 1
  BY <1>1 DEF JobInv, Claims
<1>12. Claims(j)'
  <2>1. CASE s = "ACCEPTED"
    <3>1. \A n \in Mgr : /\ holder'[j] = <<"accepted", n>> => n = m
                          /\ holder'[j] # <<"accept", n>>
                          /\ holder'[j] # <<"written", n>>
                          /\ holder'[j] # <<"recover", n>>
      BY <1>6, <2>1
    <3>2. life'[m] = "up" /\ mem'[m][j].status = "ACCEPTED" /\ writes'[j] = 1
      BY <1>2, <1>4, <1>6, <1>7, <1>11, <2>1
    <3>3. rec'[j].status = "ACCEPTED" /\ Late(j)' /\ Called(j)'
      BY <1>2, <1>6, <1>9, <2>1 DEF Late, Called, kinds
    <3>4. holder'[j] = <<"accepted", m>>
      BY <1>6, <2>1
    <3> QED
      BY <3>1, <3>2, <3>3, <3>4 DEF Claims
  <2>2. CASE s # "ACCEPTED"
    BY <1>6, <2>2, GenerationOK DEF Claims, Claim
  <2> QED
    BY <2>1, <2>2
<1>13. Manuscript(j)'
  <2>1. rec'[j].status \in {"ACCEPTING", "ACCEPTED", "CANCELLED", "ACCEPTANCE_UNCERTAIN"}
    BY <1>2, <1>9
  <2>2. rec'[j].status = "ACCEPTED" => writes[j] = 1
    BY <1>9, <1>11 DEF JobInv, Manuscript
  <2>3. writes[j] <= 1
    BY DEF JobInv, Manuscript
  <2>4. \A n \in Mgr : mem'[n][j].status = "ACCEPTED" => writes[j] = 1
    BY <1>4, <1>7, <1>11 DEF JobInv, Manuscript
  <2> QED
    BY <1>6, <2>1, <2>2, <2>3, <2>4 DEF Manuscript, Executing
<1>14. j \in hooked /\ rec'[j].status \in Reviewable => rec'[j].hook = "done"
  BY <1>2, <1>4, <1>9
<1> QED
  BY <1>2, <1>4, <1>6, <1>7, <1>8, <1>9, <1>10, <1>12, <1>13, <1>14, ReviewKeeps

\* An acceptance that is answered leaves what it stored.
LEMMA AnswerKeeps ==
  ASSUME TypeOK, TypeOK', NEW m \in Mgr, NEW j \in Job, JobInv(j), AnswerAccept(m, j)
  PROVE  JobInv(j)'
<1>1. /\ holder[j] = <<"accepted", m>> /\ holder'[j] = None
      /\ UNCHANGED <<rec, mem, life, home, worker, kinds, cancelling, calls, settled, refused>>
      /\ UNCHANGED writes
  BY DEF AnswerAccept, objects, threads, grants, effects, TypeOK
<1>2. /\ worker[j] # "none" /\ worker[j] \notin Publishing
      /\ Late(j) /\ Called(j) /\ j \notin refused
      /\ mem[m][j] \in Object /\ mem[m][j].status = "ACCEPTED"
      /\ j \in hooked => /\ mem[m][j].hook = "done" /\ j \in settled
                         /\ rec[j].status \in Reviewable => rec[j].hook = "done"
      /\ j \notin hooked => mem[m][j].hook = "none"
      /\ calls[j] = 0 => j \notin hooked
  BY <1>1, ClaimFacts
<1>3. Claims(j)' /\ \A n \in Mgr : holder'[j] # <<"worker", n>>
  BY <1>1, GenerationOK DEF Claims, Claim
<1>4. Manuscript(j)'
  BY <1>1 DEF JobInv, Manuscript
<1> QED
  BY <1>1, <1>2, <1>3, <1>4, ReviewKeeps

\* A rejection is of a settled draft that nobody has written.
LEMMA RejectKeeps ==
  ASSUME TypeOK, TypeOK', NEW m \in Mgr, NEW j \in Job, JobInv(j), Reject(m, j)
  PROVE  JobInv(j)'
<1> DEFINE o == WithStatus(m, j, "REJECTED")
<1>1. /\ holder[j] = None
      /\ Public(j, mem[m][j]) = "COMPLETED" /\ Accounted(j, mem[m][j].hook)
      /\ rec[j].status = "COMPLETED"
      /\ Keep(m, j, o) /\ (UNCHANGED rec \/ Save(j, o))
      /\ UNCHANGED <<life, home, worker, kinds, cancelling, calls, settled, refused>>
      /\ UNCHANGED <<writes, holder>>
  BY DEF Reject, Rejectable, threads, grants, effects, TrySave, SaveRaises
<1>2. mem[m][j] \in Object /\ "REJECTED" \in Status
  BY DEF TypeOK, Status, Terminal, Decided
<1>3. o \in Object /\ o.hook = mem[m][j].hook /\ o.status = "REJECTED"
  BY <1>2 DEF WithStatus, Object
<1> HIDE DEF o
<1>4. \A n \in Mgr : holder[j] # <<"worker", n>>
  BY <1>1, GenerationOK DEF Claim
<1>5. /\ worker[j] \notin Publishing /\ Late(j) /\ Called(j) /\ writes[j] = 0
      /\ j \in hooked => rec[j].hook = "done"
  BY <1>1, <1>4, NotPublishing DEF Reviewable
<1>6. /\ j \notin refused /\ worker[j] # "none"
      /\ j \in hooked => o.hook = "done" /\ j \in settled
      /\ j \notin hooked => o.hook = "none"
      /\ worker[j] \notin {"done", "dead"} /\ calls[j] = 0 => j \notin hooked
  <2>1. worker[j] \notin {"done", "dead"} => Called(j)
    BY <1>5
  <2> QED
    BY <1>1, <1>3, <1>5, <2>1 DEF JobInv, Refusals, Settlements, Hooks, Reviewable, Accounted, Late, Called
<1>7. mem'[m][j] = o /\ \A n \in Mgr : n # m => mem'[n][j] = mem[n][j]
  BY <1>1, KeepAt DEF TypeOK
<1>8. Public(j, o) = "REJECTED"
  BY <1>3 DEF Public
<1>9. rec'[j] = rec[j] \/ (rec'[j].hook = o.hook /\ rec'[j].status = "REJECTED")
  BY <1>1, <1>3, <1>8, SaveAt DEF TypeOK
<1>10. Claims(j)'
  BY <1>1, GenerationOK DEF Claims, Claim
<1>11. Manuscript(j)'
  <2>1. \A n \in Mgr : mem'[n][j].status # "ACCEPTED"
    BY <1>3, <1>5, <1>7 DEF JobInv, Manuscript
  <2>2. rec'[j].status # "ACCEPTED"
    BY <1>1, <1>9
  <2> QED
    BY <1>1, <1>5, <2>1, <2>2 DEF Manuscript
<1>12. j \in hooked => rec'[j].hook = "done"
  BY <1>5, <1>6, <1>9
<1> QED
  BY <1>1, <1>3, <1>4, <1>5, <1>6, <1>7, <1>8, <1>9, <1>10, <1>11, <1>12, ReviewKeeps

\* A cancellation cancels no object that is terminal.
LEMMA CommitCancelKeeps ==
  ASSUME TypeOK, TypeOK', NEW m \in Mgr, NEW j \in Job, JobInv(j),
         CommitCancel(m, j), ~IsTerminal(m, j)
  PROVE  JobInv(j)'
<1> DEFINE o == WithStatus(m, j, "CANCELLED")
<1>1. /\ <<m, j>> \in cancelling /\ cancelling' = cancelling \ {<<m, j>>}
      /\ Keep(m, j, o) /\ (UNCHANGED rec \/ Save(j, o))
      /\ UNCHANGED <<life, todo, home, worker, hooked, guarded, holder, calls,
                     settled, writes, refused>>
  BY DEF CommitCancel, CancelExecution, TrySave, SaveRaises, kinds, grants, effects
<1>2. worker[j] # "none"
  BY <1>1 DEF JobInv, Threads, NoObject
<1>3. mem[m][j] \in Object /\ "CANCELLED" \in Status
  BY DEF TypeOK, Status, Terminal
<1>4. o \in Object /\ o.hook = mem[m][j].hook /\ o.status = "CANCELLED"
  BY <1>3 DEF WithStatus, Object
<1> HIDE DEF o
<1>5. mem'[m][j] = o /\ \A n \in Mgr : n # m => mem'[n][j] = mem[n][j]
  BY <1>1, KeepAt DEF TypeOK
<1>6. Public(j, o) = "CANCELLED"
  BY <1>4 DEF Public
<1>7. rec'[j] = rec[j] \/ (rec'[j].hook = mem[m][j].hook /\ rec'[j].status = "CANCELLED")
  BY <1>1, <1>4, <1>6, SaveAt DEF TypeOK
<1>8. \A n \in Mgr :
        /\ mem'[n][j].hook = mem[n][j].hook
        /\ \/ mem'[n][j].status = mem[n][j].status
           \/ n = m /\ mem'[n][j].status = "CANCELLED" /\ mem[n][j].status \notin Terminal
  BY <1>4, <1>5 DEF IsTerminal
<1>9. /\ home[j] \in Mgr /\ Here(j) = mem[home[j]][j] /\ Here(j)' = mem'[home[j]][j]
      /\ (Late(j)' <=> Late(j)) /\ (Called(j)' <=> Called(j))
  BY <1>1, <1>2, AtHome DEF JobInv, Here, Late, Called
<1>10. "CANCELLED" \notin Reviewable \cup Executing
  BY DEF Reviewable, Decided, Executing
<1>11. Threads(j)'
  <2>1. \A n \in Mgr : mem[n][j].status # "none" => mem'[n][j].status # "none"
    BY <1>8
  <2>2. rec'[j].status # "none"
    BY <1>2, <1>7 DEF JobInv, Threads
  <2> QED
    BY <1>1, <1>2, <1>9, <2>1, <2>2 DEF JobInv, Threads
<1>12. Hooks(j)'
  <2>1. j \notin hooked => /\ rec'[j].hook = "none" /\ rec'[j].status # "SETTLING"
                           /\ \A n \in Mgr : mem'[n][j].hook = "none" /\ mem'[n][j].status # "SETTLING"
    BY <1>7, <1>8 DEF JobInv, Hooks
  <2> QED
    BY <1>1, <1>8, <1>9, <2>1 DEF JobInv, Hooks
<1>13. Drafts(j)'
  BY <1>1, <1>7, <1>8, <1>9, <1>10 DEF JobInv, Drafts, Reviewable
<1>14. Settlements(j)'
  <2>1. j \in hooked /\ rec'[j].hook = "done" => j \in settled
    BY <1>7 DEF JobInv, Settlements
  <2>2. j \in hooked /\ rec'[j].status \in Reviewable => rec'[j].hook = "done"
    BY <1>7, <1>10 DEF JobInv, Settlements
  <2> QED
    BY <1>1, <1>8, <1>9, <1>10, <2>1, <2>2 DEF JobInv, Settlements, Reviewable
<1>15. Claims(j)'
  <2>1. {"ACCEPTING", "ACCEPTED", "FAILED"} \subseteq Terminal
    BY DEF Terminal, Decided
  <2>2. rec'[j].status \in {rec[j].status, "CANCELLED"}
    BY <1>7
  <2> QED
    BY <1>1, <1>8, <1>9, <1>10, <2>1, <2>2 DEF JobInv, Claims
<1>16. Manuscript(j)'
  BY <1>1, <1>7, <1>8, <1>10 DEF JobInv, Manuscript
<1>17. Refusals(j)'
  BY <1>1, <1>7, <1>8, <1>9, <1>10 DEF JobInv, Refusals
<1> QED
  BY <1>11, <1>12, <1>13, <1>14, <1>15, <1>16, <1>17 DEF JobInv

-----------------------------------------------------------------------------
\* A recovery that reads the record under the lock ends what was executing.
LEMMA RecoverReadKeeps ==
  ASSUME TypeOK, TypeOK', NEW m \in Mgr, NEW j \in Job, JobInv(j), RecoverRead(m, j)
  PROVE  JobInv(j)'
<1> DEFINE o == Restored(rec[j])
<1>1. /\ life[m] = "booting" /\ j \in todo[m] /\ holder[j] = None /\ Keep(m, j, o)
      /\ UNCHANGED <<rec, life, home, worker, kinds, cancelling, calls, settled, refused, writes>>
  BY DEF RecoverRead, threads, grants, effects
<1>2. \/ /\ rec[j].status \in Executing /\ holder' = [holder EXCEPT ![j] = <<"recover", m>>]
         /\ UNCHANGED todo
      \/ /\ rec[j].status \notin Executing /\ UNCHANGED holder
         /\ todo' = [todo EXCEPT ![m] = @ \ {j}]
  BY DEF RecoverRead
<1>3. rec[j] \in Object
  BY DEF TypeOK
<1>4. /\ o \in Object
      /\ o.status = IF rec[j].status \in Executing THEN "FAILED" ELSE rec[j].status
      /\ o.hook = IF rec[j].status = "SETTLING" THEN "reconcile" ELSE rec[j].hook
  BY <1>3, RestoredTyped DEF Restored
<1>5. rec[j] = NoObject => o = NoObject
  <2>1. /\ NoObject.status = "none" /\ NoObject.hook = "none"
        /\ NoObject.unsure = FALSE /\ "none" \notin Executing
    BY DEF NoObject, Executing
  <2>2. (NoObject.unsure /\ NoObject.status # "SETTLING") = FALSE
    BY <2>1
  <2>3. Restored(NoObject) = [status |-> "none", hook |-> "none", unsure |-> FALSE]
    BY <2>1, <2>2 DEF Restored
  <2> QED
    BY <2>3 DEF NoObject
<1> HIDE DEF o
<1>6. mem'[m][j] = o /\ \A n \in Mgr : n # m => mem'[n][j] = mem[n][j]
  BY <1>1, KeepAt DEF TypeOK
<1>7. \A n \in Mgr : holder[j] # <<"worker", n>>
  BY <1>1, GenerationOK DEF Claim
<1>8. CASE worker[j] = "none"
  <2>1. /\ rec[j] = NoObject /\ o = NoObject
        /\ \A n \in Mgr : mem[n][j] = NoObject
    BY <1>5, <1>8 DEF JobInv, Threads
  <2>2. UNCHANGED holder
    BY <1>2, <2>1 DEF NoObject, Executing
  <2>3. \A n \in Mgr : mem'[n][j] = mem[n][j]
    BY <1>6, <2>1
  <2>4. \A n \in Mgr : holder[j] # <<"recover", n>>
    BY <1>1, GenerationOK DEF Claim
  <2>5. SameJob(j)
    BY <1>1, <2>2, <2>3, <2>4 DEF SameJob, kinds
  <2> QED
    BY <2>5, SameJobKeeps
<1>9. CASE worker[j] # "none"
  <2>1. /\ worker[j] \notin Publishing
        /\ rec[j].status \in Reviewable => Late(j) /\ Called(j)
        /\ j \in hooked /\ rec[j].status \in Reviewable => rec[j].hook = "done"
    BY <1>7, NotPublishing
  <2>2. rec[j].status # "none" /\ o.status # "none"
    BY <1>4, <1>9 DEF JobInv, Threads
  <2>3. m = home[j] => worker[j] \in {"done", "dead"}
    BY <1>1, <1>9 DEF JobInv, Threads
  <2>4. \A n \in Mgr : holder'[j] # <<"worker", n>>
    BY <1>2, <1>7 DEF TypeOK
  <2>5. o.status \in Reviewable => rec[j].status \in Reviewable /\ o.hook = rec[j].hook
    BY <1>4 DEF Reviewable, Decided, Executing
  <2>6. j \notin hooked => o.hook = "none" /\ o.status # "SETTLING"
    BY <1>4 DEF JobInv, Hooks, Executing
  <2>7. j \in hooked /\ o.hook = "done" => j \in settled
    BY <1>4 DEF JobInv, Settlements
  <2>8. j \in refused => rec[j].status \notin Reviewable
    BY DEF JobInv, Refusals
  <2>9. Claims(j)'
    <3>1. CASE rec[j].status \in Executing
      <4>1. holder'[j] = <<"recover", m>>
        BY <1>2, <3>1 DEF TypeOK
      <4>2. \A n \in Mgr : /\ holder'[j] = <<"recover", n>> => n = m
                            /\ holder'[j] # <<"written", n>>
                            /\ holder'[j] # <<"accept", n>>
                            /\ holder'[j] # <<"accepted", n>>
        BY <4>1
      <4>3. life'[m] = "booting" /\ j \in todo'[m] /\ mem'[m][j].status = "FAILED"
        BY <1>1, <1>2, <1>4, <1>6, <3>1
      <4>4. rec'[j].status \notin Reviewable
        BY <1>1, <3>1 DEF Executing, Reviewable, Decided
      <4>5. writes'[j] = 0
        <5>1. writes[j] \in Nat /\ writes[j] <= 1
          BY DEF JobInv, Manuscript, TypeOK
        <5>2. writes[j] # 1
          BY <3>1 DEF JobInv, Manuscript
        <5> QED
          BY <1>1, <5>1, <5>2
      <4>6. \A n \in Mgr : holder'[j] \notin {<<"accept", n>>, <<"written", n>>, <<"accepted", n>>}
        BY <4>1
      <4> QED
        BY <4>2, <4>3, <4>4, <4>5, <4>6 DEF Claims
    <3>2. CASE rec[j].status \notin Executing
      BY <1>1, <1>2, <3>2, GenerationOK DEF Claims, Claim
    <3> QED
      BY <3>1, <3>2
  <2>10. Manuscript(j)' /\ (writes'[j] # 0 => Late(j))
    <3>1. o.status = "ACCEPTED" => rec[j].status = "ACCEPTED"
      BY <1>4
    <3> QED
      BY <1>1, <1>6, <3>1 DEF JobInv, Manuscript, Drafts
  <2> QED
    BY <1>1, <1>4, <1>6, <1>9, <2>1, <2>2, <2>3, <2>4, <2>5, <2>6, <2>7, <2>8, <2>9, <2>10, ReviewKeeps
<1> QED
  BY <1>8, <1>9

\* What a recovery writes is the failure it read.
LEMMA RecoverWriteKeeps ==
  ASSUME TypeOK, TypeOK', NEW m \in Mgr, NEW j \in Job, JobInv(j), RecoverWrite(m, j)
  PROVE  JobInv(j)'
<1> DEFINE o == mem[m][j]
<1>1. /\ holder[j] = <<"recover", m>> /\ holder'[j] = None /\ Save(j, o)
      /\ UNCHANGED <<mem, life, home, worker, kinds, cancelling, calls, settled, refused, writes>>
  BY DEF RecoverWrite, threads, grants, effects, TypeOK
<1>2. /\ life[m] = "booting" /\ o.status = "FAILED" /\ writes[j] = 0 /\ o \in Object
  BY <1>1 DEF JobInv, Claims, TypeOK
<1>3. \A n \in Mgr : holder[j] # <<"worker", n>> /\ holder'[j] # <<"worker", n>>
  BY <1>1, GenerationOK DEF Claim
<1>4. worker[j] \notin Publishing
  BY <1>3, NotPublishing
<1>5. worker[j] # "none"
  BY <1>2 DEF JobInv, Threads, NoObject
<1>6. m = home[j] => worker[j] \in {"done", "dead"}
  BY <1>2, <1>5 DEF JobInv, Threads
<1>7. Public(j, o) = "FAILED" /\ "FAILED" \notin Reviewable
  BY <1>2 DEF Public, Reviewable, Decided
<1>8. rec'[j].hook = o.hook /\ rec'[j].status = Public(j, o)
  BY <1>1, <1>2, SaveAt DEF TypeOK
<1>9. Claims(j)'
  BY <1>1, GenerationOK DEF Claims, Claim
<1>10. Manuscript(j)'
  BY <1>1, <1>2, <1>7, <1>8 DEF JobInv, Manuscript
<1>11. /\ j \notin hooked => o.hook = "none" /\ o.status # "SETTLING"
       /\ j \in hooked /\ o.hook = "done" => j \in settled
  BY DEF JobInv, Hooks, Settlements
<1> QED
  BY <1>1, <1>2, <1>3, <1>4, <1>5, <1>6, <1>7, <1>8, <1>9, <1>10, <1>11, ReviewKeeps

\* A new job has no draft, no hook called and no lock.
LEMMA StartKeeps ==
  ASSUME TypeOK, TypeOK', NEW m \in Mgr, NEW j \in Job, JobInv(j), StartPrepared(m, j)
  PROVE  JobInv(j)'
<1> DEFINE o == [NoObject EXCEPT !.status = "QUEUED"]
<1>1. /\ life[m] = "up" /\ home[j] = None /\ Keep(m, j, o) /\ Save(j, o)
      /\ home'[j] = m /\ worker'[j] = "start"
      /\ UNCHANGED <<life, cancelling, holder, calls, writes, settled, refused>>
  BY DEF StartPrepared, grants, effects, TypeOK
<1>2. /\ worker[j] = "none" /\ calls[j] = 0
      /\ \A n \in Mgr : mem[n][j] = NoObject
  BY <1>1 DEF JobInv, Threads
<1>3. o \in Object /\ o.hook = "none" /\ o.status = "QUEUED"
  BY DEF NoObject, Object, Status, Executing, Hook
<1> HIDE DEF o
<1>4. mem'[m][j] = o /\ \A n \in Mgr : n # m => mem'[n][j] = NoObject
  BY <1>1, <1>2, KeepAt DEF TypeOK
<1>5. rec'[j].hook = "none" /\ rec'[j].status = "QUEUED"
  BY <1>1, <1>3, SaveAt DEF TypeOK, Public
<1>6. /\ NoObject.status = "none" /\ NoObject.hook = "none"
      /\ {"none", "QUEUED"} \cap Reviewable = {}
  BY DEF NoObject, Reviewable, Decided
<1>7. \A n \in Mgr : mem'[n][j].hook = "none" /\ mem'[n][j].status \in {"none", "QUEUED"}
  BY <1>3, <1>4, <1>6
<1>8. holder[j] = None
  <2>1. \A n \in Mgr : holder[j] \notin {<<"accept", n>>, <<"written", n>>, <<"accepted", n>>}
    BY <1>2 DEF JobInv, Claims, Late
  <2>2. \A n \in Mgr : holder[j] # <<"recover", n>>
    BY <1>2, <1>6 DEF JobInv, Claims
  <2>3. \A n \in Mgr : holder[j] # <<"worker", n>>
    BY <1>2 DEF JobInv, Threads, Publishing
  <2>4. holder[j] \in {None} \cup ({"worker", "accept", "written", "accepted", "recover"} \X Mgr)
    BY DEF TypeOK, Holder, Claim
  <2> QED
    BY <2>1, <2>2, <2>3, <2>4
<1>9. \A n \in Mgr : holder'[j] # <<"worker", n>>
  BY <1>1, <1>8, GenerationOK DEF Claim
<1>10. writes[j] = 0 /\ j \notin refused
  BY <1>2 DEF JobInv, Drafts, Late, Refusals
<1>11. m # None /\ Here(j)' = o
  BY <1>1, <1>4, GenerationOK DEF Here
<1>12. Threads(j)'
  <2>1. \A n \in Mgr : <<n, j>> \notin cancelling'
    BY <1>1, <1>2, <1>6 DEF JobInv, Threads
  <2> QED
    BY <1>1, <1>3, <1>5, <1>9, <1>11, <2>1 DEF Threads, Publishing
<1>13. Hooks(j)'
  BY <1>1, <1>2, <1>3, <1>5, <1>7, <1>11 DEF Hooks
<1>14. Drafts(j)'
  BY <1>1, <1>5, <1>6, <1>7, <1>10 DEF Drafts, Publishing
<1>15. Settlements(j)'
  BY <1>1, <1>5, <1>6, <1>7 DEF Settlements, Reviewable
<1>16. Claims(j)'
  BY <1>1, <1>8, GenerationOK DEF Claims, Claim
<1>17. Manuscript(j)'
  BY <1>1, <1>5, <1>7, <1>10 DEF Manuscript
<1>18. Refusals(j)'
  BY <1>1, <1>10 DEF Refusals, Publishing
<1> QED
  BY <1>12, <1>13, <1>14, <1>15, <1>16, <1>17, <1>18 DEF JobInv

\* A manager under construction knows of no draft but what the records offer.
LEMMA BootKeeps ==
  ASSUME TypeOK, NEW m \in Mgr, NEW i \in Job, JobInv(i), Boot(m)
  PROVE  JobInv(i)'
<1>1. /\ life[m] = "down" /\ life'[m] = "booting"
      /\ \A n \in Mgr : n # m => life'[n] = life[n] /\ todo'[n] = todo[n]
                                   /\ mem'[n][i] = mem[n][i]
      /\ mem'[m][i] = IF rec[i].status \in Executing THEN NoObject ELSE rec[i]
      /\ UNCHANGED <<rec, home, worker, cancelling, hooked, guarded, holder,
                     calls, settled, writes, refused>>
  BY DEF Boot, threads, kinds, grants, effects, TypeOK
<1>2. /\ NoObject.status = "none" /\ NoObject.hook = "none"
      /\ "none" \notin Executing \cup Reviewable
      /\ "SETTLING" \in Executing /\ {"COMPLETED"} \cup Decided = Reviewable
  BY DEF NoObject, Reviewable, Decided, Executing
<1>3. /\ mem'[m][i].status \in {"none", rec[i].status} \ {"SETTLING"}
      /\ mem'[m][i].hook \in {"none", rec[i].hook}
      /\ mem'[m][i].status # "none" => mem'[m][i] = rec[i]
  BY <1>1, <1>2
<1>4. worker[i] \notin {"none", "done", "dead"} => home[i] # m
  BY <1>1 DEF JobInv, Threads
<1>5. /\ home[i] \in Mgr \cup {None} /\ home[i] # m => Here(i)' = Here(i) \/ home[i] = None
      /\ (Late(i)' <=> Late(i)) /\ (Called(i)' <=> Called(i))
  BY <1>1 DEF Here, Late, Called, TypeOK
<1>6. Threads(i)'
  <2>1. home[i] \in Mgr \cup {None} /\ (home[i] = None <=> worker[i] = "none")
    BY DEF JobInv, Threads, TypeOK
  <2>2. worker[i] \notin {"none", "done", "dead"} =>
          life'[home[i]] = "up" /\ Here(i)'.status # "none"
    BY <1>1, <1>4, <2>1 DEF JobInv, Threads, Here
  <2>3. worker[i] = "none" => \A n \in Mgr : mem'[n][i] = NoObject
    BY <1>1, <1>2 DEF JobInv, Threads
  <2>4. \A n \in Mgr : <<n, i>> \in cancelling =>
                        life'[n] = "up" /\ mem'[n][i].status # "none"
    BY <1>1 DEF JobInv, Threads
  <2> QED
    BY <1>1, <2>1, <2>2, <2>3, <2>4 DEF JobInv, Threads
<1>7. worker[i] \notin {"none", "done", "dead"} => Here(i)' = Here(i) /\ home[i] \in Mgr
  BY <1>1, <1>4, AtHome DEF JobInv, Here
<1>8. Hooks(i)'
  <2>1. worker[i] = "none" => home[i] = None
    BY DEF JobInv, Threads
  <2>2. i \notin hooked => \A n \in Mgr : mem'[n][i].hook = "none" /\ mem'[n][i].status # "SETTLING"
    BY <1>1, <1>3 DEF JobInv, Hooks
  <2> QED
    BY <1>1, <1>5, <1>7, <2>1, <2>2 DEF JobInv, Hooks
<1>9. Drafts(i)'
  <2>1. ASSUME NEW n \in Mgr, mem'[n][i].status \in Reviewable
        PROVE  Late(i) \/ (worker[i] \in Publishing /\ (n # home[i] => Called(i)))
    BY <1>1, <1>2, <1>3, <2>1 DEF JobInv, Drafts
  <2>2. worker[i] \in Publishing => Here(i)' = Here(i)
    BY <1>7 DEF Publishing
  <2> QED
    BY <1>1, <1>5, <2>1, <2>2 DEF JobInv, Drafts
<1>10. Settlements(i)'
  <2>1. ASSUME NEW n \in Mgr, i \in hooked
        PROVE  /\ mem'[n][i].hook = "done" => i \in settled
               /\ mem'[n][i].status \in Decided => mem'[n][i].hook = "done"
               /\ mem'[n][i].status = "COMPLETED" =>
                    \/ mem'[n][i].hook = "done"
                    \/ n = home[i] /\ worker[i] \in {"settling", "uncertain"}
    BY <1>1, <1>2, <1>3, <2>1 DEF JobInv, Settlements
  <2> QED
    BY <1>1, <1>7, <2>1 DEF JobInv, Settlements
<1>11. Claims(i)'
  BY <1>1, <1>5 DEF JobInv, Claims
<1>12. Manuscript(i)'
  BY <1>1, <1>3 DEF JobInv, Manuscript
<1>13. Refusals(i)'
  <2>1. worker[i] \in Publishing => home[i] # m
    BY <1>4 DEF Publishing
  <2> QED
    BY <1>1, <1>2, <1>3, <2>1 DEF JobInv, Refusals
<1> QED
  BY <1>6, <1>8, <1>9, <1>10, <1>11, <1>12, <1>13 DEF JobInv

\* A construction ends only when it holds no lock any more.
LEMMA BootDoneKeeps ==
  ASSUME TypeOK, NEW m \in Mgr, NEW i \in Job, JobInv(i), BootDone(m)
  PROVE  JobInv(i)'
<1>1. /\ life[m] = "booting" /\ todo[m] = {} /\ life'[m] = "up"
      /\ \A n \in Mgr : n # m => life'[n] = life[n]
      /\ UNCHANGED <<rec, mem, todo, home, worker, cancelling, hooked, guarded,
                     holder, calls, settled, writes, refused>>
  BY DEF BootDone, threads, kinds, grants, effects, TypeOK
<1>2. /\ Here(i)' = Here(i)
      /\ (Late(i)' <=> Late(i)) /\ (Called(i)' <=> Called(i))
  BY <1>1 DEF Here, Late, Called
<1>3. Threads(i)'
  <2>1. worker[i] \notin {"none", "done", "dead"} => home[i] \in Mgr
    BY AtHome DEF JobInv
  <2> QED
    BY <1>1, <1>2, <2>1 DEF JobInv, Threads
<1>4. Claims(i)'
  BY <1>1, <1>2 DEF JobInv, Claims
<1>5. Hooks(i)' /\ Drafts(i)' /\ Settlements(i)' /\ Manuscript(i)' /\ Refusals(i)'
  BY <1>1, <1>2 DEF JobInv, Hooks, Drafts, Settlements, Manuscript, Refusals
<1> QED
  BY <1>3, <1>4, <1>5 DEF JobInv

\* The end of a process takes its threads, objects and locks with it.
LEMMA ExitKeeps ==
  ASSUME TypeOK, NEW m \in Mgr, NEW i \in Job, JobInv(i), Exit(m)
  PROVE  JobInv(i)'
<1>1. /\ life'[m] = "down" /\ mem'[m][i] = NoObject
      /\ \A n \in Mgr : n # m => life'[n] = life[n] /\ todo'[n] = todo[n]
                                   /\ mem'[n][i] = mem[n][i]
      /\ worker'[i] = IF home[i] = m /\ worker[i] # "done" THEN "dead" ELSE worker[i]
      /\ \A n \in Mgr : <<n, i>> \in cancelling' => n # m /\ <<n, i>> \in cancelling
      /\ holder'[i] = IF holder[i] # None /\ holder[i][2] = m THEN None ELSE holder[i]
      /\ UNCHANGED <<rec, home, hooked, guarded, calls, settled, writes, refused>>
  BY DEF Exit, kinds, grants, effects, TypeOK
<1>2. /\ NoObject.status = "none" /\ NoObject.hook = "none"
      /\ "none" \notin Reviewable /\ {"COMPLETED"} \cup Decided = Reviewable
  BY DEF NoObject, Reviewable, Decided
<1>3. /\ home[i] \in Mgr \cup {None} /\ None \notin Mgr
      /\ home[i] = None <=> worker[i] = "none"
  BY GenerationOK DEF JobInv, Threads, TypeOK
<1>4. /\ worker'[i] \notin {"none", "done", "dead"} =>
           home[i] \in Mgr \ {m} /\ Here(i)' = Here(i) /\ worker'[i] = worker[i]
      /\ Called(i)' <=> Called(i)
      /\ Late(i) => Late(i)'
  BY <1>1, <1>3 DEF Here, Late, Called
<1>5. \A n \in Mgr, k \in {"worker", "accept", "written", "accepted", "recover"} :
        holder'[i] = <<k, n>> <=> n # m /\ holder[i] = <<k, n>>
  <2> SUFFICES ASSUME NEW n \in Mgr, NEW k \in {"worker", "accept", "written", "accepted", "recover"}
               PROVE  holder'[i] = <<k, n>> <=> n # m /\ holder[i] = <<k, n>>
    OBVIOUS
  <2>1. <<k, n>> # None /\ <<k, n>>[2] = n
    BY GenerationOK DEF Claim
  <2>2. CASE holder[i] # None /\ holder[i][2] = m
    <3>1. holder'[i] = None
      BY <1>1, <2>2
    <3>2. holder[i] = <<k, n>> => n = m
      BY <2>1, <2>2
    <3> QED
      BY <2>1, <3>1, <3>2
  <2>3. CASE ~(holder[i] # None /\ holder[i][2] = m)
    <3>1. holder'[i] = holder[i]
      BY <1>1, <2>3
    <3>2. holder[i] = <<k, n>> => n # m
      BY <2>1, <2>3
    <3> QED
      BY <3>1, <3>2
  <2> QED
    BY <2>2, <2>3
<1>6. \A n \in Mgr : mem'[n][i].status # "none" => n # m /\ mem'[n][i] = mem[n][i]
  BY <1>1, <1>2
<1>7. Threads(i)'
  <2>1. worker'[i] = "none" => worker[i] = "none" /\ \A n \in Mgr : mem'[n][i] = NoObject
    BY <1>1 DEF JobInv, Threads
  <2>2. ASSUME NEW n \in Mgr
        PROVE  holder'[i] = <<"worker", n>> <=> home'[i] = n /\ worker'[i] \in Publishing
    BY <1>1, <1>3, <1>5 DEF JobInv, Threads, Publishing
  <2>3. worker'[i] # "none" => rec'[i].status # "none" /\ home'[i] # None
    BY <1>1, <1>3 DEF JobInv, Threads
  <2>4. worker'[i] \notin {"none", "done", "dead"} =>
          life'[home'[i]] = "up" /\ Here(i)'.status # "none"
    BY <1>1, <1>4 DEF JobInv, Threads
  <2>5. \A n \in Mgr : <<n, i>> \in cancelling' =>
                        life'[n] = "up" /\ mem'[n][i].status # "none"
    BY <1>1 DEF JobInv, Threads
  <2> QED
    BY <1>1, <1>3, <2>1, <2>2, <2>3, <2>4, <2>5 DEF JobInv, Threads
<1>8. Hooks(i)'
  <2>1. i \notin hooked => \A n \in Mgr : mem'[n][i].hook = "none" /\ mem'[n][i].status # "SETTLING"
    BY <1>1, <1>2 DEF JobInv, Hooks
  <2>2. worker'[i] = "done" => worker[i] = "done"
    BY <1>1
  <2>3. worker'[i] = "none" => home[i] = None /\ worker[i] = "none"
    BY <1>1, <1>3
  <2> QED
    BY <1>1, <1>4, <2>1, <2>2, <2>3 DEF JobInv, Hooks
<1>9. Drafts(i)'
  <2>1. Late(i)' \/ (worker'[i] = worker[i] /\ home[i] # m)
    BY <1>1 DEF Late
  <2>2. ASSUME NEW n \in Mgr, mem'[n][i].status \in Reviewable
        PROVE  Late(i)' \/ (worker'[i] \in Publishing /\ (n # home'[i] => Called(i)'))
    BY <1>1, <1>2, <1>4, <1>6, <2>1, <2>2 DEF JobInv, Drafts
  <2>3. worker'[i] \in Publishing => Here(i)' = Here(i) /\ worker[i] \in Publishing
    BY <1>4 DEF Publishing
  <2> QED
    BY <1>1, <1>4, <2>1, <2>2, <2>3 DEF JobInv, Drafts
<1>10. Settlements(i)'
  <2>1. worker'[i] \in {"settled", "publishing"} => Here(i)' = Here(i) /\ worker'[i] = worker[i]
    BY <1>4
  <2>2. ASSUME NEW n \in Mgr, i \in hooked
        PROVE  /\ mem'[n][i].hook = "done" => i \in settled
               /\ mem'[n][i].status \in Decided => mem'[n][i].hook = "done"
               /\ mem'[n][i].status = "COMPLETED" =>
                    \/ mem'[n][i].hook = "done"
                    \/ n = home'[i] /\ worker'[i] \in {"settling", "uncertain"}
    BY <1>1, <1>2, <2>2 DEF JobInv, Settlements
  <2> QED
    BY <1>1, <2>1, <2>2 DEF JobInv, Settlements
<1>11. Claims(i)'
  BY <1>1, <1>4, <1>5 DEF JobInv, Claims
<1>12. Manuscript(i)'
  BY <1>1, <1>6 DEF JobInv, Manuscript
<1>13. Refusals(i)'
  <2>1. worker'[i] \in Publishing => worker'[i] = worker[i] /\ home[i] # m
    BY <1>4 DEF Publishing
  <2> QED
    BY <1>1, <1>2, <2>1 DEF JobInv, Refusals
<1> QED
  BY <1>7, <1>8, <1>9, <1>10, <1>11, <1>12, <1>13 DEF JobInv

-----------------------------------------------------------------------------
\* The requests and recoveries of one job do not touch the others.
LEMMA RequestElsewhere ==
  ASSUME TypeOK, NEW m \in Mgr, NEW j \in Job, NEW i \in Job, i # j,
         \/ StartPrepared(m, j) \/ SignalCancel(m, j) \/ CommitCancel(m, j)
         \/ Review(m, j) \/ RecoverRead(m, j) \/ RecoverWrite(m, j)
  PROVE  SameJob(i)
<1> USE DEF objects, threads, kinds, grants, effects, TypeOK, SameJob
<1>1. CASE StartPrepared(m, j)
  BY <1>1 DEF StartPrepared, Keep, Save
<1>2. CASE SignalCancel(m, j)
  BY <1>2 DEF SignalCancel
<1>3. CASE CommitCancel(m, j)
  BY <1>3 DEF CommitCancel, CancelExecution, Keep, TrySave, Save, SaveRaises
<1>4. CASE RefuseAccept(m, j)
  BY <1>4 DEF RefuseAccept, Keep
<1>5. CASE Accept(m, j)
  BY <1>5 DEF Accept, Keep, Save, SaveRaises
<1>6. CASE WriteChapter(m, j)
  BY <1>6 DEF WriteChapter
<1>7. CASE Accepted(m, j) \/ AcceptanceFails(m, j)
  <2>1. rec'[i] = rec[i]
    BY <1>7 DEF Accepted, AcceptanceFails, TrySave, Save, SaveRaises
  <2>2. PICK s, h : Concludes(m, j, s, h)
    BY <1>7 DEF Accepted, AcceptanceFails
  <2>3. \A n \in Mgr : mem'[n][i] = mem[n][i]
    BY <2>2 DEF Concludes, Keep
  <2> QED
    BY <2>1, <2>2, <2>3 DEF Concludes
<1>11. CASE AnswerAccept(m, j)
  BY <1>11 DEF AnswerAccept
<1>8. CASE Reject(m, j)
  BY <1>8 DEF Reject, Keep, TrySave, Save, SaveRaises
<1>9. CASE RecoverRead(m, j)
  BY <1>9 DEF RecoverRead, Keep
<1>10. CASE RecoverWrite(m, j)
  BY <1>10 DEF RecoverWrite, Save
<1> QED
  BY <1>1, <1>2, <1>3, <1>4, <1>5, <1>6, <1>7, <1>11, <1>8, <1>9, <1>10 DEF Review

\* Every action keeps the inductive invariant.
LEMMA CoreStep == Core /\ [Next]_vars => Core'
<1> SUFFICES ASSUME Core, [Next]_vars PROVE Core'
  OBVIOUS
<1> DEFINE Kept == \A i \in Job : JobInv(i)'
<1>1. TypeOK /\ \A i \in Job : JobInv(i)
  BY DEF Core
<1>2. TypeOK'
  BY TypeStep
<1>3. ASSUME NEW j \in Job, Worker(j) PROVE Kept
  BY <1>2, <1>3, WorkerKeeps
<1>4. ASSUME NEW j \in Job, ChangeAuth(j) PROVE Kept
  <2>1. \A i \in Job : SameJob(i)
    BY <1>4 DEF ChangeAuth, objects, threads, kinds, effects, SameJob
  <2> QED
    BY <1>1, <2>1, SameJobKeeps
<1>5. ASSUME NEW m \in Mgr, NEW j \in Job,
             \/ StartPrepared(m, j) \/ SignalCancel(m, j) \/ CommitCancel(m, j)
             \/ Review(m, j) \/ RecoverRead(m, j) \/ RecoverWrite(m, j)
      PROVE  Kept
  <2>1. \A i \in Job : i # j => JobInv(i)'
    BY <1>1, <1>5, RequestElsewhere, SameJobKeeps
  <2>2. CASE StartPrepared(m, j)
    BY <1>1, <1>2, <2>1, <2>2, StartKeeps
  <2>3. CASE SignalCancel(m, j)
    <3>1. /\ UNCHANGED <<rec, mem, life, todo, home, worker, hooked, guarded,
                         holder, calls, settled, writes, refused>>
          /\ \A n \in Mgr : <<n, j>> \in cancelling' =>
               <<n, j>> \in cancelling \/ (life[n] = "up" /\ mem[n][j].status # "none")
      BY <2>3 DEF SignalCancel, objects, kinds, grants, effects
    <3>2. /\ Here(j)' = Here(j)
          /\ (Late(j)' <=> Late(j)) /\ (Called(j)' <=> Called(j))
      BY <3>1 DEF Here, Late, Called
    <3>3. Threads(j)'
      BY <1>1, <3>1, <3>2 DEF JobInv, Threads
    <3>4. Hooks(j)' /\ Drafts(j)' /\ Settlements(j)' /\ Claims(j)' /\ Manuscript(j)' /\ Refusals(j)'
      BY <1>1, <3>1, <3>2 DEF JobInv, Hooks, Drafts, Settlements, Claims, Manuscript, Refusals
    <3>5. JobInv(j)'
      BY <3>3, <3>4 DEF JobInv
    <3> QED
      BY <2>1, <3>5
  <2>4. CASE CommitCancel(m, j) /\ IsTerminal(m, j)
    <3>1. SameJob(j)
      BY <2>4 DEF CommitCancel, CancelExecution, kinds, grants, effects, SameJob
    <3> QED
      BY <1>1, <2>1, <3>1, SameJobKeeps
  <2>5. CASE CommitCancel(m, j) /\ ~IsTerminal(m, j)
    BY <1>1, <1>2, <2>1, <2>5, CommitCancelKeeps
  <2>6. CASE RefuseAccept(m, j)
    BY <1>1, <1>2, <2>1, <2>6, RefuseAcceptKeeps
  <2>7. CASE Accept(m, j)
    BY <1>1, <1>2, <2>1, <2>7, AcceptKeeps
  <2>8. CASE WriteChapter(m, j)
    BY <1>1, <1>2, <2>1, <2>8, WriteChapterKeeps
  <2>9. CASE Accepted(m, j) \/ AcceptanceFails(m, j)
    BY <1>1, <1>2, <2>1, <2>9, ConcludesKeeps
  <2>13. CASE AnswerAccept(m, j)
    BY <1>1, <1>2, <2>1, <2>13, AnswerKeeps
  <2>10. CASE Reject(m, j)
    BY <1>1, <1>2, <2>1, <2>10, RejectKeeps
  <2>11. CASE RecoverRead(m, j)
    BY <1>1, <1>2, <2>1, <2>11, RecoverReadKeeps
  <2>12. CASE RecoverWrite(m, j)
    BY <1>1, <1>2, <2>1, <2>12, RecoverWriteKeeps
  <2> QED
    BY <1>5, <2>2, <2>3, <2>4, <2>5, <2>6, <2>7, <2>8, <2>9, <2>13, <2>10, <2>11, <2>12 DEF Review
<1>6. ASSUME NEW m \in Mgr, Boot(m) PROVE Kept
  BY <1>1, <1>6, BootKeeps
<1>7. ASSUME NEW m \in Mgr, BootDone(m) PROVE Kept
  BY <1>1, <1>7, BootDoneKeeps
<1>8. ASSUME NEW m \in Mgr, Exit(m) PROVE Kept
  BY <1>1, <1>8, ExitKeeps
<1>9. ASSUME UNCHANGED vars PROVE Kept
  <2>1. \A i \in Job : SameJob(i)
    BY <1>9 DEF vars, objects, threads, kinds, grants, effects, SameJob
  <2> QED
    BY <1>1, <2>1, SameJobKeeps
<1>10. Kept
  BY <1>3, <1>4, <1>5, <1>6, <1>7, <1>8, <1>9 DEF Next, Recovery
<1> QED
  BY <1>2, <1>10 DEF Core

\* Nothing is started, stored or held at first.
LEMMA CoreInit == Init => Core
<1> SUFFICES ASSUME Init PROVE Core
  OBVIOUS
<1>1. TypeOK
  BY DEF Init, TypeOK, NoObject, Object, Status, Hook, Pc, Holder
<1>2. /\ NoObject.status = "none" /\ NoObject.hook = "none"
      /\ "none" \notin Reviewable \cup Publishing
  BY DEF NoObject, Reviewable, Decided, Publishing
<1>3. ASSUME NEW j \in Job PROVE JobInv(j)
  <2>1. /\ rec[j] = NoObject /\ \A m \in Mgr : mem[m][j] = NoObject
        /\ worker[j] = "none" /\ home[j] = None /\ holder[j] = None
        /\ calls[j] = 0 /\ writes[j] = 0 /\ j \notin hooked /\ j \notin refused
        /\ j \notin guarded /\ cancelling = {}
    BY DEF Init
  <2>2. \A m \in Mgr, k \in {"worker", "accept", "written", "accepted", "recover"} : holder[j] # <<k, m>>
    BY <2>1, GenerationOK DEF Claim
  <2>3. Threads(j)
    BY <1>2, <2>1, <2>2 DEF Threads
  <2>4. Hooks(j) /\ Drafts(j) /\ Settlements(j)
    BY <1>2, <2>1 DEF Hooks, Drafts, Settlements
  <2>5. Claims(j)
    BY <2>2 DEF Claims
  <2>6. Manuscript(j) /\ Refusals(j)
    BY <1>2, <2>1 DEF Manuscript, Refusals
  <2> QED
    BY <2>3, <2>4, <2>5, <2>6 DEF JobInv
<1> QED
  BY <1>1, <1>3 DEF Core

-----------------------------------------------------------------------------
(* What the manager of a job knows of it, on top of Core.                     *)

\* A thread saves the object as it leaves it, or saves nothing.
LEMMA WorkerSaves ==
  ASSUME TypeOK, NEW j \in Job, home[j] \in Mgr, Worker(j)
  PROVE  /\ rec'[j] = rec[j] \/ rec'[j] = Saved(j, Here(j)')
         /\ home'[j] = home[j]
<1> USE DEF Elsewhere, Calm, SaveRaises, TrySave, Save
<1>1. ASSUME NEW o, Keep(home[j], j, o), home'[j] = home[j] PROVE Here(j)' = o
  BY <1>1 DEF Keep, Here, TypeOK
<1>2. ASSUME UNCHANGED mem, home'[j] = home[j] PROVE Here(j)' = Here(j)
  BY <1>2 DEF Here
<1>3. CASE ThreadFails(j) \/ Refuse(j) \/ Dispatch(j) \/ RunFails(j)
           \/ CompleteStream(j) \/ Settle(j)
  BY <1>3 DEF ThreadFails, Refuse, Dispatch, RunFails, CompleteStream, Settle
<1>4. ASSUME CancelExecution(home[j], j), home'[j] = home[j]
      PROVE  rec'[j] = rec[j] \/ rec'[j] = Saved(j, Here(j)')
  BY <1>1, <1>4 DEF CancelExecution, TypeOK
<1>5. CASE Stop(j)
  BY <1>4, <1>5 DEF Stop
<1>6. CASE BeginRun(j)
  BY <1>1, <1>6 DEF BeginRun, TypeOK
<1>7. CASE SaveSnapshot(j) \/ Delta(j)
  BY <1>2, <1>7 DEF SaveSnapshot, Delta, TypeOK
<1>8. CASE BeginPublication(j)
  BY <1>1, <1>8 DEF BeginPublication, TypeOK
<1>9. CASE SaveSettlement(j)
  BY <1>2, <1>9 DEF SaveSettlement, TypeOK
<1>10. CASE Publish(j)
  BY <1>1, <1>10 DEF Publish, TypeOK
<1>11. CASE RefusePublication(j) \/ Withdraw(j)
  BY <1>1, <1>11 DEF RefusePublication, Withdraw, TypeOK
<1>12. CASE Fail(j)
  BY <1>1, <1>4, <1>12 DEF Fail, TypeOK
<1>13. CASE LateHook(j)
  BY <1>1, <1>13 DEF LateHook, TypeOK
<1>14. CASE Finish(j)
  BY <1>2, <1>14 DEF Finish, TypeOK
<1> QED
  BY <1>3, <1>5, <1>6, <1>7, <1>8, <1>9, <1>10, <1>11, <1>12, <1>13, <1>14 DEF Worker

\* A thread that is late only ends.
LEMMA LateEnds ==
  ASSUME NEW j \in Job, Late(j), Worker(j)
  PROVE  Finish(j) /\ UNCHANGED <<rec, mem, home, holder, guarded>> /\ worker[j] = "finishing"
<1>1. /\ worker[j] \in {"finishing", "done", "dead"}
      /\ worker[j] = "finishing" => ~HookOpen(j)
  BY DEF Late, HookOpen, Called
<1>2. Finish(j) /\ worker[j] = "finishing"
  BY <1>1 DEF Worker, At, ThreadFails, Stop, BeginRun, Refuse, SaveSnapshot, Dispatch, RunFails, Delta, CompleteStream, BeginPublication, Settle, SaveSettlement, Publish, RefusePublication, Withdraw, Fail, LateHook, Finish
<1> QED
  BY <1>2 DEF Finish, At, Elsewhere, kinds

\* What a publication without a last guard leaves in its object: no cancellation,
\* and nothing executing while the record is on offer.
LEMMA PublicationShows ==
  ASSUME Core, NEW j \in Job, HomeKnows(j), j \notin guarded,
         worker[j] \in Publishing, Worker(j)
  PROVE  /\ Here(j)'.status # "CANCELLED"
         /\ rec[j].status \in Reviewable => Here(j)'.status \notin Executing
<1>1. /\ TypeOK /\ JobInv(j) /\ home[j] \in Mgr /\ Here(j) \in Object
      /\ Here(j) = mem[home[j]][j] /\ Here(j).status # "CANCELLED"
      /\ rec[j].status \in Reviewable => Called(j) /\ Here(j).status \notin Executing
  BY PublishingFacts DEF Core, HomeKnows, Offered, JobInv, Drafts
<1>2. ASSUME NEW o, Keep(home[j], j, o), home' = home PROVE Here(j)' = o
  BY <1>1, <1>2 DEF Keep, Here, TypeOK
<1>3. UNCHANGED mem /\ home' = home => Here(j)' = Here(j)
  BY DEF Here
<1>4. \/ Settle(j) \/ SaveSettlement(j) \/ Publish(j) \/ RefusePublication(j)
      \/ Withdraw(j)
  BY DEF Worker, At, Publishing, ThreadFails, Stop, BeginRun, Refuse, SaveSnapshot, Dispatch, RunFails, Delta, CompleteStream, BeginPublication, Fail, LateHook, Finish
<1>5. CASE Settle(j)
  <2>1. rec[j].status \notin Reviewable
    BY <1>1, <1>5 DEF Settle, At, JobInv, Hooks, Called, Publishing
  <2>2. PICK o \in Object :
          /\ CallHook(j, o)
          /\ Keep(home[j], j, o) \/ Keep(home[j], j, [o EXCEPT !.status = "FAILED"])
    BY <1>5 DEF Settle
  <2>3. o.status # "CANCELLED"
    BY <1>1, <2>2 DEF CallHook, Object, Terminal
  <2>4. [o EXCEPT !.status = "FAILED"].status # "CANCELLED"
    BY DEF Object
  <2> QED
    BY <1>2, <1>5, <2>1, <2>2, <2>3, <2>4 DEF Settle, Elsewhere
<1>6. CASE SaveSettlement(j)
  BY <1>1, <1>2, <1>3, <1>6, UnreceiptedTyped DEF SaveSettlement, Elsewhere, Executing
<1>7. CASE Publish(j)
  <2>1. Verdict(j) = Here(j).status
    BY DEF Verdict, AsksAgain
  <2>2. WithStatus(home[j], j, Verdict(j)).status = Here(j).status
    BY <1>1, <2>1 DEF WithStatus, Object
  <2> QED
    BY <1>1, <1>2, <1>7, <2>2 DEF Publish, Elsewhere
<1>8. CASE RefusePublication(j)
  BY <1>8 DEF RefusePublication, AsksAgain
<1>9. CASE Withdraw(j)
  <2>1. [Here(j) EXCEPT !.status = "FAILED", !.unsure = TRUE].status = "FAILED"
    BY <1>1 DEF Object
  <2> QED
    BY <1>2, <1>9, <2>1 DEF Withdraw, Elsewhere, Executing
<1> QED
  BY <1>4, <1>5, <1>6, <1>7, <1>8, <1>9

\* The steps of a thread keep what its manager knows of the job.
LEMMA WorkerKnows ==
  ASSUME Core, Core', NEW j \in Job, HomeKnows(j), Worker(j)
  PROVE  HomeKnows(j)'
<1>1. /\ TypeOK /\ JobInv(j) /\ TypeOK' /\ JobInv(j)'
  BY DEF Core
<1>2. home[j] \in Mgr
  <2>1. worker[j] # "none"
    BY DEF Worker, At, ThreadFails, Stop, BeginRun, Refuse, SaveSnapshot, Dispatch, RunFails, Delta, CompleteStream, BeginPublication, Settle, SaveSettlement, Publish, RefusePublication, Withdraw, Fail, LateHook, Finish, Publishing
  <2> QED
    BY <1>1, <2>1, AtHome DEF JobInv
<1>3. CASE Late(j)
  <2>1. Finish(j) /\ UNCHANGED <<rec, mem, home, holder, guarded>>
    BY <1>3, LateEnds
  <2>2. worker'[j] = "done"
    BY <1>1, <2>1 DEF Finish, To, TypeOK
  <2>3. Offered(j)' <=> Offered(j)
    BY <2>1 DEF Offered
  <2> QED
    BY <2>1, <2>2, <2>3 DEF HomeKnows, Publishing
<1>4. CASE ~Late(j)
  <2>1. /\ home'[j] = home[j] /\ (j \in guarded' <=> j \in guarded)
        /\ rec'[j] = rec[j] \/ rec'[j] = Saved(j, Here(j)')
    <3>1. UNCHANGED guarded
      BY DEF Worker, Elsewhere, kinds, ThreadFails, Stop, BeginRun, Refuse, SaveSnapshot, Dispatch, RunFails, Delta, CompleteStream, BeginPublication, Settle, SaveSettlement, Publish, RefusePublication, Withdraw, Fail, LateHook, Finish
    <3> QED
      BY <1>1, <1>2, <3>1, WorkerSaves
  <2>2. mem'[home'[j]][j] = Here(j)' /\ Here(j)' \in Object
    BY <1>1, <1>2, <2>1 DEF Here, TypeOK
  <2>3. \A m \in Mgr : holder'[j] \notin {<<"accept", m>>, <<"written", m>>, <<"accepted", m>>}
    <3>1. \A m \in Mgr : holder[j] \notin {<<"accept", m>>, <<"written", m>>, <<"accepted", m>>}
      BY <1>1, <1>4 DEF JobInv, Claims
    <3>2. holder'[j] \in {holder[j], <<"worker", home[j]>>, None}
      BY <1>1 DEF Worker, ThreadFails, Stop, BeginRun, Refuse, SaveSnapshot, Dispatch, RunFails, Delta, CompleteStream, BeginPublication, Settle, SaveSettlement, Publish, RefusePublication, Withdraw, Fail, LateHook, Finish, TypeOK
    <3> QED
      BY <3>1, <3>2, GenerationOK DEF Claim
  <2>4. ASSUME rec'[j].status \in Reviewable PROVE Here(j)'.status \notin Executing
    <3>1. CASE rec'[j] = Saved(j, Here(j)')
      <4>1. rec'[j].status = Public(j, Here(j)')
        BY <2>2, <3>1, SavedTyped
      <4> QED
        BY <2>4, <4>1 DEF Public, Reviewable, Decided, Executing
    <3>2. CASE rec'[j] = rec[j]
      <4>1. worker[j] \in Publishing
        BY <1>1, <1>4, <2>4, <3>2 DEF JobInv, Drafts
      <4>2. j \notin guarded
        BY <1>1, <2>4, <3>2, <4>1 DEF JobInv, Refusals
      <4> QED
        BY <2>4, <3>2, <4>1, <4>2, PublicationShows
    <3> QED
      BY <2>1, <3>1, <3>2
  <2>5. ASSUME j \notin guarded, worker'[j] \in Publishing
        PROVE  Here(j)'.status # "CANCELLED"
    <3>1. CASE worker[j] \in Publishing
      BY <2>5, <3>1, PublicationShows
    <3>2. CASE worker[j] \notin Publishing
      <4>1. BeginPublication(j)
        BY <1>1, <2>5, <3>2 DEF Worker, At, To, Publishing, TypeOK, ThreadFails, Stop, BeginRun, Refuse, SaveSnapshot, Dispatch, RunFails, Delta, CompleteStream, Settle, SaveSettlement, Publish, RefusePublication, Withdraw, Fail, LateHook, Finish
      <4>2. Keep(home[j], j, WithStatus(home[j], j, "COMPLETED"))
        BY <2>5, <4>1 DEF BeginPublication, Interim
      <4>3. Here(j)' = WithStatus(home[j], j, "COMPLETED")
        BY <1>1, <1>2, <2>1, <2>2, <4>2 DEF Keep, TypeOK
      <4>4. mem[home[j]][j] \in Object
        BY <1>1, <1>2 DEF TypeOK
      <4> QED
        BY <4>3, <4>4 DEF WithStatus, Object
    <3> QED
      BY <3>1, <3>2
  <2> QED
    BY <2>1, <2>2, <2>3, <2>4, <2>5 DEF HomeKnows, Offered
<1> QED
  BY <1>3, <1>4

\* A request or a recovery that leaves the object of the job's manager alone, or
\* leaves no open one, keeps what the manager knows.
LEMMA RequestKnows ==
  ASSUME NEW j \in Job, HomeKnows(j), worker[j] \notin Publishing,
         UNCHANGED <<home, worker>>,
         \/ mem'[home[j]][j].status \notin Executing
         \/ mem'[home[j]][j] = mem[home[j]][j] /\ (Offered(j)' => Offered(j))
  PROVE  HomeKnows(j)'
BY DEF HomeKnows

\* No review or recovery works on a job that is being published.
LEMMA ReviewExcluded ==
  ASSUME TypeOK, NEW j \in Job, JobInv(j), NEW m \in Mgr,
         \/ holder[j] = None
         \/ holder[j] \in {<<"accept", m>>, <<"written", m>>, <<"accepted", m>>, <<"recover", m>>}
  PROVE  worker[j] \notin Publishing
<1> SUFFICES ASSUME worker[j] \in Publishing PROVE FALSE
  OBVIOUS
<1>1. holder[j] = <<"worker", home[j]>> /\ home[j] \in Mgr
  BY PublishingFacts
<1>2. <<"worker", home[j]>> # None
  BY <1>1, GenerationOK DEF Claim
<1> QED
  BY <1>1, <1>2

\* Every step keeps what the manager of a job knows of it.
LEMMA KnowsStep ==
  ASSUME Core, Core', [Next]_vars, NEW j \in Job, HomeKnows(j)
  PROVE  HomeKnows(j)'
<1> USE DEF objects, threads, kinds, grants, effects
<1>1. TypeOK /\ JobInv(j) /\ TypeOK' /\ JobInv(j)'
  BY DEF Core
<1>2. ASSUME rec'[j] = rec[j], \A m \in Mgr : mem'[m][j] = mem[m][j],
             home'[j] = home[j], worker'[j] = worker[j], holder'[j] = holder[j],
             j \in guarded' <=> j \in guarded
      PROVE  HomeKnows(j)'
  <2>1. CASE worker[j] = "none"
    BY <1>1, <1>2, <2>1 DEF HomeKnows, Offered, JobInv, Threads, Claims, Late, Publishing, NoObject, Reviewable, Decided
  <2>2. CASE worker[j] # "none"
    <3>1. home[j] \in Mgr
      BY <1>1, <2>2, AtHome DEF JobInv
    <3>2. mem'[home'[j]][j] = mem[home[j]][j] /\ Here(j)' = Here(j)
      BY <1>2, <3>1 DEF Here
    <3>3. Offered(j)' <=> Offered(j)
      BY <1>2 DEF Offered
    <3> QED
      BY <1>2, <3>2, <3>3 DEF HomeKnows
  <2> QED
    BY <2>1, <2>2
<1>3. ASSUME NEW i \in Job, Worker(i) PROVE HomeKnows(j)'
  <2>1. CASE i = j
    BY <1>3, <2>1, WorkerKnows
  <2>2. CASE i # j
    BY <1>1, <1>2, <1>3, <2>2, WorkerElsewhere DEF Core, SameJob
  <2> QED
    BY <2>1, <2>2
<1>4. ASSUME NEW i \in Job, ChangeAuth(i) PROVE HomeKnows(j)'
  BY <1>2, <1>4 DEF ChangeAuth
<1>5. ASSUME NEW m \in Mgr, NEW i \in Job, i # j,
             \/ StartPrepared(m, i) \/ SignalCancel(m, i) \/ CommitCancel(m, i)
             \/ Review(m, i) \/ RecoverRead(m, i) \/ RecoverWrite(m, i)
      PROVE  HomeKnows(j)'
  BY <1>1, <1>2, <1>5, RequestElsewhere DEF SameJob
<1>6. ASSUME NEW m \in Mgr, StartPrepared(m, j) PROVE HomeKnows(j)'
  <2>1. /\ worker'[j] = "start" /\ holder' = holder /\ worker[j] = "none"
        /\ rec'[j] = Saved(j, [NoObject EXCEPT !.status = "QUEUED"])
    BY <1>1, <1>6 DEF StartPrepared, Save, TypeOK, JobInv, Threads
  <2>2. rec'[j].status = "QUEUED"
    BY <2>1 DEF Saved, Public, NoObject
  <2>3. \A n \in Mgr : holder[j] \notin {<<"accept", n>>, <<"written", n>>, <<"accepted", n>>}
    BY <1>1, <2>1 DEF JobInv, Claims, Late
  <2> QED
    BY <2>1, <2>2, <2>3 DEF HomeKnows, Offered, Publishing, Reviewable, Decided
<1>7. ASSUME NEW m \in Mgr, CommitCancel(m, j) PROVE HomeKnows(j)'
  <2>1. CASE IsTerminal(m, j)
    BY <1>2, <1>7, <2>1 DEF CommitCancel, CancelExecution
  <2>2. CASE ~IsTerminal(m, j)
    <3> DEFINE o == WithStatus(m, j, "CANCELLED")
    <3>1. Keep(m, j, o) /\ TrySave(j, o) /\ UNCHANGED <<home, worker, holder, guarded>>
      BY <1>7, <2>2 DEF CommitCancel, CancelExecution
    <3>2. o.status = "CANCELLED" /\ o \in Object
      <4>1. mem[m][j] \in Object /\ "CANCELLED" \in Status
        BY <1>1 DEF TypeOK, Status, Terminal
      <4> QED
        BY <4>1 DEF WithStatus, Object
    <3> HIDE DEF o
    <3>3. mem'[m][j] = o /\ \A n \in Mgr : n # m => mem'[n][j] = mem[n][j]
      BY <1>1, <3>1 DEF Keep, TypeOK
    <3>4. rec'[j] = rec[j] \/ rec'[j].status = "CANCELLED"
      <4>1. Public(j, o) = "CANCELLED"
        BY <3>2 DEF Public
      <4> QED
        BY <1>1, <3>1, <3>2, <4>1, SaveAt DEF TrySave, SaveRaises, TypeOK
    <3>5. Offered(j)' => Offered(j)
      BY <3>1, <3>4 DEF Offered, Reviewable, Decided
    <3>6. CASE worker[j] = "none"
      BY <1>1, <3>1, <3>5, <3>6 DEF HomeKnows, Offered, JobInv, Threads, Claims, Late, Publishing, NoObject, Reviewable, Decided
    <3>7. CASE worker[j] # "none"
      <4>1. home[j] \in Mgr
        BY <1>1, <3>7, AtHome DEF JobInv
      <4>2. worker[j] \in Publishing => home[j] # m
        BY <1>1, <1>7, PublishingFacts DEF CommitCancel, CondFree
      <4>3. mem'[home[j]][j] = mem[home[j]][j] \/ mem'[home[j]][j].status = "CANCELLED"
        BY <3>2, <3>3, <4>1
      <4> QED
        BY <3>1, <3>3, <3>5, <4>1, <4>2, <4>3 DEF HomeKnows, Here, Executing
    <3> QED
      BY <3>6, <3>7
  <2> QED
    BY <2>1, <2>2
<1>8. ASSUME worker[j] # "none" PROVE home[j] \in Mgr
  BY <1>1, <1>8, AtHome DEF JobInv
<1>9. ASSUME Offered(j) PROVE worker[j] # "none"
  BY <1>1, <1>9 DEF Offered, JobInv, Threads, Claims, Late, NoObject, Reviewable, Decided
<1>10. ASSUME NEW m \in Mgr, holder[j] \in {None, <<"accept", m>>, <<"written", m>>,
                            <<"accepted", m>>, <<"recover", m>>},
              UNCHANGED <<home, worker>>,
              \A n \in Mgr : n # m => mem'[n][j] = mem[n][j],
              mem'[m][j].status \notin Executing,
              Offered(j)' => Offered(j)
       PROVE  HomeKnows(j)'
  <2>1. worker[j] \notin Publishing
    BY <1>1, <1>10, ReviewExcluded
  <2>2. CASE worker[j] = "none"
    BY <1>9, <1>10, <2>1, <2>2 DEF HomeKnows
  <2>3. CASE worker[j] # "none"
    BY <1>8, <1>10, <2>1, <2>3, RequestKnows
  <2> QED
    BY <2>2, <2>3
<1>11. ASSUME NEW m \in Mgr, SignalCancel(m, j) PROVE HomeKnows(j)'
  BY <1>2, <1>11 DEF SignalCancel
<1>12. ASSUME NEW m \in Mgr, RefuseAccept(m, j) PROVE HomeKnows(j)'
  <2>1. /\ holder[j] = None /\ UNCHANGED <<rec, home, worker, holder>>
        /\ Keep(m, j, Refresh(m, j))
    BY <1>12 DEF RefuseAccept
  <2>2. Offered(j)' <=> Offered(j)
    BY <2>1 DEF Offered
  <2>3. /\ mem'[m][j] = Refresh(m, j)
        /\ \A n \in Mgr : n # m => mem'[n][j] = mem[n][j]
    BY <1>1, <2>1 DEF Keep, TypeOK
  <2>4. worker[j] \notin Publishing
    BY <1>1, <2>1, ReviewExcluded
  <2>5. ASSUME Offered(j) PROVE mem'[home[j]][j].status \notin Executing
    <3>1. rec[j].status \in Reviewable
      BY <2>1, <2>5, GenerationOK DEF Offered, Claim
    <3>2. Refresh(m, j).status \notin Executing
      <4>1. rec[j].status # "none"
        BY <3>1 DEF Reviewable, Decided
      <4>2. Refresh(m, j).status = rec[j].status
        BY <1>1, <4>1, RefreshTyped
      <4> QED
        BY <3>1, <4>2 DEF Reviewable, Decided, Executing
    <3>3. home[j] \in Mgr
      BY <1>8, <1>9, <2>5
    <3> QED
      BY <2>3, <2>5, <3>2, <3>3 DEF HomeKnows
  <2> QED
    BY <2>1, <2>2, <2>4, <2>5 DEF HomeKnows
<1>13. ASSUME NEW m \in Mgr, Accept(m, j) PROVE HomeKnows(j)'
  <2> DEFINE o == [Refresh(m, j) EXCEPT !.status = "ACCEPTING"]
  <2>1. /\ holder[j] = None /\ UNCHANGED <<home, worker>>
        /\ Keep(m, j, o) /\ Refresh(m, j).status = "COMPLETED"
    BY <1>13 DEF Accept
  <2>2. o.status = "ACCEPTING"
    BY <1>1, RefreshTyped DEF Object
  <2> HIDE DEF o
  <2>3. mem'[m][j] = o /\ \A n \in Mgr : n # m => mem'[n][j] = mem[n][j]
    BY <1>1, <2>1 DEF Keep, TypeOK
  <2>4. Offered(j)
    BY <1>1, <1>13, RefreshFacts DEF Accept, Offered, Reviewable
  <2> QED
    BY <1>10, <2>1, <2>2, <2>3, <2>4 DEF Executing
<1>14. ASSUME NEW m \in Mgr, WriteChapter(m, j) PROVE HomeKnows(j)'
  <2>1. worker[j] \notin Publishing
    BY <1>1, <1>14, ReviewExcluded DEF WriteChapter
  <2>2. Offered(j)
    BY <1>14 DEF WriteChapter, Offered
  <2> QED
    BY <1>14, <2>1, <2>2 DEF WriteChapter, HomeKnows
<1>15. ASSUME NEW m \in Mgr, Accepted(m, j) \/ AcceptanceFails(m, j)
       PROVE  HomeKnows(j)'
  <2>1. PICK s \in {"ACCEPTED", "ACCEPTANCE_UNCERTAIN"} :
          /\ \E h : Concludes(m, j, s, h)
          /\ holder[j] \in {<<"accept", m>>, <<"written", m>>, <<"accepted", m>>}
    BY <1>15 DEF Accepted, AcceptanceFails
  <2>2. Offered(j)
    BY <2>1 DEF Offered
  <2>3. /\ mem'[m][j] = WithStatus(m, j, s)
        /\ \A n \in Mgr : n # m => mem'[n][j] = mem[n][j]
    BY <1>1, <2>1 DEF Concludes, Keep, TypeOK
  <2>4. WithStatus(m, j, s).status = s
    <3>1. mem[m][j] \in Object
      BY <1>1 DEF TypeOK
    <3> QED
      BY <3>1 DEF WithStatus, Object
  <2>5. UNCHANGED <<home, worker>>
    BY <2>1 DEF Concludes
  <2> QED
    BY <1>10, <2>1, <2>2, <2>3, <2>4, <2>5 DEF Executing
<1>23. ASSUME NEW m \in Mgr, AnswerAccept(m, j) PROVE HomeKnows(j)'
  <2>1. worker[j] \notin Publishing
    BY <1>1, <1>23, ReviewExcluded DEF AnswerAccept
  <2>2. Offered(j)
    BY <1>23 DEF AnswerAccept, Offered
  <2> QED
    BY <1>23, <2>1, <2>2 DEF AnswerAccept, HomeKnows
<1>16. ASSUME NEW m \in Mgr, Reject(m, j) PROVE HomeKnows(j)'
  <2>1. /\ holder[j] = None /\ UNCHANGED <<home, worker>>
        /\ Keep(m, j, WithStatus(m, j, "REJECTED"))
    BY <1>16 DEF Reject
  <2>2. Offered(j)
    BY <1>16 DEF Reject, Rejectable, Offered, Reviewable
  <2>3. /\ mem'[m][j] = WithStatus(m, j, "REJECTED")
        /\ \A n \in Mgr : n # m => mem'[n][j] = mem[n][j]
    BY <1>1, <2>1 DEF Keep, TypeOK
  <2>4. WithStatus(m, j, "REJECTED").status = "REJECTED"
    <3>1. mem[m][j] \in Object
      BY <1>1 DEF TypeOK
    <3> QED
      BY <3>1 DEF WithStatus, Object
  <2> QED
    BY <1>10, <2>1, <2>2, <2>3, <2>4 DEF Executing
<1>17. ASSUME NEW m \in Mgr, RecoverRead(m, j) PROVE HomeKnows(j)'
  <2>1. /\ holder[j] = None /\ UNCHANGED <<rec, home, worker>>
        /\ Keep(m, j, Restored(rec[j]))
        /\ holder'[j] \in {None, <<"recover", m>>}
    BY <1>1, <1>17 DEF RecoverRead, TypeOK
  <2>2. Offered(j)' => Offered(j)
    BY <2>1, GenerationOK DEF Offered, Claim
  <2>3. /\ mem'[m][j] = Restored(rec[j])
        /\ \A n \in Mgr : n # m => mem'[n][j] = mem[n][j]
    BY <1>1, <2>1 DEF Keep, TypeOK
  <2>4. Restored(rec[j]).status \notin Executing
    BY DEF Restored, Executing
  <2> QED
    BY <1>10, <2>1, <2>2, <2>3, <2>4
<1>18. ASSUME NEW m \in Mgr, RecoverWrite(m, j) PROVE HomeKnows(j)'
  <2>1. /\ holder[j] = <<"recover", m>> /\ UNCHANGED <<mem, home, worker>>
        /\ Save(j, mem[m][j]) /\ holder'[j] = None
        /\ mem[m][j].status = "FAILED" /\ mem[m][j] \in Object
    BY <1>1, <1>18 DEF RecoverWrite, JobInv, Claims, TypeOK
  <2>2. rec'[j].status = "FAILED"
    BY <1>1, <2>1, SaveAt DEF Public, TypeOK
  <2>3. Offered(j)' => Offered(j)
    BY <2>1, <2>2, GenerationOK DEF Offered, Claim, Reviewable, Decided
  <2> QED
    BY <1>10, <2>1, <2>3 DEF Executing
<1>19. ASSUME NEW m \in Mgr, Boot(m) PROVE HomeKnows(j)'
  <2>1. /\ UNCHANGED <<rec, home, worker, holder, guarded>>
        /\ life[m] = "down"
        /\ \A n \in Mgr : n # m => mem'[n] = mem[n]
        /\ mem'[m][j] = IF rec[j].status \in Executing THEN NoObject ELSE rec[j]
    BY <1>1, <1>19 DEF Boot, TypeOK
  <2>2. mem'[m][j].status \notin Executing
    BY <2>1 DEF NoObject, Executing
  <2>3. Offered(j)' <=> Offered(j)
    BY <2>1 DEF Offered
  <2>4. worker[j] \in Publishing => home[j] # m /\ home[j] \in Mgr
    BY <1>1, <2>1, PublishingFacts DEF JobInv, Threads, Publishing
  <2> QED
    BY <1>8, <1>9, <2>1, <2>2, <2>3, <2>4 DEF HomeKnows, Here
<1>20. ASSUME NEW m \in Mgr, BootDone(m) PROVE HomeKnows(j)'
  BY <1>2, <1>20 DEF BootDone
<1>21. ASSUME NEW m \in Mgr, Exit(m) PROVE HomeKnows(j)'
  <2>1. /\ UNCHANGED <<rec, home, guarded>>
        /\ \A n \in Mgr : n # m => mem'[n] = mem[n]
        /\ mem'[m][j] = NoObject
        /\ holder'[j] \in {holder[j], None}
        /\ worker'[j] \in Publishing => worker'[j] = worker[j] /\ home[j] # m
    BY <1>1, <1>21 DEF Exit, TypeOK, Publishing
  <2>2. NoObject.status \notin Executing
    BY DEF NoObject, Executing
  <2>3. Offered(j)' => Offered(j)
    BY <2>1, GenerationOK DEF Offered, Claim
  <2>4. worker[j] \in Publishing => worker[j] # "none"
    BY DEF Publishing
  <2> QED
    BY <1>8, <1>9, <2>1, <2>2, <2>3, <2>4 DEF HomeKnows, Here
<1>22. CASE UNCHANGED vars
  BY <1>2, <1>22 DEF vars
<1> QED
  BY <1>3, <1>4, <1>5, <1>6, <1>7, <1>11, <1>12, <1>13, <1>14, <1>15, <1>23, <1>16, <1>17, <1>18, <1>19, <1>20, <1>21, <1>22 DEF Next, Review, Recovery

-----------------------------------------------------------------------------
(* What becomes of a record.                                                  *)

\* A review stores a decision or nothing.
LEMMA ReviewSaves ==
  ASSUME TypeOK, NEW m \in Mgr, NEW j \in Job, Review(m, j)
  PROVE  rec'[j] = rec[j] \/ rec'[j].status \in Decided
<1>1. ASSUME NEW o \in Object, NEW s \in Decided, TrySave(j, [o EXCEPT !.status = s])
      PROVE  rec'[j] = rec[j] \/ rec'[j].status \in Decided
  <2> DEFINE p == [o EXCEPT !.status = s]
  <2>1. s \in Status /\ s # "COMPLETED"
    BY DEF Status, Terminal, Decided
  <2>2. p \in Object /\ p.status = s
    BY <2>1, StatusTyped DEF Object
  <2>3. TrySave(j, p)
    BY <1>1
  <2> HIDE DEF p
  <2>4. Public(j, p) = s
    BY <2>1, <2>2 DEF Public
  <2> QED
    BY <2>2, <2>3, <2>4, SaveAt DEF TrySave, SaveRaises, TypeOK
<1>2. mem[m][j] \in Object /\ Refresh(m, j) \in Object
  BY RefreshTyped DEF TypeOK
<1>3. {"ACCEPTING", "ACCEPTED", "ACCEPTANCE_UNCERTAIN", "REJECTED"} = Decided
  BY DEF Decided
<1>4. ASSUME NEW s \in Decided, TrySave(j, WithStatus(m, j, s))
      PROVE  rec'[j] = rec[j] \/ rec'[j].status \in Decided
  BY <1>1, <1>2, <1>4 DEF WithStatus
<1>5. CASE RefuseAccept(m, j) \/ WriteChapter(m, j) \/ AnswerAccept(m, j)
  BY <1>5 DEF RefuseAccept, WriteChapter, AnswerAccept
<1>6. CASE Accept(m, j)
  BY <1>1, <1>2, <1>3, <1>6 DEF Accept, TrySave
<1>7. CASE Accepted(m, j)
  BY <1>3, <1>4, <1>7 DEF Accepted, TrySave
<1>8. CASE AcceptanceFails(m, j)
  BY <1>3, <1>4, <1>8 DEF AcceptanceFails
<1>9. CASE Reject(m, j)
  BY <1>3, <1>4, <1>9 DEF Reject
<1> QED
  BY <1>5, <1>6, <1>7, <1>8, <1>9 DEF Review

\* A cancellation stores itself over what its manager believes to be open.
LEMMA CancelSaves ==
  ASSUME TypeOK, NEW m \in Mgr, NEW j \in Job, CancelExecution(m, j)
  PROVE  \/ rec'[j] = rec[j]
         \/ ~IsTerminal(m, j) /\ rec'[j].status = "CANCELLED"
<1> DEFINE o == WithStatus(m, j, "CANCELLED")
<1>1. "CANCELLED" \in Status /\ mem[m][j] \in Object
  BY DEF TypeOK, Status, Terminal
<1>2. o \in Object /\ Public(j, o) = "CANCELLED"
  BY <1>1 DEF WithStatus, Object, Public
<1>3. UNCHANGED rec \/ (~IsTerminal(m, j) /\ Save(j, o))
  BY DEF CancelExecution, TrySave, SaveRaises
<1> HIDE DEF o
<1> QED
  BY <1>2, <1>3, SaveAt DEF TypeOK

\* A recovery stores that the job failed.
LEMMA RecoverySaves ==
  ASSUME TypeOK, NEW m \in Mgr, NEW j \in Job, JobInv(j), RecoverWrite(m, j)
  PROVE  rec'[j].status = "FAILED"
<1>1. mem[m][j].status = "FAILED" /\ mem[m][j] \in Object /\ Save(j, mem[m][j])
  BY DEF RecoverWrite, JobInv, Claims, TypeOK
<1> QED
  BY <1>1, SaveAt DEF Public, TypeOK

\* Every step keeps what is left to recover on the list of its manager.
LEMMA LeftStep ==
  ASSUME Core, [Next]_vars, NEW j \in Job, LeftToRecover(j)
  PROVE  LeftToRecover(j)'
<1> USE DEF objects, threads, kinds, grants, effects
<1> SUFFICES ASSUME worker'[j] = "dead", rec'[j].status \in Executing
             PROVE  \/ life'[home'[j]] = "down"
                    \/ life'[home'[j]] = "booting" /\ j \in todo'[home'[j]]
  BY DEF LeftToRecover
<1>1. TypeOK /\ JobInv(j)
  BY DEF Core
<1>2. /\ {"CANCELLED", "FAILED"} \cap Executing = {}
      /\ Decided \cap Executing = {}
  BY DEF Executing, Decided
<1>3. ASSUME NEW m \in Mgr, Exit(m)
      PROVE  \/ life'[home'[j]] = "down"
             \/ life'[home'[j]] = "booting" /\ j \in todo'[home'[j]]
  <2>1. home[j] \in Mgr
    BY <1>1, <1>3, AtHome DEF Exit, JobInv, TypeOK
  <2>2. home'[j] = home[j] /\ rec'[j] = rec[j]
    BY <1>3 DEF Exit
  <2>3. CASE home[j] = m
    BY <1>1, <1>3, <2>2, <2>3 DEF Exit, TypeOK
  <2>4. CASE home[j] # m
    BY <1>1, <1>3, <2>1, <2>2, <2>4 DEF Exit, TypeOK, LeftToRecover
  <2> QED
    BY <2>3, <2>4
<1>4. ASSUME worker[j] = "dead", rec'[j] = rec[j], home'[j] = home[j],
             life'[home[j]] = life[home[j]],
             j \in todo[home[j]] => j \in todo'[home[j]]
      PROVE  \/ life'[home'[j]] = "down"
             \/ life'[home'[j]] = "booting" /\ j \in todo'[home'[j]]
  BY <1>4 DEF LeftToRecover
<1>5. ASSUME worker[j] = "dead" PROVE home[j] \in Mgr /\ home[j] # None
  BY <1>1, <1>5, AtHome DEF JobInv
<1>6. ASSUME NEW i \in Job, Worker(i)
      PROVE  \/ life'[home'[j]] = "down"
             \/ life'[home'[j]] = "booting" /\ j \in todo'[home'[j]]
  <2>1. i # j
    BY <1>1, <1>6 DEF Worker, At, To, Publishing, TypeOK, ThreadFails, Stop, BeginRun, Refuse, SaveSnapshot, Dispatch, RunFails, Delta, CompleteStream, BeginPublication, Settle, SaveSettlement, Publish, RefusePublication, Withdraw, Fail, LateHook, Finish
  <2>2. rec'[j] = rec[j] /\ worker'[j] = worker[j]
    BY <1>6, <2>1, WorkerElsewhere DEF Core, SameJob
  <2>3. UNCHANGED <<home, life, todo>>
    BY <1>6 DEF Worker, Elsewhere, ThreadFails, Stop, BeginRun, Refuse, SaveSnapshot, Dispatch, RunFails, Delta, CompleteStream, BeginPublication, Settle, SaveSettlement, Publish, RefusePublication, Withdraw, Fail, LateHook, Finish
  <2> QED
    BY <1>4, <2>2, <2>3
<1>7. ASSUME NEW m \in Mgr, NEW i \in Job,
             \/ StartPrepared(m, i) \/ SignalCancel(m, i) \/ CommitCancel(m, i)
             \/ Review(m, i)
      PROVE  \/ life'[home'[j]] = "down"
             \/ life'[home'[j]] = "booting" /\ j \in todo'[home'[j]]
  <2>1. UNCHANGED <<life, todo>> /\ (UNCHANGED <<home, worker>> \/ StartPrepared(m, i))
    BY <1>7 DEF StartPrepared, SignalCancel, CommitCancel, Review, RefuseAccept, Accept, WriteChapter, Accepted, AnswerAccept, AcceptanceFails, Concludes, Reject
  <2>2. CASE i # j
    BY <1>1, <1>4, <1>7, <2>1, <2>2, RequestElsewhere DEF SameJob
  <2>3. CASE i = j
    <3>1. ~StartPrepared(m, i)
      BY <1>1, <2>3 DEF StartPrepared, TypeOK
    <3>2. rec'[j] = rec[j]
      BY <1>1, <1>2, <1>7, <2>3, <3>1, ReviewSaves, CancelSaves DEF CommitCancel, SignalCancel
    <3> QED
      BY <1>4, <2>1, <3>1, <3>2
  <2> QED
    BY <2>2, <2>3
<1>8. ASSUME NEW m \in Mgr, NEW i \in Job, RecoverRead(m, i) \/ RecoverWrite(m, i)
      PROVE  \/ life'[home'[j]] = "down"
             \/ life'[home'[j]] = "booting" /\ j \in todo'[home'[j]]
  <2>1. UNCHANGED <<life, home, worker>>
    BY <1>8 DEF RecoverRead, RecoverWrite
  <2>2. CASE i # j
    <3>1. rec'[j] = rec[j]
      BY <1>1, <1>8, <2>2, RequestElsewhere DEF SameJob
    <3>2. home[j] \in Mgr => (j \in todo[home[j]] => j \in todo'[home[j]])
      BY <1>1, <1>8, <2>2 DEF RecoverRead, RecoverWrite, TypeOK
    <3> QED
      BY <1>4, <1>5, <2>1, <3>1, <3>2
  <2>3. CASE i = j
    <3>1. RecoverRead(m, j)
      BY <1>1, <1>2, <1>8, <2>3, RecoverySaves
    <3>2. rec'[j] = rec[j] /\ UNCHANGED todo
      BY <3>1 DEF RecoverRead
    <3> QED
      BY <1>4, <2>1, <3>2
  <2> QED
    BY <2>2, <2>3
<1>9. ASSUME NEW m \in Mgr, Boot(m)
      PROVE  \/ life'[home'[j]] = "down"
             \/ life'[home'[j]] = "booting" /\ j \in todo'[home'[j]]
  <2>1. UNCHANGED <<rec, home, worker>> /\ home[j] \in Mgr
    BY <1>5, <1>9 DEF Boot
  <2>2. CASE home[j] = m
    BY <1>1, <1>9, <2>1, <2>2 DEF Boot, TypeOK
  <2>3. CASE home[j] # m
    BY <1>1, <1>4, <1>9, <2>1, <2>3 DEF Boot, TypeOK
  <2> QED
    BY <2>2, <2>3
<1>10. ASSUME NEW m \in Mgr, BootDone(m)
       PROVE  \/ life'[home'[j]] = "down"
              \/ life'[home'[j]] = "booting" /\ j \in todo'[home'[j]]
  <2>1. UNCHANGED <<rec, home, worker, todo>> /\ home[j] \in Mgr /\ todo[m] = {}
        /\ life[m] = "booting"
    BY <1>5, <1>10 DEF BootDone
  <2>2. home[j] # m
    BY <2>1 DEF LeftToRecover
  <2> QED
    BY <1>1, <1>4, <1>10, <2>1, <2>2 DEF BootDone, TypeOK
<1>11. ASSUME NEW i \in Job, ChangeAuth(i)
       PROVE  \/ life'[home'[j]] = "down"
              \/ life'[home'[j]] = "booting" /\ j \in todo'[home'[j]]
  BY <1>4, <1>11 DEF ChangeAuth
<1>12. CASE UNCHANGED vars
  BY <1>4, <1>12 DEF vars
<1> QED
  BY <1>3, <1>6, <1>7, <1>8, <1>9, <1>10, <1>11, <1>12 DEF Next, Recovery

\* The inductive invariant holds at first,
LEMMA InvInit == Init => IInv
<1> SUFFICES ASSUME Init, NEW j \in Job PROVE HomeKnows(j) /\ LeftToRecover(j)
  BY CoreInit DEF IInv
<1>1. rec[j].status = "none" /\ worker[j] = "none" /\ holder[j] = None
  BY DEF Init, NoObject
<1>2. ~Offered(j)
  BY <1>1, GenerationOK DEF Offered, Claim, Reviewable, Decided
<1> QED
  BY <1>1, <1>2 DEF HomeKnows, LeftToRecover, Publishing

\* and every action keeps it.
LEMMA InvStep == IInv /\ [Next]_vars => IInv'
<1> SUFFICES ASSUME IInv, [Next]_vars PROVE IInv'
  OBVIOUS
<1>1. Core /\ \A j \in Job : HomeKnows(j) /\ LeftToRecover(j)
  BY DEF IInv
<1>2. Core'
  BY <1>1, CoreStep
<1>3. \A j \in Job : HomeKnows(j)' /\ LeftToRecover(j)'
  BY <1>1, <1>2, KnowsStep, LeftStep
<1> QED
  BY <1>2, <1>3 DEF IInv

\* The inductive invariant holds of every reachable state: how thread, hook,
\* lock, record and the objects of all managers of a job fit together.
THEOREM Invariance == Spec => []IInv
BY InvInit, InvStep, PTL DEF Spec

\* Every variable keeps its type.
THEOREM Typing == Spec => []TypeOK
<1>1. IInv => TypeOK
  BY DEF IInv, Core
<1> QED
  BY <1>1, Invariance, PTL

\* A draft is written once, and its record does not offer it again.
THEOREM DraftAcceptedOnce == Spec => []AcceptedOnce
<1>1. IInv => AcceptedOnce
  BY DEF IInv, Core, JobInv, Manuscript, AcceptedOnce
<1> QED
  BY <1>1, Invariance, PTL

\* The accounting hook is called once.
THEOREM HookCalledOnce == Spec => []BilledOnce
<1>1. IInv => BilledOnce
  <2> SUFFICES ASSUME IInv, NEW j \in Job
               PROVE  /\ calls[j] <= 1
                      /\ worker[j] = "done" /\ j \in hooked => calls[j] = 1
    BY DEF BilledOnce
  <2>1. calls[j] \in {0, 1} /\ (worker[j] = "done" => Called(j))
    BY DEF IInv, Core, JobInv, Hooks
  <2> QED
    BY <2>1 DEF Called
<1> QED
  BY <1>1, Invariance, PTL

\* What can be reviewed is settled.
THEOREM ReviewSettled == Spec => []SettledBeforeReview
<1>1. IInv => SettledBeforeReview
  BY DEF IInv, Core, TypeOK, JobInv, Settlements, SettledBeforeReview, Reviewable
<1> QED
  BY <1>1, Invariance, PTL

\* What was refused is not published.
THEOREM RefusalsUnpublished == Spec => []RefusedUnpublished
<1>1. IInv => RefusedUnpublished
  BY DEF IInv, Core, TypeOK, JobInv, Refusals, RefusedUnpublished, Reviewable
<1> QED
  BY <1>1, Invariance, PTL

\* A thread leaves a decided record alone.
LEMMA WorkerDecided ==
  ASSUME Core, NEW i \in Job, Worker(i), NEW j \in Job, rec[j].status \in Decided
  PROVE  rec'[j] = rec[j]
<1>1. CASE i # j
  BY <1>1, WorkerElsewhere DEF SameJob
<1>2. CASE i = j
  <2>1. Late(j) /\ Called(j)
    BY DEF Core, JobInv, Drafts, Reviewable
  <2>2. worker[j] \in {"finishing", "done", "dead"} /\ ~HookOpen(j)
    BY <2>1 DEF Late, HookOpen, Called
  <2>3. Finish(j) /\ worker[j] = "finishing"
    BY <1>2, <2>2 DEF Worker, At, ThreadFails, Stop, BeginRun, Refuse, SaveSnapshot, Dispatch, RunFails, Delta, CompleteStream, BeginPublication, Settle, SaveSettlement, Publish, RefusePublication, Withdraw, Fail, LateHook, Finish
  <2> QED
    BY <2>3 DEF Finish, At
<1> QED
  BY <1>1, <1>2

\* No step replaces a decision but a cancellation, or the acceptance that has
\* stored it and not answered yet; and no step undoes a claim.
LEMMA DecisionStep ==
  ASSUME Core, [Next]_vars, NEW j \in Job, rec[j].status \in Decided
  PROVE  \/ rec'[j].status \in {rec[j].status, "CANCELLED"}
         \/ /\ rec[j].status = "ACCEPTING"
            /\ rec'[j].status \in {"ACCEPTED", "ACCEPTANCE_UNCERTAIN"}
         \/ /\ rec[j].status = "ACCEPTED" /\ rec'[j].status = "ACCEPTANCE_UNCERTAIN"
            /\ \E m \in Mgr : holder[j] = <<"accepted", m>>
<1>1. TypeOK /\ JobInv(j)
  BY DEF Core
<1>2. {"none", "COMPLETED"} \cap Decided = {}
  BY DEF Decided
<1>3. ASSUME NEW i \in Job, Worker(i) PROVE rec'[j] = rec[j]
  BY <1>3, WorkerDecided
<1>4. ASSUME NEW m \in Mgr, NEW i \in Job, i # j,
             \/ StartPrepared(m, i) \/ SignalCancel(m, i) \/ CommitCancel(m, i)
             \/ Review(m, i) \/ RecoverRead(m, i) \/ RecoverWrite(m, i)
      PROVE  rec'[j] = rec[j]
  BY <1>1, <1>4, RequestElsewhere DEF SameJob
<1>5. ASSUME NEW m \in Mgr, CommitCancel(m, j)
      PROVE  rec'[j] = rec[j] \/ rec'[j].status = "CANCELLED"
  <2> DEFINE o == WithStatus(m, j, "CANCELLED")
  <2>1. "CANCELLED" \in Status /\ mem[m][j] \in Object
    BY <1>1 DEF TypeOK, Status, Terminal
  <2>2. o \in Object /\ Public(j, o) = "CANCELLED"
    BY <2>1 DEF WithStatus, Object, Public
  <2>3. UNCHANGED rec \/ Save(j, o)
    BY <1>5 DEF CommitCancel, CancelExecution, TrySave, SaveRaises
  <2> HIDE DEF o
  <2> QED
    BY <1>1, <2>2, <2>3, SaveAt DEF TypeOK
<1>6. ASSUME NEW m \in Mgr, Accepted(m, j) \/ AcceptanceFails(m, j)
      PROVE  \/ rec'[j] = rec[j]
             \/ /\ rec[j].status = "ACCEPTING"
                /\ rec'[j].status \in {"ACCEPTED", "ACCEPTANCE_UNCERTAIN"}
             \/ /\ rec[j].status = "ACCEPTED" /\ rec'[j].status = "ACCEPTANCE_UNCERTAIN"
                /\ holder[j] = <<"accepted", m>>
  <2>1. PICK s \in {"ACCEPTED", "ACCEPTANCE_UNCERTAIN"} :
          /\ s = "ACCEPTED" => holder[j] = <<"written", m>>
          /\ holder[j] \in {<<"accept", m>>, <<"written", m>>, <<"accepted", m>>}
          /\ UNCHANGED rec \/ Save(j, WithStatus(m, j, s))
    BY <1>6 DEF Accepted, AcceptanceFails, TrySave, SaveRaises
  <2> DEFINE o == WithStatus(m, j, s)
  <2>2. /\ mem[m][j] \in Object
        /\ rec[j].status =
             IF holder[j] = <<"accepted", m>> THEN "ACCEPTED" ELSE "ACCEPTING"
    BY <1>1, <2>1, ClaimFacts DEF Decided
  <2>3. s \in Status
    BY DEF Status, Terminal, Decided
  <2>4. o \in Object /\ Public(j, o) = s
    BY <2>2, <2>3 DEF WithStatus, Object, Public
  <2>5. UNCHANGED rec \/ Save(j, o)
    BY <2>1
  <2> HIDE DEF o
  <2>6. rec'[j] = rec[j] \/ rec'[j].status = s
    BY <1>1, <2>4, <2>5, SaveAt DEF TypeOK
  <2> QED
    BY <2>1, <2>2, <2>6
<1>7. ASSUME NEW m \in Mgr PROVE ~Accept(m, j) /\ ~Reject(m, j) /\ ~StartPrepared(m, j)
  <2>1. Accept(m, j) => rec[j].status = "COMPLETED"
    BY <1>1, RefreshFacts DEF Accept
  <2> QED
    BY <1>2, <2>1 DEF Reject, Rejectable, StartPrepared
<1>8. ASSUME NEW m \in Mgr PROVE ~RecoverWrite(m, j)
  BY <1>1 DEF RecoverWrite, JobInv, Claims, Reviewable
<1>9. ASSUME NEW m \in Mgr,
             \/ SignalCancel(m, j) \/ RefuseAccept(m, j) \/ WriteChapter(m, j)
             \/ AnswerAccept(m, j)
             \/ RecoverRead(m, j) \/ Boot(m) \/ BootDone(m) \/ Exit(m)
      PROVE  rec'[j] = rec[j]
  BY <1>9 DEF SignalCancel, RefuseAccept, WriteChapter, AnswerAccept, RecoverRead, Boot, BootDone, Exit
<1>10. ASSUME NEW i \in Job, ChangeAuth(i) PROVE rec'[j] = rec[j]
  BY <1>10 DEF ChangeAuth
<1>11. CASE UNCHANGED vars
  BY <1>11 DEF vars
<1>12. ASSUME NEW m \in Mgr, NEW i \in Job,
              \/ StartPrepared(m, i) \/ SignalCancel(m, i) \/ CommitCancel(m, i)
              \/ Review(m, i) \/ RecoverRead(m, i) \/ RecoverWrite(m, i)
       PROVE  \/ rec'[j] = rec[j] \/ rec'[j].status = "CANCELLED"
              \/ /\ rec[j].status = "ACCEPTING"
                 /\ rec'[j].status \in {"ACCEPTED", "ACCEPTANCE_UNCERTAIN"}
              \/ /\ rec[j].status = "ACCEPTED" /\ rec'[j].status = "ACCEPTANCE_UNCERTAIN"
                 /\ holder[j] = <<"accepted", m>>
  BY <1>4, <1>5, <1>6, <1>7, <1>8, <1>9, <1>12 DEF Review
<1> QED
  BY <1>3, <1>9, <1>10, <1>11, <1>12 DEF Next, Recovery

\* A stored decision is final, cancellations by another manager apart and the
\* doubt of the acceptance that stored it and has not answered yet.
THEOREM DecisionsStay == Spec => DecisionFinal
<1> DEFINE Kept(j) ==
      LET s == rec[j].status
          t == rec'[j].status
      IN  t # "CANCELLED" =>
            /\ s \in {"ACCEPTANCE_UNCERTAIN", "REJECTED"} => t = s
            /\ s = "ACCEPTED" /\ t # s =>
                 /\ t = "ACCEPTANCE_UNCERTAIN"
                 /\ \E m \in Mgr : holder[j] = <<"accepted", m>>
            /\ s = "ACCEPTING" =>
                 t \in {"ACCEPTING", "ACCEPTED", "ACCEPTANCE_UNCERTAIN"}
<1>1. IInv /\ [Next]_vars => [\A j \in Job : Kept(j)]_vars
  <2> SUFFICES ASSUME IInv, [Next]_vars, NEW j \in Job PROVE Kept(j)
    OBVIOUS
  <2>1. rec[j].status \in Decided =>
          \/ rec'[j].status \in {rec[j].status, "CANCELLED"}
          \/ /\ rec[j].status = "ACCEPTING"
             /\ rec'[j].status \in {"ACCEPTED", "ACCEPTANCE_UNCERTAIN"}
          \/ /\ rec[j].status = "ACCEPTED" /\ rec'[j].status = "ACCEPTANCE_UNCERTAIN"
             /\ \E m \in Mgr : holder[j] = <<"accepted", m>>
    BY DecisionStep DEF IInv
  <2> QED
    BY <2>1 DEF Decided
<1> QED
  BY <1>1, Invariance, PTL DEF Spec, DecisionFinal

\* A step that stores a cancellation over a draft is a cancel through a manager
\* that did not run the job.
LEMMA CancelStep ==
  ASSUME IInv, [Next]_vars, NEW j \in Job,
         rec[j].status \in Reviewable, rec'[j].status = "CANCELLED"
  PROVE  \E m \in Mgr \ {home[j]} : <<m, j>> \in cancelling \ cancelling'
<1>1. /\ Core /\ Core' /\ TypeOK /\ JobInv(j) /\ HomeKnows(j) /\ HomeKnows(j)'
  BY InvStep DEF IInv, Core
<1>2. rec'[j] # rec[j] /\ "CANCELLED" \notin Reviewable
  BY DEF Reviewable, Decided
<1>3. home[j] \in Mgr /\ worker[j] # "none"
  <2>1. worker[j] # "none"
    BY <1>1 DEF JobInv, Threads, NoObject, Reviewable, Decided
  <2> QED
    BY <1>1, <2>1, AtHome DEF JobInv
<1>4. ASSUME NEW i \in Job, Worker(i) PROVE FALSE
  <2>1. i = j
    BY <1>2, <1>4, <1>1, WorkerElsewhere DEF SameJob
  <2>2. ~Late(j)
    BY <1>2, <1>4, <2>1, LateEnds
  <2>3. worker[j] \in Publishing
    BY <1>1, <2>2 DEF JobInv, Drafts
  <2>4. j \notin guarded
    BY <1>1, <2>3 DEF JobInv, Refusals
  <2>5. Here(j)'.status # "CANCELLED"
    BY <1>1, <1>4, <2>1, <2>3, <2>4, PublicationShows
  <2>6. rec'[j] = Saved(j, Here(j)')
    BY <1>1, <1>2, <1>3, <1>4, <2>1, WorkerSaves
  <2>7. Here(j)' \in Object
    <3>1. Here(j)' = mem'[home[j]][j]
      BY <1>1, <1>3, <1>4, <2>1, WorkerSaves DEF Here
    <3> QED
      BY <1>1, <1>3, <3>1 DEF Core, TypeOK
  <2> QED
    BY <2>5, <2>6, <2>7, SavedTyped DEF Public
<1>5. ASSUME NEW m \in Mgr, NEW i \in Job, i # j,
             \/ StartPrepared(m, i) \/ SignalCancel(m, i) \/ CommitCancel(m, i)
             \/ Review(m, i) \/ RecoverRead(m, i) \/ RecoverWrite(m, i)
      PROVE  FALSE
  BY <1>1, <1>2, <1>5, RequestElsewhere DEF SameJob
<1>6. ASSUME NEW m \in Mgr,
             \/ StartPrepared(m, j) \/ SignalCancel(m, j) \/ Review(m, j)
             \/ RecoverRead(m, j) \/ RecoverWrite(m, j)
             \/ Boot(m) \/ BootDone(m) \/ Exit(m)
      PROVE  FALSE
  <2>1. "CANCELLED" \notin Decided /\ "none" \notin Reviewable
    BY DEF Decided, Reviewable
  <2> QED
    BY <1>1, <1>2, <1>6, <2>1, ReviewSaves, RecoverySaves DEF StartPrepared, SignalCancel, RecoverRead, Boot, BootDone, Exit
<1>7. ASSUME NEW m \in Mgr, CommitCancel(m, j)
      PROVE  m # home[j] /\ <<m, j>> \in cancelling \ cancelling'
  <2>1. ~IsTerminal(m, j)
    BY <1>1, <1>2, <1>7, CancelSaves DEF CommitCancel
  <2>2. mem[m][j].status # "none" /\ mem[m][j] \in Object
    BY <1>1, <1>7 DEF CommitCancel, JobInv, Threads, TypeOK
  <2>3. mem[m][j].status \in Executing
    BY <2>1, <2>2 DEF IsTerminal, Object, Status
  <2>4. mem[home[j]][j].status \notin Executing
    BY <1>1 DEF HomeKnows, Offered
  <2> QED
    BY <1>7, <2>3, <2>4 DEF CommitCancel
<1>8. ASSUME NEW i \in Job, ChangeAuth(i) PROVE FALSE
  BY <1>2, <1>8 DEF ChangeAuth
<1>9. ~UNCHANGED vars
  BY <1>2 DEF vars
<1>10. PICK m \in Mgr : CommitCancel(m, j)
  BY <1>4, <1>5, <1>6, <1>8, <1>9 DEF Next, Recovery
<1> QED
  BY <1>7, <1>10

\* Only a cancel through another manager replaces a stored draft.
THEOREM CancelsComeFromElsewhere == Spec => CancelsElsewhere
<1>1. IInv /\ [Next]_vars =>
        [\A j \in Job :
           rec[j].status \in Reviewable /\ rec'[j].status = "CANCELLED" =>
             \E m \in Mgr \ {home[j]} : <<m, j>> \in cancelling \ cancelling']_vars
  BY CancelStep
<1> QED
  BY <1>1, Invariance, PTL DEF Spec, CancelsElsewhere

\* Where one process serves a data directory, cancel() keeps what its comment
\* promises: a stored draft is never turned back into a cancellation.
THEOREM OneManagerKeepsDrafts ==
  ASSUME NEW m, Mgr = {m}
  PROVE  Spec => CancelKeepsDrafts
<1>1. IInv /\ [Next]_vars =>
        [\A j \in Job : rec[j].status \in {"COMPLETED"} \cup Decided =>
                         rec'[j].status # "CANCELLED"]_vars
  <2> SUFFICES ASSUME IInv, [Next]_vars, NEW j \in Job,
                      rec[j].status \in {"COMPLETED"} \cup Decided,
                      rec'[j].status = "CANCELLED"
               PROVE  FALSE
    OBVIOUS
  <2>1. rec[j].status \in Reviewable
    BY DEF Reviewable
  <2>2. PICK n \in Mgr \ {home[j]} : TRUE
    BY <2>1, CancelStep
  <2>3. home[j] \in Mgr
    <3>1. TypeOK /\ Threads(j)
      BY DEF IInv, Core, JobInv
    <3>2. worker[j] # "none"
      BY <2>1, <3>1 DEF Threads, NoObject, Reviewable, Decided
    <3> QED
      BY <3>1, <3>2, AtHome
  <2> QED
    BY <2>2, <2>3
<1> QED
  BY <1>1, Invariance, PTL DEF Spec, CancelKeepsDrafts

\* What a process left executing is shown as ended once its manager is up again.
THEOREM InterruptionsShown == Spec => []InterruptedShown
<1>1. IInv => InterruptedShown
  BY DEF IInv, LeftToRecover, InterruptedShown
<1> QED
  BY <1>1, Invariance, PTL

-----------------------------------------------------------------------------
(* The jobs implement DraftReview.                                            *)

OverBar  == {j \in Job : Late(j)}
DraftBar == [j \in Job |-> DraftOf(j)]
ClaimBar == [j \in Job |-> ClaimOf(j)]

Mapped == [Reviews!Next]_(Reviews!vars)

\* What a step of one job does to the review of all.
LEMMA OneJob ==
  ASSUME TypeOK, TypeOK', NEW j \in Job, \A i \in Job : i # j => SameJob(i)
  PROVE  /\ OverBar' \subseteq OverBar \cup {j}
         /\ \A i \in OverBar : i # j => i \in OverBar'
         /\ j \in OverBar' <=> Late(j)'
         /\ j \in OverBar <=> Late(j)
         /\ DraftBar' = [DraftBar EXCEPT ![j] = DraftOf(j)']
         /\ ClaimBar' = [ClaimBar EXCEPT ![j] = ClaimOf(j)']
         /\ writes' = [writes EXCEPT ![j] = writes'[j]]
         /\ DraftBar[j] = DraftOf(j) /\ ClaimBar[j] = ClaimOf(j)
<1>1. ASSUME NEW i \in Job, i # j
      PROVE  /\ Late(i)' <=> Late(i)
             /\ DraftOf(i)' = DraftOf(i) /\ ClaimOf(i)' = ClaimOf(i)
             /\ writes'[i] = writes[i]
  <2>1. SameJob(i)
    BY <1>1
  <2>2. Late(i)' <=> Late(i)
    BY <2>1 DEF SameJob, Late, Called
  <2>3. DraftOf(i)' = DraftOf(i)
    BY <2>1 DEF SameJob, DraftOf
  <2>4. ClaimOf(i)' = ClaimOf(i)
    BY <2>1 DEF SameJob, ClaimOf
  <2> QED
    BY <2>1, <2>2, <2>3, <2>4 DEF SameJob
<1>2. /\ OverBar' \subseteq OverBar \cup {j}
      /\ \A i \in OverBar : i # j => i \in OverBar'
      /\ j \in OverBar' <=> Late(j)'
      /\ j \in OverBar <=> Late(j)
  BY <1>1 DEF OverBar
<1>3. DraftBar' = [DraftBar EXCEPT ![j] = DraftOf(j)'] /\ DraftBar[j] = DraftOf(j)
  BY <1>1 DEF DraftBar
<1>4. ClaimBar' = [ClaimBar EXCEPT ![j] = ClaimOf(j)'] /\ ClaimBar[j] = ClaimOf(j)
  BY <1>1 DEF ClaimBar
<1>5. writes' = [writes EXCEPT ![j] = writes'[j]]
  BY <1>1 DEF TypeOK
<1> QED
  BY <1>2, <1>3, <1>4, <1>5

\* A step that changes nothing a review sees is a stutter.
LEMMA Unseen ==
  ASSUME TypeOK, TypeOK', NEW j \in Job, \A i \in Job : i # j => SameJob(i),
         Late(j)' <=> Late(j), DraftOf(j)' = DraftOf(j), ClaimOf(j)' = ClaimOf(j),
         writes'[j] = writes[j]
  PROVE  Mapped
<1>1. OverBar' = OverBar
  <2>1. OverBar \subseteq OverBar' /\ OverBar' \subseteq OverBar
    BY OneJob DEF OverBar
  <2> QED
    BY <2>1
<1>2. DraftBar' = DraftBar /\ ClaimBar' = ClaimBar /\ writes' = writes
  <2>1. /\ DraftBar' = [DraftBar EXCEPT ![j] = DraftBar[j]]
        /\ ClaimBar' = [ClaimBar EXCEPT ![j] = ClaimBar[j]]
        /\ writes' = [writes EXCEPT ![j] = writes[j]]
    BY OneJob
  <2> QED
    BY <2>1 DEF DraftBar, ClaimBar, TypeOK
<1> QED
  BY <1>1, <1>2 DEF Mapped, Reviews!vars, OverBar, DraftBar, ClaimBar

\* The claims of the lock.
LEMMA ClaimIs ==
  ASSUME TypeOK, NEW j \in Job
  PROVE  /\ \A m \in Mgr : holder[j] = <<"accept", m>> => ClaimOf(j) = "open"
         /\ \A m \in Mgr : holder[j] = <<"written", m>> => ClaimOf(j) = "used"
         /\ \A m \in Mgr : holder[j] = <<"accepted", m>> => ClaimOf(j) = "answering"
         /\ (\A m \in Mgr : holder[j] \notin {<<"accept", m>>, <<"written", m>>, <<"accepted", m>>})
              <=> ClaimOf(j) = "none"
         /\ \A m \in Mgr : holder[j] \in {None, <<"worker", m>>, <<"recover", m>>} =>
              ClaimOf(j) = "none"
<1>1. \A m \in Mgr : /\ <<"accept", m>> # None /\ <<"written", m>> # None
                      /\ <<"accepted", m>> # None
  BY GenerationOK DEF Claim
<1> QED
  BY <1>1 DEF ClaimOf

\* A thread gives its object no status of a review.
LEMMA WorkerStatus ==
  ASSUME TypeOK, NEW j \in Job, home[j] \in Mgr, Worker(j)
  PROVE  Here(j)'.status \in {Here(j).status} \cup (Status \ Decided)
<1> USE DEF Elsewhere, Calm
<1>1. ASSUME NEW o, Keep(home[j], j, o), home'[j] = home[j] PROVE Here(j)' = o
  BY <1>1 DEF Keep, Here, TypeOK
<1>2. ASSUME UNCHANGED mem, home'[j] = home[j] PROVE Here(j)' = Here(j)
  BY <1>2 DEF Here
<1>3. Here(j) \in Object /\ mem[home[j]][j] = Here(j)
  BY DEF Here, TypeOK
<1>4. {"GENERATING", "SETTLING", "COMPLETED", "FAILED", "CANCELLED"} \subseteq Status \ Decided
  BY DEF Status, Terminal, Executing, Decided
<1>5. ASSUME NEW s \in Status, Keep(home[j], j, WithStatus(home[j], j, s)), home'[j] = home[j]
      PROVE  Here(j)'.status = s
  BY <1>1, <1>3, <1>5 DEF WithStatus, Object
<1>6. CASE Refuse(j) \/ SaveSnapshot(j) \/ Dispatch(j) \/ RunFails(j) \/ Delta(j)
           \/ CompleteStream(j) \/ Finish(j)
  BY <1>2, <1>6 DEF Refuse, SaveSnapshot, Dispatch, RunFails, Delta, CompleteStream, Finish
<1>7. ASSUME CancelExecution(home[j], j), home'[j] = home[j]
      PROVE  Here(j)'.status \in {Here(j).status} \cup (Status \ Decided)
  BY <1>2, <1>4, <1>5, <1>7 DEF CancelExecution
<1>8. CASE ThreadFails(j)
  BY <1>4, <1>5, <1>8 DEF ThreadFails
<1>9. CASE Stop(j)
  BY <1>7, <1>9 DEF Stop
<1>10. CASE BeginRun(j)
  BY <1>4, <1>5, <1>10 DEF BeginRun
<1>11. CASE BeginPublication(j)
  BY <1>4, <1>5, <1>11 DEF BeginPublication, Interim
<1>12. ASSUME NEW o \in Object, CallHook(j, o)
       PROVE  o.status \in {Here(j).status} \cup (Status \ Decided)
  BY <1>3, <1>4, <1>12 DEF CallHook, Object
<1>13. CASE Settle(j)
  <2>1. PICK o \in Object :
          /\ CallHook(j, o)
          /\ Keep(home[j], j, o) \/ Keep(home[j], j, [o EXCEPT !.status = "FAILED"])
    BY <1>13 DEF Settle
  <2>2. [o EXCEPT !.status = "FAILED"].status = "FAILED"
    BY DEF Object
  <2> QED
    BY <1>1, <1>4, <1>12, <1>13, <2>1, <2>2 DEF Settle
<1>14. CASE SaveSettlement(j)
  BY <1>1, <1>2, <1>3, <1>4, <1>14, UnreceiptedTyped DEF SaveSettlement
<1>15. CASE Publish(j)
  <2>1. Verdict(j) \in {Here(j).status} \cup (Status \ Decided) /\ Verdict(j) \in Status
    BY <1>3, <1>4 DEF Verdict, Object
  <2> QED
    BY <1>5, <1>15, <2>1 DEF Publish
<1>16. CASE RefusePublication(j)
  BY <1>4, <1>5, <1>16 DEF RefusePublication
<1>17. CASE Withdraw(j)
  <2>1. [Here(j) EXCEPT !.status = "FAILED", !.unsure = TRUE].status = "FAILED"
    BY <1>3 DEF Object
  <2> QED
    BY <1>1, <1>4, <1>17, <2>1 DEF Withdraw
<1>18. CASE Fail(j)
  BY <1>2, <1>4, <1>5, <1>7, <1>18 DEF Fail
<1>19. CASE LateHook(j)
  <2>1. PICK o \in Object :
          CallHook(j, o) /\ (Keep(home[j], j, o) \/ Keep(home[j], j, Unreceipted(o)))
    BY <1>19 DEF LateHook
  <2>2. Unreceipted(o).status \in {o.status, "FAILED"}
    BY UnreceiptedTyped
  <2> QED
    BY <1>1, <1>4, <1>12, <1>19, <2>1, <2>2 DEF LateHook
<1> QED
  BY <1>6, <1>8, <1>9, <1>10, <1>11, <1>13, <1>14, <1>15, <1>16, <1>17, <1>18, <1>19 DEF Worker

\* The steps of a thread are steps of the run, and none once it is late.
LEMMA WorkerMaps ==
  ASSUME Core, Core', NEW j \in Job, Worker(j)
  PROVE  Mapped
<1>1. TypeOK /\ TypeOK' /\ JobInv(j) /\ JobInv(j)'
  BY DEF Core
<1>2. \A i \in Job : i # j => SameJob(i)
  BY <1>1, WorkerElsewhere
<1>3. worker[j] # "none" /\ home[j] \in Mgr
  <2>1. worker[j] # "none"
    BY DEF Worker, At, ThreadFails, Stop, BeginRun, Refuse, SaveSnapshot, Dispatch, RunFails, Delta, CompleteStream, BeginPublication, Settle, SaveSettlement, Publish, RefusePublication, Withdraw, Fail, LateHook, Finish, Publishing
  <2> QED
    BY <1>1, <2>1, AtHome DEF JobInv
<1>4. CASE Late(j)
  <2>1. Finish(j) /\ UNCHANGED <<rec, holder>>
    BY <1>4, LateEnds
  <2>2. worker'[j] = "done" /\ UNCHANGED writes
    BY <1>1, <2>1 DEF Finish, To, TypeOK, Elsewhere
  <2>3. Late(j)'
    BY <2>2 DEF Late
  <2>4. DraftOf(j)' = DraftOf(j) /\ ClaimOf(j)' = ClaimOf(j)
    BY <2>1 DEF DraftOf, ClaimOf
  <2> QED
    BY <1>1, <1>2, <1>4, <2>2, <2>3, <2>4, Unseen
<1>5. CASE ~Late(j)
  <2>1. rec'[j].status \notin Decided
    <3>1. rec[j].status \notin Decided /\ Here(j).status \notin Decided
      BY <1>1, <1>3, <1>5 DEF JobInv, Drafts, Reviewable, Here
    <3>2. Here(j)'.status \notin Decided
      BY <1>1, <1>3, <3>1, WorkerStatus
    <3>3. rec'[j] = rec[j] \/ rec'[j] = Saved(j, Here(j)')
      BY <1>1, <1>3, WorkerSaves
    <3>4. Here(j)' \in Object
      <4>1. Here(j)' = mem'[home[j]][j]
        BY <1>1, <1>3, WorkerSaves DEF Here
      <4> QED
        BY <1>1, <1>3, <4>1 DEF TypeOK
    <3>5. Saved(j, Here(j)').status \notin Decided
      <4>1. Saved(j, Here(j)').status = Public(j, Here(j)')
        BY <3>4, SavedTyped
      <4> QED
        BY <3>2, <4>1 DEF Public, Decided
    <3> QED
      BY <3>1, <3>3, <3>5
  <2>2. DraftOf(j)' \in {"hidden", "offered"}
    BY <2>1 DEF DraftOf, Decided
  <2>3. ClaimOf(j) = "none" /\ ClaimOf(j)' = "none"
    <3>1. \A m \in Mgr : holder[j] \notin {<<"accept", m>>, <<"written", m>>, <<"accepted", m>>}
      BY <1>1, <1>5 DEF JobInv, Claims
    <3>2. holder'[j] \in {holder[j], <<"worker", home[j]>>, None}
      BY <1>1 DEF Worker, ThreadFails, Stop, BeginRun, Refuse, SaveSnapshot, Dispatch, RunFails, Delta, CompleteStream, BeginPublication, Settle, SaveSettlement, Publish, RefusePublication, Withdraw, Fail, LateHook, Finish, TypeOK
    <3>3. \A m \in Mgr : holder'[j] \notin {<<"accept", m>>, <<"written", m>>, <<"accepted", m>>}
      BY <3>1, <3>2, GenerationOK DEF Claim
    <3> QED
      BY <3>1, <3>3 DEF ClaimOf
  <2>4. UNCHANGED writes
    BY DEF Worker, Elsewhere, ThreadFails, Stop, BeginRun, Refuse, SaveSnapshot, Dispatch, RunFails, Delta, CompleteStream, BeginPublication, Settle, SaveSettlement, Publish, RefusePublication, Withdraw, Fail, LateHook, Finish
  <2>5. j \notin OverBar /\ OverBar' \in {OverBar, OverBar \cup {j}}
    BY <1>1, <1>2, <1>5, OneJob
  <2>6. /\ DraftBar' = [DraftBar EXCEPT ![j] = DraftOf(j)']
        /\ ClaimBar' = ClaimBar
    <3>1. ClaimBar' = [ClaimBar EXCEPT ![j] = ClaimBar[j]]
      BY <1>1, <1>2, <2>3, OneJob
    <3> QED
      BY <1>1, <1>2, <3>1, OneJob DEF ClaimBar
  <2>7. Reviews!Run(j)
    BY <2>2, <2>4, <2>5, <2>6 DEF Reviews!Run, Reviews!Becomes, OverBar, DraftBar, ClaimBar
  <2> QED
    BY <2>7 DEF Mapped, Reviews!Next
<1> QED
  BY <1>4, <1>5

\* Where the thread of a job stays, its run is over if it was.
LEMMA LateStays ==
  ASSUME NEW j \in Job, UNCHANGED <<worker, hooked, calls>>
  PROVE  Late(j)' <=> Late(j)
BY DEF Late, Called

\* The steps of a review are steps of the abstract one.
LEMMA ReviewMaps ==
  ASSUME Core, Core', NEW m \in Mgr, NEW j \in Job, Review(m, j)
  PROVE  Mapped
<1> USE DEF objects, threads, kinds, grants, effects
<1>1. TypeOK /\ TypeOK' /\ JobInv(j) /\ JobInv(j)'
  BY DEF Core
<1>2. \A i \in Job : i # j => SameJob(i)
  BY <1>1, RequestElsewhere
<1>3. Late(j)' <=> Late(j)
  <2>1. UNCHANGED <<worker, hooked, calls>>
    BY DEF Review, RefuseAccept, Accept, WriteChapter, Accepted, AnswerAccept, AcceptanceFails, Concludes, Reject
  <2> QED
    BY <2>1, LateStays
<1>4. OverBar' = OverBar
  BY <1>1, <1>2, <1>3, OneJob DEF OverBar
<1>5. mem[m][j] \in Object /\ Refresh(m, j) \in Object
  BY <1>1, RefreshTyped DEF TypeOK
<1>6. ASSUME NEW s \in Decided, TrySave(j, WithStatus(m, j, s))
      PROVE  rec'[j] = rec[j] \/ rec'[j].status = s
  <2>1. s \in Status /\ s # "COMPLETED"
    BY DEF Status, Terminal, Decided
  <2>2. WithStatus(m, j, s) \in Object /\ WithStatus(m, j, s).status = s
    BY <1>5, <2>1, StatusTyped DEF WithStatus, Object
  <2>3. Public(j, WithStatus(m, j, s)) = s
    BY <2>1, <2>2 DEF Public
  <2> QED
    BY <1>1, <1>6, <2>2, <2>3, SaveAt DEF TrySave, SaveRaises, TypeOK
<1>7. {"ACCEPTING", "ACCEPTED", "ACCEPTANCE_UNCERTAIN", "REJECTED"} = Decided
  BY DEF Decided
<1>8. ASSUME rec[j].status = "COMPLETED", holder[j] = None PROVE j \in OverBar
  <2>1. worker[j] \notin Publishing
    BY <1>1, <1>8, ReviewExcluded
  <2> QED
    BY <1>1, <1>8, <2>1 DEF JobInv, Drafts, Reviewable, OverBar
<1>9. ASSUME rec'[j] = rec[j], holder'[j] = holder[j], UNCHANGED writes PROVE Mapped
  <2>1. DraftOf(j)' = DraftOf(j) /\ ClaimOf(j)' = ClaimOf(j)
    BY <1>9 DEF DraftOf, ClaimOf
  <2> QED
    BY <1>1, <1>2, <1>3, <1>9, <2>1, Unseen
<1>10. CASE RefuseAccept(m, j)
  BY <1>9, <1>10 DEF RefuseAccept
<1>11. CASE Accept(m, j)
  <2>1. /\ holder[j] = None /\ rec[j].status = "COMPLETED" /\ UNCHANGED writes
    BY <1>1, <1>11, RefreshFacts DEF Accept
  <2>2. CASE UNCHANGED <<rec, holder>>
    BY <1>9, <2>1, <2>2
  <2>3. CASE /\ Save(j, [Refresh(m, j) EXCEPT !.status = "ACCEPTING"])
             /\ holder' = [holder EXCEPT ![j] = <<"accept", m>>]
    <3> DEFINE o == [Refresh(m, j) EXCEPT !.status = "ACCEPTING"]
    <3>1. o \in Object /\ o.status = "ACCEPTING" /\ Save(j, o)
      <4>1. "ACCEPTING" \in Status
        BY DEF Status, Terminal, Decided
      <4> QED
        BY <1>5, <2>3, <4>1, StatusTyped DEF Object
    <3> HIDE DEF o
    <3>2. rec'[j].status = "ACCEPTING"
      BY <1>1, <3>1, SaveAt DEF Public, TypeOK
    <3>3. holder'[j] = <<"accept", m>>
      BY <1>1, <2>3 DEF TypeOK
    <3>4. /\ DraftOf(j) = "offered" /\ DraftOf(j)' = "accepting"
          /\ ClaimOf(j) = "none" /\ ClaimOf(j)' = "open"
      <4>1. DraftOf(j) = "offered" /\ DraftOf(j)' = "accepting"
        BY <2>1, <3>2 DEF DraftOf
      <4>2. ClaimOf(j) = "none"
        BY <1>1, <2>1, ClaimIs
      <4>3. ClaimOf(j)' = "open"
        BY <3>3 DEF ClaimOf
      <4> QED
        BY <4>1, <4>2, <4>3
    <3>5. Reviews!Claim(j)
      BY <1>1, <1>2, <1>4, <1>8, <2>1, <3>4, OneJob DEF Reviews!Claim, Reviews!Becomes, Reviews!Claims, OverBar, DraftBar, ClaimBar
    <3> QED
      BY <3>5 DEF Mapped, Reviews!Next, Reviews!Decide
  <2> QED
    BY <1>11, <2>2, <2>3 DEF Accept, SaveRaises
<1>12. CASE WriteChapter(m, j)
  <2>1. /\ holder[j] = <<"accept", m>> /\ holder'[j] = <<"written", m>>
        /\ writes' = [writes EXCEPT ![j] = @ + 1] /\ UNCHANGED rec
    BY <1>1, <1>12 DEF WriteChapter, TypeOK
  <2>2. DraftBar' = DraftBar
    BY <2>1 DEF DraftBar, DraftOf
  <2>3. ClaimOf(j) = "open"
    BY <1>1, <2>1, ClaimIs
  <2>4. ClaimOf(j)' = "used"
    BY <2>1 DEF ClaimOf
  <2>5. Reviews!Write(j)
    BY <1>1, <1>2, <1>4, <2>1, <2>2, <2>3, <2>4, OneJob DEF Reviews!Write, Reviews!Claims, OverBar, DraftBar, ClaimBar
  <2> QED
    BY <2>5 DEF Mapped, Reviews!Next, Reviews!Decide
<1>13. ASSUME holder'[j] = None PROVE ClaimOf(j)' = "none"
  BY <1>1, <1>13, GenerationOK DEF ClaimOf, Claim
<1>14. CASE Accepted(m, j)
  <2>1. /\ holder[j] = <<"written", m>> /\ holder'[j] = <<"accepted", m>>
        /\ UNCHANGED writes
    BY <1>1, <1>14 DEF Accepted, Concludes, TypeOK
  <2>2. rec'[j].status = "ACCEPTED"
    <3>1. WithStatus(m, j, "ACCEPTED") \in Object /\ WithStatus(m, j, "ACCEPTED").status = "ACCEPTED"
      <4>1. "ACCEPTED" \in Status
        BY DEF Status, Terminal, Decided
      <4> QED
        BY <1>5, <4>1, StatusTyped DEF WithStatus, Object
    <3> QED
      BY <1>1, <1>14, <3>1, SaveAt DEF Accepted, Public, TypeOK
  <2>3. ClaimOf(j) = "used"
    BY <1>1, <2>1, ClaimIs
  <2>4. DraftOf(j)' = "accepted" /\ ClaimOf(j)' = "answering"
    BY <2>1, <2>2 DEF DraftOf, ClaimOf
  <2>5. Reviews!Accept(j)
    BY <1>1, <1>2, <1>4, <2>1, <2>3, <2>4, OneJob DEF Reviews!Accept, Reviews!Becomes, Reviews!Claims, OverBar, DraftBar, ClaimBar
  <2> QED
    BY <2>5 DEF Mapped, Reviews!Next, Reviews!Decide
<1>17. CASE AnswerAccept(m, j)
  <2>1. /\ holder[j] = <<"accepted", m>> /\ holder'[j] = None
        /\ UNCHANGED <<rec, writes>>
    BY <1>1, <1>17 DEF AnswerAccept, TypeOK
  <2>2. DraftBar' = DraftBar
    BY <2>1 DEF DraftBar, DraftOf
  <2>3. ClaimOf(j) = "answering" /\ ClaimOf(j)' = "none"
    BY <1>1, <1>13, <2>1, ClaimIs
  <2>4. Reviews!Answer(j)
    BY <1>1, <1>2, <1>4, <2>1, <2>2, <2>3, OneJob DEF Reviews!Answer, Reviews!Claims, OverBar, DraftBar, ClaimBar
  <2> QED
    BY <2>4 DEF Mapped, Reviews!Next, Reviews!Decide
<1>15. CASE AcceptanceFails(m, j)
  <2>1. /\ holder[j] \in {<<"accept", m>>, <<"written", m>>, <<"accepted", m>>}
        /\ ClaimOf(j)' = "none" /\ UNCHANGED writes
    <3>1. holder'[j] = None
      BY <1>1, <1>15 DEF AcceptanceFails, Concludes, TypeOK
    <3> QED
      BY <1>13, <1>15, <3>1 DEF AcceptanceFails, Concludes
  <2>2. rec'[j] = rec[j] \/ rec'[j].status = "ACCEPTANCE_UNCERTAIN"
    BY <1>6, <1>7, <1>15 DEF AcceptanceFails
  <2>3. ClaimOf(j) # "none"
    BY <1>1, <2>1, ClaimIs
  <2>4. DraftOf(j)' = DraftOf(j) \/ DraftOf(j)' = "uncertain"
    BY <2>2 DEF DraftOf
  <2>5. DraftBar' = DraftBar \/ DraftBar' = [DraftBar EXCEPT ![j] = "uncertain"]
    BY <1>1, <1>2, <2>4, OneJob DEF DraftBar
  <2>6. Reviews!Fail(j)
    BY <1>1, <1>2, <1>4, <2>1, <2>3, <2>5, OneJob DEF Reviews!Fail, Reviews!Becomes, Reviews!Claims, OverBar, DraftBar, ClaimBar
  <2> QED
    BY <2>6 DEF Mapped, Reviews!Next, Reviews!Decide
<1>16. CASE Reject(m, j)
  <2>1. holder[j] = None /\ rec[j].status = "COMPLETED" /\ UNCHANGED <<holder, writes>>
    BY <1>16 DEF Reject, Rejectable
  <2>2. rec'[j] = rec[j] \/ rec'[j].status = "REJECTED"
    BY <1>6, <1>7, <1>16 DEF Reject
  <2>3. CASE rec'[j].status = "REJECTED"
    <3>1. DraftOf(j) = "offered" /\ DraftOf(j)' = "rejected"
      BY <2>1, <2>3 DEF DraftOf
    <3>2. ClaimOf(j) = "none" /\ ClaimBar' = ClaimBar
      BY <1>1, <2>1, ClaimIs DEF ClaimBar, ClaimOf
    <3>3. Reviews!Reject(j)
      BY <1>1, <1>2, <1>4, <1>8, <2>1, <3>1, <3>2, OneJob DEF Reviews!Reject, Reviews!Becomes, OverBar, DraftBar, ClaimBar
    <3> QED
      BY <3>3 DEF Mapped, Reviews!Next, Reviews!Decide
  <2> QED
    BY <1>9, <2>1, <2>2, <2>3
<1> QED
  BY <1>10, <1>11, <1>12, <1>14, <1>15, <1>16, <1>17 DEF Review

\* A start shows nothing of a draft.
LEMMA StartMaps ==
  ASSUME Core, Core', NEW m \in Mgr, NEW j \in Job, StartPrepared(m, j)
  PROVE  Mapped
<1>1. TypeOK /\ TypeOK' /\ JobInv(j)
  BY DEF Core
<1>2. \A i \in Job : i # j => SameJob(i)
  BY <1>1, RequestElsewhere
<1>3. Late(j)' <=> Late(j)
  <2>1. worker[j] = "none" /\ worker'[j] = "start"
    BY <1>1 DEF StartPrepared, JobInv, Threads, TypeOK
  <2> QED
    BY <2>1 DEF Late
<1>4. DraftOf(j)' = DraftOf(j)
  <2> DEFINE o == [NoObject EXCEPT !.status = "QUEUED"]
  <2>1. o \in Object /\ Public(j, o) = "QUEUED"
    BY DEF NoObject, Object, Hook, Status, Executing, Public
  <2>2. Save(j, o)
    BY DEF StartPrepared
  <2> HIDE DEF o
  <2>3. rec'[j].status = "QUEUED" /\ rec[j].status = "none"
    BY <1>1, <2>1, <2>2, SaveAt DEF TypeOK, StartPrepared
  <2> QED
    BY <2>3 DEF DraftOf
<1>5. ClaimOf(j)' = ClaimOf(j) /\ writes' = writes
  BY DEF StartPrepared, effects, ClaimOf
<1> QED
  BY <1>1, <1>2, <1>3, <1>4, <1>5, Unseen

\* A cancellation hides the draft or nothing.
LEMMA CancelMaps ==
  ASSUME Core, Core', NEW m \in Mgr, NEW j \in Job, CommitCancel(m, j)
  PROVE  Mapped
<1>1. TypeOK /\ TypeOK'
  BY DEF Core
<1>2. \A i \in Job : i # j => SameJob(i)
  BY <1>1, RequestElsewhere
<1>3. Late(j)' <=> Late(j)
  <2>1. UNCHANGED <<worker, hooked, calls>>
    BY DEF CommitCancel, kinds, effects
  <2> QED
    BY <2>1, LateStays
<1>4. ClaimOf(j)' = ClaimOf(j) /\ ClaimBar' = ClaimBar /\ writes' = writes
  BY DEF CommitCancel, effects, ClaimOf, ClaimBar
<1>5. rec'[j] = rec[j] \/ rec'[j].status = "CANCELLED"
  BY <1>1, CancelSaves DEF CommitCancel
<1>6. CASE rec'[j] = rec[j]
  <2>1. DraftOf(j)' = DraftOf(j)
    BY <1>6 DEF DraftOf
  <2> QED
    BY <1>1, <1>2, <1>3, <1>4, <2>1, Unseen
<1>7. CASE rec'[j].status = "CANCELLED"
  <2>1. DraftOf(j)' = "hidden"
    BY <1>7 DEF DraftOf
  <2>2. OverBar' = OverBar
    BY <1>1, <1>2, <1>3, OneJob DEF OverBar
  <2>3. Reviews!Cancel(j)
    BY <1>1, <1>2, <1>4, <2>1, <2>2, OneJob
       DEF Reviews!Cancel, Reviews!Becomes, OverBar, DraftBar, ClaimBar
  <2> QED
    BY <2>3 DEF Mapped, Reviews!Next
<1> QED
  BY <1>5, <1>6, <1>7

\* A recovery reads and writes what is no draft, under a lock that is no claim.
LEMMA RecoveryMaps ==
  ASSUME Core, Core', NEW m \in Mgr, NEW j \in Job,
         RecoverRead(m, j) \/ RecoverWrite(m, j)
  PROVE  Mapped
<1>1. TypeOK /\ TypeOK' /\ JobInv(j)
  BY DEF Core
<1>2. \A i \in Job : i # j => SameJob(i)
  BY <1>1, RequestElsewhere
<1>3. (Late(j)' <=> Late(j)) /\ writes' = writes
  <2>1. UNCHANGED <<worker, hooked, calls, writes>>
    BY DEF RecoverRead, RecoverWrite, threads, kinds, effects
  <2> QED
    BY <2>1, LateStays
<1>4. CASE RecoverRead(m, j)
  <2>1. DraftOf(j)' = DraftOf(j)
    BY <1>4 DEF RecoverRead, DraftOf
  <2>2. holder[j] = None /\ holder'[j] \in {None, <<"recover", m>>}
    BY <1>1, <1>4 DEF RecoverRead, TypeOK
  <2>3. ClaimOf(j) = "none" /\ ClaimOf(j)' = "none"
    BY <2>2, GenerationOK DEF ClaimOf, Claim
  <2> QED
    BY <1>1, <1>2, <1>3, <2>1, <2>3, Unseen
<1>5. CASE RecoverWrite(m, j)
  <2>1. rec[j].status \notin Reviewable /\ rec'[j].status = "FAILED"
    BY <1>1, <1>5, RecoverySaves DEF RecoverWrite, JobInv, Claims
  <2>2. DraftOf(j)' = DraftOf(j)
    BY <2>1 DEF DraftOf, Reviewable, Decided
  <2>3. holder[j] = <<"recover", m>> /\ holder'[j] = None
    BY <1>1, <1>5 DEF RecoverWrite, TypeOK
  <2>4. ClaimOf(j) = "none" /\ ClaimOf(j)' = "none"
    BY <2>3, GenerationOK DEF ClaimOf, Claim
  <2> QED
    BY <1>1, <1>2, <1>3, <2>2, <2>4, Unseen
<1> QED
  BY <1>4, <1>5

\* The end of a process ends its runs and leaves its claims behind.
LEMMA ExitMaps ==
  ASSUME Core, Core', NEW m \in Mgr, Exit(m)
  PROVE  Mapped
<1> DEFINE Left == {j \in Job : holder[j] # None /\ holder[j][2] = m}
<1>1. TypeOK /\ TypeOK'
  BY DEF Core
<1>2. UNCHANGED <<rec, hooked, calls, writes>>
  BY DEF Exit, kinds, effects
<1>3. DraftBar' = DraftBar
  BY <1>2 DEF DraftBar, DraftOf
<1>4. \A j \in Job : Late(j) => Late(j)'
  BY <1>1, <1>2 DEF Late, Called, Exit, TypeOK
<1>5. OverBar' = OverBar \cup OverBar'
  BY <1>4 DEF OverBar
<1>6. ASSUME NEW j \in Job
      PROVE  ClaimOf(j)' = IF j \in Left THEN "none" ELSE ClaimOf(j)
  <2>1. CASE j \in Left
    <3>1. holder'[j] = None
      BY <2>1 DEF Exit
    <3> QED
      BY <2>1, <3>1, GenerationOK DEF ClaimOf, Claim
  <2>2. CASE j \notin Left
    <3>1. holder'[j] = holder[j]
      BY <2>2 DEF Exit
    <3> QED
      BY <2>2, <3>1 DEF ClaimOf
  <2> QED
    BY <2>1, <2>2
<1>7. ClaimBar' = [j \in Job |-> IF j \in Left THEN "none" ELSE ClaimBar[j]]
  BY <1>6 DEF ClaimBar
<1>8. OverBar' \subseteq Job /\ Left \subseteq Job
  BY DEF OverBar
<1> HIDE DEF Left
<1>9. Reviews!Die
  BY <1>2, <1>3, <1>5, <1>7, <1>8 DEF Reviews!Die, OverBar, DraftBar, ClaimBar
<1> QED
  BY <1>9 DEF Mapped, Reviews!Next

\* A step that leaves records, locks, threads and text alone shows nothing.
LEMMA QuietMaps ==
  ASSUME UNCHANGED <<rec, worker, hooked, calls, holder, writes>>
  PROVE  Mapped
<1>1. \A j \in Job : Late(j)' <=> Late(j)
  BY LateStays
<1>2. OverBar' = OverBar
  BY <1>1 DEF OverBar
<1>3. DraftBar' = DraftBar
  BY DEF DraftBar, DraftOf
<1>4. ClaimBar' = ClaimBar
  BY DEF ClaimBar, ClaimOf
<1> QED
  BY <1>2, <1>3, <1>4 DEF Mapped, Reviews!vars, OverBar, DraftBar, ClaimBar

\* Every step of the jobs is a step of the review, or none.
LEMMA MapStep == Core /\ [Next]_vars => Mapped
<1> SUFFICES ASSUME Core, [Next]_vars PROVE Mapped
  OBVIOUS
<1> USE DEF objects, threads, kinds, grants, effects
<1>1. Core'
  BY CoreStep
<1>2. ASSUME NEW j \in Job, Worker(j) PROVE Mapped
  BY <1>1, <1>2, WorkerMaps
<1>3. ASSUME NEW j \in Job, ChangeAuth(j) PROVE Mapped
  <2>1. UNCHANGED <<rec, worker, hooked, calls, holder, writes>>
    BY <1>3 DEF ChangeAuth
  <2> QED
    BY <2>1, QuietMaps
<1>4. ASSUME NEW m \in Mgr, NEW j \in Job, StartPrepared(m, j) PROVE Mapped
  BY <1>1, <1>4, StartMaps
<1>5. ASSUME NEW m \in Mgr, NEW j \in Job, SignalCancel(m, j) PROVE Mapped
  <2>1. UNCHANGED <<rec, worker, hooked, calls, holder, writes>>
    BY <1>5 DEF SignalCancel
  <2> QED
    BY <2>1, QuietMaps
<1>6. ASSUME NEW m \in Mgr, NEW j \in Job, CommitCancel(m, j) PROVE Mapped
  BY <1>1, <1>6, CancelMaps
<1>7. ASSUME NEW m \in Mgr, NEW j \in Job, Review(m, j) PROVE Mapped
  BY <1>1, <1>7, ReviewMaps
<1>8. ASSUME NEW m \in Mgr, NEW j \in Job, RecoverRead(m, j) \/ RecoverWrite(m, j)
      PROVE  Mapped
  BY <1>1, <1>8, RecoveryMaps
<1>9. ASSUME NEW m \in Mgr, Boot(m) \/ BootDone(m) PROVE Mapped
  <2>1. UNCHANGED <<rec, worker, hooked, calls, holder, writes>>
    BY <1>9 DEF Boot, BootDone
  <2> QED
    BY <2>1, QuietMaps
<1>10. ASSUME NEW m \in Mgr, Exit(m) PROVE Mapped
  BY <1>1, <1>10, ExitMaps
<1>11. ASSUME UNCHANGED vars PROVE Mapped
  <2>1. UNCHANGED <<rec, worker, hooked, calls, holder, writes>>
    BY <1>11 DEF vars
  <2> QED
    BY <2>1, QuietMaps
<1> QED
  BY <1>2, <1>3, <1>4, <1>5, <1>6, <1>7, <1>8, <1>9, <1>10, <1>11 DEF Next, Recovery

\* The managers of a host together are one careful reviewer: a draft is offered
\* by its run, claimed by one acceptance at a time after the run, written under
\* the claim, and offered to nobody after it.
THEOREM Implementation == Spec => ReviewContract
<1>1. Init => Reviews!Init
  <2> SUFFICES ASSUME Init PROVE Reviews!Init
    OBVIOUS
  <2>1. \A j \in Job : ~Late(j)
    BY DEF Init, Late
  <2>2. \A j \in Job : DraftOf(j) = "hidden"
    BY DEF Init, DraftOf, NoObject
  <2>3. \A j \in Job : ClaimOf(j) = "none"
    BY GenerationOK DEF Init, ClaimOf, Claim
  <2> QED
    BY <2>1, <2>2, <2>3 DEF Init, Reviews!Init
<1>2. Core /\ [Next]_vars => [Reviews!Next]_(Reviews!vars)
  BY MapStep DEF Mapped
<1>3. IInv => Core
  BY DEF IInv
<1> QED
  BY <1>1, <1>2, <1>3, Invariance, PTL DEF Spec, ReviewContract, Reviews!Spec
=============================================================================

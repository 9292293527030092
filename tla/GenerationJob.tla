----------------------------- MODULE GenerationJob ----------------------------
(***************************************************************************)
(* The life of a text generation job (app/jobs.py, JobManager): worker     *)
(* thread, cancellation, settlement of the accounting hook, publication of *)
(* the draft, its review by accept and reject, and recovery on restart.    *)
(*                                                                         *)
(* A manager is one JobManager: it keeps a Job object per record it loaded *)
(* or created, and saves the whole object over the stored record.  Reviews *)
(* and publications of all managers of the host are serialized by the      *)
(* generation-accept lock of the job; changes of one object by its         *)
(* condition.  Modelled are jobs of the local author without a project     *)
(* binding; prompts, routes, outputs and error texts are left out.         *)
(***************************************************************************)
EXTENDS Naturals

CONSTANTS
  Mgr, Job,
  MaxFaults,    \* bound on saves that raise
  None

Executing == {"QUEUED", "GENERATING", "SETTLING"}
Decided   == {"ACCEPTING", "ACCEPTED", "ACCEPTANCE_UNCERTAIN", "REJECTED"}
Terminal  == {"COMPLETED", "FAILED", "CANCELLED"} \cup Decided
Status    == {"none"} \cup Executing \cup Terminal

\* terminal_hook_status; "reconcile" stands for every *_RECONCILIATION_REQUIRED.
Hook == {"none", "done", "reconcile"}

\* A Job, in memory or stored; unsure: its error_code is
\* GENERATION_TERMINAL_PERSISTENCE_UNCERTAIN.
Object == [status: Status, hook: Hook, unsure: BOOLEAN]

\* A worker inside its publication, with the review lock and the condition.
Publishing == {"settling", "settled", "publishing", "uncertain"}
Pc == {"none", "start", "preflight", "streaming", "completed", "failing",
       "finishing", "unstarted", "unsaved", "done", "dead"} \cup Publishing

\* Who holds the generation-accept lock across steps; a publication and an
\* acceptance hold the condition of their manager's object too.
Claim  == {"worker", "accept", "written", "accepted", "recover"} \X Mgr
Holder == {None} \cup Claim

ASSUME GenerationOK == MaxFaults \in Nat /\ None \notin Mgr \cup Claim

VARIABLES
  rec,          \* runtime/jobs/<id>.json
  mem,          \* JobManager.jobs
  life,         \* down, booting, up
  todo,         \* records of the load_all snapshot still to be recovered
  hooked,       \* jobs with an accounting hook (before_dispatch, on_terminal)
  guarded,      \* jobs whose worker asks request_authorization
  home, worker, \* the manager that runs the job, and where its thread is
  cancelled,    \* Job.cancelled, per manager
  cancelling,   \* cancel() between its signal and the locked transition
  auth,         \* what request_authorization would answer now
  refused,      \* _ordinary_authorization_refused
  holder,
  calls,        \* how often the accounting hook of a job was called
  settled,      \* jobs whose hook returned
  writes,       \* how often an acceptance wrote the manuscript
  faults

objects == <<mem, life, todo>>
threads == <<home, worker, cancelled, cancelling>>
kinds   == <<hooked, guarded>>
grants  == <<auth, refused>>
effects == <<calls, settled, writes>>
vars    == <<rec, objects, threads, kinds, grants, holder, effects, faults>>

NoObject == [status |-> "none", hook |-> "none", unsure |-> FALSE]

Init ==
  /\ rec = [j \in Job |-> NoObject]
  /\ mem = [m \in Mgr |-> [j \in Job |-> NoObject]]
  /\ life = [m \in Mgr |-> "down"]
  /\ todo = [m \in Mgr |-> {}]
  /\ hooked = {} /\ guarded = {}
  /\ home = [j \in Job |-> None]
  /\ worker = [j \in Job |-> "none"]
  /\ cancelled = [m \in Mgr |-> {}]
  /\ cancelling = {}
  /\ auth = [j \in Job |-> TRUE]
  /\ refused = {}
  /\ holder = [j \in Job |-> None]
  /\ calls = [j \in Job |-> 0]
  /\ settled = {}
  /\ writes = [j \in Job |-> 0]
  /\ faults = 0

-----------------------------------------------------------------------------
(* Helpers.                                                                *)

\* Mutant: the stored status is the one in memory.
PublicRaw(j, o) == o.status

\* public(): a completion whose accounting is open shows as settling.
Public(j, o) ==
  IF o.status = "COMPLETED" /\ j \in hooked /\ o.hook = "none"
    THEN "SETTLING" ELSE o.status

Saved(j, o) == [o EXCEPT !.status = Public(j, o)]

Keep(m, j, o) == mem' = [mem EXCEPT ![m][j] = o]

Save(j, o) == rec' = [rec EXCEPT ![j] = Saved(j, o)] /\ UNCHANGED faults

\* The repository raises before it replaced the file.
SaveRaises == faults < MaxFaults /\ faults' = faults + 1 /\ UNCHANGED rec

\* A save whose failure the caller swallows or that ends its operation anyway.
TrySave(j, o) == Save(j, o) \/ SaveRaises

Here(j) == mem[home[j]][j]

WithStatus(m, j, s) == [mem[m][j] EXCEPT !.status = s]

CondFree(m, j) ==
  holder[j] \notin {<<"worker", m>>, <<"accept", m>>, <<"written", m>>,
                    <<"accepted", m>>}

IsTerminal(m, j) == mem[m][j].status \in Terminal

\* _cancel_execution: a no-op on a terminal job.
CancelExecution(m, j) ==
  IF IsTerminal(m, j)
    THEN UNCHANGED <<mem, rec, faults>>
    ELSE LET o == WithStatus(m, j, "CANCELLED")
         IN  Keep(m, j, o) /\ TrySave(j, o)

\* _guard_ordinary_request_authorization: one refusal is remembered.
Permitted(j) == j \in guarded => auth[j] /\ j \notin refused

\* require_generation_accounting.
Accounted(j, hook) == j \in hooked => hook = "done"

-----------------------------------------------------------------------------
(* Start and worker (_start_prepared_validated, _run).                     *)

\* A save that raises here leaves the job prepared and unregistered.
StartPrepared(m, j) ==
  /\ life[m] = "up" /\ rec[j].status = "none" /\ home[j] = None
  /\ LET o == [NoObject EXCEPT !.status = "QUEUED"]
     IN  Keep(m, j, o) /\ Save(j, o)
  /\ hooked' \in {hooked, hooked \cup {j}}
  /\ guarded' \in {guarded, guarded \cup {j}}
  /\ home' = [home EXCEPT ![j] = m]
  /\ worker' = [worker EXCEPT ![j] = "start"]
  /\ UNCHANGED <<life, todo, cancelled, cancelling, grants, holder, effects>>

\* A worker thread of a living manager, at one of some points of _run.
At(j, pcs) == worker[j] \in pcs

To(j, pc) == worker' = [worker EXCEPT ![j] = pc]

\* What no step of a worker touches.
Elsewhere ==
  UNCHANGED <<life, todo, home, kinds, cancelled, cancelling, auth, writes>>

Calm == UNCHANGED <<mem, rec, faults>>

Continues(j) == j \notin cancelled[home[j]] /\ ~IsTerminal(home[j], j)

\* threading.Thread(...).start() raises.
ThreadFails(j) ==
  /\ At(j, {"start"})
  /\ Keep(home[j], j, WithStatus(home[j], j, "FAILED"))
  /\ To(j, "unstarted")
  /\ UNCHANGED <<rec, faults, refused, holder, calls, settled>> /\ Elsewhere

\* Every check for the Event or a terminal status that ends the run; a provider
\* may also report that it cancelled the stream by itself.
Stop(j) ==
  /\ At(j, {"start", "preflight", "streaming", "completed"})
  /\ Continues(j) => At(j, {"streaming"})
  /\ CondFree(home[j], j)
  /\ CancelExecution(home[j], j)
  /\ To(j, "finishing")
  /\ UNCHANGED <<refused, holder, calls, settled>> /\ Elsewhere

BeginRun(j) ==
  /\ At(j, {"start"}) /\ Continues(j) /\ CondFree(home[j], j)
  /\ LET o == WithStatus(home[j], j, "GENERATING")
     IN  /\ Keep(home[j], j, o)
         /\ \/ Save(j, o) /\ To(j, "preflight")
            \/ SaveRaises /\ To(j, "failing")
  /\ UNCHANGED <<refused, holder, calls, settled>> /\ Elsewhere

\* A guard of the worker finds the authorization gone.
Refuse(j) ==
  /\ At(j, {"preflight", "streaming", "completed"})
  /\ Continues(j) /\ CondFree(home[j], j) /\ ~Permitted(j)
  /\ refused' = refused \cup {j}
  /\ To(j, "failing")
  /\ UNCHANGED <<holder, calls, settled>> /\ Calm /\ Elsewhere

\* The id of the context snapshot is saved with whatever status there is.
SaveSnapshot(j) ==
  /\ At(j, {"preflight"})
  /\ UNCHANGED mem
  /\ \/ Save(j, Here(j)) /\ UNCHANGED worker
     \/ SaveRaises /\ To(j, "failing")
  /\ UNCHANGED <<refused, holder, calls, settled>> /\ Elsewhere

\* Routing, context and snapshot succeed and the request is dispatched.
Dispatch(j) ==
  /\ At(j, {"preflight"}) /\ j \notin cancelled[home[j]] /\ Permitted(j)
  /\ To(j, "streaming")
  /\ UNCHANGED <<refused, holder, calls, settled>> /\ Calm /\ Elsewhere

\* Preflight, provider, stream or review of the output fails.
RunFails(j) ==
  /\ At(j, {"preflight", "streaming", "completed"})
  /\ To(j, "failing")
  /\ UNCHANGED <<refused, holder, calls, settled>> /\ Calm /\ Elsewhere

\* A chunk is appended and the object saved.
Delta(j) ==
  /\ At(j, {"streaming"}) /\ Continues(j) /\ CondFree(home[j], j)
  /\ Permitted(j)
  /\ UNCHANGED mem
  /\ \/ Save(j, Here(j)) /\ UNCHANGED worker
     \/ SaveRaises /\ To(j, "failing")
  /\ UNCHANGED <<refused, holder, calls, settled>> /\ Elsewhere

CompleteStream(j) ==
  /\ At(j, {"streaming"}) /\ Continues(j) /\ CondFree(home[j], j)
  /\ Permitted(j)
  /\ To(j, "completed")
  /\ UNCHANGED <<refused, holder, calls, settled>> /\ Calm /\ Elsewhere

\* Mutant: every publication shows its completion before the hook is called.
InterimCompleted(j) == "COMPLETED"

\* publication_status: COMPLETED is only set early where nobody asks again.
Interim(j) == IF j \notin guarded THEN "COMPLETED"
              ELSE IF j \in hooked THEN "SETTLING" ELSE "GENERATING"

\* The publication takes the review lock and the condition.
BeginPublication(j) ==
  /\ At(j, {"completed"}) /\ holder[j] = None
  /\ Continues(j) /\ Permitted(j)
  /\ holder' = [holder EXCEPT ![j] = <<"worker", home[j]>>]
  /\ LET o == WithStatus(home[j], j, Interim(j))
     IN  /\ Keep(home[j], j, o)
         /\ IF j \in hooked
              THEN \/ Save(j, o) /\ To(j, "settling")
                   \/ SaveRaises /\ To(j, "uncertain")
              ELSE UNCHANGED <<rec, faults>> /\ To(j, "publishing")
  /\ UNCHANGED <<refused, calls, settled>> /\ Elsewhere

\* The accounting hook returns or raises; either way it is never called again.
CallHook(j, o) ==
  /\ calls' = [calls EXCEPT ![j] = @ + 1]
  /\ \/ settled' = settled \cup {j} /\ o = [Here(j) EXCEPT !.hook = "done"]
     \/ /\ UNCHANGED settled
        /\ o = [Here(j) EXCEPT !.hook = "reconcile", !.unsure = FALSE,
                  !.status = IF @ = "COMPLETED" \/ @ \notin Terminal
                             THEN "FAILED" ELSE @]

\* The hook, and the publication guard after it.
Settle(j) ==
  /\ At(j, {"settling"})
  /\ \E o \in Object :
       /\ CallHook(j, o)
       /\ IF Permitted(j) \/ o.status # "SETTLING"
            THEN Keep(home[j], j, o) /\ UNCHANGED refused
            ELSE /\ Keep(home[j], j, [o EXCEPT !.status = "FAILED"])
                 /\ refused' = refused \cup {j}
  /\ To(j, "settled")
  /\ UNCHANGED <<rec, faults, holder>> /\ Elsewhere

\* A receipt that could not be saved keeps the draft from review.
Unreceipted(o) == [o EXCEPT !.hook = "reconcile",
                     !.status = IF @ \in {"COMPLETED", "SETTLING"}
                                THEN "FAILED" ELSE @]

SaveSettlement(j) ==
  /\ At(j, {"settled"})
  /\ \/ Save(j, Here(j)) /\ UNCHANGED mem
     \/ SaveRaises /\ Keep(home[j], j, Unreceipted(Here(j)))
  /\ To(j, "publishing")
  /\ UNCHANGED <<refused, holder, calls, settled>> /\ Elsewhere

\* The publication of a guarded job is still open when its hook returned.
AsksAgain(j) == j \in guarded /\ Here(j).status = Interim(j)

\* The status a publication ends with: one that is open looks at the Event.
Verdict(j) ==
  IF ~AsksAgain(j) THEN Here(j).status
  ELSE IF j \in cancelled[home[j]] THEN "CANCELLED" ELSE "COMPLETED"

Publish(j) ==
  /\ At(j, {"publishing"})
  /\ AsksAgain(j) => Permitted(j)
  /\ LET o == WithStatus(home[j], j, Verdict(j))
     IN  /\ Keep(home[j], j, o)
         /\ \/ /\ Save(j, o) /\ To(j, "finishing")
               /\ holder' = [holder EXCEPT ![j] = None]
            \/ SaveRaises /\ To(j, "uncertain") /\ UNCHANGED holder
  /\ UNCHANGED <<refused, calls, settled>> /\ Elsewhere

\* The last guard of the publication finds the authorization gone.
RefusePublication(j) ==
  /\ At(j, {"publishing"})
  /\ AsksAgain(j) /\ ~Permitted(j)
  /\ LET o == WithStatus(home[j], j, "FAILED")
     IN  Keep(home[j], j, o) /\ TrySave(j, o)
  /\ refused' = refused \cup {j}
  /\ holder' = [holder EXCEPT ![j] = None]
  /\ To(j, "finishing")
  /\ UNCHANGED <<calls, settled>> /\ Elsewhere

\* "A provider completion is not a published draft until its receipt is
\* durable": the executor blocks its review.
Withdraw(j) ==
  /\ At(j, {"uncertain"})
  /\ LET o == [Here(j) EXCEPT !.status = "FAILED", !.unsure = TRUE]
     IN  Keep(home[j], j, o) /\ TrySave(j, o)
  /\ holder' = [holder EXCEPT ![j] = None]
  /\ To(j, "finishing")
  /\ UNCHANGED <<refused, calls, settled>> /\ Elsewhere

\* The outer except clause: a late failure does not undo a terminal status.
Fail(j) ==
  /\ At(j, {"failing"}) /\ CondFree(home[j], j)
  /\ IF IsTerminal(home[j], j) THEN Calm
     ELSE IF j \in cancelled[home[j]] THEN CancelExecution(home[j], j)
     ELSE LET o == WithStatus(home[j], j, "FAILED")
          IN  Keep(home[j], j, o) /\ TrySave(j, o)
  /\ To(j, "finishing")
  /\ UNCHANGED <<refused, holder, calls, settled>> /\ Elsewhere

\* Mutant: whether the hook was called is not remembered.
HookOpenAlways(j) == j \in hooked

\* on_terminal is there, _terminal_hook_called and terminal_hook_status are not.
HookOpen(j) == j \in hooked /\ calls[j] = 0 /\ Here(j).hook = "none"

\* _finish_terminal_hook in the finally clause and after a failed start.
LateHook(j) ==
  /\ At(j, {"finishing", "unstarted"}) /\ CondFree(home[j], j)
  /\ HookOpen(j)
  /\ \E o \in Object :
       /\ CallHook(j, o)
       /\ \/ Save(j, o) /\ Keep(home[j], j, o)
          \/ SaveRaises /\ Keep(home[j], j, Unreceipted(o))
  /\ To(j, IF At(j, {"unstarted"}) THEN "unsaved" ELSE "done")
  /\ UNCHANGED <<refused, holder>> /\ Elsewhere

\* The end of the thread, or of the start that failed.
Finish(j) ==
  /\ \/ At(j, {"finishing"}) /\ ~HookOpen(j) /\ UNCHANGED <<rec, faults>>
     \/ At(j, {"unstarted"}) /\ ~HookOpen(j) /\ TrySave(j, Here(j))
     \/ At(j, {"unsaved"}) /\ TrySave(j, Here(j))
  /\ To(j, "done")
  /\ UNCHANGED <<mem, calls, settled, refused, holder>> /\ Elsewhere

-----------------------------------------------------------------------------
(* Requests: cancel, accept, reject.                                       *)

\* cancel() sets the Event before it waits for the condition.
SignalCancel(m, j) ==
  /\ life[m] = "up" /\ mem[m][j].status # "none"
  /\ cancelled' = [cancelled EXCEPT ![m] = @ \cup {j}]
  /\ cancelling' = cancelling \cup {<<m, j>>}
  /\ UNCHANGED <<rec, objects, home, worker, kinds, grants, holder, effects,
                 faults>>

CommitCancel(m, j) ==
  /\ <<m, j>> \in cancelling /\ CondFree(m, j)
  /\ CancelExecution(m, j)
  /\ cancelling' = cancelling \ {<<m, j>>}
  /\ UNCHANGED <<life, todo, home, worker, cancelled, kinds, grants, holder,
                 effects>>

\* Mutant: the object of this manager is believed without a second read.
RefreshNothing(m, j) == mem[m][j]

\* accept() re-reads the record inside the lock; a record has a terminal hook
\* status only once there is one.
Refresh(m, j) ==
  IF rec[j].status = "none" THEN mem[m][j]
  ELSE [rec[j] EXCEPT !.hook = IF @ = "none" THEN mem[m][j].hook ELSE @]

\* Under the lock: check, re-read and check again; a draft that is not ready,
\* or whose chapter is not at its base version any more, is refused.
RefuseAccept(m, j) ==
  /\ life[m] = "up" /\ mem[m][j].status # "none" /\ holder[j] = None
  /\ Accounted(j, mem[m][j].hook) /\ ~mem[m][j].unsure
  /\ Keep(m, j, Refresh(m, j))
  /\ UNCHANGED <<rec, life, todo, threads, kinds, grants, holder, effects,
                 faults>>

\* Otherwise ACCEPTING is saved before the first side effect.
Accept(m, j) ==
  /\ life[m] = "up" /\ mem[m][j].status # "none" /\ holder[j] = None
  /\ Accounted(j, mem[m][j].hook) /\ ~mem[m][j].unsure
  /\ Accounted(j, Refresh(m, j).hook) /\ Refresh(m, j).status = "COMPLETED"
  /\ LET o == [Refresh(m, j) EXCEPT !.status = "ACCEPTING"]
     IN  /\ Keep(m, j, o)
         /\ \/ Save(j, o) /\ holder' = [holder EXCEPT ![j] = <<"accept", m>>]
            \/ SaveRaises /\ UNCHANGED holder
  /\ UNCHANGED <<life, todo, threads, kinds, grants, effects>>

\* The chapter is saved or created.
WriteChapter(m, j) ==
  /\ holder[j] = <<"accept", m>>
  /\ writes' = [writes EXCEPT ![j] = @ + 1]
  /\ holder' = [holder EXCEPT ![j] = <<"written", m>>]
  /\ UNCHANGED <<rec, objects, threads, kinds, grants, calls, settled, faults>>

Concludes(m, j, s, h) ==
  /\ Keep(m, j, WithStatus(m, j, s))
  /\ holder' = [holder EXCEPT ![j] = h]
  /\ UNCHANGED <<life, todo, threads, kinds, grants, effects>>

\* ACCEPTED is saved; the call goes on under the lock.
Accepted(m, j) ==
  /\ holder[j] = <<"written", m>>
  /\ Save(j, WithStatus(m, j, "ACCEPTED"))
  /\ Concludes(m, j, "ACCEPTED", <<"accepted", m>>)

\* The memory is asked to learn the chapter, which may fail, and the chapter is
\* read back for the answer; only an acceptance that continued the story has it
\* already.
AnswerAccept(m, j) ==
  /\ holder[j] = <<"accepted", m>>
  /\ holder' = [holder EXCEPT ![j] = None]
  /\ UNCHANGED <<rec, objects, threads, kinds, grants, effects, faults>>

\* Any step of the acceptance raises: before the chapter is written, after it,
\* or, with ACCEPTED stored, when the chapter is not there to be read back.
AcceptanceFails(m, j) ==
  /\ holder[j] \in {<<"accept", m>>, <<"written", m>>, <<"accepted", m>>}
  /\ TrySave(j, WithStatus(m, j, "ACCEPTANCE_UNCERTAIN"))
  /\ Concludes(m, j, "ACCEPTANCE_UNCERTAIN", None)

\* Mutant: only the object of this manager is asked.
RejectableHere(m, j) ==
  Public(j, mem[m][j]) = "COMPLETED" /\ Accounted(j, mem[m][j].hook)

\* Both the record and the object must be a completed, settled draft.
Rejectable(m, j) ==
  /\ Public(j, mem[m][j]) = "COMPLETED" /\ Accounted(j, mem[m][j].hook)
  /\ rec[j].status = "COMPLETED" /\ Accounted(j, rec[j].hook)

Reject(m, j) ==
  /\ life[m] = "up" /\ holder[j] = None
  /\ Rejectable(m, j)
  /\ LET o == WithStatus(m, j, "REJECTED")
     IN  Keep(m, j, o) /\ TrySave(j, o)
  /\ UNCHANGED <<life, todo, threads, kinds, grants, holder, effects>>

-----------------------------------------------------------------------------
(* Managers: construction with recovery, end of the process; the grant.    *)

\* __init__ takes one snapshot and restores what is not executing from it.
Boot(m) ==
  /\ life[m] = "down"
  /\ life' = [life EXCEPT ![m] = "booting"]
  /\ todo' = [todo EXCEPT ![m] = {j \in Job : rec[j].status \in Executing}]
  /\ mem' = [mem EXCEPT ![m] = [j \in Job |->
               IF rec[j].status \in Executing THEN NoObject ELSE rec[j]]]
  /\ UNCHANGED <<rec, threads, kinds, grants, holder, effects, faults>>

\* Mutant: what was executing is put back as it was.
RestoredAsIs(r) == r

\* _restore_job of a record read again inside the lock.
Restored(r) ==
  [status |-> IF r.status \in Executing THEN "FAILED" ELSE r.status,
   hook   |-> IF r.status = "SETTLING" THEN "reconcile" ELSE r.hook,
   unsure |-> r.unsure /\ r.status # "SETTLING"]

RecoverRead(m, j) ==
  /\ life[m] = "booting" /\ j \in todo[m] /\ holder[j] = None
  /\ Keep(m, j, Restored(rec[j]))
  /\ IF rec[j].status \in Executing
       THEN holder' = [holder EXCEPT ![j] = <<"recover", m>>] /\ UNCHANGED todo
       ELSE todo' = [todo EXCEPT ![m] = @ \ {j}] /\ UNCHANGED holder
  /\ UNCHANGED <<rec, life, threads, kinds, grants, effects, faults>>

RecoverWrite(m, j) ==
  /\ holder[j] = <<"recover", m>>
  /\ Save(j, mem[m][j])
  /\ holder' = [holder EXCEPT ![j] = None]
  /\ todo' = [todo EXCEPT ![m] = @ \ {j}]
  /\ UNCHANGED <<mem, life, threads, kinds, grants, effects>>

BootDone(m) ==
  /\ life[m] = "booting" /\ todo[m] = {}
  /\ life' = [life EXCEPT ![m] = "up"]
  /\ UNCHANGED <<rec, mem, todo, threads, kinds, grants, holder, effects,
                 faults>>

\* The process ends at any point; its daemon threads and locks go with it.
\* So does a constructor whose recovery cannot be saved.
Exit(m) ==
  /\ life[m] # "down"
  /\ life' = [life EXCEPT ![m] = "down"]
  /\ todo' = [todo EXCEPT ![m] = {}]
  /\ mem' = [mem EXCEPT ![m] = [j \in Job |-> NoObject]]
  /\ worker' = [j \in Job |-> IF home[j] = m /\ worker[j] # "done"
                              THEN "dead" ELSE worker[j]]
  /\ cancelled' = [cancelled EXCEPT ![m] = {}]
  /\ cancelling' = {c \in cancelling : c[1] # m}
  /\ holder' = [j \in Job |-> IF holder[j] # None /\ holder[j][2] = m
                              THEN None ELSE holder[j]]
  /\ UNCHANGED <<rec, home, kinds, grants, effects, faults>>

\* The author's session ends, or is renewed.
ChangeAuth(j) ==
  /\ j \in guarded
  /\ auth' = [auth EXCEPT ![j] = ~@]
  /\ UNCHANGED <<rec, objects, threads, kinds, refused, holder, effects,
                 faults>>

-----------------------------------------------------------------------------
Worker(j) ==
  \/ ThreadFails(j)
  \/ Stop(j)
  \/ BeginRun(j)
  \/ Refuse(j)
  \/ SaveSnapshot(j)
  \/ Dispatch(j)
  \/ RunFails(j)
  \/ Delta(j)
  \/ CompleteStream(j)
  \/ BeginPublication(j)
  \/ Settle(j)
  \/ SaveSettlement(j)
  \/ Publish(j)
  \/ RefusePublication(j)
  \/ Withdraw(j)
  \/ Fail(j)
  \/ LateHook(j)
  \/ Finish(j)

Review(m, j) ==
  \/ RefuseAccept(m, j)
  \/ Accept(m, j)
  \/ WriteChapter(m, j)
  \/ Accepted(m, j)
  \/ AnswerAccept(m, j)
  \/ AcceptanceFails(m, j)
  \/ Reject(m, j)

Recovery(m) ==
  \/ Boot(m)
  \/ \E j \in Job : RecoverRead(m, j) \/ RecoverWrite(m, j)
  \/ BootDone(m)

Next ==
  \/ \E j \in Job : Worker(j) \/ ChangeAuth(j)
  \/ \E m \in Mgr, j \in Job : \/ StartPrepared(m, j)
                               \/ SignalCancel(m, j)
                               \/ CommitCancel(m, j)
                               \/ Review(m, j)
  \/ \E m \in Mgr : Recovery(m) \/ Exit(m)

Spec == Init /\ [][Next]_vars

\* The application is started again, and not interrupted in every one of its
\* starts.
RestartSpec ==
  /\ Spec
  /\ \A m \in Mgr : WF_vars(Boot(m))
  /\ \A m \in Mgr, j \in Job :
       SF_vars(RecoverRead(m, j)) /\ SF_vars(RecoverWrite(m, j))
=============================================================================

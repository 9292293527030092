----------------------------- MODULE ExportQueue -----------------------------
(***************************************************************************)
(* The durable export queue of a workspace (services/export_job_service.py *)
(* and services/export_execution_claim.py).                                *)
(*                                                                         *)
(* Several processes of the same host share one export_jobs.json.  Every   *)
(* change of a row is one read-modify-write under the workspace mutation   *)
(* lock; a job is executed under a separate per-job OS claim that is held  *)
(* from submission until the worker's last step and that the operating     *)
(* system drops when its process dies.                                     *)
(*                                                                         *)
(* cancel_requested is written only together with the status "cancelled",  *)
(* so the status stands for both.  Progress numbers, messages, timestamps, *)
(* retry_of and attempt are left out: no guard of the queue reads them.    *)
(***************************************************************************)
EXTENDS Naturals, FiniteSets

CONSTANTS
  Proc,         \* the processes (service instances) sharing the workspace
  Job,          \* the job ids uuid4 may hand out
  Key,          \* idempotency keys; one key stands for (novel, key, context)
  Workers,      \* ThreadPoolExecutor(max_workers = 2)
  MaxFailures,  \* bound on process deaths, failed row writes and lock files
  None,         \* no process, no key, no content
  Torn          \* content of an artifact whose write did not finish

ASSUME ConstantsOK ==
  /\ Workers \in Nat \ {0}
  /\ MaxFailures \in Nat
  /\ None \notin Proc \cup Key \cup (Proc \X Nat)
  /\ Torn \notin Proc \X Nat
  /\ None # Torn

Open     == {"queued", "running"}
Terminal == {"succeeded", "failed", "cancelled"}
Status   == {"absent"} \cup Open \cup Terminal

\* Life of a process: constructor running, serving requests, pool shut down,
\* constructor failed while recovered work is still in its pool.
Life == {"down", "starting", "serving", "closing", "draining"}

\* Where the holder of a claim is.
Submitting == {"recovering", "rechecking", "ready", "readyRetry"}
Pooled     == {"submitted", "registered"}
Rendering  == {"running", "rendered", "checked", "writing", "persisted"}
Ending     == {"succeeding", "failing", "cancelling"}
Executing  == {"picked", "leaving"} \cup Rendering \cup Ending
Holding    == Submitting \cup Pooled \cup Executing
Phase      == {"idle"} \cup Holding

\* Who asked for a submission: create, an idempotent create, the start-up scan.
Mode == {"new", "retry", "recover"}

\* The bytes one execution renders.
Content == Proc \X Nat

Row == [status: Status, key: Key \cup {None}, fresh: BOOLEAN, recoveries: Nat,
        result: Content \cup {None}, receipt: BOOLEAN]

VARIABLES
  row,          \* export_jobs.json
  file,         \* export_artifacts/<job>.artifact
  claim,        \* the process holding the job's execution lock file
  life,
  pending,      \* submissions a thread of the process is about to attempt
  phase,        \* progress of the claim holder, per process and job
  signal,       \* jobs whose cancel Event is set in the process
  built,        \* jobs whose worker holds a receipt of a written artifact
  cancelling,   \* the cancel() call inside the mutation lock, if any
  failures      \* how many of the bounded failures happened

durable == <<row, file>>
local   == <<life, pending, phase, signal, built>>
vars    == <<row, file, claim, life, pending, phase, signal, built,
             cancelling, failures>>

Absent == [status |-> "absent", key |-> None, fresh |-> FALSE,
           recoveries |-> 0, result |-> None, receipt |-> FALSE]

Init ==
  /\ row = [j \in Job |-> Absent]
  /\ file = [j \in Job |-> None]
  /\ claim = [j \in Job |-> None]
  /\ life = [p \in Proc |-> "down"]
  /\ pending = [p \in Proc |-> {}]
  /\ phase = [p \in Proc |-> [j \in Job |-> "idle"]]
  /\ signal = [p \in Proc |-> {}]
  /\ built = [p \in Proc |-> {}]
  /\ cancelling = {}
  /\ failures = 0

-----------------------------------------------------------------------------
(* Helpers.                                                                *)

\* workspace_mutation(...) and self._lock are free: no cancel() is inside.
MutationFree == cancelling = {}

InService(p) == life[p] \in {"serving", "closing"}
PoolOpen(p)  == life[p] \in {"starting", "serving"}

\* A row write or lock file raises OSError, or a process dies.
Fails == failures < MaxFailures /\ failures' = failures + 1

SetStatus(j, s) == row' = [row EXCEPT ![j].status = s]
Goto(p, j, ph)  == phase' = [phase EXCEPT ![p][j] = ph]

\* ExecutionClaim.release: the handle is closed and the registry forgets it.
Release(p, j) == claim' = [claim EXCEPT ![j] = None] /\ Goto(p, j, "idle")

\* check_cancelled: the worker's own Event or the committed row says stop.
CancelSeen(p, j) == j \in signal[p] \/ row[j].status = "cancelled"

Busy(p) == Cardinality({j \in Job : phase[p][j] \in Executing})

-----------------------------------------------------------------------------
(* Requests: create, retry, cancel and the ageing of idempotency keys.     *)

\* Mutant: a key only protects jobs that are still open.
MatchOpenOnly(k) == {j \in Job : /\ row[j].status \in Open
                                 /\ k # None /\ row[j].key = k /\ row[j].fresh}

\* Committed rows an idempotent create must return instead of a new one.
Match(k) == {j \in Job : /\ row[j].status # "absent"
                         /\ k # None /\ row[j].key = k /\ row[j].fresh}

NewRow(k) == [Absent EXCEPT !.status = "queued", !.key = k, !.fresh = TRUE]

Enqueue(p, k, j) ==
  /\ InService(p) /\ MutationFree
  /\ row[j].status = "absent"
  /\ row' = [row EXCEPT ![j] = NewRow(k)]
  /\ pending' = [pending EXCEPT ![p] = @ \cup {<<j, "new">>}]
  /\ UNCHANGED <<file, claim, life, phase, signal, built, cancelling,
                 failures>>

CreateNew(p, k, j) == Match(k) = {} /\ Enqueue(p, k, j)

\* A queued match is submitted again; any other match is only returned.
CreateExisting(p, k, j) ==
  /\ InService(p) /\ MutationFree
  /\ j \in Match(k)
  /\ row[j].status = "queued"
  /\ pending' = [pending EXCEPT ![p] = @ \cup {<<j, "retry">>}]
  /\ UNCHANGED <<durable, claim, life, phase, signal, built, cancelling,
                 failures>>

Retry(p, src, j) ==
  /\ row[src].status \in {"failed", "cancelled"}
  /\ Enqueue(p, None, j)

\* IDEMPOTENCY_TTL passes for a row.
AgeOut(j) ==
  /\ row[j].key # None /\ row[j].fresh
  /\ row' = [row EXCEPT ![j].fresh = FALSE]
  /\ UNCHANGED <<file, claim, local, cancelling, failures>>

\* cancel(), first half: inside the lock the Event is set and a queued future
\* is cancelled, whose done callback releases the claim before the row is
\* written.
CancelSignal(p, j) ==
  /\ InService(p) /\ MutationFree
  /\ row[j].status \in Open
  /\ cancelling' = {<<p, j>>}
  /\ signal' = [signal EXCEPT ![p] = @ \cup {j}]
  /\ IF row[j].status = "queued" /\ phase[p][j] = "registered"
       THEN Release(p, j)
       ELSE UNCHANGED <<claim, phase>>
  /\ UNCHANGED <<durable, life, pending, built, failures>>

\* A worker past its first step keeps the Event that cancel() pops.
CancelCommit(p, j) ==
  /\ <<p, j>> \in cancelling
  /\ SetStatus(j, "cancelled")
  /\ signal' = IF phase[p][j] \in Rendering \cup Ending THEN signal
               ELSE [signal EXCEPT ![p] = @ \ {j}]
  /\ cancelling' = {}
  /\ UNCHANGED <<file, claim, life, pending, phase, built, failures>>

\* The row write raises: the Event stays set and the lock is left.
CancelFault(p, j) ==
  /\ <<p, j>> \in cancelling /\ Fails
  /\ cancelling' = {}
  /\ UNCHANGED <<durable, claim, local>>

-----------------------------------------------------------------------------
(* _submit: claim, recheck, hand over to the pool.                         *)

\* The constructor recovers its candidates one after another.
MayAttempt(p, m) ==
  m = "recover" => \A k \in Job : phase[p][k] \notin Submitting

Drop(p, j, m) == pending' = [pending EXCEPT ![p] = @ \ {<<j, m>>}]

\* The step each kind of submission takes under its fresh claim.
AfterClaim == [new |-> "ready", retry |-> "rechecking", recover |-> "recovering"]

\* Mutant: only the registry of this process is consulted, not the lock file.
RegistryOnly(p, j) == claim[j] # p

\* Neither this process nor another one holds the lock file of the job.
Obtainable(p, j) == claim[j] = None

TryClaim(p, j, m) ==
  /\ <<j, m>> \in pending[p] /\ MayAttempt(p, m)
  /\ Obtainable(p, j)
  /\ claim' = [claim EXCEPT ![j] = p]
  /\ Goto(p, j, AfterClaim[m])
  /\ Drop(p, j, m)
  /\ UNCHANGED <<durable, life, signal, built, cancelling, failures>>

\* None from try_execution_claim: the caller returns silently.
ClaimContended(p, j, m) ==
  /\ <<j, m>> \in pending[p] /\ MayAttempt(p, m)
  /\ ~Obtainable(p, j)
  /\ Drop(p, j, m)
  /\ UNCHANGED <<durable, claim, life, phase, signal, built, cancelling,
                 failures>>

\* ExportExecutionUnavailable: the request fails and leaves its row queued.
ClaimUnavailable(p, j, m) ==
  /\ <<j, m>> \in pending[p] /\ m # "recover" /\ Fails
  /\ Drop(p, j, m)
  /\ UNCHANGED <<durable, claim, life, phase, signal, built, cancelling>>

Recovered(r) == [r EXCEPT !.status = "queued", !.recoveries = @ + 1]

PrepareRecovery(p, j) ==
  /\ phase[p][j] = "recovering" /\ MutationFree
  /\ IF row[j].status \in Open
       THEN /\ row' = [row EXCEPT ![j] = Recovered(@)]
            /\ Goto(p, j, "ready")
            /\ UNCHANGED claim
       ELSE Release(p, j) /\ UNCHANGED row
  /\ UNCHANGED <<file, life, pending, signal, built, cancelling, failures>>

\* preserve_queued_on_pool_failure: only a row that is still queued goes on.
Recheck(p, j) ==
  /\ phase[p][j] = "rechecking" /\ MutationFree
  /\ IF row[j].status = "queued"
       THEN Goto(p, j, "readyRetry") /\ UNCHANGED claim
       ELSE Release(p, j)
  /\ UNCHANGED <<durable, life, pending, signal, built, cancelling, failures>>

PoolSubmit(p, j) ==
  /\ phase[p][j] \in {"ready", "readyRetry"} /\ PoolOpen(p)
  /\ Goto(p, j, "submitted")
  /\ UNCHANGED <<durable, claim, life, pending, signal, built, cancelling,
                 failures>>

\* submit raised RuntimeError in a retry: the row stays as it is.
PoolClosedRetry(p, j) ==
  /\ phase[p][j] = "readyRetry" /\ ~PoolOpen(p)
  /\ Release(p, j)
  /\ UNCHANGED <<durable, life, pending, signal, built, cancelling, failures>>

\* The creator's write of the failure raises as well: the row stays queued.
PoolClosedFault(p, j) ==
  /\ phase[p][j] = "ready" /\ ~PoolOpen(p) /\ MutationFree /\ Fails
  /\ Release(p, j)
  /\ UNCHANGED <<durable, life, pending, signal, built, cancelling>>

\* submit raised RuntimeError for its creator: a queued row fails.
PoolClosedNew(p, j) ==
  /\ phase[p][j] = "ready" /\ ~PoolOpen(p) /\ MutationFree
  /\ Release(p, j)
  /\ IF row[j].status = "queued" THEN SetStatus(j, "failed")
                                 ELSE UNCHANGED row
  /\ UNCHANGED <<file, life, pending, signal, built, cancelling, failures>>

\* self._futures[job_id] = future, unless the worker was faster.
RegisterFuture(p, j) ==
  /\ phase[p][j] = "submitted" /\ MutationFree
  /\ Goto(p, j, "registered")
  /\ UNCHANGED <<durable, claim, life, pending, signal, built, cancelling,
                 failures>>

-----------------------------------------------------------------------------
(* The worker: _run and _run_owned.                                        *)

Pick(p, j) ==
  /\ phase[p][j] \in Pooled
  /\ Busy(p) < Workers
  /\ Goto(p, j, "picked")
  /\ UNCHANGED <<durable, claim, life, pending, signal, built, cancelling,
                 failures>>

\* A worker only advances its own phase.
Step(p, j, from, to) ==
  /\ phase[p][j] = from
  /\ Goto(p, j, to)
  /\ UNCHANGED <<row, claim, life, pending, signal, cancelling>>

StartRun(p, j) ==
  /\ phase[p][j] = "picked" /\ MutationFree
  /\ IF row[j].status = "queued" /\ j \notin signal[p]
       THEN SetStatus(j, "running") /\ Goto(p, j, "running")
       ELSE Goto(p, j, "leaving") /\ UNCHANGED row
  /\ UNCHANGED <<file, claim, life, pending, signal, built, cancelling,
                 failures>>

\* report(10) checks for a cancellation, then the exporter returns or raises.
Render(p, j, outcome) ==
  /\ outcome \in {"rendered", "failing", "cancelling"}
  /\ outcome = "cancelling" <=> CancelSeen(p, j)
  /\ Step(p, j, "running", outcome)
  /\ UNCHANGED <<file, built, failures>>

CheckRendered(p, j) ==
  /\ Step(p, j, "rendered", IF CancelSeen(p, j) THEN "cancelling" ELSE "checked")
  /\ UNCHANGED <<file, built, failures>>

\* target.write_bytes truncates first; the receipt exists once it returns.
BeginArtifact(p, j) ==
  /\ Step(p, j, "checked", "writing")
  /\ file' = [file EXCEPT ![j] = Torn]
  /\ UNCHANGED <<built, failures>>

EndArtifact(p, j) ==
  /\ Step(p, j, "writing", "persisted")
  /\ file' = [file EXCEPT ![j] = <<p, row[j].recoveries>>]
  /\ built' = [built EXCEPT ![p] = @ \cup {j}]
  /\ UNCHANGED failures

\* OSError: _persist_artifact returns None and the result stays inline.
SkipArtifact(p, j) ==
  /\ \E ph \in {"checked", "writing"} : Step(p, j, ph, "persisted")
  /\ UNCHANGED <<file, built, failures>>

CheckPersisted(p, j) ==
  /\ Step(p, j, "persisted",
          IF CancelSeen(p, j) THEN "cancelling" ELSE "succeeding")
  /\ UNCHANGED <<file, built, failures>>

Succeeded(p, j) ==
  [row[j] EXCEPT !.status = "succeeded", !.result = <<p, row[j].recoveries>>,
                 !.receipt = (j \in built[p])]

\* Mutant: the worker trusts its own Event and does not reread the row.
OutcomeUnread(p, j) ==
  IF j \in signal[p] \/ phase[p][j] = "cancelling"
    THEN [row[j] EXCEPT !.status = "cancelled"]
    ELSE IF phase[p][j] = "failing" THEN [row[j] EXCEPT !.status = "failed"]
                                    ELSE Succeeded(p, j)

\* The row after the last mutation: a cancellation wins over the exporter.
Outcome(p, j) ==
  IF CancelSeen(p, j) \/ phase[p][j] = "cancelling"
    THEN [row[j] EXCEPT !.status = "cancelled"]
    ELSE IF phase[p][j] = "failing" THEN [row[j] EXCEPT !.status = "failed"]
                                    ELSE Succeeded(p, j)

Finish(p, j) ==
  /\ phase[p][j] \in Ending /\ MutationFree
  /\ row' = [row EXCEPT ![j] = Outcome(p, j)]
  /\ Goto(p, j, "leaving")
  /\ UNCHANGED <<file, claim, life, pending, signal, built, cancelling,
                 failures>>

\* _run's finally clause.
Leave(p, j) ==
  /\ phase[p][j] = "leaving"
  /\ Release(p, j)
  /\ signal' = [signal EXCEPT ![p] = @ \ {j}]
  /\ built' = [built EXCEPT ![p] = @ \ {j}]
  /\ UNCHANGED <<durable, life, pending, cancelling, failures>>

\* A row write of the worker raises: report(95) ends as a failed export, the
\* first and the last mutation abandon the row as it is.
WorkerFault(p, j) ==
  /\ Fails
  /\ \/ Step(p, j, "persisted", "failing")
     \/ MutationFree /\ Step(p, j, "picked", "leaving")
     \/ \E ph \in Ending : MutationFree /\ Step(p, j, ph, "leaving")
  /\ UNCHANGED <<file, built>>

-----------------------------------------------------------------------------
(* Processes: start-up recovery, shutdown, failed construction, death.     *)

\* Mutant: only jobs found running are recovered.
CandidatesRunning == {j \in Job : row[j].status = "running"}

\* Mutant: only jobs found queued are recovered.
CandidatesQueued == {j \in Job : row[j].status = "queued"}

Candidates == {j \in Job : row[j].status \in Open}

\* __init__ reads the open jobs once and recovers them one by one.
Start(p) ==
  /\ life[p] = "down"
  /\ life' = [life EXCEPT ![p] = "starting"]
  /\ pending' = [pending EXCEPT ![p] = {<<j, "recover">> : j \in Candidates}]
  /\ UNCHANGED <<durable, claim, phase, signal, built, cancelling, failures>>

StartDone(p) ==
  /\ life[p] = "starting"
  /\ pending[p] = {} /\ \A j \in Job : phase[p][j] \notin Submitting
  /\ life' = [life EXCEPT ![p] = "serving"]
  /\ UNCHANGED <<durable, claim, pending, phase, signal, built, cancelling,
                 failures>>

\* The lock file or the recovery write of a candidate fails: __init__ raises,
\* jobs already handed to the pool are finished before the process ends.
StartFault(p, j) ==
  /\ life[p] = "starting" /\ Fails
  /\ \/ <<j, "recover">> \in pending[p] /\ MayAttempt(p, "recover")
        /\ UNCHANGED <<claim, phase>>
     \/ phase[p][j] = "recovering" /\ Release(p, j)
  /\ life' = [life EXCEPT ![p] = "draining"]
  /\ pending' = [pending EXCEPT ![p] = {}]
  /\ UNCHANGED <<durable, signal, built, cancelling>>

ClosePool(p) ==
  /\ life[p] = "serving"
  /\ life' = [life EXCEPT ![p] = "closing"]
  /\ UNCHANGED <<durable, claim, pending, phase, signal, built, cancelling,
                 failures>>

\* The interpreter ends once its pool is drained and no request is running.
Exit(p) ==
  /\ life[p] \in {"closing", "draining"}
  /\ pending[p] = {} /\ \A j \in Job : phase[p][j] = "idle"
  /\ \A j \in Job : <<p, j>> \notin cancelling
  /\ life' = [life EXCEPT ![p] = "down"]
  /\ signal' = [signal EXCEPT ![p] = {}]
  /\ UNCHANGED <<durable, claim, pending, phase, built, cancelling, failures>>

\* The process dies: the operating system drops its locks.
Crash(p) ==
  /\ life[p] # "down" /\ Fails
  /\ life' = [life EXCEPT ![p] = "down"]
  /\ claim' = [j \in Job |-> IF claim[j] = p THEN None ELSE claim[j]]
  /\ pending' = [pending EXCEPT ![p] = {}]
  /\ phase' = [phase EXCEPT ![p] = [j \in Job |-> "idle"]]
  /\ signal' = [signal EXCEPT ![p] = {}]
  /\ built' = [built EXCEPT ![p] = {}]
  /\ cancelling' = {c \in cancelling : c[1] # p}
  /\ UNCHANGED <<durable>>

-----------------------------------------------------------------------------
Request(p, j) ==
  \/ \E k \in Key \cup {None} : CreateNew(p, k, j)
  \/ \E k \in Key : CreateExisting(p, k, j)
  \/ \E src \in Job : Retry(p, src, j)
  \/ CancelSignal(p, j)

\* Steps the code takes by itself once it was entered.
Submission(p, j) ==
  \/ \E m \in Mode : TryClaim(p, j, m) \/ ClaimContended(p, j, m)
  \/ PrepareRecovery(p, j)
  \/ Recheck(p, j)
  \/ PoolSubmit(p, j)
  \/ PoolClosedRetry(p, j)
  \/ PoolClosedNew(p, j)

Worker(p, j) ==
  \/ RegisterFuture(p, j)
  \/ Pick(p, j)
  \/ StartRun(p, j)
  \/ \E outcome \in Phase : Render(p, j, outcome)
  \/ CheckRendered(p, j)
  \/ BeginArtifact(p, j)
  \/ EndArtifact(p, j)
  \/ SkipArtifact(p, j)
  \/ CheckPersisted(p, j)
  \/ Finish(p, j)
  \/ Leave(p, j)

Failure(p, j) ==
  \/ CancelFault(p, j)
  \/ \E m \in Mode : ClaimUnavailable(p, j, m)
  \/ PoolClosedFault(p, j)
  \/ WorkerFault(p, j)
  \/ StartFault(p, j)

Process(p) == Start(p) \/ StartDone(p) \/ Exit(p)

Next ==
  \/ \E p \in Proc, j \in Job : \/ Request(p, j)
                               \/ CancelCommit(p, j)
                               \/ Submission(p, j)
                               \/ Worker(p, j)
                               \/ Failure(p, j)
  \/ \E j \in Job : AgeOut(j)
  \/ \E p \in Proc : Process(p) \/ ClosePool(p) \/ Crash(p)

Spec == Init /\ [][Next]_vars

\* Entered code runs on, exporters return, a dead process is started again.
Fairness ==
  /\ \A p \in Proc, j \in Job : /\ WF_vars(CancelCommit(p, j))
                                /\ WF_vars(Submission(p, j))
                                /\ WF_vars(Worker(p, j))
  /\ \A p \in Proc : WF_vars(Process(p))

FairSpec == Spec /\ Fairness

\* The application is also closed and opened again and again, and the 24 hours
\* of an idempotency key pass.
RestartSpec ==
  /\ FairSpec
  /\ \A p \in Proc : WF_vars(ClosePool(p))
  /\ \A j \in Job : WF_vars(AgeOut(j))
=============================================================================

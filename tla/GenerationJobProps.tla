-------------------------- MODULE GenerationJobProps --------------------------
(***************************************************************************)
(* What the life of a generation job promises.                             *)
(***************************************************************************)
EXTENDS GenerationJob

\* The type of every variable of GenerationJob.
TypeOK ==
  /\ rec \in [Job -> Object]
  /\ mem \in [Mgr -> [Job -> Object]]
  /\ life \in [Mgr -> {"down", "booting", "up"}]
  /\ todo \in [Mgr -> SUBSET Job]
  /\ hooked \subseteq Job /\ guarded \subseteq Job
  /\ home \in [Job -> Mgr \cup {None}]
  /\ worker \in [Job -> Pc]
  /\ cancelled \in [Mgr -> SUBSET Job]
  /\ cancelling \subseteq Mgr \X Job
  /\ auth \in [Job -> BOOLEAN]
  /\ refused \subseteq Job
  /\ holder \in [Job -> Holder]
  /\ calls \in [Job -> Nat]
  /\ settled \subseteq Job
  /\ writes \in [Job -> Nat]
  /\ faults \in Nat

\* A draft reaches the manuscript at most once, whichever managers accept it
\* and wherever one of them dies, and from then on its record neither offers it
\* for review nor calls it rejected; a record of acceptance means that the text
\* is there (accept: "a subsequent manager must reconcile it rather than write
\* it twice").
AcceptedOnce ==
  \A j \in Job :
    /\ writes[j] <= 1
    /\ writes[j] = 1 =>
         rec[j].status \notin Executing \cup {"none", "COMPLETED", "REJECTED"}
    /\ rec[j].status = "ACCEPTED" => writes[j] = 1

\* A job whose run ended in a living process has called its accounting hook
\* exactly once, however publication, cancellation, failed saves and the finally
\* clause interleave, and no job calls it twice (_finish_terminal_hook: racing
\* finalizers "never bill or release twice").
BilledOnce ==
  \A j \in Job : /\ calls[j] <= 1
                 /\ worker[j] = "done" /\ j \in hooked => calls[j] = 1

\* A stored draft that can be reviewed, or was, has settled its accounting
\* (public, require_generation_accounting).
SettledBeforeReview ==
  \A j \in hooked :
    rec[j].status \in {"COMPLETED"} \cup Decided => j \in settled

\* One refusal of the request's authorization keeps the result unpublished,
\* although the same question would be answered with yes a moment later
\* (_guard_ordinary_request_authorization).
RefusedUnpublished ==
  \A j \in refused : rec[j].status \notin {"COMPLETED"} \cup Decided

\* A decision that is stored stays, whatever the other managers of the host
\* do: neither the other decision, nor a worker, nor a recovery overwrites it.
\* One step back is left to the acceptance that stored ACCEPTED, until it has
\* answered: it makes its own record uncertain when it cannot read the chapter
\* back (accept's except clause encloses the whole of _accept_claimed).
\* (For cancellations see CancelKeepsDrafts.)
DecisionFinal ==
  [][\A j \in Job :
       LET s == rec[j].status
           t == rec'[j].status
       IN  t # "CANCELLED" =>
             /\ s \in {"ACCEPTANCE_UNCERTAIN", "REJECTED"} => t = s
             /\ s = "ACCEPTED" /\ t # s =>
                  /\ t = "ACCEPTANCE_UNCERTAIN"
                  /\ \E m \in Mgr : holder[j] = <<"accepted", m>>
             /\ s = "ACCEPTING" =>
                  t \in {"ACCEPTING", "ACCEPTED", "ACCEPTANCE_UNCERTAIN"}]_vars

\* "The locked transition rechecks state before changing it, so this can never
\* turn a completed/reviewed draft back into cancellation" (cancel).
CancelKeepsDrafts ==
  [][\A j \in Job :
       rec[j].status \in {"COMPLETED"} \cup Decided =>
         rec'[j].status # "CANCELLED"]_vars

-----------------------------------------------------------------------------
(* The inductive invariant, for one job: why reviews by several managers     *)
(* stay exclusive, whatever becomes of the thread and of its saves.          *)

Reviewable == {"COMPLETED"} \cup Decided

Called(j) == j \in hooked => calls[j] = 1

\* The thread of the job will not save its record again.
Late(j) == worker[j] \in {"done", "dead"} \/ (worker[j] = "finishing" /\ Called(j))

\* Threads run in living managers; a publication holds the review lock.
Threads(j) ==
  /\ home[j] = None <=> worker[j] = "none"
  /\ worker[j] = "none" => /\ rec[j] = NoObject /\ calls[j] = 0
                           /\ \A m \in Mgr : mem[m][j] = NoObject
  /\ worker[j] # "none" => rec[j].status # "none"
  /\ worker[j] \notin {"none", "done", "dead"} =>
       life[home[j]] = "up" /\ Here(j).status # "none"
  /\ \A m \in Mgr : holder[j] = <<"worker", m>>
                     <=> home[j] = m /\ worker[j] \in Publishing
  /\ \A m \in Mgr : <<m, j>> \in cancelling =>
                      life[m] = "up" /\ mem[m][j].status # "none"

\* The hook is called by the publication or after it, once.
Hooks(j) ==
  /\ calls[j] \in {0, 1}
  /\ j \notin hooked =>
       /\ calls[j] = 0
       /\ rec[j].hook = "none" /\ rec[j].status # "SETTLING"
       /\ \A m \in Mgr : mem[m][j].hook = "none" /\ mem[m][j].status # "SETTLING"
  /\ worker[j] \notin {"settled", "publishing", "uncertain", "finishing",
                      "unsaved", "done", "dead"} =>
       calls[j] = 0 /\ (home[j] # None => Here(j).hook = "none")
  /\ worker[j] \in {"settling", "settled"} => j \in hooked
  /\ worker[j] \in {"settled", "publishing", "unsaved", "done"} => Called(j)
  /\ worker[j] \in {"finishing", "uncertain"} /\ calls[j] = 0 =>
       Here(j).hook = "none"

\* A draft is on offer, or decided, only when its run and its hook are over.
Drafts(j) ==
  /\ rec[j].status \in Reviewable =>
       Called(j) /\ (Late(j) \/ worker[j] \in Publishing)
  /\ worker[j] \in Publishing =>
       rec[j].status \notin Decided /\ Here(j).status \notin Decided
  /\ \A m \in Mgr : mem[m][j].status \in Reviewable =>
       \/ Late(j)
       \/ worker[j] \in Publishing /\ (m # home[j] => Called(j))
  /\ writes[j] # 0 => Late(j)

\* What is on offer or decided is settled.
Settlements(j) ==
  j \in hooked =>
    /\ rec[j].hook = "done" => j \in settled
    /\ rec[j].status \in Reviewable => rec[j].hook = "done"
    /\ worker[j] \in {"settled", "publishing"} /\ Here(j).status = "SETTLING" =>
         Here(j).hook = "done"
    /\ \A m \in Mgr :
         /\ mem[m][j].hook = "done" => j \in settled
         /\ mem[m][j].status \in Decided => mem[m][j].hook = "done"
         /\ mem[m][j].status = "COMPLETED" =>
              \/ mem[m][j].hook = "done"
              \/ m = home[j] /\ worker[j] \in {"settling", "uncertain"}

\* What the holder of the review lock may rely on.
Claims(j) ==
  \A m \in Mgr :
    /\ holder[j] \in {<<"accept", m>>, <<"written", m>>} =>
         /\ life[m] = "up"
         /\ mem[m][j].status = "ACCEPTING"
         /\ rec[j].status \in {"ACCEPTING", "CANCELLED"}
         /\ Late(j) /\ Called(j)
    /\ holder[j] = <<"accepted", m>> =>
         /\ life[m] = "up"
         /\ mem[m][j].status = "ACCEPTED"
         /\ rec[j].status \in {"ACCEPTED", "CANCELLED"}
         /\ Late(j) /\ Called(j) /\ writes[j] = 1
    /\ holder[j] = <<"accept", m>> => writes[j] = 0
    /\ holder[j] = <<"written", m>> => writes[j] = 1
    /\ holder[j] = <<"recover", m>> =>
         /\ life[m] = "booting" /\ j \in todo[m] /\ mem[m][j].status = "FAILED"
         /\ rec[j].status \notin Reviewable /\ writes[j] = 0

\* The manuscript is written under a claim, and a claim is final.
Manuscript(j) ==
  /\ writes[j] <= 1
  /\ writes[j] = 1 =>
       rec[j].status \notin Executing \cup {"none", "COMPLETED", "REJECTED"}
  /\ rec[j].status = "ACCEPTED" => writes[j] = 1
  /\ \A m \in Mgr : mem[m][j].status = "ACCEPTED" => writes[j] = 1

\* A guarded publication shows nothing before its last guard, and a refused
\* job has nothing that could be shown.
Refusals(j) ==
  /\ j \in guarded /\ worker[j] \in Publishing =>
       /\ rec[j].status \notin Reviewable
       /\ \A m \in Mgr : m # home[j] \/ worker[j] # "uncertain" =>
                           mem[m][j].status \notin Reviewable
  /\ j \in refused =>
       /\ j \in guarded
       /\ worker[j] \in {"failing", "settled", "publishing", "uncertain",
                         "finishing", "done", "dead"}
       /\ rec[j].status \notin Reviewable
       /\ \A m \in Mgr : mem[m][j].status \notin Reviewable

JobInv(j) ==
  /\ Threads(j) /\ Hooks(j) /\ Drafts(j) /\ Settlements(j)
  /\ Claims(j) /\ Manuscript(j) /\ Refusals(j)

Core == TypeOK /\ \A j \in Job : JobInv(j)

\* The draft of a job is on offer or decided, or a review works on it.
Offered(j) ==
  \/ rec[j].status \in Reviewable
  \/ \E m \in Mgr :
       holder[j] \in {<<"accept", m>>, <<"written", m>>, <<"accepted", m>>}

\* The manager that ran the job has no open object of what is offered, and one
\* that publishes without a last guard has not cancelled.
HomeKnows(j) ==
  /\ Offered(j) => mem[home[j]][j].status \notin Executing
  /\ j \notin guarded /\ worker[j] \in Publishing => Here(j).status # "CANCELLED"

\* What a dead thread left executing waits for the next start of its manager,
\* which has it on its list before it is done.
LeftToRecover(j) ==
  worker[j] = "dead" /\ rec[j].status \in Executing =>
    life[home[j]] = "down" \/ (life[home[j]] = "booting" /\ j \in todo[home[j]])

IInv == Core /\ \A j \in Job : HomeKnows(j) /\ LeftToRecover(j)

\* A cancellation replaces a draft that is stored, on offer or decided, only
\* through a manager that did not run the job: cancel() decides by the object of
\* its own manager, which is stale in any other one.
CancelsElsewhere ==
  [][\A j \in Job :
       rec[j].status \in Reviewable /\ rec'[j].status = "CANCELLED" =>
         \E m \in Mgr \ {home[j]} : <<m, j>> \in cancelling \ cancelling']_vars

\* A manager that was started again does not show what its predecessor left
\* executing (the safety behind InterruptedEnds).
InterruptedShown ==
  \A j \in Job : worker[j] = "dead" /\ life[home[j]] = "up" =>
                   rec[j].status \notin Executing

\* All managers of the host together are one reviewer: the record is the draft,
\* the lock of a review its claim.
DraftOf(j) ==
  CASE rec[j].status = "COMPLETED" -> "offered"
    [] rec[j].status = "ACCEPTING" -> "accepting"
    [] rec[j].status = "ACCEPTED" -> "accepted"
    [] rec[j].status = "ACCEPTANCE_UNCERTAIN" -> "uncertain"
    [] rec[j].status = "REJECTED" -> "rejected"
    [] OTHER -> "hidden"

ClaimOf(j) ==
  IF \E m \in Mgr : holder[j] = <<"accept", m>> THEN "open"
  ELSE IF \E m \in Mgr : holder[j] = <<"written", m>> THEN "used"
  ELSE IF \E m \in Mgr : holder[j] = <<"accepted", m>> THEN "answering"
  ELSE "none"

Reviews == INSTANCE DraftReview WITH
  over  <- {j \in Job : Late(j)},
  draft <- [j \in Job |-> DraftOf(j)],
  claim <- [j \in Job |-> ClaimOf(j)],
  text  <- writes

\* The jobs implement DraftReview: whatever managers, threads, hooks, failing
\* saves and deaths interleave, a draft is offered by its run, decided by one
\* review at a time, and written once; only the review that accepted it may
\* still call that uncertain (accept and reject under the generation-accept
\* lock, with the record read again inside it).
ReviewContract == Reviews!Spec

-----------------------------------------------------------------------------
\* What a process left executing when it ended does not stay so: a later start
\* turns the record into one that reads as ended (_restore_job: "a later
\* reader/restart must not see the interrupted task as still executing").
InterruptedEnds ==
  \A j \in Job :
    (rec[j].status \in Executing /\ life[home[j]] = "down")
      ~> rec[j].status \notin Executing
=============================================================================

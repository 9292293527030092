--------------------------- MODULE ExportQueueProps --------------------------
(***************************************************************************)
(* What the export queue must guarantee.                                   *)
(***************************************************************************)
EXTENDS ExportQueue

\* The type of every variable of ExportQueue.
TypeOK ==
  /\ row \in [Job -> Row]
  /\ file \in [Job -> Content \cup {None, Torn}]
  /\ claim \in [Job -> Proc \cup {None}]
  /\ life \in [Proc -> Life]
  /\ pending \in [Proc -> SUBSET (Job \X Mode)]
  /\ phase \in [Proc -> [Job -> Phase]]
  /\ signal \in [Proc -> SUBSET Job]
  /\ built \in [Proc -> SUBSET Job]
  /\ cancelling \in SUBSET (Proc \X Job)
  /\ failures \in Nat

\* The claim and the phases tell the same story: whoever is anywhere between
\* submission and the end of _run holds the lock file, and nobody else does.
ClaimHeld == \A p \in Proc, j \in Job : phase[p][j] # "idle" <=> claim[j] = p

\* A worker between its first and its last mutation finds its own row running,
\* or cancelled under its hands, and nothing else.
WorkerRow ==
  \A p \in Proc, j \in Job : phase[p][j] \in Rendering \cup Ending =>
    row[j].status \in {"running", "cancelled"}

\* Nobody settles a job while cancel() is inside the mutation lock.
CancelOpen == \A c \in cancelling : row[c[2]].status \in Open

\* A receipt in a worker's hands describes the file as it is.
Written ==
  \A p \in Proc, j \in Job : j \in built[p] =>
    /\ phase[p][j] \in {"persisted", "leaving"} \cup Ending
    /\ phase[p][j] # "leaving" => file[j] = <<p, row[j].recoveries>>

\* One executor per job, whatever the interleaving of creators, idempotent
\* creators, start-up scans, cancelled futures and process deaths.
OneExecutor ==
  \A j \in Job, p, q \in Proc :
    phase[p][j] \in Executing /\ phase[q][j] \in Executing => p = q

Verdict(r) == [status |-> r.status, result |-> r.result, receipt |-> r.receipt]

\* "never resurrect a cancelled task as succeeded": status, result and receipt
\* of a terminal row never change again, recovery and late workers included.
TerminalForever ==
  [][\A j \in Job : row[j].status \in Terminal =>
       Verdict(row'[j]) = Verdict(row[j])]_vars

\* download() compares the artifact with its receipt: the file of a succeeded
\* job is the one its successful execution wrote, not a torn or a foreign one.
ReceiptMatchesArtifact ==
  \A j \in Job : row[j].status = "succeeded" =>
    /\ row[j].result # None
    /\ row[j].receipt => file[j] = row[j].result

\* The inductive invariant behind the two properties above.
IInv ==
  /\ TypeOK /\ ClaimHeld /\ WorkerRow /\ CancelOpen
  /\ Written /\ ReceiptMatchesArtifact

\* An idempotency key names at most one job while it is fresh, across
\* processes and restarts.
OneFreshJobPerKey ==
  \A i, j \in Job :
    (/\ row[i].key # None /\ row[i].key = row[j].key
     /\ row[i].fresh /\ row[j].fresh) => i = j

\* Somebody will still act on the job.
Attended(j) ==
  \E p \in Proc : phase[p][j] # "idle" \/ \E m \in Mode : <<j, m>> \in pending[p]

\* While every process is up with an open pool, and nothing crashed or failed,
\* no open job is left without a thread that will run it: a silent return from
\* a contended claim is always covered by the one who holds it.
NothingStranded ==
  (/\ failures = 0 /\ MutationFree
   /\ \A p \in Proc : PoolOpen(p))
  => \A j \in Job : row[j].status \in Open => Attended(j)

Lease == INSTANCE ExportLease WITH
           status <- [j \in Job |-> row[j].status],
           result <- [j \in Job |-> row[j].result],
           owner  <- claim

\* The queue implements the lease contract: the claim file is the lease.
LeaseContract == Lease!Spec

\* Every job that entered the queue reaches a terminal status, deaths of the
\* process that runs it included (the dead process is started again).
EventuallySettled ==
  \A j \in Job : row[j].status \in Open ~> row[j].status \in Terminal

\* "Requeue interrupted work on the next process start instead of leaving a
\* permanently-running item in the local queue" (the comment of __init__).
InterruptedRequeued ==
  \A j \in Job : row[j].status = "running" ~> row[j].status # "running"
=============================================================================

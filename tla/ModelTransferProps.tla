-------------------------- MODULE ModelTransferProps --------------------------
(***************************************************************************)
(* What the downloads of models must guarantee.                            *)
(***************************************************************************)
EXTENDS ModelTransfer

\* The type of every variable of ModelTransfer.
TypeOK ==
  /\ dir \subseteq Task
  /\ journal \in [Task -> Row \cup {None}]
  /\ names \in [Task -> SUBSET {"partial", "model"}]
  /\ data \in [Task -> Content]
  /\ work \in [Task -> [Run -> Worker]]
  /\ lease \in (Task \X Run) \cup {None}
  /\ request \in Request \cup {None}
  /\ preview \in [Task -> Content \cup {None}]
  /\ closed \in BOOLEAN /\ faults \in Nat

Working(t, r) == work[t][r].pc # "none"

\* One thread writes into the container: a worker, of whatever task and run,
\* is the one that holds the lease, and the lease is held by a worker.
OneWriter ==
  \A t \in Task, r \in Run : Working(t, r) <=> lease = <<t, r>>

\* A worker owns its row: no other run, no request and no reader of the list
\* moves the row out of the active states under it.
RunOwnsRow ==
  \A t \in Task, r \in Run : Working(t, r) =>
    /\ Exists(t) /\ journal[t].run = r /\ HasFile(t)
    /\ In(t, Active) \/ (work[t][r].pc = "end" /\ In(t, {"COMPLETED"}))

\* What start and cleanup have on disk between their steps.
RequestSteps ==
  \A t \in Task : request # None /\ request.task = t =>
    /\ lease = None /\ t \in dir
    /\ request.op \in {"mkdir", "create"} => ~Exists(t)
    /\ request.op \in {"intent", "unlink"} => In(t, Halted) /\ journal[t].pending
    /\ request.op = "intent" => names[t] = {"partial"} /\ preview[t] # None
    /\ request.op \in {"mkdir", "unlink"} => names[t] = {}
    /\ request.op = "create" => names[t] = {"partial"}

\* Directories without a journal hold nothing; a finished task its model only,
\* a cleaned one nothing.
Layout ==
  \A t \in Task :
    /\ Exists(t) => t \in dir
    /\ ~Exists(t) => names[t] \subseteq {"partial"} /\ data[t] = <<>>
    /\ t \notin dir => names[t] = {}
    /\ In(t, {"COMPLETED"}) => names[t] = {"model"} /\ data[t] = Reviewed
    /\ In(t, {"CLEANED"}) => names[t] = {}

\* The rolling hash covers the file byte for byte; what is being published is
\* what was verified, and nobody can cancel it any more.
Hashes ==
  \A t \in Task, r \in Run :
    LET w == work[t][r] IN
    /\ w.pc \in {"connect", "read", "write", "wrote"} =>
         Len(w.hashed) = Len(data[t])
    /\ w.pc = "publish" => w.seen = Reviewed
    /\ w.pc \in Locked =>
         data[t] = Reviewed /\ "model" \in names[t] /\ In(t, {"VERIFYING"})
    /\ w.pc = "unlinked" => names[t] = {"model"}

\* The journal never claims bytes the disk does not have: a checkpoint follows
\* the write, a truncation stops at the checkpoint, a cleanup forgets both.
JournalBehindDisk ==
  \A t \in Task : Exists(t) /\ HasFile(t) =>
    Len(journal[t].committed) <= Len(data[t])

\* A file vanishes only by a cleanup that left its intent in the journal, or
\* finished: recovery can tell a cleaned task from a damaged one.
RemovalKnown ==
  \A t \in Task : Exists(t) /\ ~HasFile(t) =>
    \/ In(t, Halted) /\ journal[t].pending
    \/ In(t, {"CLEANED"})

\* The inductive invariant behind the safety properties.
IInv ==
  /\ TypeOK /\ OneWriter /\ RunOwnsRow /\ RequestSteps /\ Layout
  /\ Hashes /\ JournalBehindDisk /\ RemovalKnown

\* The model's name, and the end of its download, mean the reviewed content.
Install == INSTANCE TransferInstall WITH
  Nothing <- None,
  verdict <- [t \in Task |-> IF In(t, {"COMPLETED"}) THEN "installed"
                             ELSE IF In(t, {"CLEANED"}) THEN "discarded" ELSE "open"],
  model <- [t \in Task |-> IF "model" \in names[t] THEN data[t] ELSE None]

\* The downloads implement TransferInstall: publication, failing publication,
\* its repetition by a resume, and deaths between its steps included.
InstallContract == Install!Spec

\* A cancellation that was accepted is never overtaken by the publication.
CancelWins ==
  [][\A t \in Task : In(t, {"CANCELLING"}) =>
       journal'[t].state \in {"CANCELLING", "CANCELLED", "INTERRUPTED"}]_vars

\* Only what a preview showed is deleted: a partial file leaves the directory
\* because the model has taken its place, or because a confirmed preview showed
\* this content, while nobody downloads into it.
RemovedAsShown ==
  [][\A t \in Task : "partial" \in names[t] \ names'[t] =>
       \/ "model" \in names[t]
       \/ /\ preview[t] # None /\ preview[t] = data[t]
          /\ In(t, Halted) /\ \A r \in Run : ~Working(t, r)]_vars

\* No download stays active without a worker, and no removal unacknowledged:
\* the next readers of the list settle what a death or a failing save left.
EventuallySettled ==
  \A t \in Task :
    /\ In(t, Active) ~> ~In(t, Active)
    /\ Exists(t) /\ ~HasFile(t) ~> In(t, {"CLEANED"})
=============================================================================

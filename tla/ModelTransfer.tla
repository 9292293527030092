---------------------------- MODULE ModelTransfer ----------------------------
(***************************************************************************)
(* Downloads of reviewed model files (app/model_center/transfers.py):      *)
(* one directory per task with a journal, a partial file and, once         *)
(* published, the model; one worker thread per container; pause, cancel,   *)
(* resume and cleanup by the user; recovery by whoever reads the list.     *)
(*                                                                         *)
(* The access lock (a process lock and a flock of the root) is held for    *)
(* one action, except by start, cleanup and publication: these change      *)
(* several names on disk and are cut where the process may die.  A hash is *)
(* the content it was taken of; the signature of a file changes with its   *)
(* content.  Of the version of a row only the use is kept: control and     *)
(* resume act on the row the user saw or are refused, and a preview of an  *)
(* older version is never confirmed.  Quotas, paths, identities and        *)
(* permissions are left out, a refused admission included: it changes      *)
(* nothing, or pauses.                                                     *)
(***************************************************************************)
EXTENDS Naturals, Sequences

CONSTANTS
  Task,         \* identifiers of tasks, one per start
  Source,       \* reviewed sources
  Size,         \* chunks of a model file
  MaxRuns,      \* bound on runs of a task: its start and its resumes
  MaxFaults,    \* bound on deaths, failing saves and foreign writes
  None

Chunk   == {"ok", "bad"}            \* "bad": not what the reviewed hash covers
Content == Seq(Chunk)
Reviewed == [i \in 1..Size |-> "ok"]

Active == {"TRANSFERRING", "PAUSING", "VERIFYING", "CANCELLING"}
Halted == {"PAUSED", "INTERRUPTED", "CANCELLED", "FAILED"}
State  == Active \cup Halted \cup {"COMPLETED", "CLEANED"}

Run == 1..MaxRuns

\* TransferRecord; committed stands for bytes_received and prefix_sha256.
Row == [source: Source, state: State, committed: Content, etag: BOOLEAN,
        run: Run, pending: BOOLEAN]

\* Where a worker is in _work; the last two hold the access lock.
Locked == {"linked", "unlinked"}
Pc == {"none", "open", "connect", "read", "write", "wrote", "verify", "hash",
       "judge", "publish", "end"} \cup Locked

\* hashed is the rolling hash, seen the signature taken before the second
\* reading, verdict the state _safe_finish is to write.
Worker == [pc: Pc, hashed: Content, seen: Content, verdict: Halted]

\* A request that holds the access lock and the lease across several steps.
Request == [op: {"mkdir", "create", "intent", "unlink"}, task: Task]

ASSUME TransferOK ==
  /\ Size \in Nat \ {0} /\ MaxRuns \in Nat \ {0} /\ MaxFaults \in Nat
  /\ None \notin Row \cup Request \cup (Task \X Run) \cup Content

VARIABLES
  dir,          \* tasks that have a directory
  journal,      \* journal.json of each task
  names,        \* which of partial.gguf and model.gguf exist, one inode
  data,         \* the content of that inode
  work,         \* the worker of each run
  lease,        \* the run that holds the container's lease across actions
  request,      \* start or cleanup between its steps
  preview,      \* the content a cleanup preview showed, while it is current
  closed,       \* close() was called in this process
  faults

disk   == <<dir, journal, names, data>>
threads == <<work, lease, request>>
memory == <<threads, preview, closed>>
vars   == <<disk, memory, faults>>

Idle == [pc |-> "none", hashed |-> <<>>, seen |-> <<>>, verdict |-> "FAILED"]

Init ==
  /\ dir = {}
  /\ journal = [t \in Task |-> None]
  /\ names = [t \in Task |-> {}]
  /\ data = [t \in Task |-> <<>>]
  /\ work = [t \in Task |-> [r \in Run |-> Idle]]
  /\ lease = None /\ request = None
  /\ preview = [t \in Task |-> None]
  /\ closed = FALSE /\ faults = 0

----------------------------------------------------------------------------
(* Locks, the journal and its readers. *)

\* TransferFiles.access: nobody is inside.
AccessFree ==
  request = None /\ \A t \in Task, r \in Run : work[t][r].pc \notin Locked

Fault == faults < MaxFaults /\ faults' = faults + 1

Exists(t) == journal[t] # None
In(t, states) == Exists(t) /\ journal[t].state \in states

\* The journal is replaced; with a new version, if its state changes.
Save(t, row) == journal' = [journal EXCEPT ![t] = row]
Turn(t, row) == Save(t, row) /\ preview' = [preview EXCEPT ![t] = None]
To(t, state) == [journal[t] EXCEPT !.state = state]

\* _binary opens the partial file or the model.
HasFile(t) == names[t] # {}

\* _all and _capacity: one unreadable task refuses every admission.
AllReadable ==
  \A t \in dir : Exists(t) /\ (journal[t].state = "CLEANED" \/ HasFile(t))

\* _public: can_resume.
CanResume(t) ==
  /\ In(t, {"PAUSED", "INTERRUPTED"})
  /\ Len(journal[t].committed) \in {0, Size} \/ journal[t].etag

----------------------------------------------------------------------------
(* start: directory, partial file, journal, thread. *)

\* No other task owns the source, unless it was cleaned.
Unowned(s) == \A u \in dir : Exists(u) /\ journal[u].state # "CLEANED" =>
                               journal[u].source # s

StartDirectory(t) ==
  /\ AccessFree /\ ~closed /\ lease = None /\ AllReadable
  /\ t \notin dir /\ \E s \in Source : Unowned(s)
  /\ dir' = dir \cup {t}
  /\ request' = [op |-> "mkdir", task |-> t]
  /\ UNCHANGED <<journal, names, data, work, lease, preview, closed, faults>>

StartPartial(t) ==
  /\ request = [op |-> "mkdir", task |-> t]
  /\ names' = [names EXCEPT ![t] = {"partial"}]
  /\ request' = [op |-> "create", task |-> t]
  /\ UNCHANGED <<dir, journal, data, work, lease, preview, closed, faults>>

NewRow(s) ==
  [source |-> s, state |-> "TRANSFERRING", committed |-> <<>>, etag |-> FALSE,
   run |-> 1, pending |-> FALSE]

\* Mutant: the request closes the lease it should hand over.
MutLaunch(t, r) ==
  /\ work' = [work EXCEPT ![t][r] = [Idle EXCEPT !.pc = "open"]]
  /\ lease' = None

Launch(t, r) ==
  /\ work' = [work EXCEPT ![t][r] = [Idle EXCEPT !.pc = "open"]]
  /\ lease' = <<t, r>>

StartJournal(t, s) ==
  /\ request = [op |-> "create", task |-> t]
  /\ Unowned(s)
  /\ Save(t, NewRow(s)) /\ Launch(t, 1)
  /\ request' = None
  /\ UNCHANGED <<dir, names, data, preview, closed, faults>>

\* The host's authority is gone after the journal was written.
StartRefused(t, s) ==
  /\ request = [op |-> "create", task |-> t]
  /\ Unowned(s)
  /\ Save(t, [NewRow(s) EXCEPT !.state = "INTERRUPTED"])
  /\ request' = None
  /\ UNCHANGED <<dir, names, data, work, lease, preview, closed, faults>>

\* An exception before the journal, or after it without a thread.
StartFault(t) ==
  /\ Fault /\ request # None /\ request.task = t
  /\ \/ request.op \in {"mkdir", "create"} /\ UNCHANGED journal
     \/ /\ request.op = "create"
        /\ \E s \in Source : Unowned(s) /\ Save(t, NewRow(s))
  /\ request' = None
  /\ UNCHANGED <<dir, names, data, work, lease, preview, closed>>

----------------------------------------------------------------------------
(* The user: control, resume. *)

Pause(t) ==
  /\ AccessFree /\ In(t, {"TRANSFERRING"})
  /\ Turn(t, To(t, "PAUSING"))
  /\ UNCHANGED <<dir, names, data, threads, closed, faults>>

Cancel(t) ==
  /\ AccessFree
  /\ \/ In(t, Active) /\ Turn(t, To(t, "CANCELLING"))
     \/ In(t, {"PAUSED", "INTERRUPTED", "FAILED"}) /\ Turn(t, To(t, "CANCELLED"))
  /\ UNCHANGED <<dir, names, data, threads, closed, faults>>

ResumeRow(t) ==
  [To(t, "TRANSFERRING") EXCEPT !.run = journal[t].run + 1]

MayResume(t) ==
  /\ AccessFree /\ ~closed /\ lease = None /\ AllReadable
  /\ CanResume(t) /\ journal[t].run < MaxRuns

Resume(t) ==
  /\ MayResume(t)
  /\ Turn(t, ResumeRow(t)) /\ Launch(t, journal[t].run + 1)
  /\ UNCHANGED <<dir, names, data, request, closed, faults>>

\* The row is saved, the thread does not start.
ResumeFault(t) ==
  /\ Fault /\ MayResume(t)
  /\ Turn(t, ResumeRow(t))
  /\ UNCHANGED <<dir, names, data, threads, closed>>

----------------------------------------------------------------------------
(* The worker thread of run r. *)

At(t, r, pc) == work[t][r].pc = pc
Become(t, r, w) == work' = [work EXCEPT ![t][r] = w]
Move(t, r, pc) == Become(t, r, [work[t][r] EXCEPT !.pc = pc])
Leave(t, r, v) == Become(t, r, [Idle EXCEPT !.pc = "end", !.verdict = v])

Mine(t, r) == journal[t].run = r

\* _check passes.
Checked(t, r) ==
  ~closed /\ Mine(t, r) /\ journal[t].state \in {"TRANSFERRING", "VERIFYING"}

\* _check raises _Stop with this state.
StopState(t, r) ==
  IF closed \/ ~Mine(t, r) THEN "INTERRUPTED"
  ELSE IF journal[t].state = "CANCELLING" THEN "CANCELLED"
  ELSE IF journal[t].state = "PAUSING" THEN "PAUSED"
  ELSE "INTERRUPTED"

Checking == {"open", "connect", "read", "hash", "judge"}

StopSeen(t, r) ==
  /\ AccessFree /\ work[t][r].pc \in Checking /\ ~Checked(t, r)
  /\ Leave(t, r, StopState(t, r))
  /\ UNCHANGED <<disk, lease, request, preview, closed, faults>>

\* Authority, network or space are gone (PAUSED), a source that sends too much
\* or too little, a wrong header, an I/O error (FAILED): a step of the worker
\* raises.  In the publication this gives the access lock back.
WorkRaises(t, r) ==
  /\ work[t][r].pc \notin {"none", "end"}
  /\ work[t][r].pc \in Locked \/ AccessFree
  /\ \E v \in {"PAUSED", "FAILED"} : Leave(t, r, v)
  /\ UNCHANGED <<disk, lease, request, preview, closed, faults>>

Begins(p, s) == Len(p) <= Len(s) /\ \A i \in 1..Len(p) : p[i] = s[i]

\* Hash the committed prefix again and cut off what was never committed; a
\* published model is never cut.
Reopen(t, r) ==
  LET committed == journal[t].committed
      whole == Len(committed) = Size
  IN
  /\ AccessFree /\ At(t, r, "open") /\ Checked(t, r) /\ HasFile(t)
  /\ \/ /\ Begins(committed, data[t])
        /\ data[t] = committed \/ "model" \notin names[t]
        /\ data' = [data EXCEPT ![t] = committed]
        /\ IF whole THEN Move(t, r, "verify")
           ELSE Become(t, r, [Idle EXCEPT !.pc = "connect", !.hashed = committed])
     \/ /\ ~Begins(committed, data[t])
        /\ UNCHANGED data /\ Leave(t, r, "FAILED")
  /\ UNCHANGED <<dir, journal, names, lease, request, preview, closed, faults>>

\* A journal save of the worker: refused if another run owns the row.
Checkpoint(t, r, row, next) ==
  /\ IF Mine(t, r)
     THEN /\ Save(t, row)
          /\ IF next = "read" THEN Move(t, r, next)
             ELSE Become(t, r, [Idle EXCEPT !.pc = next])
     ELSE UNCHANGED journal /\ Leave(t, r, "INTERRUPTED")
  /\ UNCHANGED <<dir, names, data, lease, request, preview, closed, faults>>

Connect(t, r) ==
  /\ AccessFree /\ At(t, r, "connect")
  /\ \E e \in {journal[t].etag, TRUE} :
       Checkpoint(t, r, [journal[t] EXCEPT !.etag = e], "read")

\* The last check before the write; the answer may have been long in coming.
Admit(t, r) ==
  /\ AccessFree /\ At(t, r, "read") /\ Checked(t, r)
  /\ Move(t, r, "write")
  /\ UNCHANGED <<disk, lease, request, preview, closed, faults>>

\* Mutant: the chunk is still in a buffer when it is committed.
MutAppended(t, r, c) ==
  /\ Become(t, r, [work[t][r] EXCEPT !.pc = "wrote",
                     !.hashed = Append(work[t][r].hashed, c)])
  /\ UNCHANGED data

Appended(t, r, c) ==
  /\ data' = [data EXCEPT ![t] = Append(data[t], c)]
  /\ Become(t, r, [work[t][r] EXCEPT !.pc = "wrote",
                     !.hashed = Append(work[t][r].hashed, c)])

WriteChunk(t, r) ==
  /\ At(t, r, "write")
  /\ Appended(t, r, "ok")
  /\ UNCHANGED <<dir, journal, names, lease, request, preview, closed, faults>>

\* The source sends something else than what was reviewed.
WriteForeignChunk(t, r) ==
  /\ Fault /\ At(t, r, "write")
  /\ Appended(t, r, "bad")
  /\ UNCHANGED <<dir, journal, names, lease, request, preview, closed>>

\* The write or its fsync fails; some of the bytes may be there.
WriteRaises(t, r) ==
  /\ At(t, r, "write")
  /\ data' = [data EXCEPT ![t] = Append(data[t], "ok")]
  /\ \E v \in {"PAUSED", "FAILED"} : Leave(t, r, v)
  /\ UNCHANGED <<dir, journal, names, lease, request, preview, closed, faults>>

\* Whatever control asked for meanwhile, the bytes are on disk.
CommitChunk(t, r) ==
  /\ AccessFree /\ At(t, r, "wrote")
  /\ Checkpoint(t, r, [journal[t] EXCEPT !.committed = work[t][r].hashed],
                IF Len(work[t][r].hashed) = Size THEN "verify" ELSE "read")

BeginVerify(t, r) ==
  /\ AccessFree /\ At(t, r, "verify")
  /\ Checkpoint(t, r,
       IF journal[t].state = "TRANSFERRING" THEN To(t, "VERIFYING") ELSE journal[t],
       "hash")

TakeSignature(t, r) ==
  /\ AccessFree /\ At(t, r, "hash") /\ Checked(t, r)
  /\ Become(t, r, [work[t][r] EXCEPT !.pc = "judge", !.seen = data[t]])
  /\ UNCHANGED <<disk, lease, request, preview, closed, faults>>

\* Mutant: promotes the rolling hash.
MutVerify(t, r) ==
  /\ AccessFree /\ At(t, r, "judge") /\ Checked(t, r)
  /\ IF journal[t].committed = Reviewed
     THEN Move(t, r, "publish")
     ELSE Leave(t, r, "FAILED")
  /\ UNCHANGED <<disk, lease, request, preview, closed, faults>>

\* The file was read once more, and did not change meanwhile.
Verify(t, r) ==
  /\ AccessFree /\ At(t, r, "judge") /\ Checked(t, r)
  /\ IF data[t] = Reviewed /\ work[t][r].seen = data[t]
     THEN Move(t, r, "publish")
     ELSE Leave(t, r, "FAILED")
  /\ UNCHANGED <<disk, lease, request, preview, closed, faults>>

\* Mutant: control is not read again.
MutMayPublish(t, r) == Mine(t, r)

MayPublish(t, r) == Mine(t, r) /\ journal[t].state = "VERIFYING"

Publish(t, r) ==
  /\ AccessFree /\ At(t, r, "publish") /\ HasFile(t)
  /\ IF ~MayPublish(t, r)
     THEN /\ Leave(t, r, IF journal[t].state = "CANCELLING" THEN "CANCELLED"
                                                             ELSE "PAUSED")
          /\ UNCHANGED names
     ELSE IF data[t] # work[t][r].seen
     THEN Leave(t, r, "FAILED") /\ UNCHANGED names
     ELSE /\ names' = [names EXCEPT ![t] = names[t] \cup {"model"}]
          /\ Move(t, r, "linked")
  /\ UNCHANGED <<dir, journal, data, lease, request, preview, closed, faults>>

UnlinkPartial(t, r) ==
  /\ At(t, r, "linked")
  /\ names' = [names EXCEPT ![t] = names[t] \ {"partial"}]
  /\ Move(t, r, "unlinked")
  /\ UNCHANGED <<dir, journal, data, lease, request, preview, closed, faults>>

\* The end of a thread gives the lease back.
Gone(t, r) == Become(t, r, Idle) /\ lease' = None

Complete(t, r) ==
  /\ At(t, r, "unlinked")
  /\ Turn(t, To(t, "COMPLETED")) /\ Gone(t, r)
  /\ UNCHANGED <<dir, names, data, request, closed, faults>>

\* The journal is replaced, the fsync of its directory raises.
CompleteFault(t, r) ==
  /\ Fault /\ At(t, r, "unlinked")
  /\ Turn(t, To(t, "COMPLETED")) /\ Leave(t, r, "FAILED")
  /\ UNCHANGED <<dir, names, data, lease, request, closed>>

\* _finish: a request of the user that nobody saw yet wins over the verdict.
FinalState(t, v) ==
  IF journal[t].state = "CANCELLING" THEN "CANCELLED"
  ELSE IF journal[t].state = "PAUSING" THEN "PAUSED" ELSE v

Finish(t, r) ==
  /\ AccessFree /\ At(t, r, "end")
  /\ IF Mine(t, r) /\ journal[t].state \notin {"COMPLETED", "CLEANED"}
     THEN Turn(t, To(t, FinalState(t, work[t][r].verdict)))
     ELSE UNCHANGED <<journal, preview>>
  /\ Gone(t, r)
  /\ UNCHANGED <<dir, names, data, request, closed, faults>>

\* _safe_finish swallows a failing save.
FinishFault(t, r) ==
  /\ Fault /\ AccessFree /\ At(t, r, "end")
  /\ Gone(t, r)
  /\ UNCHANGED <<disk, request, preview, closed>>

Work(t, r) ==
  \/ StopSeen(t, r) \/ Reopen(t, r) \/ Connect(t, r) \/ Admit(t, r)
  \/ WriteChunk(t, r) \/ CommitChunk(t, r) \/ BeginVerify(t, r)
  \/ TakeSignature(t, r) \/ Verify(t, r) \/ Publish(t, r)
  \/ UnlinkPartial(t, r) \/ Complete(t, r) \/ Finish(t, r)

----------------------------------------------------------------------------
(* cleanup_preview and cleanup: intent, unlink, acknowledgement. *)

CleanupPreview(t) ==
  /\ AccessFree /\ In(t, Halted) /\ names[t] = {"partial"}
  /\ preview' = [preview EXCEPT ![t] = data[t]]
  /\ UNCHANGED <<disk, work, lease, request, closed, faults>>

\* A current preview, which shows the number of bytes as it is.
Confirmed(t) == preview[t] # None /\ Len(preview[t]) = Len(data[t])

\* Mutant: no intent.
MutIntentRow(t) == journal[t]

\* Deletion intent, which survives a death before the acknowledgement.
IntentRow(t) == [journal[t] EXCEPT !.pending = TRUE]

CleanupIntent(t) ==
  /\ AccessFree /\ lease = None
  /\ In(t, Halted) /\ names[t] = {"partial"} /\ Confirmed(t)
  /\ Save(t, IntentRow(t))
  /\ request' = [op |-> "intent", task |-> t]
  /\ UNCHANGED <<dir, names, data, work, lease, preview, closed, faults>>

\* Mutant: does not compare the signatures.
MutCleanupUnlink(t) ==
  /\ request = [op |-> "intent", task |-> t]
  /\ names' = [names EXCEPT ![t] = {}]
  /\ data' = [data EXCEPT ![t] = <<>>]
  /\ request' = [op |-> "unlink", task |-> t]
  /\ UNCHANGED <<dir, journal, work, lease, preview, closed, faults>>

\* unlink_owned compares the signature of the preview with the file.
CleanupUnlink(t) ==
  /\ request = [op |-> "intent", task |-> t]
  /\ IF preview[t] = data[t]
     THEN /\ names' = [names EXCEPT ![t] = {}]
          /\ data' = [data EXCEPT ![t] = <<>>]
          /\ request' = [op |-> "unlink", task |-> t]
     ELSE UNCHANGED <<names, data>> /\ request' = None
  /\ UNCHANGED <<dir, journal, work, lease, preview, closed, faults>>

CleanedRow(t) ==
  [To(t, "CLEANED") EXCEPT !.committed = <<>>, !.pending = FALSE]

CleanupDone(t) ==
  /\ request = [op |-> "unlink", task |-> t]
  /\ Turn(t, CleanedRow(t))
  /\ request' = None
  /\ UNCHANGED <<dir, names, data, work, lease, closed, faults>>

\* Authority gone or an I/O error between the steps.
CleanupRaises(t) ==
  /\ Fault /\ request \in [op: {"intent", "unlink"}, task: {t}]
  /\ request' = None
  /\ UNCHANGED <<disk, work, lease, preview, closed>>

----------------------------------------------------------------------------
(* snapshot: while no worker owns the container, reconcile what died. *)

Acknowledge(t) ==
  /\ AccessFree /\ lease = None
  /\ Exists(t) /\ journal[t].pending /\ names[t] = {}
  /\ Turn(t, CleanedRow(t))
  /\ UNCHANGED <<dir, names, data, threads, closed, faults>>

\* Mutant: reconciles without the lease.
MutInterrupt(t) ==
  /\ AccessFree /\ In(t, Active)
  /\ Turn(t, To(t, "INTERRUPTED"))
  /\ UNCHANGED <<dir, names, data, threads, closed, faults>>

\* Mutant: forgets the requests of the user.
MutInterruptNarrow(t) ==
  /\ AccessFree /\ lease = None /\ In(t, {"TRANSFERRING", "VERIFYING"})
  /\ Turn(t, To(t, "INTERRUPTED"))
  /\ UNCHANGED <<dir, names, data, threads, closed, faults>>

Interrupt(t) ==
  /\ AccessFree /\ lease = None /\ In(t, Active)
  /\ Turn(t, To(t, "INTERRUPTED"))
  /\ UNCHANGED <<dir, names, data, threads, closed, faults>>

----------------------------------------------------------------------------
(* The process, and the disk. *)

Close ==
  /\ ~closed /\ closed' = TRUE
  /\ UNCHANGED <<disk, work, lease, request, preview, faults>>

\* The process ends, orderly after close() or not, and starts again: threads,
\* locks and previews are gone, whatever is on disk stays.
Restart ==
  /\ IF closed THEN UNCHANGED faults ELSE Fault
  /\ work' = [t \in Task |-> [r \in Run |-> Idle]]
  /\ lease' = None /\ request' = None /\ closed' = FALSE
  /\ preview' = [t \in Task |-> None]
  /\ UNCHANGED disk

\* Pages of an unfinished download change outside of this program.
Spoil(t) ==
  /\ Fault /\ AccessFree /\ HasFile(t) /\ ~In(t, {"COMPLETED"})
  /\ \E i \in DOMAIN data[t] :
       data[t][i] = "ok" /\ data' = [data EXCEPT ![t][i] = "bad"]
  /\ UNCHANGED <<dir, journal, names, memory>>

----------------------------------------------------------------------------

Starting(t) ==
  StartPartial(t) \/ \E s \in Source : StartJournal(t, s) \/ StartRefused(t, s)
Cleaning(t) == CleanupUnlink(t) \/ CleanupDone(t)
Recover(t)  == Acknowledge(t) \/ Interrupt(t)

Next ==
  \/ \E t \in Task :
       \/ StartDirectory(t) \/ Starting(t) \/ StartFault(t)
       \/ Pause(t) \/ Cancel(t) \/ Resume(t) \/ ResumeFault(t)
       \/ CleanupPreview(t) \/ CleanupIntent(t) \/ Cleaning(t) \/ CleanupRaises(t)
       \/ Recover(t) \/ Spoil(t)
       \/ \E r \in Run : \/ Work(t, r) \/ WorkRaises(t, r) \/ WriteRaises(t, r)
                         \/ WriteForeignChunk(t, r)
                         \/ CompleteFault(t, r) \/ FinishFault(t, r)
  \/ Close \/ Restart

Spec == Init /\ [][Next]_vars

\* Entered code runs on: the transport bounds its waits.  The list of
\* downloads is read now and then.
FairSpec ==
  /\ Spec
  /\ \A t \in Task :
       /\ WF_vars(Starting(t)) /\ WF_vars(Cleaning(t)) /\ SF_vars(Recover(t))
       /\ \A r \in Run : WF_vars(Work(t, r))
=============================================================================

-------------------------- MODULE ModelTransferProofs --------------------------
(***************************************************************************)
(* The downloads keep their invariant, implement TransferInstall, and let  *)
(* cancellations win.                                                      *)
(***************************************************************************)
EXTENDS ModelTransferProps, SequenceTheorems, TLAPS

----------------------------------------------------------------------------
(* The invariant, one task at a time. *)

\* What is on disk for a task.
DiskOK(t) ==
  /\ Exists(t) => t \in dir
  /\ ~Exists(t) => names[t] \subseteq {"partial"} /\ data[t] = <<>>
  /\ t \notin dir => names[t] = {}
  /\ In(t, {"COMPLETED"}) => names[t] = {"model"} /\ data[t] = Reviewed
  /\ In(t, {"CLEANED"}) => names[t] = {}
  /\ Exists(t) /\ HasFile(t) => Len(journal[t].committed) <= Len(data[t])
  /\ Exists(t) /\ ~HasFile(t) =>
       \/ In(t, Halted) /\ journal[t].pending
       \/ In(t, {"CLEANED"})

\* What a worker relies on.
WorkerOK(t, r) ==
  LET w == work[t][r] IN
  /\ Working(t, r) =>
       /\ Exists(t) /\ journal[t].run = r /\ HasFile(t)
       /\ In(t, Active) \/ (w.pc = "end" /\ In(t, {"COMPLETED"}))
  /\ w.pc \in {"connect", "read", "write", "wrote"} => Len(w.hashed) = Len(data[t])
  /\ w.pc = "publish" => w.seen = Reviewed
  /\ w.pc \in Locked =>
       data[t] = Reviewed /\ "model" \in names[t] /\ In(t, {"VERIFYING"})
  /\ w.pc = "unlinked" => names[t] = {"model"}

\* What a start or a cleanup relies on.
RequestOK(t) ==
  request # None /\ request.task = t =>
    /\ lease = None /\ t \in dir
    /\ request.op \in {"mkdir", "create"} => ~Exists(t)
    /\ request.op \in {"intent", "unlink"} => In(t, Halted) /\ journal[t].pending
    /\ request.op = "intent" => names[t] = {"partial"} /\ preview[t] # None
    /\ request.op \in {"mkdir", "unlink"} => names[t] = {}
    /\ request.op = "create" => names[t] = {"partial"}

TaskOK(t) == DiskOK(t) /\ RequestOK(t) /\ \A r \in Run : WorkerOK(t, r)

LEMMA TaskHolds == ASSUME IInv, NEW t \in Task PROVE TaskOK(t)
BY DEF IInv, RunOwnsRow, RequestSteps, Layout, Hashes, JournalBehindDisk, RemovalKnown,
  TaskOK, DiskOK, WorkerOK, RequestOK

LEMMA TasksCollect ==
  ASSUME TypeOK', OneWriter', \A t \in Task : TaskOK(t)'
  PROVE  IInv'
BY DEF IInv, RunOwnsRow, RequestSteps, Layout, Hashes, JournalBehindDisk, RemovalKnown,
  TaskOK, DiskOK, WorkerOK, RequestOK

\* Nothing of the other tasks changes.
Frame(t) ==
  /\ \A u \in Task \ {t} :
       /\ journal'[u] = journal[u] /\ names'[u] = names[u] /\ data'[u] = data[u]
       /\ work'[u] = work[u] /\ (u \in dir' <=> u \in dir)
  /\ request' = None \/ request'.task = t

LEMMA OthersStay ==
  ASSUME IInv, NEW t \in Task, Frame(t), NEW u \in Task \ {t}
  PROVE  TaskOK(u)'
<1>1. TaskOK(u)
  BY TaskHolds
<1>2. DiskOK(u)'
  BY <1>1 DEF TaskOK, DiskOK, Frame, Exists, In, HasFile
<1>3. RequestOK(u)'
  BY DEF RequestOK, Frame
<1>4. \A r \in Run : WorkerOK(u, r)'
  BY <1>1 DEF TaskOK, WorkerOK, Frame, Exists, In, HasFile, Working
<1> QED
  BY <1>2, <1>3, <1>4 DEF TaskOK

----------------------------------------------------------------------------
(* What the contract and the action properties see. *)

VerdictOf(t) ==
  IF In(t, {"COMPLETED"}) THEN "installed"
  ELSE IF In(t, {"CLEANED"}) THEN "discarded" ELSE "open"
ModelOf(t) == IF "model" \in names[t] THEN data[t] ELSE None

VerdictBar == [t \in Task |-> VerdictOf(t)]
ModelBar == [t \in Task |-> ModelOf(t)]
Mapped == [Install!Next]_(Install!vars)

\* A task's part of a step that the contract allows.
Shown(t) ==
  \/ VerdictOf(t)' = VerdictOf(t) /\ (VerdictOf(t) = "open" \/ ModelOf(t)' = ModelOf(t))
  \/ /\ VerdictOf(t) = "open" /\ VerdictOf(t)' = "installed"
     /\ ModelOf(t) = Reviewed /\ ModelOf(t)' = ModelOf(t)
  \/ /\ VerdictOf(t) = "open" /\ VerdictOf(t)' = "discarded"
     /\ ModelOf(t) = None /\ ModelOf(t)' = ModelOf(t)

\* CancelWins and RemovedAsShown for a task.
CancelKept(t) ==
  In(t, {"CANCELLING"}) => journal'[t].state \in {"CANCELLING", "CANCELLED", "INTERRUPTED"}

RemovalShown(t) ==
  "partial" \in names[t] \ names'[t] =>
    \/ "model" \in names[t]
    \/ /\ preview[t] # None /\ preview[t] = data[t]
       /\ In(t, Halted) /\ \A r \in Run : ~Working(t, r)

Keeps ==
  IInv' /\ Mapped /\ \A t \in Task : CancelKept(t) /\ RemovalShown(t)

LEMMA ShownMaps ==
  ASSUME TypeOK', NEW t \in Task, Frame(t), Shown(t)
  PROVE  Mapped
<1>1. \A u \in Task \ {t} : VerdictOf(u)' = VerdictOf(u) /\ ModelOf(u)' = ModelOf(u)
  BY DEF Frame, VerdictOf, ModelOf, In, Exists
<1>2. /\ VerdictBar' = [VerdictBar EXCEPT ![t] = VerdictOf(t)'] /\ VerdictBar[t] = VerdictOf(t)
      /\ ModelBar' = [ModelBar EXCEPT ![t] = ModelOf(t)'] /\ ModelBar[t] = ModelOf(t)
      /\ ModelBar'[t] = ModelOf(t)'
  BY <1>1 DEF VerdictBar, ModelBar
<1>3. ModelOf(t)' \in Content \/ ModelOf(t)' = None
  BY DEF TypeOK, ModelOf
<1>4. CASE VerdictOf(t)' = VerdictOf(t) /\ ModelOf(t)' = ModelOf(t)
  <2>1. VerdictBar' = VerdictBar /\ ModelBar' = ModelBar
    BY <1>1, <1>4 DEF VerdictBar, ModelBar
  <2> QED
    BY <2>1 DEF Mapped, Install!vars, VerdictBar, ModelBar, VerdictOf, ModelOf
<1>5. CASE VerdictOf(t)' = VerdictOf(t) /\ VerdictOf(t) = "open"
  <2>1. VerdictBar' = VerdictBar
    BY <1>1, <1>5 DEF VerdictBar
  <2>2. Install!Change(t)
    BY <1>2, <1>3, <1>5, <2>1 DEF Install!Change, VerdictBar, ModelBar, VerdictOf, ModelOf
  <2> QED
    BY <2>2 DEF Mapped, Install!Next
<1>6. ASSUME ModelOf(t)' = ModelOf(t) PROVE ModelBar' = ModelBar
  BY <1>1, <1>6 DEF ModelBar
<1>7. CASE VerdictOf(t) = "open" /\ VerdictOf(t)' = "installed"
            /\ ModelOf(t) = Reviewed /\ ModelOf(t)' = ModelOf(t)
  <2>1. Install!Install(t)
    BY <1>2, <1>6, <1>7 DEF Install!Install, VerdictBar, ModelBar, VerdictOf, ModelOf
  <2> QED
    BY <2>1 DEF Mapped, Install!Next
<1>8. CASE VerdictOf(t) = "open" /\ VerdictOf(t)' = "discarded"
            /\ ModelOf(t) = None /\ ModelOf(t)' = ModelOf(t)
  <2>1. Install!Discard(t)
    BY <1>2, <1>6, <1>8 DEF Install!Discard, VerdictBar, ModelBar, VerdictOf, ModelOf
  <2> QED
    BY <2>1 DEF Mapped, Install!Next
<1> QED
  BY <1>4, <1>5, <1>7, <1>8 DEF Shown

\* A step of one task, from its own part.
LEMMA TaskStep ==
  ASSUME IInv, NEW t \in Task, TypeOK', OneWriter', Frame(t), TaskOK(t)',
         Shown(t), CancelKept(t), RemovalShown(t)
  PROVE  Keeps
<1>1. IInv'
  BY OthersStay, TasksCollect
<1>2. \A u \in Task \ {t} : CancelKept(u) /\ RemovalShown(u)
  BY DEF Frame, CancelKept, RemovalShown, In, Exists
<1> QED
  BY <1>1, <1>2, ShownMaps DEF Keeps

----------------------------------------------------------------------------
(* Workers. *)

LEMMA WorkerTyped ==
  /\ Idle \in Worker
  /\ \A w \in Worker, pc \in Pc : [w EXCEPT !.pc = pc] \in Worker
  /\ \A v \in Halted : [Idle EXCEPT !.pc = "end", !.verdict = v] \in Worker
<1>1. <<>> \in Content /\ {"none", "end"} \subseteq Pc /\ "FAILED" \in Halted
  BY DEF Content, Pc, Halted
<1>2. Idle \in Worker
  BY <1>1 DEF Idle, Worker
<1>3. \A w \in Worker, pc \in Pc : [w EXCEPT !.pc = pc] \in Worker
  BY DEF Worker
<1>4. ASSUME NEW v \in Halted PROVE [Idle EXCEPT !.pc = "end", !.verdict = v] \in Worker
  BY <1>1, <1>2 DEF Idle, Worker
<1> QED
  BY <1>2, <1>3, <1>4

\* The worker and its task.
LEMMA Owner ==
  ASSUME IInv, NEW t \in Task, NEW r \in Run, Working(t, r)
  PROVE  /\ lease = <<t, r>> /\ lease # None /\ request = None /\ t \in dir
         /\ Exists(t) /\ journal[t] \in Row /\ journal[t].run = r /\ Mine(t, r)
         /\ HasFile(t) /\ names[t] \in SUBSET {"partial", "model"} /\ data[t] \in Content
         /\ work[t][r] \in Worker
         /\ Len(journal[t].committed) <= Len(data[t])
         /\ work[t][r].pc # "end" => In(t, Active)
         /\ In(t, Active) \/ (work[t][r].pc = "end" /\ In(t, {"COMPLETED"}))
         /\ WorkerOK(t, r)
         /\ \A u \in Task, q \in Run : Working(u, q) => u = t /\ q = r
<1>1. TaskOK(t)
  BY TaskHolds
<1>2. lease = <<t, r>> /\ \A u \in Task, q \in Run : Working(u, q) => lease = <<u, q>>
  BY DEF IInv, OneWriter
<1>3. lease # None
  BY <1>2, TransferOK
<1>4. request = None
  <2>1. request # None => request.task \in Task
    BY DEF IInv, TypeOK, Request
  <2> QED
    BY <1>3, <2>1, TaskHolds DEF TaskOK, RequestOK
<1>5. /\ Exists(t) /\ journal[t].run = r /\ HasFile(t) /\ WorkerOK(t, r)
      /\ In(t, Active) \/ (work[t][r].pc = "end" /\ In(t, {"COMPLETED"}))
  BY <1>1 DEF TaskOK, WorkerOK
<1>6. t \in dir /\ Len(journal[t].committed) <= Len(data[t])
  BY <1>1, <1>5 DEF TaskOK, DiskOK
<1>7. /\ journal[t] \in Row /\ names[t] \in SUBSET {"partial", "model"}
      /\ data[t] \in Content /\ work[t][r] \in Worker
  BY <1>5 DEF IInv, TypeOK, Exists
<1> QED
  BY <1>2, <1>3, <1>4, <1>5, <1>6, <1>7 DEF Mine

LEMMA BecomeTyped ==
  ASSUME IInv, NEW t \in Task, NEW r \in Run, NEW w \in Worker, Become(t, r, w)
  PROVE  /\ work' \in [Task -> [Run -> Worker]] /\ work'[t][r] = w
         /\ \A q \in Run \ {r} : work'[t][q] = work[t][q]
         /\ \A u \in Task \ {t} : work'[u] = work[u]
BY DEF Become, IInv, TypeOK

\* One worker stays the only one.
LEMMA WriterStays ==
  ASSUME IInv, NEW t \in Task, NEW r \in Run, Working(t, r), NEW w \in Worker,
         w.pc # "none", Become(t, r, w), lease' = lease
  PROVE  OneWriter'
BY Owner, BecomeTyped DEF OneWriter, Working, IInv

\* A step of a worker in an active task.
LEMMA WorkKeeps ==
  ASSUME IInv, NEW t \in Task, NEW r \in Run, Working(t, r), In(t, Active),
         NEW w \in Worker, w.pc # "none", Become(t, r, w),
         TypeOK', Frame(t), UNCHANGED <<dir, lease, request>>,
         Exists(t)', journal'[t].run = r, journal'[t].state \in Active,
         In(t, {"CANCELLING"}) => journal'[t].state = "CANCELLING",
         HasFile(t)', "partial" \in names[t] \ names'[t] => "model" \in names[t],
         Len(journal'[t].committed) <= Len(data'[t]),
         w.pc \in {"connect", "read", "write", "wrote"} => Len(w.hashed) = Len(data'[t]),
         w.pc = "publish" => w.seen = Reviewed,
         w.pc \in Locked =>
           data'[t] = Reviewed /\ "model" \in names'[t] /\ journal'[t].state = "VERIFYING",
         w.pc = "unlinked" => names'[t] = {"model"}
  PROVE  Keeps
<1>1. request = None /\ t \in dir /\ \A q \in Run : Working(t, q) => q = r
  BY Owner
<1>2. /\ work'[t][r] = w /\ \A q \in Run \ {r} : work'[t][q] = work[t][q]
      /\ \A q \in Run \ {r} : work[t][q].pc = "none"
  BY <1>1, BecomeTyped DEF Working
<1>3. Active \cap {"COMPLETED", "CLEANED"} = {}
  BY DEF Active
<1>4. ~In(t, {"COMPLETED"})' /\ ~In(t, {"CLEANED"})' /\ In(t, Active)'
  BY <1>3 DEF In
<1>5. DiskOK(t)'
  BY <1>1, <1>4 DEF DiskOK
<1>6. WorkerOK(t, r)'
  BY <1>2, <1>4 DEF WorkerOK, In
<1>7. \A q \in Run \ {r} : WorkerOK(t, q)'
  BY <1>2 DEF WorkerOK, Working, Locked
<1>8. TaskOK(t)'
  BY <1>1, <1>5, <1>6, <1>7 DEF TaskOK, RequestOK
<1>9. VerdictOf(t) = "open" /\ VerdictOf(t)' = "open"
  BY <1>3, <1>4 DEF VerdictOf, In
<1>10. CancelKept(t) /\ RemovalShown(t)
  BY DEF CancelKept, RemovalShown
<1>11. OneWriter'
  BY WriterStays
<1> QED
  BY <1>8, <1>9, <1>10, <1>11, TaskStep DEF Shown

\* A worker moves on and the disk is as it was.
LEMMA MoveKeeps ==
  ASSUME IInv, NEW t \in Task, NEW r \in Run, Working(t, r), In(t, Active),
         NEW w \in Worker, w.pc # "none", Become(t, r, w),
         UNCHANGED <<disk, lease, request, preview, closed>>, faults' \in Nat,
         w.pc \in {"connect", "read", "write", "wrote"} => Len(w.hashed) = Len(data[t]),
         w.pc = "publish" => w.seen = Reviewed,
         w.pc \notin Locked
  PROVE  Keeps
<1>1. UNCHANGED <<dir, journal, names, data>>
  BY DEF disk
<1>2. TypeOK'
  BY <1>1, BecomeTyped DEF IInv, TypeOK
<1>3. Frame(t)
  BY <1>1, Owner, BecomeTyped DEF Frame
<1>4. /\ Exists(t)' /\ journal'[t].run = r /\ journal'[t].state \in Active /\ HasFile(t)'
      /\ Len(journal'[t].committed) <= Len(data'[t])
      /\ In(t, {"CANCELLING"}) => journal'[t].state = "CANCELLING"
      /\ "partial" \notin names[t] \ names'[t]
  BY <1>1, Owner DEF In, Exists, HasFile
<1> QED
  BY <1>1, <1>2, <1>3, <1>4, WorkKeeps DEF Locked

LEMMA LeaveKeeps ==
  ASSUME IInv, NEW t \in Task, NEW r \in Run, work[t][r].pc \notin {"none", "end"},
         NEW v \in Halted, Leave(t, r, v),
         UNCHANGED <<disk, lease, request, preview, closed>>, faults' \in Nat
  PROVE  Keeps
<1> DEFINE w == [Idle EXCEPT !.pc = "end", !.verdict = v]
<1>1. w \in Worker /\ w.pc = "end"
  BY WorkerTyped DEF Idle
<1>2. Working(t, r) /\ In(t, Active)
  BY Owner DEF Working
<1>3. Become(t, r, w)
  BY DEF Leave
<1> HIDE DEF w
<1> QED
  BY <1>1, <1>2, <1>3, MoveKeeps DEF Locked

\* A checkpoint of a worker.
LEMMA CheckpointKeeps ==
  ASSUME IInv, NEW t \in Task, NEW r \in Run, Working(t, r), In(t, Active),
         NEW row \in Row, row.run = r, row.state \in Active,
         In(t, {"CANCELLING"}) => row.state = "CANCELLING",
         Len(row.committed) <= Len(data[t]),
         NEW next \in {"read", "verify", "hash"},
         next = "read" => Len(work[t][r].hashed) = Len(data[t]),
         Checkpoint(t, r, row, next)
  PROVE  Keeps
<1>1. /\ Mine(t, r) /\ Exists(t) /\ work[t][r] \in Worker /\ HasFile(t) /\ request = None
      /\ \A q \in Run : Working(t, q) => q = r
  BY Owner
<1>2. /\ journal' = [journal EXCEPT ![t] = row]
      /\ UNCHANGED <<dir, names, data, lease, request, preview, closed, faults>>
  BY <1>1 DEF Checkpoint, Save
<1>3. IF next = "read" THEN Move(t, r, next) ELSE Become(t, r, [Idle EXCEPT !.pc = next])
  BY <1>1 DEF Checkpoint
<1>4. PICK w \in Worker : /\ Become(t, r, w) /\ w.pc = next
                          /\ next = "read" => Len(w.hashed) = Len(data[t])
  <2>1. CASE next = "read"
    <3> DEFINE w == [work[t][r] EXCEPT !.pc = "read"]
    <3>1. w \in Worker /\ w.pc = "read" /\ w.hashed = work[t][r].hashed
      BY <1>1, WorkerTyped DEF Pc, Worker
    <3>2. Become(t, r, w)
      BY <1>3, <2>1 DEF Move
    <3> HIDE DEF w
    <3> QED
      BY <2>1, <3>1, <3>2
  <2>2. CASE next # "read"
    <3> DEFINE w == [Idle EXCEPT !.pc = next]
    <3>1. w \in Worker /\ w.pc = next
      BY <2>2, WorkerTyped DEF Idle, Pc
    <3>2. Become(t, r, w)
      BY <1>3, <2>2
    <3> HIDE DEF w
    <3> QED
      BY <2>2, <3>1, <3>2
  <2> QED
    BY <2>1, <2>2
<1>5. /\ journal' \in [Task -> Row \cup {None}] /\ journal'[t] = row
      /\ \A u \in Task \ {t} : journal'[u] = journal[u]
  BY <1>2 DEF IInv, TypeOK
<1>6. /\ work' \in [Task -> [Run -> Worker]]
      /\ \A u \in Task \ {t} : work'[u] = work[u]
  BY <1>4, BecomeTyped
<1>7. TypeOK'
  BY <1>2, <1>5, <1>6 DEF IInv, TypeOK
<1>8. Frame(t)
  BY <1>1, <1>2, <1>5, <1>6 DEF Frame
<1>9. Exists(t)' /\ HasFile(t)'
  BY <1>1, <1>2, <1>5, TransferOK DEF Exists, HasFile
<1> QED
  BY <1>2, <1>4, <1>5, <1>7, <1>8, <1>9, WorkKeeps DEF Locked

LEMMA ConnectKeeps ==
  ASSUME IInv, NEW t \in Task, NEW r \in Run, Connect(t, r)
  PROVE  Keeps
<1>1. At(t, r, "connect") /\ Working(t, r)
  BY DEF Connect, At, Working
<1>2. /\ In(t, Active) /\ journal[t] \in Row /\ journal[t].run = r
      /\ Len(journal[t].committed) <= Len(data[t])
      /\ Len(work[t][r].hashed) = Len(data[t])
  BY <1>1, Owner DEF At, WorkerOK
<1>3. PICK e \in BOOLEAN : Checkpoint(t, r, [journal[t] EXCEPT !.etag = e], "read")
  BY <1>2 DEF Connect, Row
<1> DEFINE row == [journal[t] EXCEPT !.etag = e]
<1>4. /\ row \in Row /\ row.run = r /\ row.state = journal[t].state
      /\ row.committed = journal[t].committed
  BY <1>2 DEF Row
<1> HIDE DEF row
<1>5. Checkpoint(t, r, row, "read")
  BY <1>3 DEF row
<1> QED
  BY <1>1, <1>2, <1>4, <1>5, CheckpointKeeps DEF In

LEMMA CommitKeeps ==
  ASSUME IInv, NEW t \in Task, NEW r \in Run, CommitChunk(t, r)
  PROVE  Keeps
<1>1. At(t, r, "wrote") /\ Working(t, r)
  BY DEF CommitChunk, At, Working
<1>2. /\ In(t, Active) /\ journal[t] \in Row /\ journal[t].run = r
      /\ Len(work[t][r].hashed) = Len(data[t]) /\ data[t] \in Content
      /\ work[t][r].hashed \in Content
  BY <1>1, Owner DEF At, WorkerOK, Worker
<1> DEFINE row == [journal[t] EXCEPT !.committed = work[t][r].hashed]
<1>3. /\ row \in Row /\ row.run = r /\ row.state = journal[t].state
      /\ row.committed = work[t][r].hashed
  BY <1>2 DEF Row
<1>4. PICK next \in {"read", "verify"} : Checkpoint(t, r, row, next)
  BY DEF CommitChunk
<1> HIDE DEF row
<1>5. Len(row.committed) <= Len(data[t])
  BY <1>2, <1>3, LenProperties DEF Content
<1> QED
  BY <1>1, <1>2, <1>3, <1>4, <1>5, CheckpointKeeps DEF In

LEMMA BeginVerifyKeeps ==
  ASSUME IInv, NEW t \in Task, NEW r \in Run, BeginVerify(t, r)
  PROVE  Keeps
<1>1. At(t, r, "verify") /\ Working(t, r)
  BY DEF BeginVerify, At, Working
<1>2. /\ In(t, Active) /\ journal[t] \in Row /\ journal[t].run = r
      /\ Len(journal[t].committed) <= Len(data[t])
  BY <1>1, Owner DEF At
<1>3. PICK row \in Row :
        /\ row.run = r /\ row.committed = journal[t].committed
        /\ row.state \in Active /\ (In(t, {"CANCELLING"}) => row.state = "CANCELLING")
        /\ Checkpoint(t, r, row, "hash")
  <2>1. CASE journal[t].state = "TRANSFERRING"
    <3>1. Checkpoint(t, r, To(t, "VERIFYING"), "hash")
      BY <2>1 DEF BeginVerify
    <3>2. /\ To(t, "VERIFYING") \in Row /\ To(t, "VERIFYING").run = r
          /\ To(t, "VERIFYING").committed = journal[t].committed
          /\ To(t, "VERIFYING").state = "VERIFYING"
      BY <1>2 DEF To, Row, State, Active
    <3> QED
      BY <2>1, <3>1, <3>2 DEF In, Active
  <2>2. CASE journal[t].state # "TRANSFERRING"
    BY <1>2, <2>2 DEF BeginVerify, In
  <2> QED
    BY <2>1, <2>2
<1> QED
  BY <1>1, <1>2, <1>3, CheckpointKeeps

\* A worker reads and judges.
LEMMA ReadKeeps ==
  ASSUME IInv, NEW t \in Task, NEW r \in Run,
         Admit(t, r) \/ TakeSignature(t, r) \/ Verify(t, r)
  PROVE  Keeps
<1>1. /\ work[t][r].pc \notin {"none", "end"} /\ Working(t, r)
      /\ UNCHANGED <<disk, lease, request, preview, closed>> /\ faults' \in Nat
  BY DEF Admit, TakeSignature, Verify, At, Working, IInv, TypeOK
<1>2. /\ In(t, Active) /\ work[t][r] \in Worker /\ data[t] \in Content /\ WorkerOK(t, r)
  BY <1>1, Owner
<1>3. CASE Admit(t, r)
  <2> DEFINE w == [work[t][r] EXCEPT !.pc = "write"]
  <2>1. w \in Worker /\ w.pc = "write" /\ w.hashed = work[t][r].hashed
    BY <1>2, WorkerTyped DEF Pc, Worker
  <2>2. Become(t, r, w) /\ Len(work[t][r].hashed) = Len(data[t])
    BY <1>2, <1>3 DEF Admit, Move, At, WorkerOK
  <2> HIDE DEF w
  <2> QED
    BY <1>1, <1>2, <2>1, <2>2, MoveKeeps DEF Locked
<1>4. CASE TakeSignature(t, r)
  <2> DEFINE w == [work[t][r] EXCEPT !.pc = "judge", !.seen = data[t]]
  <2>1. w \in Worker /\ w.pc = "judge"
    BY <1>2 DEF Pc, Worker
  <2>2. Become(t, r, w)
    BY <1>4 DEF TakeSignature
  <2> HIDE DEF w
  <2> QED
    BY <1>1, <1>2, <2>1, <2>2, MoveKeeps DEF Locked
<1>5. CASE Verify(t, r) /\ data[t] = Reviewed /\ work[t][r].seen = data[t]
  <2> DEFINE w == [work[t][r] EXCEPT !.pc = "publish"]
  <2>1. w \in Worker /\ w.pc = "publish" /\ w.seen = Reviewed
    BY <1>2, <1>5, WorkerTyped DEF Pc, Worker
  <2>2. Become(t, r, w)
    BY <1>5 DEF Verify, Move
  <2> HIDE DEF w
  <2> QED
    BY <1>1, <1>2, <2>1, <2>2, MoveKeeps DEF Locked
<1>6. CASE Verify(t, r) /\ ~(data[t] = Reviewed /\ work[t][r].seen = data[t])
  <2>1. Leave(t, r, "FAILED") /\ "FAILED" \in Halted
    BY <1>6 DEF Verify, Halted
  <2> QED
    BY <1>1, <2>1, LeaveKeeps
<1> QED
  BY <1>3, <1>4, <1>5, <1>6

\* A worker stops, or a step of it raises.
LEMMA StopKeeps ==
  ASSUME IInv, NEW t \in Task, NEW r \in Run, StopSeen(t, r) \/ WorkRaises(t, r)
  PROVE  Keeps
<1>1. /\ work[t][r].pc \notin {"none", "end"}
      /\ UNCHANGED <<disk, lease, request, preview, closed>> /\ faults' \in Nat
  BY DEF StopSeen, WorkRaises, Checking, IInv, TypeOK
<1>2. StopState(t, r) \in Halted /\ {"PAUSED", "FAILED"} \subseteq Halted
  BY DEF StopState, Halted
<1>3. \E v \in Halted : Leave(t, r, v)
  BY <1>2 DEF StopSeen, WorkRaises
<1> QED
  BY <1>1, <1>3, LeaveKeeps

\* A worker changes the file.
LEMMA DataKeeps ==
  ASSUME IInv, NEW t \in Task, NEW r \in Run, Working(t, r), In(t, Active),
         NEW w \in Worker, w.pc # "none", Become(t, r, w),
         NEW d \in Content, data' = [data EXCEPT ![t] = d],
         UNCHANGED <<dir, journal, names, lease, request, preview, closed>>, faults' \in Nat,
         Len(journal[t].committed) <= Len(d),
         w.pc \in {"connect", "read", "write", "wrote"} => Len(w.hashed) = Len(d),
         w.pc \notin Locked \cup {"publish"}
  PROVE  Keeps
<1>1. /\ data' \in [Task -> Content] /\ data'[t] = d
      /\ \A u \in Task \ {t} : data'[u] = data[u]
  BY DEF IInv, TypeOK
<1>2. TypeOK'
  BY <1>1, BecomeTyped DEF IInv, TypeOK
<1>3. Frame(t)
  BY <1>1, Owner, BecomeTyped DEF Frame
<1>4. /\ Exists(t)' /\ journal'[t].run = r /\ journal'[t].state \in Active /\ HasFile(t)'
      /\ In(t, {"CANCELLING"}) => journal'[t].state = "CANCELLING"
      /\ "partial" \notin names[t] \ names'[t]
      /\ journal'[t].committed = journal[t].committed
  BY Owner DEF In, Exists, HasFile
<1> QED
  BY <1>1, <1>2, <1>3, <1>4, WorkKeeps DEF Locked

LEMMA ReopenKeeps ==
  ASSUME IInv, NEW t \in Task, NEW r \in Run, Reopen(t, r)
  PROVE  Keeps
<1>1. /\ At(t, r, "open") /\ Working(t, r)
      /\ UNCHANGED <<dir, journal, names, lease, request, preview, closed, faults>>
      /\ faults' \in Nat
  BY DEF Reopen, At, Working, IInv, TypeOK
<1>2. In(t, Active) /\ journal[t] \in Row /\ work[t][r] \in Worker
  BY <1>1, Owner DEF At
<1>3. PICK d : d = journal[t].committed
  OBVIOUS
<1>4. d \in Content /\ Len(d) \in Nat
  BY <1>2, <1>3 DEF Row, Content
<1>5. CASE UNCHANGED data /\ Leave(t, r, "FAILED")
  <2>1. "FAILED" \in Halted /\ UNCHANGED disk
    BY <1>1, <1>5 DEF Halted, disk
  <2> QED
    BY <1>1, <1>5, <2>1, LeaveKeeps DEF At
<1>6. CASE /\ data' = [data EXCEPT ![t] = d]
           /\ IF Len(d) = Size THEN Move(t, r, "verify")
              ELSE Become(t, r, [Idle EXCEPT !.pc = "connect", !.hashed = d])
  <2>3. data' = [data EXCEPT ![t] = d] /\ Len(journal[t].committed) <= Len(d)
    BY <1>3, <1>4, <1>6
  <2>1. CASE Len(d) = Size
    <3> DEFINE w == [work[t][r] EXCEPT !.pc = "verify"]
    <3>1. w \in Worker /\ w.pc = "verify"
      BY <1>2, WorkerTyped DEF Pc, Worker
    <3>2. Become(t, r, w)
      BY <1>6, <2>1 DEF Move
    <3> HIDE DEF w
    <3> QED
      BY <1>1, <1>2, <1>4, <2>3, <3>1, <3>2, DataKeeps DEF Locked
  <2>2. CASE Len(d) # Size
    <3> DEFINE w == [Idle EXCEPT !.pc = "connect", !.hashed = d]
    <3>1. w \in Worker /\ w.pc = "connect" /\ w.hashed = d
      BY <1>4, WorkerTyped DEF Pc, Worker, Idle
    <3>2. Become(t, r, w)
      BY <1>6, <2>2
    <3> HIDE DEF w
    <3> QED
      BY <1>1, <1>2, <1>4, <2>3, <3>1, <3>2, DataKeeps DEF Locked
  <2> QED
    BY <2>1, <2>2
<1> QED
  BY <1>3, <1>5, <1>6 DEF Reopen

\* A chunk is written, whatever it is.
LEMMA WriteKeeps ==
  ASSUME IInv, NEW t \in Task, NEW r \in Run,
         WriteChunk(t, r) \/ WriteForeignChunk(t, r) \/ WriteRaises(t, r)
  PROVE  Keeps
<1>1. /\ At(t, r, "write") /\ Working(t, r)
      /\ UNCHANGED <<dir, journal, names, lease, request, preview, closed>>
      /\ faults' \in Nat
  BY DEF WriteChunk, WriteForeignChunk, WriteRaises, Fault, At, Working, IInv, TypeOK
<1>2. /\ In(t, Active) /\ work[t][r] \in Worker /\ data[t] \in Content
      /\ journal[t] \in Row /\ Len(journal[t].committed) <= Len(data[t])
      /\ Len(work[t][r].hashed) = Len(data[t])
  BY <1>1, Owner DEF At, WorkerOK
<1>3. ASSUME NEW c \in Chunk
      PROVE  /\ Append(data[t], c) \in Content
             /\ Len(Append(data[t], c)) = Len(data[t]) + 1
             /\ Len(journal[t].committed) <= Len(data[t]) + 1
  BY <1>2 DEF Content, Row
<1>4. ASSUME NEW c \in Chunk, Appended(t, r, c) PROVE Keeps
  <2> DEFINE w == [work[t][r] EXCEPT !.pc = "wrote", !.hashed = Append(work[t][r].hashed, c)]
  <2>1. /\ w \in Worker /\ w.pc = "wrote"
        /\ Len(w.hashed) = Len(data[t]) + 1
    <3>1. /\ Append(work[t][r].hashed, c) \in Content
          /\ Len(Append(work[t][r].hashed, c)) = Len(data[t]) + 1
      BY <1>2 DEF Worker, Content
    <3> QED
      BY <1>2, <3>1 DEF Worker, Pc
  <2>2. Become(t, r, w) /\ data' = [data EXCEPT ![t] = Append(data[t], c)]
    BY <1>4 DEF Appended
  <2>3. PICK d \in Content : /\ data' = [data EXCEPT ![t] = d]
                             /\ Len(d) = Len(data[t]) + 1
    BY <1>3, <2>2
  <2> HIDE DEF w
  <2> QED
    BY <1>1, <1>2, <1>3, <2>1, <2>2, <2>3, DataKeeps DEF Locked
<1>5. ASSUME WriteRaises(t, r) PROVE Keeps
  <2>1. PICK v \in Halted : Leave(t, r, v)
    BY <1>5 DEF WriteRaises, Halted
  <2> DEFINE w == [Idle EXCEPT !.pc = "end", !.verdict = v]
  <2>2. w \in Worker /\ w.pc = "end"
    BY WorkerTyped DEF Idle
  <2>3. Become(t, r, w)
    BY <2>1 DEF Leave
  <2>4. "ok" \in Chunk /\ data' = [data EXCEPT ![t] = Append(data[t], "ok")]
    BY <1>5 DEF WriteRaises, Chunk
  <2>5. PICK d \in Content : /\ data' = [data EXCEPT ![t] = d]
                             /\ Len(d) = Len(data[t]) + 1
    BY <1>3, <2>4
  <2> HIDE DEF w
  <2> QED
    BY <1>1, <1>2, <1>3, <2>2, <2>3, <2>4, <2>5, DataKeeps DEF Locked
<1> QED
  BY <1>4, <1>5 DEF WriteChunk, WriteForeignChunk, Chunk

\* The publication links and unlinks.
LEMMA NamesKeep ==
  ASSUME IInv, NEW t \in Task, NEW r \in Run, Working(t, r), In(t, {"VERIFYING"}),
         NEW pc \in Locked, Move(t, r, pc),
         NEW n \in SUBSET {"partial", "model"}, names' = [names EXCEPT ![t] = n],
         UNCHANGED <<dir, journal, data, lease, request, preview, closed, faults>>,
         "model" \in n, "partial" \in names[t] \ n => "model" \in names[t],
         data[t] = Reviewed, pc = "unlinked" => n = {"model"}
  PROVE  Keeps
<1>1. /\ names' \in [Task -> SUBSET {"partial", "model"}] /\ names'[t] = n
      /\ \A u \in Task \ {t} : names'[u] = names[u]
  BY DEF IInv, TypeOK
<1> DEFINE w == [work[t][r] EXCEPT !.pc = pc]
<1>2. w \in Worker /\ w.pc = pc /\ pc \in {"linked", "unlinked"}
  <2>1. work[t][r] \in Worker /\ pc \in Pc /\ pc \in {"linked", "unlinked"}
    BY Owner DEF Pc, Locked
  <2> QED
    BY <2>1, WorkerTyped DEF Worker
<1>3. Become(t, r, w)
  BY DEF Move
<1> HIDE DEF w
<1>4. TypeOK'
  BY <1>1, <1>2, <1>3, BecomeTyped DEF IInv, TypeOK
<1>5. Frame(t)
  BY <1>1, <1>2, <1>3, Owner, BecomeTyped DEF Frame
<1>6. /\ Exists(t)' /\ journal'[t].run = r /\ journal'[t].state = "VERIFYING"
      /\ HasFile(t)' /\ In(t, Active) /\ "VERIFYING" \in Active
      /\ ~In(t, {"CANCELLING"}) /\ Len(journal'[t].committed) <= Len(data'[t])
  BY <1>1, Owner DEF In, Exists, HasFile, Active
<1> QED
  BY <1>1, <1>2, <1>3, <1>4, <1>5, <1>6, WorkKeeps

LEMMA PublishKeeps ==
  ASSUME IInv, NEW t \in Task, NEW r \in Run, Publish(t, r) \/ UnlinkPartial(t, r)
  PROVE  Keeps
<1>1. /\ work[t][r].pc \notin {"none", "end"} /\ Working(t, r)
      /\ UNCHANGED <<dir, journal, data, lease, request, preview, closed, faults>>
  BY DEF Publish, UnlinkPartial, At, Working
<1>2. names[t] \in SUBSET {"partial", "model"} /\ WorkerOK(t, r) /\ faults \in Nat
  BY <1>1, Owner DEF IInv, TypeOK
<1>3. ASSUME UNCHANGED names, NEW v \in Halted, Leave(t, r, v) PROVE Keeps
  <2>1. UNCHANGED disk /\ faults' \in Nat
    BY <1>1, <1>2, <1>3 DEF disk
  <2> QED
    BY <1>1, <1>3, <2>1, LeaveKeeps
<1>4. CASE Publish(t, r) /\ (MayPublish(t, r) => data[t] # work[t][r].seen)
  BY <1>3, <1>4 DEF Publish, Halted
<1>5. CASE Publish(t, r) /\ MayPublish(t, r) /\ data[t] = work[t][r].seen
  <2>1. /\ names' = [names EXCEPT ![t] = names[t] \cup {"model"}] /\ Move(t, r, "linked")
        /\ data[t] = Reviewed /\ In(t, {"VERIFYING"}) /\ "linked" \in Locked
    BY <1>1, <1>2, <1>5, Owner DEF Publish, At, WorkerOK, MayPublish, In, Locked
  <2>2. PICK n \in SUBSET {"partial", "model"} : n = names[t] \cup {"model"}
    BY <1>2
  <2> QED
    BY <1>1, <2>1, <2>2, NamesKeep
<1>6. CASE UnlinkPartial(t, r)
  <2>1. /\ names' = [names EXCEPT ![t] = names[t] \ {"partial"}] /\ Move(t, r, "unlinked")
        /\ data[t] = Reviewed /\ In(t, {"VERIFYING"}) /\ "unlinked" \in Locked
        /\ "model" \in names[t]
    BY <1>2, <1>6 DEF UnlinkPartial, At, WorkerOK, Locked
  <2>2. PICK n \in SUBSET {"partial", "model"} : n = names[t] \ {"partial"} /\ n = {"model"}
    BY <1>2, <2>1
  <2> QED
    BY <1>1, <2>1, <2>2, NamesKeep
<1> QED
  BY <1>4, <1>5, <1>6

----------------------------------------------------------------------------
(* Rows are saved. *)

\* A save of t's row, with or without a new version.
LEMMA SaveTyped ==
  ASSUME IInv, NEW t \in Task, NEW row \in Row, Save(t, row) \/ Turn(t, row)
  PROVE  /\ journal' \in [Task -> Row \cup {None}] /\ journal'[t] = row /\ Exists(t)'
         /\ \A u \in Task \ {t} : journal'[u] = journal[u]
<1>1. row # None
  BY TransferOK
<1>2. journal' = [journal EXCEPT ![t] = row]
  BY DEF Save, Turn
<1> QED
  BY <1>1, <1>2 DEF IInv, TypeOK, Exists

LEMMA ToTyped ==
  ASSUME IInv, NEW t \in Task, Exists(t), NEW state \in State
  PROVE  /\ To(t, state) \in Row /\ To(t, state).state = state
         /\ To(t, state).committed = journal[t].committed
         /\ To(t, state).run = journal[t].run /\ To(t, state).pending = journal[t].pending
         /\ journal[t] \in Row
<1>1. journal[t] \in Row
  BY DEF IInv, TypeOK, Exists
<1> QED
  BY <1>1 DEF To, Row

\* A row changes its state where its file allows it.
LEMMA DiskTurns ==
  ASSUME IInv, NEW t \in Task, Exists(t), NEW state \in State,
         journal'[t] = To(t, state), Exists(t)', UNCHANGED <<dir, names, data>>,
         state = "COMPLETED" => names[t] = {"model"} /\ data[t] = Reviewed,
         state \in Halted \/ HasFile(t), state # "CLEANED", ~In(t, {"CLEANED"})
  PROVE  DiskOK(t)'
<1>1. DiskOK(t) /\ To(t, state).state = state
      /\ To(t, state).committed = journal[t].committed
      /\ To(t, state).pending = journal[t].pending
  BY TaskHolds, ToTyped DEF TaskOK
<1>2. HasFile(t)' <=> HasFile(t)
  BY DEF HasFile
<1>3. ~HasFile(t) => journal[t].pending
  BY <1>1 DEF DiskOK
<1> QED
  BY <1>1, <1>2, <1>3 DEF DiskOK, In

\* The thread ends and gives the lease back.
LEMMA EndKeeps ==
  ASSUME IInv, NEW t \in Task, NEW r \in Run, Working(t, r), Gone(t, r),
         TypeOK', UNCHANGED <<dir, request>>,
         \A u \in Task \ {t} :
           journal'[u] = journal[u] /\ names'[u] = names[u] /\ data'[u] = data[u],
         DiskOK(t)', Shown(t), CancelKept(t), RemovalShown(t)
  PROVE  Keeps
<1>1. Become(t, r, Idle) /\ lease' = None /\ Idle \in Worker /\ Idle.pc = "none"
  BY WorkerTyped DEF Gone, Idle
<1>2. /\ work'[t][r] = Idle /\ \A q \in Run \ {r} : work'[t][q] = work[t][q]
      /\ \A u \in Task \ {t} : work'[u] = work[u]
  BY <1>1, BecomeTyped
<1>3. request = None /\ \A u \in Task, q \in Run : Working(u, q) => u = t /\ q = r
  BY Owner
<1>4. \A u \in Task, q \in Run : work'[u][q].pc = "none"
  BY <1>1, <1>2, <1>3 DEF Working
<1>5. OneWriter'
  BY <1>1, <1>4, TransferOK DEF OneWriter, Working
<1>6. \A q \in Run : WorkerOK(t, q)'
  BY <1>4 DEF WorkerOK, Working, Locked
<1>7. TaskOK(t)'
  BY <1>3, <1>6 DEF TaskOK, RequestOK
<1>8. Frame(t)
  BY <1>2, <1>3 DEF Frame
<1> QED
  BY <1>5, <1>7, <1>8, TaskStep

LEMMA CompleteKeeps ==
  ASSUME IInv, NEW t \in Task, NEW r \in Run, Complete(t, r) \/ CompleteFault(t, r)
  PROVE  Keeps
<1>1. /\ At(t, r, "unlinked") /\ Working(t, r) /\ Turn(t, To(t, "COMPLETED"))
      /\ UNCHANGED <<dir, names, data, request, closed>> /\ faults' \in Nat
  BY DEF Complete, CompleteFault, Fault, At, Working, IInv, TypeOK
<1>2. /\ Exists(t) /\ In(t, {"VERIFYING"}) /\ names[t] = {"model"} /\ data[t] = Reviewed
      /\ journal[t].run = r /\ HasFile(t) /\ request = None /\ t \in dir
      /\ \A q \in Run : Working(t, q) => q = r
  BY <1>1, Owner DEF At, WorkerOK, Locked
<1>3. "COMPLETED" \in State /\ "COMPLETED" # "CLEANED" /\ Working(t, r)
  BY <1>1 DEF State
<1>4. To(t, "COMPLETED") \in Row
  BY <1>2, <1>3, ToTyped
<1>5. /\ journal' \in [Task -> Row \cup {None}] /\ journal'[t] = To(t, "COMPLETED")
      /\ Exists(t)' /\ \A u \in Task \ {t} : journal'[u] = journal[u]
      /\ journal'[t].state = "COMPLETED" /\ journal'[t].run = r
  BY <1>1, <1>2, <1>3, <1>4, SaveTyped, ToTyped
<1>6. DiskOK(t)'
  BY <1>1, <1>2, <1>3, <1>5, DiskTurns DEF In
<1>7. Shown(t) /\ CancelKept(t) /\ RemovalShown(t)
  BY <1>1, <1>2, <1>5 DEF Shown, VerdictOf, ModelOf, CancelKept, RemovalShown, In
<1>8. preview' \in [Task -> Content \cup {None}]
  BY <1>1 DEF Turn, IInv, TypeOK
<1>9. CASE Complete(t, r)
  <2>1. Gone(t, r)
    BY <1>9 DEF Complete
  <2>2. Become(t, r, Idle) /\ lease' = None
    BY <2>1 DEF Gone
  <2>3. TypeOK'
    BY <1>1, <1>5, <1>8, <2>2, WorkerTyped, BecomeTyped DEF IInv, TypeOK
  <2> QED
    BY <1>1, <1>5, <1>6, <1>7, <2>1, <2>3, EndKeeps
<1>10. CASE CompleteFault(t, r)
  <2> DEFINE w == [Idle EXCEPT !.pc = "end", !.verdict = "FAILED"]
  <2>1. w \in Worker /\ w.pc = "end"
    BY WorkerTyped DEF Idle, Halted
  <2>2. Become(t, r, w) /\ lease' = lease
    BY <1>10 DEF CompleteFault, Leave
  <2> HIDE DEF w
  <2>3. TypeOK'
    BY <1>1, <1>5, <1>8, <2>1, <2>2, BecomeTyped DEF IInv, TypeOK
  <2>4. Frame(t) /\ OneWriter'
    BY <1>1, <1>2, <1>5, <2>1, <2>2, BecomeTyped, WriterStays DEF Frame
  <2>5. /\ work'[t][r] = w /\ \A q \in Run \ {r} : work'[t][q].pc = "none"
    BY <1>2, <2>1, <2>2, BecomeTyped DEF Working
  <2>6. WorkerOK(t, r)'
    BY <1>1, <1>2, <1>5, <2>1, <2>5 DEF WorkerOK, In, HasFile, Locked
  <2>7. \A q \in Run \ {r} : WorkerOK(t, q)'
    BY <2>5 DEF WorkerOK, Working, Locked
  <2>8. TaskOK(t)'
    BY <1>1, <1>2, <1>6, <2>6, <2>7 DEF TaskOK, RequestOK
  <2> QED
    BY <1>7, <2>3, <2>4, <2>8, TaskStep
<1> QED
  BY <1>9, <1>10

LEMMA FinishKeeps ==
  ASSUME IInv, NEW t \in Task, NEW r \in Run, Finish(t, r) \/ FinishFault(t, r)
  PROVE  Keeps
<1>1. /\ At(t, r, "end") /\ Working(t, r) /\ Gone(t, r)
      /\ UNCHANGED <<dir, names, data, request, closed>> /\ faults' \in Nat
  BY DEF Finish, FinishFault, Fault, At, Working, IInv, TypeOK, disk
<1>2. /\ Exists(t) /\ Mine(t, r) /\ HasFile(t) /\ work[t][r].verdict \in Halted
      /\ In(t, Active) \/ In(t, {"COMPLETED"})
  BY <1>1, Owner DEF Worker
<1>3. work' \in [Task -> [Run -> Worker]] /\ lease' = None
  BY <1>1, WorkerTyped, BecomeTyped DEF Gone
<1>4. RemovalShown(t)
  BY <1>1 DEF RemovalShown
<1>5. CASE UNCHANGED <<journal, preview>>
  <2>1. TypeOK'
    BY <1>1, <1>3, <1>5 DEF IInv, TypeOK
  <2>2. DiskOK(t)'
    BY <1>1, <1>5, TaskHolds DEF TaskOK, DiskOK, Exists, In, HasFile
  <2>3. Shown(t) /\ CancelKept(t)
    BY <1>1, <1>5 DEF Shown, VerdictOf, ModelOf, CancelKept, In, Exists
  <2> QED
    BY <1>1, <1>4, <1>5, <2>1, <2>2, <2>3, EndKeeps
<1>6. CASE /\ In(t, Active)
           /\ Turn(t, To(t, FinalState(t, work[t][r].verdict)))
  <2>1. PICK state \in Halted : /\ Turn(t, To(t, state))
                                /\ In(t, {"CANCELLING"}) => state = "CANCELLED"
    BY <1>2, <1>6 DEF FinalState, Halted, In
  <2>2. state \in State /\ state \notin {"COMPLETED", "CLEANED"}
    BY DEF State, Halted
  <2>3. To(t, state) \in Row /\ To(t, state).state = state
    BY <1>2, <2>2, ToTyped
  <2>4. /\ journal' \in [Task -> Row \cup {None}] /\ journal'[t] = To(t, state)
        /\ Exists(t)' /\ \A u \in Task \ {t} : journal'[u] = journal[u]
    BY <2>1, <2>3, SaveTyped
  <2>5. preview' \in [Task -> Content \cup {None}]
    BY <2>1 DEF Turn, IInv, TypeOK
  <2>6. TypeOK'
    BY <1>1, <1>3, <2>4, <2>5 DEF IInv, TypeOK
  <2>7. ~In(t, {"COMPLETED"}) /\ ~In(t, {"CLEANED"})
    BY <1>6 DEF In, Active
  <2>8. DiskOK(t)'
    BY <1>1, <1>2, <2>2, <2>4, <2>7, DiskTurns
  <2>9. Shown(t) /\ CancelKept(t)
    BY <1>1, <2>1, <2>2, <2>3, <2>4, <2>7 DEF Shown, VerdictOf, CancelKept, In
  <2> QED
    BY <1>1, <1>4, <2>4, <2>6, <2>8, <2>9, EndKeeps
<1> QED
  BY <1>2, <1>5, <1>6 DEF Finish, FinishFault, disk, In

----------------------------------------------------------------------------
(* The user and the readers of the list. *)

LEMMA NobodyWorks ==
  ASSUME IInv, lease = None, NEW t \in Task, NEW r \in Run
  PROVE  ~Working(t, r) /\ work[t][r].pc = "none"
BY TransferOK DEF IInv, OneWriter, Working

LEMMA IdleOK ==
  ASSUME NEW t, NEW r, work'[t][r].pc = "none"
  PROVE  WorkerOK(t, r)'
BY DEF WorkerOK, Working, Locked

\* A step beside the workers.
LEMMA QuietKeeps ==
  ASSUME IInv, NEW t \in Task, UNCHANGED <<work, lease>>, TypeOK', Frame(t),
         DiskOK(t)', RequestOK(t)', \A r \in Run : WorkerOK(t, r)',
         Shown(t), CancelKept(t), RemovalShown(t)
  PROVE  Keeps
<1>1. OneWriter'
  BY DEF IInv, OneWriter, Working
<1> QED
  BY <1>1, TaskStep DEF TaskOK

\* ... while there are none.
LEMMA RestKeeps ==
  ASSUME IInv, NEW t \in Task, lease = None, UNCHANGED <<work, lease>>, TypeOK', Frame(t),
         DiskOK(t)', RequestOK(t)', Shown(t), CancelKept(t), RemovalShown(t)
  PROVE  Keeps
<1>1. \A r \in Run : WorkerOK(t, r)'
  BY NobodyWorks, IdleOK
<1> QED
  BY <1>1, QuietKeeps

\* A row turns under its worker, or without one.
LEMMA TurnKeeps ==
  ASSUME IInv, NEW t \in Task, AccessFree, Exists(t), NEW row \in Row, Turn(t, row),
         UNCHANGED <<dir, names, data, threads, closed>>, faults' \in Nat,
         row.committed = journal[t].committed, row.pending = journal[t].pending,
         row.state \in Halted \/ (row.state \in Active /\ HasFile(t)),
         ~In(t, {"COMPLETED"}), ~In(t, {"CLEANED"}),
         (\A r \in Run : ~Working(t, r)) \/ (row.state \in Active /\ row.run = journal[t].run),
         In(t, {"CANCELLING"}) => row.state \in {"CANCELLING", "CANCELLED", "INTERRUPTED"}
  PROVE  Keeps
<1>1. /\ journal' \in [Task -> Row \cup {None}] /\ journal'[t] = row /\ Exists(t)'
      /\ \A u \in Task \ {t} : journal'[u] = journal[u]
  BY SaveTyped
<1>2. UNCHANGED <<work, lease, request>> /\ request = None
  BY DEF threads, AccessFree
<1>3. TypeOK'
  <2>1. preview' \in [Task -> Content \cup {None}]
    BY DEF Turn, IInv, TypeOK
  <2> QED
    BY <1>1, <1>2, <2>1 DEF IInv, TypeOK
<1>4. Frame(t)
  BY <1>1, <1>2 DEF Frame
<1>5. row.state \notin {"COMPLETED", "CLEANED"}
  BY DEF Halted, Active
<1>6. DiskOK(t)'
  <2>1. DiskOK(t) /\ (HasFile(t)' <=> HasFile(t))
    BY TaskHolds DEF TaskOK, HasFile
  <2>2. ~HasFile(t) => journal[t].pending /\ row.state \in Halted
    BY <2>1 DEF DiskOK
  <2> QED
    BY <1>1, <1>5, <2>1, <2>2 DEF DiskOK, In
<1>7. RequestOK(t)'
  BY <1>2 DEF RequestOK
<1>8. Shown(t) /\ CancelKept(t) /\ RemovalShown(t)
  BY <1>1, <1>5 DEF Shown, VerdictOf, CancelKept, RemovalShown, In
<1>9. ASSUME \A r \in Run : ~Working(t, r) PROVE Keeps
  <2>1. \A r \in Run : WorkerOK(t, r)'
    BY <1>2, <1>9, IdleOK DEF Working
  <2> QED
    BY <1>2, <1>3, <1>4, <1>6, <1>7, <1>8, <2>1, QuietKeeps
<1>10. CASE row.state \in Active /\ row.run = journal[t].run
  <2>1. ASSUME NEW r \in Run PROVE WorkerOK(t, r)'
    <3>1. WorkerOK(t, r) /\ work[t][r].pc \notin Locked
      BY TaskHolds DEF TaskOK, AccessFree
    <3>2. HasFile(t)' <=> HasFile(t)
      BY DEF HasFile
    <3> QED
      BY <1>1, <1>2, <1>10, <3>1, <3>2 DEF WorkerOK, Working, In, Locked
  <2> QED
    BY <1>2, <1>3, <1>4, <1>6, <1>7, <1>8, <2>1, QuietKeeps
<1> QED
  BY <1>9, <1>10

LEMMA ControlKeeps ==
  ASSUME IInv, NEW t \in Task, Pause(t) \/ Cancel(t) \/ Interrupt(t)
  PROVE  Keeps
<1>1. /\ AccessFree /\ Exists(t) /\ UNCHANGED <<dir, names, data, threads, closed>>
      /\ faults' \in Nat
  BY DEF Pause, Cancel, Interrupt, In, IInv, TypeOK
<1>2. PICK state \in State :
        /\ Turn(t, To(t, state)) /\ state \in Halted \cup Active
        /\ state \in Halted \/ (In(t, Active) /\ state \in Active)
        /\ In(t, Active) \/ In(t, {"PAUSED", "INTERRUPTED", "FAILED"})
        /\ lease = None \/ state \in Active \/ In(t, {"PAUSED", "INTERRUPTED", "FAILED"})
        /\ In(t, {"CANCELLING"}) => state \in {"CANCELLING", "INTERRUPTED"}
  <2>1. CASE Pause(t)
    <3>1. Turn(t, To(t, "PAUSING")) /\ In(t, {"TRANSFERRING"})
      BY <2>1 DEF Pause
    <3> QED
      BY <3>1 DEF In, Active, State
  <2>2. CASE Cancel(t) /\ In(t, Active)
    <3>1. Turn(t, To(t, "CANCELLING"))
      BY <2>2 DEF Cancel, In, Active
    <3> QED
      BY <2>2, <3>1 DEF Active, State
  <2>3. CASE Cancel(t) /\ ~In(t, Active)
    <3>1. Turn(t, To(t, "CANCELLED")) /\ In(t, {"PAUSED", "INTERRUPTED", "FAILED"})
      BY <2>3 DEF Cancel
    <3> QED
      BY <3>1 DEF In, State, Halted
  <2>4. CASE Interrupt(t)
    <3>1. Turn(t, To(t, "INTERRUPTED")) /\ In(t, Active) /\ lease = None
      BY <2>4 DEF Interrupt
    <3> QED
      BY <3>1 DEF State, Halted
  <2> QED
    BY <2>1, <2>2, <2>3, <2>4
<1>3. /\ To(t, state) \in Row /\ To(t, state).state = state
      /\ To(t, state).committed = journal[t].committed
      /\ To(t, state).run = journal[t].run /\ To(t, state).pending = journal[t].pending
  BY <1>1, ToTyped
<1>4. ~In(t, {"COMPLETED"}) /\ ~In(t, {"CLEANED"})
  BY <1>2 DEF In, Active
<1>5. In(t, Active) => HasFile(t)
  BY TaskHolds DEF TaskOK, DiskOK, In, Active, Halted
<1>6. (\A r \in Run : ~Working(t, r)) \/ state \in Active
  <2>1. ASSUME lease = None PROVE \A r \in Run : ~Working(t, r)
    BY <2>1, NobodyWorks
  <2>2. ASSUME In(t, {"PAUSED", "INTERRUPTED", "FAILED"}), NEW r \in Run, Working(t, r)
        PROVE  FALSE
    BY <2>2, Owner DEF In, Active
  <2> QED
    BY <1>2, <2>1, <2>2
<1> QED
  BY <1>1, <1>2, <1>3, <1>4, <1>5, <1>6, TurnKeeps

LEMMA ResumeTyped ==
  ASSUME IInv, NEW t \in Task, MayResume(t)
  PROVE  /\ AccessFree /\ Exists(t) /\ lease = None /\ HasFile(t) /\ t \in dir
         /\ In(t, {"PAUSED", "INTERRUPTED"})
         /\ journal[t].run \in Run /\ journal[t].run + 1 \in Run
         /\ ResumeRow(t) \in Row /\ ResumeRow(t).state = "TRANSFERRING"
         /\ ResumeRow(t).run = journal[t].run + 1
         /\ ResumeRow(t).committed = journal[t].committed
         /\ ResumeRow(t).pending = journal[t].pending
<1>1. AccessFree /\ lease = None /\ In(t, {"PAUSED", "INTERRUPTED"}) /\ Exists(t)
  BY DEF MayResume, CanResume, In
<1>2. t \in dir
  BY <1>1, TaskHolds DEF TaskOK, DiskOK
<1>3. HasFile(t)
  BY <1>1, <1>2 DEF MayResume, AllReadable, In
<1>4. journal[t] \in Row /\ "TRANSFERRING" \in State
  BY <1>1 DEF IInv, TypeOK, Exists, State, Active
<1>5. journal[t].run \in Run /\ journal[t].run + 1 \in Run
  BY <1>4, TransferOK DEF Row, Run, MayResume
<1>6. To(t, "TRANSFERRING") \in Row
  BY <1>1, <1>4, ToTyped
<1> QED
  BY <1>1, <1>2, <1>3, <1>4, <1>5, <1>6, ToTyped DEF ResumeRow, Row

LEMMA ResumeFaultKeeps ==
  ASSUME IInv, NEW t \in Task, ResumeFault(t)
  PROVE  Keeps
<1>1. /\ MayResume(t) /\ Turn(t, ResumeRow(t)) /\ faults' \in Nat
      /\ UNCHANGED <<dir, names, data, threads, closed>>
  BY DEF ResumeFault, Fault, IInv, TypeOK
<1>2. ~In(t, {"COMPLETED"}) /\ ~In(t, {"CLEANED"}) /\ ~In(t, {"CANCELLING"})
  BY <1>1, ResumeTyped DEF In
<1>3. \A r \in Run : ~Working(t, r)
  BY <1>1, ResumeTyped, NobodyWorks
<1> QED
  BY <1>1, <1>2, <1>3, ResumeTyped, TurnKeeps DEF Active

----------------------------------------------------------------------------
(* A thread is launched. *)

LEMMA LaunchKeeps ==
  ASSUME IInv, NEW t \in Task, NEW r \in Run, lease = None, Launch(t, r),
         NEW row \in Row, Save(t, row) \/ Turn(t, row),
         row.state = "TRANSFERRING", row.run = r,
         UNCHANGED <<dir, names, data, closed, faults>>, request' = None,
         preview' \in [Task -> Content \cup {None}],
         t \in dir, HasFile(t), Len(row.committed) <= Len(data[t]),
         ~In(t, {"COMPLETED"}), ~In(t, {"CLEANED"}), ~In(t, {"CANCELLING"})
  PROVE  Keeps
<1> DEFINE w == [Idle EXCEPT !.pc = "open"]
<1>1. w \in Worker /\ w.pc = "open"
  BY WorkerTyped DEF Idle, Pc
<1>2. Become(t, r, w) /\ lease' = <<t, r>>
  BY DEF Launch, Become
<1> HIDE DEF w
<1>3. /\ work' \in [Task -> [Run -> Worker]] /\ work'[t][r] = w
      /\ \A q \in Run \ {r} : work'[t][q] = work[t][q]
      /\ \A u \in Task \ {t} : work'[u] = work[u]
  BY <1>1, <1>2, BecomeTyped
<1>4. /\ journal' \in [Task -> Row \cup {None}] /\ journal'[t] = row /\ Exists(t)'
      /\ \A u \in Task \ {t} : journal'[u] = journal[u]
  BY SaveTyped
<1>5. TypeOK'
  BY <1>2, <1>3, <1>4 DEF IInv, TypeOK
<1>6. OneWriter'
  <2>1. \A u \in Task, q \in Run : work[u][q].pc = "none"
    BY NobodyWorks
  <2>2. ASSUME NEW u \in Task, NEW q \in Run PROVE Working(u, q)' <=> lease' = <<u, q>>
    BY <1>1, <1>2, <1>3, <2>1 DEF Working
  <2> QED
    BY <2>2 DEF OneWriter
<1>7. Frame(t)
  BY <1>3, <1>4 DEF Frame
<1>8. /\ HasFile(t)' /\ In(t, Active)' /\ ~In(t, {"COMPLETED"})' /\ ~In(t, {"CLEANED"})'
  BY <1>4 DEF HasFile, In, Active
<1>9. DiskOK(t)' /\ RequestOK(t)'
  BY <1>4, <1>8 DEF DiskOK, RequestOK
<1>10. \A q \in Run : WorkerOK(t, q)'
  <2>1. WorkerOK(t, r)'
    BY <1>1, <1>3, <1>4, <1>8 DEF WorkerOK, Locked
  <2>2. \A q \in Run \ {r} : WorkerOK(t, q)'
    BY <1>3, NobodyWorks, IdleOK
  <2> QED
    BY <2>1, <2>2
<1>11. Shown(t) /\ CancelKept(t) /\ RemovalShown(t)
  BY <1>8 DEF Shown, VerdictOf, CancelKept, RemovalShown
<1> QED
  BY <1>5, <1>6, <1>7, <1>9, <1>10, <1>11, TaskStep DEF TaskOK

LEMMA ResumeKeeps ==
  ASSUME IInv, NEW t \in Task, Resume(t)
  PROVE  Keeps
<1>1. /\ MayResume(t) /\ Turn(t, ResumeRow(t)) /\ Launch(t, journal[t].run + 1)
      /\ UNCHANGED <<dir, names, data, request, closed, faults>>
  BY DEF Resume
<1>2. ~In(t, {"COMPLETED"}) /\ ~In(t, {"CLEANED"}) /\ ~In(t, {"CANCELLING"})
  BY <1>1, ResumeTyped DEF In
<1>3. Len(journal[t].committed) <= Len(data[t])
  BY <1>1, ResumeTyped, TaskHolds DEF TaskOK, DiskOK
<1>4. request' = None /\ preview' \in [Task -> Content \cup {None}]
  BY <1>1, ResumeTyped DEF AccessFree, Turn, IInv, TypeOK
<1> QED
  BY <1>1, <1>2, <1>3, <1>4, ResumeTyped, LaunchKeeps

LEMMA NewRowTyped ==
  ASSUME NEW s \in Source
  PROVE  /\ NewRow(s) \in Row /\ NewRow(s).state = "TRANSFERRING"
         /\ NewRow(s).run = 1 /\ NewRow(s).committed = <<>> /\ 1 \in Run
         /\ [NewRow(s) EXCEPT !.state = "INTERRUPTED"] \in Row
         /\ [NewRow(s) EXCEPT !.state = "INTERRUPTED"].state = "INTERRUPTED"
         /\ [NewRow(s) EXCEPT !.state = "INTERRUPTED"].committed = <<>>
<1>1. 1 \in Run /\ <<>> \in Content /\ {"TRANSFERRING", "INTERRUPTED"} \subseteq State
  BY TransferOK DEF Run, Content, State, Active, Halted
<1> QED
  BY <1>1 DEF NewRow, Row

\* What a start finds.
LEMMA StartFinds ==
  ASSUME IInv, NEW t \in Task, request # None, request.task = t,
         request.op \in {"mkdir", "create"}
  PROVE  /\ ~Exists(t) /\ lease = None /\ t \in dir /\ data[t] = <<>>
         /\ request.op = "mkdir" => names[t] = {}
         /\ request.op = "create" => names[t] = {"partial"} /\ HasFile(t)
<1>1. DiskOK(t) /\ RequestOK(t)
  BY TaskHolds DEF TaskOK
<1> QED
  BY <1>1 DEF DiskOK, RequestOK, HasFile

LEMMA RequestIs ==
  ASSUME NEW op \in {"mkdir", "create", "intent", "unlink"}, NEW t \in Task,
         request = [op |-> op, task |-> t]
  PROVE  request # None /\ request.op = op /\ request.task = t
BY TransferOK DEF Request

LEMMA StartJournalKeeps ==
  ASSUME IInv, NEW t \in Task, NEW s \in Source, StartJournal(t, s)
  PROVE  Keeps
<1>1. /\ request # None /\ request.task = t /\ request.op = "create"
      /\ Save(t, NewRow(s)) /\ Launch(t, 1) /\ request' = None
      /\ UNCHANGED <<dir, names, data, preview, closed, faults>>
  BY RequestIs DEF StartJournal
<1>2. /\ ~Exists(t) /\ lease = None /\ t \in dir /\ data[t] = <<>> /\ HasFile(t)
  BY <1>1, StartFinds
<1>3. ~In(t, {"COMPLETED"}) /\ ~In(t, {"CLEANED"}) /\ ~In(t, {"CANCELLING"})
  BY <1>2 DEF In
<1>4. preview' \in [Task -> Content \cup {None}]
  BY <1>1 DEF IInv, TypeOK
<1>5. /\ NewRow(s) \in Row /\ NewRow(s).state = "TRANSFERRING"
      /\ NewRow(s).run = 1 /\ 1 \in Run
  BY NewRowTyped
<1>6. Len(NewRow(s).committed) <= Len(data[t])
  <2>1. NewRow(s).committed = <<>>
    BY NewRowTyped
  <2> QED
    BY <1>2, <2>1
<1> QED
  BY <1>1, <1>2, <1>3, <1>4, <1>5, <1>6, LaunchKeeps

\* A journal without a thread.
LEMMA StartSavedKeeps ==
  ASSUME IInv, NEW t \in Task, request # None, request.task = t, request.op = "create",
         NEW row \in Row, row.state \in {"TRANSFERRING", "INTERRUPTED"},
         row.committed = <<>>, Save(t, row), request' = None, faults' \in Nat,
         UNCHANGED <<dir, names, data, work, lease, preview, closed>>
  PROVE  Keeps
<1>1. ~Exists(t) /\ lease = None /\ t \in dir /\ data[t] = <<>> /\ HasFile(t)
  BY StartFinds
<1>2. /\ journal' \in [Task -> Row \cup {None}] /\ journal'[t] = row /\ Exists(t)'
      /\ \A u \in Task \ {t} : journal'[u] = journal[u]
  BY SaveTyped
<1>3. TypeOK' /\ Frame(t)
  BY <1>2 DEF IInv, TypeOK, Frame
<1>4. HasFile(t)' /\ ~In(t, {"COMPLETED"})' /\ ~In(t, {"CLEANED"})'
  BY <1>1, <1>2 DEF HasFile, In
<1>5. DiskOK(t)' /\ RequestOK(t)'
  BY <1>1, <1>2, <1>4 DEF DiskOK, RequestOK
<1>6. Shown(t) /\ CancelKept(t) /\ RemovalShown(t)
  BY <1>1, <1>4 DEF Shown, VerdictOf, CancelKept, RemovalShown, In
<1> QED
  BY <1>1, <1>3, <1>5, <1>6, RestKeeps

----------------------------------------------------------------------------
(* Steps that leave the disk alone. *)

LEMMA CalmKeeps ==
  ASSUME IInv, UNCHANGED disk, TypeOK', OneWriter',
         \A t \in Task : RequestOK(t)' /\ \A r \in Run : WorkerOK(t, r)'
  PROVE  Keeps
<1>1. UNCHANGED <<dir, journal, names, data>>
  BY DEF disk
<1>2. ASSUME NEW t \in Task PROVE DiskOK(t)'
  <2>1. DiskOK(t)
    BY TaskHolds DEF TaskOK
  <2> QED
    BY <1>1, <2>1 DEF DiskOK, Exists, In, HasFile
<1>3. IInv'
  BY <1>2, TasksCollect DEF TaskOK
<1>4. VerdictBar' = VerdictBar /\ ModelBar' = ModelBar
  BY <1>1 DEF VerdictBar, ModelBar, VerdictOf, ModelOf, In, Exists
<1>5. Mapped
  BY <1>4 DEF Mapped, Install!vars, VerdictBar, ModelBar, VerdictOf, ModelOf
<1>6. \A t \in Task : CancelKept(t) /\ RemovalShown(t)
  BY <1>1 DEF CancelKept, RemovalShown, In, Exists
<1> QED
  BY <1>3, <1>5, <1>6 DEF Keeps

\* Steps that leave the workers alone as well.
LEMMA AsideKeeps ==
  ASSUME IInv, UNCHANGED <<disk, work, lease>>, TypeOK', \A t \in Task : RequestOK(t)'
  PROVE  Keeps
<1>1. UNCHANGED <<dir, journal, names, data>>
  BY DEF disk
<1>2. OneWriter'
  BY DEF IInv, OneWriter, Working
<1>3. ASSUME NEW t \in Task, NEW r \in Run PROVE WorkerOK(t, r)'
  <2>1. WorkerOK(t, r)
    BY TaskHolds DEF TaskOK
  <2> QED
    BY <1>1, <2>1 DEF WorkerOK, Working, Exists, In, HasFile
<1> QED
  BY <1>2, <1>3, CalmKeeps

LEMMA ForgetKeeps ==
  ASSUME IInv, UNCHANGED <<disk, work, lease>>, request' = None,
         preview' \in [Task -> Content \cup {None}], closed' \in BOOLEAN, faults' \in Nat
  PROVE  Keeps
<1>1. TypeOK'
  BY DEF IInv, TypeOK, disk
<1> QED
  BY <1>1, AsideKeeps DEF RequestOK

LEMMA StillKeeps ==
  ASSUME IInv, UNCHANGED <<disk, work, lease, request, preview, faults>>,
         closed' \in BOOLEAN
  PROVE  Keeps
<1>1. TypeOK' /\ UNCHANGED <<dir, journal, names, data>>
  BY DEF IInv, TypeOK, disk
<1>2. ASSUME NEW t \in Task PROVE RequestOK(t)'
  <2>1. RequestOK(t)
    BY TaskHolds DEF TaskOK
  <2> QED
    BY <1>1, <2>1 DEF RequestOK, Exists, In
<1> QED
  BY <1>1, <1>2, AsideKeeps

LEMMA RestartKeeps ==
  ASSUME IInv, Restart
  PROVE  Keeps
<1>1. /\ work' = [t \in Task |-> [r \in Run |-> Idle]]
      /\ lease' = None /\ request' = None /\ closed' = FALSE
      /\ preview' = [t \in Task |-> None] /\ UNCHANGED disk
  BY DEF Restart
<1>2. TypeOK'
  <2>1. faults' \in Nat
    BY DEF Restart, Fault, IInv, TypeOK
  <2> QED
    BY <1>1, <2>1, WorkerTyped DEF IInv, TypeOK, disk
<1>3. \A t \in Task, r \in Run : work'[t][r].pc = "none"
  BY <1>1 DEF Idle
<1>4. OneWriter'
  BY <1>1, <1>3, TransferOK DEF OneWriter, Working
<1>5. \A t \in Task : RequestOK(t)' /\ \A r \in Run : WorkerOK(t, r)'
  BY <1>1, <1>3, IdleOK DEF RequestOK
<1> QED
  BY <1>1, <1>2, <1>4, <1>5, CalmKeeps

----------------------------------------------------------------------------
(* start, until the thread. *)

LEMMA StartDirectoryKeeps ==
  ASSUME IInv, NEW t \in Task, StartDirectory(t)
  PROVE  Keeps
<1>1. /\ lease = None /\ t \notin dir /\ dir' = dir \cup {t}
      /\ request' = [op |-> "mkdir", task |-> t]
      /\ UNCHANGED <<journal, names, data, work, lease, preview, closed, faults>>
  BY DEF StartDirectory
<1>2. ~Exists(t) /\ names[t] = {} /\ data[t] = <<>>
  BY <1>1, TaskHolds DEF TaskOK, DiskOK
<1>3. ~Exists(t)' /\ ~In(t, {"COMPLETED"})' /\ ~In(t, {"CLEANED"})'
  BY <1>1, <1>2 DEF Exists, In
<1>4. TypeOK' /\ Frame(t)
  BY <1>1 DEF IInv, TypeOK, Frame, Request
<1>5. DiskOK(t)'
  BY <1>1, <1>2, <1>3 DEF DiskOK
<1>6. RequestOK(t)'
  BY <1>1, <1>2, <1>3 DEF RequestOK
<1>7. Shown(t) /\ CancelKept(t) /\ RemovalShown(t)
  BY <1>1, <1>2, <1>3 DEF Shown, VerdictOf, CancelKept, RemovalShown, In
<1> QED
  BY <1>1, <1>4, <1>5, <1>6, <1>7, RestKeeps

LEMMA StartPartialKeeps ==
  ASSUME IInv, NEW t \in Task, StartPartial(t)
  PROVE  Keeps
<1>1. /\ request # None /\ request.op = "mkdir" /\ request.task = t
      /\ names' = [names EXCEPT ![t] = {"partial"}]
      /\ request' = [op |-> "create", task |-> t]
      /\ UNCHANGED <<dir, journal, data, work, lease, preview, closed, faults>>
  BY RequestIs DEF StartPartial
<1>2. ~Exists(t) /\ lease = None /\ t \in dir /\ data[t] = <<>> /\ names[t] = {}
  BY <1>1, StartFinds
<1>3. ~Exists(t)' /\ ~In(t, {"COMPLETED"})' /\ ~In(t, {"CLEANED"})'
  BY <1>1, <1>2 DEF Exists, In
<1>4. /\ names' \in [Task -> SUBSET {"partial", "model"}] /\ names'[t] = {"partial"}
      /\ \A u \in Task \ {t} : names'[u] = names[u]
  BY <1>1 DEF IInv, TypeOK
<1>5. TypeOK' /\ Frame(t)
  BY <1>1, <1>4 DEF IInv, TypeOK, Frame, Request
<1>6. DiskOK(t)' /\ RequestOK(t)'
  BY <1>1, <1>2, <1>3, <1>4 DEF DiskOK, RequestOK
<1>7. Shown(t) /\ CancelKept(t) /\ RemovalShown(t)
  BY <1>2, <1>3 DEF Shown, VerdictOf, CancelKept, RemovalShown, In
<1> QED
  BY <1>1, <1>2, <1>5, <1>6, <1>7, RestKeeps

LEMMA StartRefusedKeeps ==
  ASSUME IInv, NEW t \in Task, NEW s \in Source, StartRefused(t, s)
  PROVE  Keeps
<1>1. /\ request # None /\ request.op = "create" /\ request.task = t
      /\ Save(t, [NewRow(s) EXCEPT !.state = "INTERRUPTED"]) /\ request' = None
      /\ UNCHANGED <<dir, names, data, work, lease, preview, closed, faults>>
  BY RequestIs DEF StartRefused
<1>2. faults' \in Nat
  BY <1>1 DEF IInv, TypeOK
<1> QED
  BY <1>1, <1>2, NewRowTyped, StartSavedKeeps

LEMMA StartFaultKeeps ==
  ASSUME IInv, NEW t \in Task, StartFault(t)
  PROVE  Keeps
<1>1. /\ request # None /\ request.task = t /\ request' = None /\ faults' \in Nat
      /\ UNCHANGED <<dir, names, data, work, lease, preview, closed>>
  BY DEF StartFault, Fault, IInv, TypeOK
<1>2. CASE UNCHANGED journal
  <2>1. closed' \in BOOLEAN /\ preview' \in [Task -> Content \cup {None}]
    BY <1>1 DEF IInv, TypeOK
  <2> QED
    BY <1>1, <1>2, <2>1, ForgetKeeps DEF disk
<1>3. ASSUME request.op = "create", NEW s \in Source, Save(t, NewRow(s))
      PROVE  Keeps
  BY <1>1, <1>3, NewRowTyped, StartSavedKeeps
<1> QED
  BY <1>2, <1>3 DEF StartFault

----------------------------------------------------------------------------
(* Cleanup, and its acknowledgement by a reader of the list. *)

LEMMA CleanupPreviewKeeps ==
  ASSUME IInv, NEW t \in Task, CleanupPreview(t)
  PROVE  Keeps
<1>1. /\ request = None /\ preview' = [preview EXCEPT ![t] = data[t]]
      /\ UNCHANGED <<disk, work, lease, request, closed, faults>>
  BY DEF CleanupPreview, AccessFree
<1>2. preview' \in [Task -> Content \cup {None}] /\ closed' \in BOOLEAN /\ faults' \in Nat
  BY <1>1 DEF IInv, TypeOK
<1> QED
  BY <1>1, <1>2, ForgetKeeps

LEMMA CleanupIntentKeeps ==
  ASSUME IInv, NEW t \in Task, CleanupIntent(t)
  PROVE  Keeps
<1>1. /\ lease = None /\ In(t, Halted) /\ Exists(t) /\ names[t] = {"partial"}
      /\ preview[t] # None /\ Save(t, IntentRow(t))
      /\ request' = [op |-> "intent", task |-> t]
      /\ UNCHANGED <<dir, names, data, work, lease, preview, closed, faults>>
  BY DEF CleanupIntent, Confirmed, In
<1>2. journal[t] \in Row
  BY <1>1 DEF IInv, TypeOK, Exists
<1>3. /\ IntentRow(t) \in Row /\ IntentRow(t).state = journal[t].state
      /\ IntentRow(t).committed = journal[t].committed /\ IntentRow(t).pending
  BY <1>2 DEF IntentRow, Row
<1>4. /\ journal' \in [Task -> Row \cup {None}] /\ journal'[t] = IntentRow(t) /\ Exists(t)'
      /\ \A u \in Task \ {t} : journal'[u] = journal[u]
  BY <1>1, <1>3, SaveTyped
<1>5. TypeOK' /\ Frame(t)
  BY <1>1, <1>4 DEF IInv, TypeOK, Frame, Request
<1>6. In(t, Halted)' /\ ~In(t, {"COMPLETED"}) /\ ~In(t, {"CLEANED"})
      /\ ~In(t, {"COMPLETED"})' /\ ~In(t, {"CLEANED"})' /\ ~In(t, {"CANCELLING"})
  BY <1>1, <1>3, <1>4 DEF In, Halted
<1>7. DiskOK(t)'
  <2>1. DiskOK(t) /\ HasFile(t)
    BY <1>1, TaskHolds DEF TaskOK, HasFile
  <2>2. HasFile(t)'
    BY <1>1, <2>1 DEF HasFile
  <2> QED
    BY <1>1, <1>3, <1>4, <1>6, <2>1, <2>2 DEF DiskOK
<1>8. RequestOK(t)'
  <2>1. t \in dir
    BY <1>1, TaskHolds DEF TaskOK, DiskOK
  <2> QED
    BY <1>1, <1>3, <1>4, <1>6, <2>1 DEF RequestOK
<1>9. Shown(t) /\ CancelKept(t) /\ RemovalShown(t)
  BY <1>1, <1>6 DEF Shown, VerdictOf, CancelKept, RemovalShown
<1> QED
  BY <1>1, <1>5, <1>7, <1>8, <1>9, RestKeeps

\* What a cleanup finds.
LEMMA CleanupFinds ==
  ASSUME IInv, NEW t \in Task, request # None, request.task = t,
         request.op \in {"intent", "unlink"}
  PROVE  /\ lease = None /\ t \in dir /\ In(t, Halted) /\ Exists(t) /\ journal[t].pending
         /\ ~In(t, {"COMPLETED"}) /\ ~In(t, {"CLEANED"}) /\ ~In(t, {"CANCELLING"})
         /\ request.op = "intent" => names[t] = {"partial"} /\ preview[t] # None
         /\ request.op = "unlink" => names[t] = {}
<1>1. RequestOK(t)
  BY TaskHolds DEF TaskOK
<1> QED
  BY <1>1 DEF RequestOK, In, Halted

LEMMA CleanupUnlinkKeeps ==
  ASSUME IInv, NEW t \in Task, CleanupUnlink(t)
  PROVE  Keeps
<1>1. /\ request # None /\ request.op = "intent" /\ request.task = t
      /\ UNCHANGED <<dir, journal, work, lease, preview, closed, faults>>
  BY RequestIs DEF CleanupUnlink
<1>2. /\ lease = None /\ t \in dir /\ In(t, Halted) /\ Exists(t) /\ journal[t].pending
      /\ ~In(t, {"COMPLETED"}) /\ ~In(t, {"CLEANED"}) /\ ~In(t, {"CANCELLING"})
      /\ names[t] = {"partial"} /\ preview[t] # None
  BY <1>1, CleanupFinds
<1>3. CASE preview[t] # data[t]
  <2>1. UNCHANGED <<names, data>> /\ request' = None
    BY <1>3 DEF CleanupUnlink
  <2>2. closed' \in BOOLEAN /\ preview' \in [Task -> Content \cup {None}] /\ faults' \in Nat
    BY <1>1 DEF IInv, TypeOK
  <2> QED
    BY <1>1, <2>1, <2>2, ForgetKeeps DEF disk
<1>4. CASE preview[t] = data[t]
  <2>1. /\ names' = [names EXCEPT ![t] = {}] /\ data' = [data EXCEPT ![t] = <<>>]
        /\ request' = [op |-> "unlink", task |-> t]
    BY <1>4 DEF CleanupUnlink
  <2>2. <<>> \in Content
    BY DEF Content
  <2>3. /\ names' \in [Task -> SUBSET {"partial", "model"}] /\ names'[t] = {}
        /\ data' \in [Task -> Content] /\ data'[t] = <<>>
        /\ \A u \in Task \ {t} : names'[u] = names[u] /\ data'[u] = data[u]
    BY <2>1, <2>2 DEF IInv, TypeOK
  <2>4. TypeOK' /\ Frame(t)
    BY <1>1, <2>1, <2>3 DEF IInv, TypeOK, Frame, Request
  <2>5. /\ Exists(t)' /\ In(t, Halted)' /\ ~In(t, {"COMPLETED"})' /\ ~In(t, {"CLEANED"})'
    BY <1>1, <1>2 DEF Exists, In
  <2>6. DiskOK(t)' /\ RequestOK(t)'
    BY <1>1, <1>2, <2>1, <2>3, <2>5 DEF DiskOK, RequestOK, HasFile
  <2>7. RemovalShown(t)
    BY <1>2, <1>4, NobodyWorks DEF RemovalShown
  <2>8. Shown(t) /\ CancelKept(t)
    BY <1>2, <2>5 DEF Shown, VerdictOf, CancelKept
  <2> QED
    BY <1>1, <1>2, <2>4, <2>6, <2>7, <2>8, RestKeeps
<1> QED
  BY <1>3, <1>4

LEMMA CleanupRaisesKeeps ==
  ASSUME IInv, NEW t \in Task, CleanupRaises(t)
  PROVE  Keeps
<1>1. /\ request' = None /\ UNCHANGED <<disk, work, lease, preview, closed>>
      /\ closed' \in BOOLEAN /\ preview' \in [Task -> Content \cup {None}]
      /\ faults' \in Nat
  BY DEF CleanupRaises, Fault, IInv, TypeOK
<1> QED
  BY <1>1, ForgetKeeps

\* The row of a removed file becomes CLEANED.
LEMMA CleanedKeeps ==
  ASSUME IInv, NEW t \in Task, lease = None, Exists(t), names[t] = {},
         Turn(t, CleanedRow(t)), request' = None,
         UNCHANGED <<dir, names, data, work, lease, closed, faults>>
  PROVE  Keeps
<1>1. /\ journal[t] \in Row /\ <<>> \in Content /\ "CLEANED" \in State
  BY DEF IInv, TypeOK, Exists, Content, State
<1>2. /\ CleanedRow(t) \in Row /\ CleanedRow(t).state = "CLEANED"
      /\ CleanedRow(t).committed = <<>>
  BY <1>1 DEF CleanedRow, To, Row
<1>3. /\ journal' \in [Task -> Row \cup {None}] /\ journal'[t] = CleanedRow(t) /\ Exists(t)'
      /\ \A u \in Task \ {t} : journal'[u] = journal[u]
  BY <1>2, SaveTyped
<1>4. preview' \in [Task -> Content \cup {None}]
  BY DEF Turn, IInv, TypeOK
<1>5. TypeOK' /\ Frame(t)
  BY <1>3, <1>4 DEF IInv, TypeOK, Frame
<1>6. /\ ~HasFile(t) /\ DiskOK(t) /\ ~In(t, {"CANCELLING"}) /\ ~In(t, {"COMPLETED"})
      /\ t \in dir
  <2>1. DiskOK(t) /\ ~HasFile(t)
    BY TaskHolds DEF TaskOK, HasFile
  <2> QED
    BY <2>1 DEF DiskOK, In, Halted
<1>7. ~HasFile(t)' /\ In(t, {"CLEANED"})' /\ ~In(t, {"COMPLETED"})'
  BY <1>2, <1>3, <1>6 DEF HasFile, In
<1>8. DiskOK(t)' /\ RequestOK(t)'
  <2>1. DiskOK(t)'
    BY <1>3, <1>6, <1>7 DEF DiskOK
  <2>2. RequestOK(t)'
    BY DEF RequestOK
  <2> QED
    BY <2>1, <2>2
<1>9. Shown(t)
  <2>1. ModelOf(t) = None /\ ModelOf(t)' = None
    BY DEF ModelOf
  <2> QED
    BY <1>6, <1>7, <2>1 DEF Shown, VerdictOf
<1>10. CancelKept(t) /\ RemovalShown(t)
  BY <1>6 DEF CancelKept, RemovalShown
<1> QED
  BY <1>5, <1>8, <1>9, <1>10, RestKeeps

LEMMA CleanupDoneKeeps ==
  ASSUME IInv, NEW t \in Task, CleanupDone(t)
  PROVE  Keeps
<1>1. /\ request # None /\ request.op = "unlink" /\ request.task = t
      /\ Turn(t, CleanedRow(t)) /\ request' = None
      /\ UNCHANGED <<dir, names, data, work, lease, closed, faults>>
  BY RequestIs DEF CleanupDone
<1> QED
  BY <1>1, CleanupFinds, CleanedKeeps

LEMMA AcknowledgeKeeps ==
  ASSUME IInv, NEW t \in Task, Acknowledge(t)
  PROVE  Keeps
BY CleanedKeeps DEF Acknowledge, AccessFree, threads

LEMMA SpoilKeeps ==
  ASSUME IInv, NEW t \in Task, Spoil(t)
  PROVE  Keeps
<1>1. /\ request = None /\ HasFile(t) /\ ~In(t, {"COMPLETED"}) /\ faults' \in Nat
      /\ \A r \in Run : work[t][r].pc \notin Locked
      /\ UNCHANGED <<dir, journal, names, work, lease, request, preview, closed>>
  BY DEF Spoil, AccessFree, Fault, IInv, TypeOK, memory, threads
<1>2. PICK i \in DOMAIN data[t] : data' = [data EXCEPT ![t][i] = "bad"]
  BY DEF Spoil
<1>3. data[t] \in Seq(Chunk) /\ "bad" \in Chunk
  BY DEF IInv, TypeOK, Content, Chunk
<1>4. /\ [data[t] EXCEPT ![i] = "bad"] \in Seq(Chunk)
      /\ Len([data[t] EXCEPT ![i] = "bad"]) = Len(data[t])
  BY <1>3, ExceptSeq
<1>5. /\ data' \in [Task -> Content] /\ Len(data'[t]) = Len(data[t])
      /\ \A u \in Task \ {t} : data'[u] = data[u]
  BY <1>2, <1>4 DEF IInv, TypeOK, Content
<1>6. TypeOK' /\ Frame(t)
  BY <1>1, <1>5 DEF IInv, TypeOK, Frame
<1>7. TaskOK(t) /\ Exists(t) /\ ~In(t, {"CLEANED"})
  <2>1. TaskOK(t)
    BY TaskHolds
  <2>2. ~In(t, {"CLEANED"})
    BY <1>1, <2>1 DEF TaskOK, DiskOK, HasFile
  <2>3. Exists(t)
    BY <1>2, <2>1 DEF TaskOK, DiskOK
  <2> QED
    BY <2>1, <2>2, <2>3
<1>8. /\ Exists(t)' /\ HasFile(t)' /\ ~In(t, {"COMPLETED"})' /\ ~In(t, {"CLEANED"})'
  BY <1>1, <1>7 DEF Exists, HasFile, In
<1>9. DiskOK(t)' /\ RequestOK(t)'
  BY <1>1, <1>5, <1>7, <1>8 DEF TaskOK, DiskOK, RequestOK
<1>10. ASSUME NEW r \in Run PROVE WorkerOK(t, r)'
  <2>1. WorkerOK(t, r)
    BY <1>7 DEF TaskOK
  <2> QED
    BY <1>1, <1>5, <1>8, <2>1 DEF WorkerOK, Working, In, Locked
<1>11. Shown(t) /\ CancelKept(t) /\ RemovalShown(t)
  BY <1>1, <1>7, <1>8 DEF Shown, VerdictOf, CancelKept, RemovalShown, In
<1> QED
  BY <1>1, <1>6, <1>9, <1>10, <1>11, QuietKeeps

----------------------------------------------------------------------------
(* The theorems. *)

LEMMA WorkerKeeps ==
  ASSUME IInv, NEW t \in Task, NEW r \in Run,
         \/ Work(t, r) \/ WorkRaises(t, r) \/ WriteRaises(t, r)
         \/ WriteForeignChunk(t, r) \/ CompleteFault(t, r) \/ FinishFault(t, r)
  PROVE  Keeps
BY StopKeeps, ReopenKeeps, ConnectKeeps, ReadKeeps, WriteKeeps, CommitKeeps,
   BeginVerifyKeeps, PublishKeeps, CompleteKeeps, FinishKeeps DEF Work

LEMMA UserKeeps ==
  ASSUME IInv, NEW t \in Task,
         \/ StartDirectory(t) \/ Starting(t) \/ StartFault(t)
         \/ Pause(t) \/ Cancel(t) \/ Resume(t) \/ ResumeFault(t)
         \/ CleanupPreview(t) \/ CleanupIntent(t) \/ Cleaning(t) \/ CleanupRaises(t)
         \/ Recover(t) \/ Spoil(t)
  PROVE  Keeps
<1>1. CASE StartDirectory(t) \/ Starting(t) \/ StartFault(t)
  BY <1>1, StartDirectoryKeeps, StartPartialKeeps, StartJournalKeeps, StartRefusedKeeps,
     StartFaultKeeps DEF Starting
<1>2. CASE Pause(t) \/ Cancel(t) \/ Resume(t) \/ ResumeFault(t)
  BY <1>2, ControlKeeps, ResumeKeeps, ResumeFaultKeeps
<1>3. CASE CleanupPreview(t) \/ CleanupIntent(t) \/ Cleaning(t) \/ CleanupRaises(t)
  BY <1>3, CleanupPreviewKeeps, CleanupIntentKeeps, CleanupUnlinkKeeps, CleanupDoneKeeps,
     CleanupRaisesKeeps DEF Cleaning
<1>4. CASE Recover(t) \/ Spoil(t)
  BY <1>4, AcknowledgeKeeps, ControlKeeps, SpoilKeeps DEF Recover
<1> QED
  BY <1>1, <1>2, <1>3, <1>4

LEMMA CloseKeeps ==
  ASSUME IInv, Close \/ UNCHANGED vars
  PROVE  Keeps
<1>1. /\ UNCHANGED <<disk, work, lease, request, preview, faults>>
      /\ closed' \in BOOLEAN
  BY DEF Close, vars, memory, threads, IInv, TypeOK
<1> QED
  BY <1>1, StillKeeps

LEMMA InvStep == IInv /\ [Next]_vars => Keeps
<1> SUFFICES ASSUME IInv, [Next]_vars PROVE Keeps
  OBVIOUS
<1> QED
  BY UserKeeps, WorkerKeeps, CloseKeeps, RestartKeeps DEF Next

LEMMA InitInv == Init => IInv
<1> SUFFICES ASSUME Init PROVE IInv
  OBVIOUS
<1>1. <<>> \in Content
  BY DEF Content
<1>2. TypeOK
  BY <1>1, WorkerTyped DEF Init, TypeOK
<1>3. \A t \in Task, r \in Run : work[t][r].pc = "none"
  BY DEF Init, Idle
<1>4. OneWriter
  BY <1>3, TransferOK DEF Init, OneWriter, Working
<1>5. RunOwnsRow /\ Hashes
  BY <1>3 DEF RunOwnsRow, Hashes, Working, Locked
<1>6. RequestSteps /\ Layout /\ JournalBehindDisk /\ RemovalKnown
  BY DEF Init, RequestSteps, Layout, JournalBehindDisk, RemovalKnown, Exists, In
<1> QED
  BY <1>2, <1>4, <1>5, <1>6 DEF IInv

\* Rows, files, workers and requests stay as the invariant says, through
\* interrupted starts, publications and cleanups, failing saves and restarts.
THEOREM Invariance == Spec => []IInv
<1>1. IInv /\ [Next]_vars => IInv'
  BY InvStep DEF Keeps
<1> QED
  BY <1>1, InitInv, PTL DEF Spec

\* Every variable keeps its type.
THEOREM Typing == Spec => []TypeOK
<1>1. IInv => TypeOK
  BY DEF IInv
<1> QED
  BY <1>1, Invariance, PTL

\* At most one thread downloads, and it is the one that holds the lease.
THEOREM SingleWriter == Spec => []OneWriter
<1>1. IInv => OneWriter
  BY DEF IInv
<1> QED
  BY <1>1, Invariance, PTL

\* The journal never claims bytes that are not on disk.
THEOREM JournalTrails == Spec => []JournalBehindDisk
<1>1. IInv => JournalBehindDisk
  BY DEF IInv
<1> QED
  BY <1>1, Invariance, PTL

\* A missing file was cleaned up, or its journal holds the intent.
THEOREM RemovalsKnown == Spec => []RemovalKnown
<1>1. IInv => RemovalKnown
  BY DEF IInv
<1> QED
  BY <1>1, Invariance, PTL

\* A download ends installed only with the reviewed content, discarded only
\* without a file, and for good: the downloads implement the contract.
THEOREM Implementation == Spec => InstallContract
<1>1. Init => Install!Init
  BY DEF Init, Install!Init, In, Exists
<1>2. IInv /\ [Next]_vars => [Install!Next]_(Install!vars)
  BY InvStep DEF Keeps, Mapped
<1> QED
  BY <1>1, <1>2, Invariance, PTL DEF Spec, InstallContract, Install!Spec

\* No publication overtakes a cancellation that was accepted.
THEOREM CancellationWins == Spec => CancelWins
<1>1. IInv /\ [Next]_vars =>
        [\A t \in Task : In(t, {"CANCELLING"}) =>
           journal'[t].state \in {"CANCELLING", "CANCELLED", "INTERRUPTED"}]_vars
  BY InvStep DEF Keeps, CancelKept
<1> QED
  BY <1>1, Invariance, PTL DEF Spec, CancelWins

\* A partial file is deleted only as a confirmed preview showed it, or in favour
\* of the model.
THEOREM RemovalsShown == Spec => RemovedAsShown
<1>1. IInv /\ [Next]_vars =>
        [\A t \in Task : "partial" \in names[t] \ names'[t] =>
           \/ "model" \in names[t]
           \/ /\ preview[t] # None /\ preview[t] = data[t]
              /\ In(t, Halted) /\ \A r \in Run : ~Working(t, r)]_vars
  BY InvStep DEF Keeps, RemovalShown
<1> QED
  BY <1>1, Invariance, PTL DEF Spec, RemovedAsShown
=============================================================================

------------------------------- MODULE Autosave -------------------------------
(***************************************************************************)
(* The save coordinator of the editor (app/autosave): the generations of   *)
(* the edited documents, the flush loop, its timers, and the adapter that  *)
(* turns generations into a compare-and-swap on the stored version.        *)
(*                                                                         *)
(* A thread is the user interface or a timer; the steps of one operation   *)
(* are cut where it leaves a lock.  A document's content is named by its   *)
(* generation.  Observers and the logger are left out: what they raise is  *)
(* swallowed and they change no state.                                     *)
(***************************************************************************)
EXTENDS Naturals

CONSTANTS
  Thread,       \* callers and timer threads
  Doc,          \* edited documents
  Periodic,     \* whether periodic_interval is set
  MaxGen,       \* bound on the edits of a document
  MaxFaults,    \* bound on saves that raise and on writes by somebody else
  None          \* no document, no version

ASSUME AutosaveOK ==
  /\ Periodic \in BOOLEAN
  /\ MaxGen \in Nat /\ MaxFaults \in Nat
  /\ None \notin Doc \cup Nat

Status == {"none", "unsaved", "saving", "saved", "failed"}

\* A one-shot timer: absent, running down, or fired and not to be cancelled.
Timer == {"none", "armed", "spent"}

\* flush() between adding the document to _saving and discarding it.
Looping == {"reading", "marking", "saving", "saved", "failed", "draining",
            "latest", "leaving"}
Pc == {"idle", "arming", "listing", "next", "entering", "judging", "returned"}
        \cup Looping

Task == {"none", "edit", "flush", "all", "periodic", "close"}

Call == [pc: Pc, task: Task, doc: Doc \cup {None}, gen: Nat,
         floor: Nat,         \* generation the document had when flush began
         good: BOOLEAN,      \* what flush is going to return
         todo: SUBSET Doc, all: BOOLEAN]  \* the same for flush_all

VARIABLES
  generation, status,        \* DirtyStateTracker._states
  idle,                      \* _idle: the debounce timer of each document
  periodic,                  \* _periodic
  saving, pending, closed,   \* _saving, _pending, _closed
  call,                      \* where each thread is
  known,                     \* DurableVersionAutosaveAdapter._versions
  version, stored,           \* the repository: version, last editor generation
  faults,
  closeResult                \* what on_application_close last returned

tracker == <<generation, status>>
timers  == <<idle, periodic>>
guards  == <<saving, pending, closed>>
durable == <<known, version, stored, faults>>
vars    == <<tracker, timers, guards, call, durable, closeResult>>

Quiet == [pc |-> "idle", task |-> "none", doc |-> None, gen |-> 0, floor |-> 0,
          good |-> TRUE, todo |-> {}, all |-> TRUE]

Init ==
  /\ generation = [d \in Doc |-> 0]
  /\ status = [d \in Doc |-> "none"]
  /\ idle = [d \in Doc |-> "none"]
  /\ periodic = IF Periodic THEN "armed" ELSE "none"
  /\ saving = {} /\ pending = {} /\ closed = FALSE
  /\ call = [t \in Thread |-> Quiet]
  /\ known \in [Doc -> {None, 0}]
  /\ version = [d \in Doc |-> 0]
  /\ stored = [d \in Doc |-> 0]
  /\ faults = 0
  /\ closeResult = FALSE

Dirty(d) == status[d] \in {"unsaved", "saving", "failed"}

\* One of the bounded faults happens.
Faulty == faults < MaxFaults /\ faults' = faults + 1

Goto(t, to) == call' = [call EXCEPT ![t].pc = to]

Begin(t, c) == call[t].pc = "idle" /\ call' = [call EXCEPT ![t] = c]

FlushOf(d) == [Quiet EXCEPT !.pc = "entering", !.task = "flush", !.doc = d]
AllOf(task) == [Quiet EXCEPT !.pc = "listing", !.task = task]

-----------------------------------------------------------------------------
(* Edits, timers and the ways into flush and flush_all.                    *)

\* content_changed, first lock section: mark_dirty.
Edit(t, d) ==
  /\ ~closed /\ generation[d] < MaxGen
  /\ Begin(t, [Quiet EXCEPT !.pc = "arming", !.task = "edit", !.doc = d])
  /\ generation' = [generation EXCEPT ![d] = @ + 1]
  /\ status' = [status EXCEPT ![d] = "unsaved"]
  /\ UNCHANGED <<timers, guards, durable, closeResult>>

\* content_changed, second lock section: restart the debounce timer.
Arm(t) ==
  /\ call[t].pc = "arming"
  /\ idle' = [idle EXCEPT ![call[t].doc] = IF closed THEN "none" ELSE "armed"]
  /\ call' = [call EXCEPT ![t] = Quiet]
  /\ UNCHANGED <<tracker, periodic, guards, durable, closeResult>>

\* flush by a caller, on_focus_loss, on_document_switch, on_chapter_switch.
Flush(t, d) ==
  /\ Begin(t, FlushOf(d))
  /\ UNCHANGED <<tracker, timers, guards, durable, closeResult>>

FlushAll(t) ==
  /\ Begin(t, AllOf("all"))
  /\ UNCHANGED <<tracker, timers, guards, durable, closeResult>>

\* The handle stays in _idle until some flush or edit pops it.
IdleFires(t, d) ==
  /\ idle[d] = "armed"
  /\ Begin(t, FlushOf(d))
  /\ idle' = [idle EXCEPT ![d] = "spent"]
  /\ UNCHANGED <<tracker, periodic, guards, durable, closeResult>>

PeriodicFires(t) ==
  /\ periodic = "armed"
  /\ Begin(t, AllOf("periodic"))
  /\ periodic' = "spent"
  /\ UNCHANGED <<tracker, idle, guards, durable, closeResult>>

\* on_application_close: no more edits and ticks, one last flush_all.
Close(t) ==
  /\ Begin(t, AllOf("close"))
  /\ closed' = TRUE
  /\ periodic' = IF periodic = "armed" THEN "none" ELSE periodic
  /\ UNCHANGED <<tracker, idle, saving, pending, durable, closeResult>>

\* Another writer of the repository moves the version on.
ForeignWrite(d) ==
  /\ Faulty
  /\ version' = [version EXCEPT ![d] = @ + 1]
  /\ UNCHANGED <<tracker, timers, guards, call, known, stored, closeResult>>

\* track: the editor opened the document again at its durable version.
Track(d) ==
  /\ known[d] # version[d]
  /\ known' = [known EXCEPT ![d] = version[d]]
  /\ UNCHANGED <<tracker, timers, guards, call, version, stored, faults,
                 closeResult>>

-----------------------------------------------------------------------------
(* flush_all: the documents dirty at its start, one after another.         *)

List(t) ==
  /\ call[t].pc = "listing"
  /\ call' = [call EXCEPT ![t].todo = {d \in Doc : Dirty(d)}, ![t].pc = "next"]
  /\ UNCHANGED <<tracker, timers, guards, durable, closeResult>>

NextDoc(t, d) ==
  /\ call[t].pc = "next" /\ d \in call[t].todo
  /\ call' = [call EXCEPT ![t].pc = "entering", ![t].doc = d,
                          ![t].todo = @ \ {d}]
  /\ UNCHANGED <<tracker, timers, guards, durable, closeResult>>

\* Mutant: the periodic timer is a single shot.
TickOnce(t) == IF call[t].task = "periodic" THEN "none" ELSE periodic

\* A tick schedules the next one.
NextTick(t) ==
  IF call[t].task # "periodic" THEN periodic
  ELSE IF closed THEN "none" ELSE "armed"

\* The end of flush_all, of a tick and of on_application_close.
EndAll(t) ==
  /\ call[t].pc = "next" /\ call[t].todo = {}
  /\ periodic' = NextTick(t)
  /\ closeResult' = IF call[t].task = "close" THEN call[t].all ELSE closeResult
  /\ call' = [call EXCEPT ![t] = Quiet]
  /\ UNCHANGED <<tracker, idle, guards, durable>>

-----------------------------------------------------------------------------
(* flush.                                                                  *)

\* Mutant: a flush that meets a running one saves beside it.
EnterUnserialized(t, d) ==
  IF ~Dirty(d)
    THEN UNCHANGED <<saving, pending>> /\ Goto(t, "returned")
    ELSE /\ saving' = saving \cup {d} /\ UNCHANGED pending
         /\ call' = [call EXCEPT ![t].pc = "reading",
                                 ![t].floor = generation[d]]

\* Mutant: a flush that meets a running one reports success.
EnterOptimistic(t, d) ==
  IF d \in saving \/ ~Dirty(d)
    THEN /\ pending' = pending \cup (saving \cap {d}) /\ UNCHANGED saving
         /\ Goto(t, "returned")
    ELSE /\ saving' = saving \cup {d} /\ UNCHANGED pending
         /\ call' = [call EXCEPT ![t].pc = "reading",
                                 ![t].floor = generation[d]]

\* A flush that meets a running one only leaves a request behind.
EnterFlush(t, d) ==
  IF d \in saving
    THEN /\ pending' = pending \cup {d} /\ UNCHANGED saving
         /\ call' = [call EXCEPT ![t].pc = "returned", ![t].good = FALSE]
    ELSE IF ~Dirty(d)
      THEN /\ UNCHANGED <<saving, pending>>
           /\ call' = [call EXCEPT ![t].pc = "returned",
                                   ![t].floor = generation[d]]
      ELSE /\ saving' = saving \cup {d} /\ UNCHANGED pending
           /\ call' = [call EXCEPT ![t].pc = "reading",
                                   ![t].floor = generation[d]]

Enter(t) ==
  /\ call[t].pc = "entering"
  /\ idle' = [idle EXCEPT ![call[t].doc] = "none"]
  /\ EnterFlush(t, call[t].doc)
  /\ UNCHANGED <<tracker, periodic, closed, durable, closeResult>>

\* The head of the loop takes a snapshot outside the coordinator's lock.
ReadState(t) ==
  /\ call[t].pc = "reading"
  /\ IF Dirty(call[t].doc)
       THEN call' = [call EXCEPT ![t].pc = "marking",
                                 ![t].gen = generation[call[t].doc]]
       ELSE Goto(t, "leaving")
  /\ UNCHANGED <<tracker, timers, guards, durable, closeResult>>

\* Mutant: a completion is not compared with the current generation.
MarkAny(t, s) == status' = [status EXCEPT ![call[t].doc] = s]

\* DirtyStateTracker._transition: only the snapshot's own generation moves.
Mark(t, s) ==
  IF generation[call[t].doc] = call[t].gen
    THEN status' = [status EXCEPT ![call[t].doc] = s]
    ELSE UNCHANGED status

MarkSaving(t) ==
  /\ call[t].pc = "marking"
  /\ Mark(t, "saving") /\ Goto(t, "saving")
  /\ UNCHANGED <<generation, timers, guards, durable, closeResult>>

\* The adapter loads the version of a document it does not track.
LoadVersion(t) ==
  /\ call[t].pc = "saving" /\ known[call[t].doc] = None
  /\ known' = [known EXCEPT ![call[t].doc] = version[call[t].doc]]
  /\ UNCHANGED <<tracker, timers, guards, call, version, stored, faults,
                 closeResult>>

\* The repository's compare-and-swap succeeds and hands out a new version.
SaveSucceeds(t) ==
  /\ call[t].pc = "saving" /\ known[call[t].doc] = version[call[t].doc]
  /\ version' = [version EXCEPT ![call[t].doc] = @ + 1]
  /\ known' = [known EXCEPT ![call[t].doc] = @ + 1]
  /\ stored' = [stored EXCEPT ![call[t].doc] = call[t].gen]
  /\ Goto(t, "saved")
  /\ UNCHANGED <<tracker, timers, guards, faults, closeResult>>

\* VersionConflict: the stored version is not the tracked one.
SaveConflicts(t) ==
  /\ call[t].pc = "saving"
  /\ known[call[t].doc] \notin {None, version[call[t].doc]}
  /\ Goto(t, "failed")
  /\ UNCHANGED <<tracker, timers, guards, durable, closeResult>>

\* The load or the save raises.
SaveRaises(t) ==
  /\ call[t].pc = "saving" /\ Faulty
  /\ Goto(t, "failed")
  /\ UNCHANGED <<tracker, timers, guards, known, version, stored, closeResult>>

\* The except branch: mark_failed and break out of the loop.
MarkFailed(t) ==
  /\ call[t].pc = "failed"
  /\ Mark(t, "failed")
  /\ call' = [call EXCEPT ![t].pc = "leaving", ![t].good = FALSE]
  /\ UNCHANGED <<generation, timers, guards, durable, closeResult>>

MarkSaved(t) ==
  /\ call[t].pc = "saved"
  /\ Mark(t, "saved") /\ Goto(t, "draining")
  /\ UNCHANGED <<generation, timers, guards, durable, closeResult>>

\* A request left behind sends the loop round again.
Drain(t) ==
  /\ call[t].pc = "draining"
  /\ pending' = pending \ {call[t].doc}
  /\ Goto(t, IF call[t].doc \in pending THEN "reading" ELSE "latest")
  /\ UNCHANGED <<tracker, timers, saving, closed, durable, closeResult>>

\* The loop goes on for a newer edit even if nobody asked.
CheckLatest(t) ==
  /\ call[t].pc = "latest"
  /\ Goto(t, IF Dirty(call[t].doc) THEN "reading" ELSE "leaving")
  /\ UNCHANGED <<tracker, timers, guards, durable, closeResult>>

LeaveSaving(t) ==
  /\ call[t].pc = "leaving"
  /\ saving' = saving \ {call[t].doc}
  /\ Goto(t, "judging")
  /\ UNCHANGED <<tracker, timers, pending, closed, durable, closeResult>>

\* all_saved and not dirty.
Judge(t) ==
  /\ call[t].pc = "judging"
  /\ call' = [call EXCEPT ![t].pc = "returned",
                          ![t].good = @ /\ ~Dirty(call[t].doc)]
  /\ UNCHANGED <<tracker, timers, guards, durable, closeResult>>

\* flush returns to its caller or to the next document of flush_all.
Return(t) ==
  /\ call[t].pc = "returned"
  /\ call' = [call EXCEPT ![t] =
       IF call[t].task = "flush" THEN Quiet
       ELSE [call[t] EXCEPT !.pc = "next", !.all = call[t].all /\ call[t].good,
                            !.good = TRUE, !.doc = None, !.gen = 0, !.floor = 0]]
  /\ UNCHANGED <<tracker, timers, guards, durable, closeResult>>

-----------------------------------------------------------------------------
\* What a caller may ask for at any time.
Request(t) ==
  \/ \E d \in Doc : Edit(t, d) \/ Flush(t, d)
  \/ FlushAll(t)
  \/ Close(t)

Fire(t) == PeriodicFires(t) \/ \E d \in Doc : IdleFires(t, d)

\* Entered code runs on; a save returns or raises.
Run(t) ==
  \/ Arm(t)
  \/ List(t)
  \/ \E d \in Doc : NextDoc(t, d)
  \/ EndAll(t)
  \/ Enter(t)
  \/ ReadState(t)
  \/ MarkSaving(t)
  \/ LoadVersion(t)
  \/ SaveSucceeds(t)
  \/ SaveConflicts(t)
  \/ SaveRaises(t)
  \/ MarkFailed(t)
  \/ MarkSaved(t)
  \/ Drain(t)
  \/ CheckLatest(t)
  \/ LeaveSaving(t)
  \/ Judge(t)
  \/ Return(t)

Next ==
  \/ \E t \in Thread : Request(t) \/ Fire(t) \/ Run(t)
  \/ \E d \in Doc : ForeignWrite(d) \/ Track(d)

Spec == Init /\ [][Next]_vars

\* A timer has a thread of its own, so the threads of the model being busy
\* with other calls does not hold it up for ever: strong fairness.
FairSpec ==
  /\ Spec
  /\ \A t \in Thread : WF_vars(Run(t))
  /\ SF_vars(\E t \in Thread : PeriodicFires(t))
  /\ \A d \in Doc : SF_vars(\E t \in Thread : IdleFires(t, d))
=============================================================================

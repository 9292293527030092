----------------------------- MODULE AutosaveProps ----------------------------
(***************************************************************************)
(* What the save coordinator must guarantee to an author.                  *)
(***************************************************************************)
EXTENDS Autosave

\* The type of every variable of Autosave.
TypeOK ==
  /\ generation \in [Doc -> Nat]
  /\ status \in [Doc -> Status]
  /\ idle \in [Doc -> Timer]
  /\ periodic \in Timer
  /\ saving \subseteq Doc /\ pending \subseteq Doc
  /\ closed \in BOOLEAN
  /\ call \in [Thread -> Call]
  /\ known \in [Doc -> Nat \cup {None}]
  /\ version \in [Doc -> Nat] /\ stored \in [Doc -> Nat]
  /\ faults \in Nat
  /\ closeResult \in BOOLEAN

InLoop(t, d) == call[t].pc \in Looping /\ call[t].doc = d

\* The indicator never lies: a document shown as saved has its latest
\* generation in the repository, whatever edits came in while it was saved.
SavedIsStored ==
  \A d \in Doc : status[d] = "saved" => stored[d] = generation[d]

\* A document shown as being saved is being saved.
SavingIsReal ==
  \A d \in Doc : status[d] = "saving" =>
    \E t \in Thread : /\ InLoop(t, d) /\ call[t].gen = generation[d]
                      /\ call[t].pc \in {"saving", "saved", "failed"}

\* flush returns True only if every edit made before the call is stored.
FlushHonest ==
  \A t \in Thread : call[t].pc = "returned" /\ call[t].good =>
    stored[call[t].doc] >= call[t].floor

\* on_application_close returns True only if nothing is left to lose.
CloseHonest ==
  closeResult => closed /\ \A d \in Doc : stored[d] = generation[d]

\* Saves reach the repository in the order of the edits, none twice: "latest
\* content wins".
SavesInOrder ==
  [][\A t \in Thread : SaveSucceeds(t) =>
       stored'[call[t].doc] > stored[call[t].doc]]_vars

-----------------------------------------------------------------------------
(* The inductive invariant, for one document and for one thread.            *)

\* _saving serializes the flush loops of a document: one loop per member, none
\* without one.
Serialized(d) ==
  /\ d \in saving <=> \E t \in Thread : InLoop(t, d)
  /\ \A t, u \in Thread : InLoop(t, d) /\ InLoop(u, d) => t = u

\* A loop is never ahead of the editor, and what is stored never ahead of the
\* loop: a snapshot is stored before it is called saved.
Snapshots(d) ==
  /\ stored[d] <= generation[d]
  /\ \A t \in Thread :
       InLoop(t, d) /\ call[t].pc \in {"marking", "saving", "saved", "failed"} =>
         /\ call[t].gen <= generation[d]
         /\ call[t].pc = "saved" => stored[d] = call[t].gen
         /\ call[t].pc # "saved" => stored[d] < call[t].gen

\* The tracker agrees with the repository except between a save and its mark.
Indicator(d) ==
  /\ status[d] = "none" => generation[d] = 0
  /\ status[d] = "saved" => stored[d] = generation[d]
  /\ Dirty(d) => \/ stored[d] < generation[d]
                 \/ \E t \in Thread : /\ InLoop(t, d) /\ call[t].pc = "saved"
                                      /\ call[t].gen = generation[d]
  /\ status[d] = "saving" =>
       \E t \in Thread : /\ InLoop(t, d) /\ call[t].gen = generation[d]
                         /\ call[t].pc \in {"saving", "saved", "failed"}

DocInv(d) == Serialized(d) /\ Snapshots(d) /\ Indicator(d)

\* A flush knows its document and remembers what it owes to its caller.
Promise(t) ==
  /\ call[t].doc = None <=> call[t].pc \in {"idle", "listing", "next"}
  /\ call[t].doc = None => call[t].floor = 0
  /\ call[t].doc # None => call[t].floor <= generation[call[t].doc]
  /\ call[t].pc = "returned" /\ call[t].good =>
       stored[call[t].doc] >= call[t].floor

\* After the close no edit comes in, so what the last flush_all left behind
\* stays stored.
Closing(t) ==
  call[t].task = "close" =>
    /\ closed
    /\ call[t].pc # "listing" /\ call[t].all =>
         \A d \in Doc \ call[t].todo : d = call[t].doc \/ stored[d] = generation[d]
    /\ call[t].pc \in Looping \cup {"judging"} =>
         call[t].floor = generation[call[t].doc]
    /\ call[t].pc = "returned" /\ call[t].good =>
         call[t].floor = generation[call[t].doc]

ThreadInv(t) == Promise(t) /\ Closing(t)

Core ==
  /\ TypeOK /\ CloseHonest
  /\ \A d \in Doc : DocInv(d)
  /\ \A t \in Thread : ThreadInv(t)

Ticking(t) == call[t].task = "periodic"

\* The periodic timer is one chain of ticks: each fires in a thread of its own
\* that arms the next one, and only the close ends it.
Ticks ==
  /\ periodic = "spent" <=> \E t \in Thread : Ticking(t)
  /\ \A t, u \in Thread : Ticking(t) /\ Ticking(u) => t = u
  /\ \A t \in Thread : Ticking(t) => call[t].pc \notin {"idle", "arming"}
  /\ Periodic /\ ~closed => periodic # "none"
  /\ closed => periodic # "armed"

IInv == Core /\ Ticks

\* While the editor is open another look at what is unsaved is due or under way,
\* and after the close no tick begins any more (the safety behind
\* EventuallyStored).
LookDue ==
  /\ Periodic /\ ~closed =>
       periodic = "armed" \/ \E t \in Thread : Ticking(t)
  /\ closed => periodic # "armed"

-----------------------------------------------------------------------------
\* Every edit is eventually stored, unless the application closes first or
\* somebody else wrote the document, which no retry repairs.
EventuallyStored ==
  \A d \in Doc : Dirty(d) ~>
    (~Dirty(d) \/ closed \/ known[d] \notin {None, version[d]})

\* A flush refused because a save is running is served by that save
\* (test_per_document_serialization_and_latest_content_wins_during_save).
RefusedFlushServed == \A d \in Doc : (d \in pending) ~> ~Dirty(d)
=============================================================================

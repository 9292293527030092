------------------------------ MODULE OfflineSync ------------------------------
(***************************************************************************)
(* Offline exchange of chapters between two projects by files that a user  *)
(* carries (app/experimental/offline_sync.py).  The sending project queues *)
(* numbered messages and exports copies of them; the receiving project     *)
(* takes a copy into its inbox, a user reviews it against the chapter, and *)
(* applies it: the message is claimed in one transaction, and the chapter  *)
(* is written and the receipt recorded in a second one.  What stays        *)
(* claimed or unknown is adopted or closed by hand, never replayed.        *)
(*                                                                         *)
(* A copy, once exported, may arrive at any time, often, never, and in any *)
(* order.  A transaction holds the lock of the project's metadata, not the *)
(* one of a chapter: the author edits, archives and restores chapters      *)
(* between any two steps.  Archiving does not change a chapter's version.  *)
(*                                                                         *)
(* One channel and one direction of it are modelled.  Repeated requests    *)
(* and stale expected versions are answered or refused and change nothing; *)
(* the row versions that refuse them are left out.  A merge, and what the  *)
(* writer makes of it, may be any text; sizes, locked passages, privacy    *)
(* and authority checks may refuse any call.                               *)
(***************************************************************************)
EXTENDS Naturals, FiniteSets

CONSTANTS
  Src,          \* chapters of the sending project
  Tgt,          \* chapters the receiving project has or will have
  First,        \* chapters selected when the channel was opened
  Text,
  MaxMessages,  \* MAX_MESSAGES of one channel
  MaxAttempts,  \* exports of one message
  MaxSelected,  \* chapters ever selected in one channel
  MaxEdits,     \* bound on the authors' changes of chapters
  MaxChanges,   \* bound on selections, revocations and delivery reports
  MaxFaults,    \* bound on crashes and raising calls
  None

\* A message is named by its sequence number.
Msg == 1..MaxMessages

\* A message of the outbox; its envelope is src, op and version.
Sent == [src: Src, op: {"SNAPSHOT", "TOMBSTONE"}, version: Nat, attempts: Nat,
         status: {"PENDING", "UNKNOWN", "FAILED", "ACKNOWLEDGED",
                  "SELECTION_REVOKED"}]

Chapter == [version: Nat, text: Text, archived: BOOLEAN]

\* What a review makes of a message: no text archives the chapter.
Desired == Text \cup {None}

\* known: the chapters there were when the creation of one was claimed.
Received ==
  [target: Tgt \cup {None},
   status: {"PENDING_REVIEW", "SUPERSEDED", "SELECTION_REVOKED", "CLAIMED",
            "UNKNOWN", "APPLIED", "RECONCILED", "CLOSED_WITHOUT_REPLAY"},
   checkpoint: Chapter \cup {None}, intent: Desired, known: SUBSET Tgt,
   result: Nat]

\* What the reviewer of a message was shown last.
Preview == [old: Chapter \cup {None}, desired: Desired]

\* Where the call that applies a message is, with the chapter it created.
Step == [pc: {"none", "claimed", "write", "fill", "receipt", "failed"},
         made: Tgt \cup {None}]

ASSUME SyncOK ==
  /\ IsFiniteSet(Src) /\ IsFiniteSet(Tgt) /\ First \subseteq Src \cup Tgt
  /\ MaxMessages \in Nat /\ MaxAttempts \in Nat
  /\ MaxEdits \in Nat /\ MaxChanges \in Nat /\ MaxFaults \in Nat
  /\ MaxSelected \in Nat /\ Cardinality(First \cap Src) <= MaxSelected
  /\ Cardinality(First \cap Tgt) <= MaxSelected
  /\ None \notin Src \cup Tgt \cup Text \cup Chapter \cup Sent \cup Received
                 \cup Preview

VARIABLES
  sender,       \* channel row of the sending project
  outbox,       \* its messages
  source,       \* its chapters
  receiver,     \* channel row of the receiving project
  inbox,        \* the messages it took
  chapter,      \* its chapters
  preview,      \* what users see of reviews
  step,         \* the calls that apply a message
  merged,       \* the messages a writer put into a chapter, as its history shows
  edits, changes, faults

sending == <<sender, outbox, source>>
receiving == <<receiver, inbox, chapter, preview, step, merged>>
bounds == <<edits, changes, faults>>
vars == <<sending, receiving, bounds>>

\* open_channel on both sides.  baseline keeps what is withdrawn.
Init ==
  /\ sender = [active |-> TRUE, selected |-> First \cap Src,
               baseline |-> First \cap Src, cursor |-> 0, tombstones |-> {}]
  /\ outbox = [m \in Msg |-> None]
  /\ source = [s \in Src |-> [version |-> 1, archived |-> FALSE]]
  /\ receiver = [active |-> TRUE, selected |-> First \cap Tgt,
                 baseline |-> First \cap Tgt, cursor |-> 0, tombstones |-> {},
                 withdrawn |-> {}, binding |-> [s \in Src |-> None]]
  /\ inbox = [m \in Msg |-> None]
  /\ chapter \in [Tgt -> {None} \cup
                         {[version |-> 1, text |-> t, archived |-> FALSE] : t \in Text}]
  /\ \A c \in Tgt : chapter[c] # None <=> c \in First
  /\ preview = [m \in Msg |-> None]
  /\ step = [m \in Msg |-> [pc |-> "none", made |-> None]]
  /\ merged = {}
  /\ edits = 0 /\ changes = 0 /\ faults = 0

Change == changes < MaxChanges /\ changes' = changes + 1
Fault == faults < MaxFaults /\ faults' = faults + 1
----------------------------------------------------------------------------
(* The sending project. *)

\* The author works on a chapter; archiving and restoring keep its version.
EditSource(s) ==
  /\ edits < MaxEdits /\ edits' = edits + 1
  /\ \/ source' = [source EXCEPT ![s].version = @ + 1]
     \/ source' = [source EXCEPT ![s].archived = ~@]
  /\ UNCHANGED <<sender, outbox, receiving, changes, faults>>

\* An archived chapter is sent as a tombstone, and as nothing after it.
Queue(s) ==
  LET m == sender.cursor + 1
      op == IF source[s].archived THEN "TOMBSTONE" ELSE "SNAPSHOT" IN
  /\ sender.active /\ s \in sender.selected \ sender.tombstones
  /\ m \in Msg
  /\ outbox' = [outbox EXCEPT ![m] =
                  [src |-> s, op |-> op, version |-> source[s].version,
                   attempts |-> 0, status |-> "PENDING"]]
  /\ sender' = [sender EXCEPT
                  !.cursor = m,
                  !.tombstones = IF op = "TOMBSTONE" THEN @ \cup {s} ELSE @]
  /\ UNCHANGED <<source, receiving, bounds>>

\* _dispatch_guard: the chapter is still what was queued.
Dispatchable(m) ==
  LET e == outbox[m] IN
  /\ sender.active /\ e.src \in sender.selected
  /\ e.op = "SNAPSHOT" => e.src \notin sender.tombstones
  /\ source[e.src] = [version |-> e.version, archived |-> e.op = "TOMBSTONE"]

\* Hands out a copy; nobody can take it back.
Export(m) ==
  /\ outbox[m] # None /\ Dispatchable(m)
  /\ outbox[m].status # "ACKNOWLEDGED" /\ outbox[m].attempts < MaxAttempts
  /\ outbox' = [outbox EXCEPT ![m].status = "UNKNOWN", ![m].attempts = @ + 1]
  /\ UNCHANGED <<sender, source, receiving, bounds>>

\* The user reports what became of a copy; an acknowledgement needs the receipt
\* that receive returned.
Delivery(m, status) ==
  /\ Change /\ outbox[m] # None /\ sender.active
  /\ outbox[m].attempts > 0 /\ outbox[m].status # "ACKNOWLEDGED"
  /\ status = "ACKNOWLEDGED" => inbox[m] # None
  /\ outbox' = [outbox EXCEPT ![m].status = status]
  /\ UNCHANGED <<sender, source, receiving, edits, faults>>

\* _selection_plan: what is withdrawn can never be selected again.
SelectionPlan(channel, reserved, add, withdraw) ==
  /\ channel.active /\ add \cup withdraw # {}
  /\ withdraw \subseteq channel.selected
  /\ add \cap channel.baseline = {}
  /\ Cardinality(channel.baseline) + reserved + Cardinality(add) <= MaxSelected

Selected(channel, add, withdraw) == (channel.selected \ withdraw) \cup add

ChangeSending(add, withdraw) ==
  /\ Change /\ SelectionPlan(sender, 0, add, withdraw)
  /\ \A s \in add : ~source[s].archived
  /\ sender' = [sender EXCEPT !.selected = Selected(sender, add, withdraw),
                              !.baseline = @ \cup add]
  /\ outbox' = [m \in Msg |->
                  IF /\ outbox[m] # None /\ outbox[m].src \in withdraw
                     /\ outbox[m].status \in {"PENDING", "FAILED"}
                  THEN [outbox[m] EXCEPT !.status = "SELECTION_REVOKED"]
                  ELSE outbox[m]]
  /\ UNCHANGED <<source, receiving, edits, faults>>

RevokeSending ==
  /\ Change /\ sender.active
  /\ sender' = [sender EXCEPT !.active = FALSE]
  /\ UNCHANGED <<outbox, source, receiving, edits, faults>>

----------------------------------------------------------------------------
(* The receiving project. *)

\* The author saves any text, archives, restores, or adds a chapter.
EditTarget(c) ==
  /\ edits < MaxEdits /\ edits' = edits + 1
  /\ \/ \E t \in Text :
          \/ /\ chapter[c] = None
             /\ chapter' = [chapter EXCEPT ![c] =
                              [version |-> 1, text |-> t, archived |-> FALSE]]
          \/ /\ chapter[c] # None
             /\ chapter' = [chapter EXCEPT ![c].version = @ + 1, ![c].text = t]
     \/ /\ chapter[c] # None
        /\ chapter' = [chapter EXCEPT ![c].archived = ~@]
  /\ UNCHANGED <<sending, receiver, inbox, preview, step, merged, changes, faults>>

\* A transaction of the receiving project's metadata is open.
InTransaction == \E m \in Msg : step[m].pc \in {"write", "fill", "receipt"}

Taken == {m \in Msg : inbox[m] # None}
From(s) == {m \in Taken : outbox[m].src = s}
Reserved == {m \in Taken : inbox[m].target = None}
Open == {"CLAIMED", "UNKNOWN"}

\* _selection_guard of a message and its target.
Guarded(s, c) ==
  /\ receiver.active /\ s \notin receiver.withdrawn
  /\ c # None => c \in receiver.selected

\* Mutant: new chapters that wait in the inbox are not counted.
MutRoom == Cardinality(receiver.baseline) < MaxSelected

Room == Cardinality(receiver.baseline) + Cardinality(Reserved) < MaxSelected

\* Where a message may go: to the chapter its source is bound to; else to a
\* selected one nothing is bound to, or to a new one if it is the first.
Targets(m) ==
  LET s == outbox[m].src IN
  IF receiver.binding[s] # None THEN {receiver.binding[s]}
  ELSE {c \in receiver.selected : \A r \in Src : receiver.binding[r] # c}
       \cup {c \in {None} : outbox[m].op = "SNAPSHOT" /\ From(s) = {} /\ Room}

\* Any exported copy may arrive; one that was taken before changes nothing.
\* Older messages of the same chapter that wait for a review are superseded.
Receive(m, c) ==
  LET s == outbox[m].src IN
  /\ ~InTransaction
  /\ outbox[m] # None /\ outbox[m].attempts > 0 /\ m \notin Taken
  /\ m > receiver.cursor /\ s \notin receiver.tombstones
  /\ \A n \in From(s) : inbox[n].status \notin Open
  /\ c \in Targets(m) /\ Guarded(s, c)
  /\ inbox' = [n \in Msg |->
                 IF n = m
                 THEN [target |-> c, status |-> "PENDING_REVIEW", checkpoint |-> None,
                       intent |-> None, known |-> {}, result |-> 0]
                 ELSE IF n \in From(s) /\ inbox[n].status = "PENDING_REVIEW"
                 THEN [inbox[n] EXCEPT !.status = "SUPERSEDED"]
                 ELSE inbox[n]]
  /\ receiver' = [receiver EXCEPT
                    !.cursor = m,
                    !.binding[s] = IF c = None THEN @ ELSE c,
                    !.tombstones = IF outbox[m].op = "TOMBSTONE" THEN @ \cup {s} ELSE @]
  /\ UNCHANGED <<sending, chapter, preview, step, merged, bounds>>

Current(m) == IF inbox[m].target = None THEN None ELSE chapter[inbox[m].target]

\* _review: what the choices of a reviewer can make of the chapter.
Results(m) ==
  LET old == Current(m) IN
  CASE outbox[m].op = "TOMBSTONE" ->
         {None} \cup IF old.archived THEN {} ELSE {old.text}
    [] old = None -> IF Cardinality(receiver.baseline) < MaxSelected THEN Text ELSE {}
    [] OTHER -> IF old.archived THEN {} ELSE Text

Reviewable(m) ==
  /\ m \in Taken /\ inbox[m].status = "PENDING_REVIEW"
  /\ Guarded(outbox[m].src, inbox[m].target)
  /\ outbox[m].op = "SNAPSHOT" => outbox[m].src \notin receiver.tombstones

Review(m) ==
  /\ Reviewable(m)
  /\ \E d \in Results(m) :
       preview' = [preview EXCEPT ![m] = [old |-> Current(m), desired |-> d]]
  /\ UNCHANGED <<sending, receiver, inbox, chapter, step, merged, bounds>>

\* The review made again gives what the preview showed.
AsReviewed(m) ==
  /\ preview[m] # None
  /\ preview[m].old = Current(m) /\ preview[m].desired \in Results(m)

Claim(m) ==
  /\ ~InTransaction
  /\ Reviewable(m) /\ AsReviewed(m)
  /\ inbox' = [inbox EXCEPT
                 ![m].status = "CLAIMED",
                 ![m].checkpoint = preview[m].old,
                 ![m].intent = preview[m].desired,
                 ![m].known = {c \in Tgt : /\ preview[m].old = None
                                           /\ chapter[c] # None
                                           /\ ~chapter[c].archived}]
  /\ step' = [step EXCEPT ![m].pc = "claimed"]
  /\ preview' = [preview EXCEPT ![m] = None]
  /\ UNCHANGED <<sending, receiver, chapter, merged, bounds>>

Matches(c, d) ==
  IF d = None THEN chapter[c].archived
  ELSE ~chapter[c].archived /\ chapter[c].text = d

\* The second transaction begins; a refusal rolls it back.
Begin(m) ==
  /\ ~InTransaction /\ step[m].pc = "claimed"
  /\ step' = [step EXCEPT ![m].pc =
                IF /\ Guarded(outbox[m].src, inbox[m].target)
                   /\ inbox[m].status = "CLAIMED"
                   /\ inbox[m].target # None => Current(m) = inbox[m].checkpoint
                THEN "write" ELSE "failed"]
  /\ UNCHANGED <<sending, receiver, inbox, chapter, preview, merged, bounds>>

\* Mutant: the writer takes the chapter as it is.
MutUnmoved(m) == TRUE

\* The writers of an existing chapter compare its version, which the author may
\* have moved since.
Unmoved(m) == chapter[inbox[m].target].version = inbox[m].checkpoint.version

\* The writer's own version of the text may differ from the reviewed one.
WriteTarget(m) ==
  LET c == inbox[m].target IN
  /\ step[m].pc = "write" /\ c # None
  /\ IF Unmoved(m)
     THEN /\ merged' = merged \cup {m}
          /\ IF inbox[m].intent = None
             THEN chapter' = [chapter EXCEPT ![c].archived = TRUE]
             ELSE \E t \in Text :
                    chapter' = [chapter EXCEPT ![c].version = @ + 1, ![c].text = t]
          /\ step' = [step EXCEPT ![m] = [pc |-> "receipt", made |-> c]]
     ELSE /\ step' = [step EXCEPT ![m].pc = "failed"]
          /\ UNCHANGED <<chapter, merged>>
  /\ UNCHANGED <<sending, receiver, inbox, preview, bounds>>

\* create_sync_chapter: a chapter with the text's markdown, then the document.
WriteNew(m) ==
  /\ step[m].pc = "write" /\ inbox[m].target = None
  /\ merged' = merged \cup {m}
  /\ \E c \in Tgt, t \in Text :
       /\ chapter[c] = None
       /\ chapter' = [chapter EXCEPT ![c] =
                        [version |-> 1, text |-> t, archived |-> FALSE]]
       /\ step' = [step EXCEPT ![m] = [pc |-> "fill", made |-> c]]
  /\ UNCHANGED <<sending, receiver, inbox, preview, bounds>>

Fill(m) ==
  LET c == step[m].made IN
  /\ step[m].pc = "fill"
  /\ IF chapter[c].version = 1
     THEN /\ \E t \in Text :
               chapter' = [chapter EXCEPT ![c].version = 2, ![c].text = t]
          /\ step' = [step EXCEPT ![m].pc = "receipt"]
     ELSE step' = [step EXCEPT ![m].pc = "failed"] /\ UNCHANGED chapter
  /\ UNCHANGED <<sending, receiver, inbox, preview, merged, bounds>>

\* _finish_row: the chapter holds the text, and a new one gets its binding.
Finishes(m, c) ==
  /\ inbox[m].status \in Open
  /\ Guarded(outbox[m].src, inbox[m].target)
  /\ Matches(c, inbox[m].intent)
  /\ inbox[m].target = None =>
       /\ c \notin receiver.baseline \cup inbox[m].known
       /\ Cardinality(receiver.baseline) < MaxSelected

Finish(m, c, status) ==
  /\ inbox' = [inbox EXCEPT ![m].status = status, ![m].target = c,
                            ![m].result = chapter[c].version]
  /\ receiver' = IF inbox[m].target # None THEN receiver
                 ELSE [receiver EXCEPT !.selected = @ \cup {c},
                                       !.baseline = @ \cup {c},
                                       !.binding[outbox[m].src] = c]

Receipt(m) ==
  LET c == step[m].made IN
  /\ step[m].pc = "receipt"
  /\ IF Finishes(m, c)
     THEN /\ Finish(m, c, "APPLIED")
          /\ step' = [step EXCEPT ![m] = [pc |-> "none", made |-> None]]
     ELSE /\ step' = [step EXCEPT ![m].pc = "failed"]
          /\ UNCHANGED <<inbox, receiver>>
  /\ UNCHANGED <<sending, chapter, preview, merged, bounds>>

\* Authority, or anything else, raises inside of apply.
Raise(m) ==
  /\ Fault /\ step[m].pc \in {"claimed", "write", "fill", "receipt"}
  /\ step' = [step EXCEPT ![m].pc = "failed"]
  /\ UNCHANGED <<sending, receiver, inbox, chapter, preview, merged, edits, changes>>

\* _mark_unknown, unless the message was resolved meanwhile.
MarkUnknown(m) ==
  /\ ~InTransaction /\ step[m].pc = "failed"
  /\ inbox' = [inbox EXCEPT ![m].status = IF @ \in Open THEN "UNKNOWN" ELSE @]
  /\ step' = [step EXCEPT ![m] = [pc |-> "none", made |-> None]]
  /\ UNCHANGED <<sending, receiver, chapter, preview, merged, bounds>>

\* The receiving process dies; an open transaction is never written.
Crash ==
  /\ Fault /\ \E m \in Msg : step[m].pc # "none"
  /\ step' = [m \in Msg |-> [pc |-> "none", made |-> None]]
  /\ UNCHANGED <<sending, receiver, inbox, chapter, preview, merged, edits, changes>>

\* What a user sees who recovers a message.
Observed(m) ==
  IF inbox[m].target # None THEN {inbox[m].target}
  ELSE {c \in Tgt : /\ chapter[c] # None /\ ~chapter[c].archived
                    /\ c \notin inbox[m].known}

\* That the chapter was the only candidate was seen before the transaction.
Adopt(m, c) ==
  /\ ~InTransaction
  /\ m \in Taken /\ c \in Observed(m) /\ Finishes(m, c)
  /\ Finish(m, c, "RECONCILED")
  /\ UNCHANGED <<sending, chapter, preview, step, merged, bounds>>

Close(m) ==
  /\ ~InTransaction
  /\ m \in Taken /\ receiver.active /\ inbox[m].status \in Open
  /\ inbox' = [inbox EXCEPT ![m].status = "CLOSED_WITHOUT_REPLAY"]
  /\ UNCHANGED <<sending, receiver, chapter, preview, step, merged, bounds>>

\* Every source whose message goes to a withdrawn chapter is withdrawn with it.
ChangeReceiving(add, withdraw) ==
  /\ ~InTransaction
  /\ Change /\ SelectionPlan(receiver, Cardinality(Reserved), add, withdraw)
  /\ \A c \in add : chapter[c] # None /\ ~chapter[c].archived
  /\ receiver' = [receiver EXCEPT
                    !.selected = Selected(receiver, add, withdraw),
                    !.baseline = @ \cup add,
                    !.withdrawn = @ \cup
                      {s \in Src : receiver.binding[s] \in withdraw
                                  \/ \E m \in From(s) : inbox[m].target \in withdraw}]
  /\ inbox' = [m \in Msg |->
                 IF /\ m \in Taken /\ inbox[m].target \in withdraw
                    /\ inbox[m].status = "PENDING_REVIEW"
                 THEN [inbox[m] EXCEPT !.status = "SELECTION_REVOKED"]
                 ELSE inbox[m]]
  /\ UNCHANGED <<sending, chapter, preview, step, merged, edits, faults>>

RevokeReceiving ==
  /\ Change /\ ~InTransaction /\ receiver.active
  /\ receiver' = [receiver EXCEPT !.active = FALSE]
  /\ UNCHANGED <<sending, inbox, chapter, preview, step, merged, edits, faults>>

----------------------------------------------------------------------------

NextSending ==
  \/ \E s \in Src : EditSource(s) \/ Queue(s)
  \/ \E m \in Msg : \/ Export(m)
                    \/ \E status \in {"FAILED", "UNKNOWN", "ACKNOWLEDGED"} :
                         Delivery(m, status)
  \/ \E add, withdraw \in SUBSET Src : ChangeSending(add, withdraw)
  \/ RevokeSending

Applying(m) ==
  \/ Review(m) \/ Claim(m) \/ Begin(m) \/ WriteTarget(m) \/ WriteNew(m)
  \/ Fill(m) \/ Receipt(m) \/ Raise(m) \/ MarkUnknown(m)

NextReceiving ==
  \/ \E c \in Tgt : EditTarget(c)
  \/ \E m \in Msg, c \in Tgt \cup {None} : Receive(m, c)
  \/ \E m \in Msg : Applying(m) \/ Close(m) \/ \E c \in Tgt : Adopt(m, c)
  \/ Crash
  \/ \E add, withdraw \in SUBSET Tgt : ChangeReceiving(add, withdraw)
  \/ RevokeReceiving

Next == NextSending \/ NextReceiving

Spec == Init /\ [][Next]_vars
=============================================================================

--------------------------- MODULE OfflineSyncProofs ---------------------------
(***************************************************************************)
(* The offline exchange keeps its invariant, and its journal is true: it   *)
(* implements ReviewedMerge.                                               *)
(***************************************************************************)
EXTENDS OfflineSyncProps, FiniteSetTheorems, TLAPS

----------------------------------------------------------------------------
(* Types. *)

\* What is there is of its type.
LEMMA Rows ==
  ASSUME TypeOK
  PROVE  /\ \A m \in Msg : outbox[m] # None => outbox[m] \in Sent
         /\ \A m \in Taken : inbox[m] \in Received
         /\ \A c \in Tgt : chapter[c] # None => chapter[c] \in Chapter
         /\ \A m \in Msg : preview[m] # None => preview[m] \in Preview
         /\ \A m \in Msg : step[m] \in Step
         /\ Taken \subseteq Msg
         /\ None \notin Sent \cup Received \cup Chapter \cup Preview \cup Tgt \cup Src \cup Text
BY SyncOK DEF TypeOK, SendingOK, ReceivingOK, Taken

LEMMA InitTyped == Init => TypeOK
<1> SUFFICES ASSUME Init PROVE TypeOK
  OBVIOUS
<1>1. SendingOK
  BY SyncOK DEF Init, SendingOK, Msg
<1>2. ReceivingOK
  <2>1. \A t \in Text : [version |-> 1, text |-> t, archived |-> FALSE] \in Chapter
    BY DEF Chapter
  <2>2. chapter \in [Tgt -> Chapter \cup {None}]
    BY <2>1 DEF Init
  <2>3. step \in [Msg -> Step]
    BY DEF Init, Step
  <2>4. receiver \in [active: BOOLEAN, selected: SUBSET Tgt, baseline: SUBSET Tgt,
                   cursor: 0..MaxMessages, tombstones: SUBSET Src,
                   withdrawn: SUBSET Src, binding: [Src -> Tgt \cup {None}]]
    BY SyncOK DEF Init
  <2> QED
    BY <2>2, <2>3, <2>4 DEF Init, ReceivingOK
<1> QED
  BY <1>1, <1>2 DEF Init, TypeOK

LEMMA Bounded ==
  ASSUME TypeOK, Next
  PROVE  edits' \in Nat /\ changes' \in Nat /\ faults' \in Nat
<1> DEFINE Counted == edits' \in Nat /\ changes' \in Nat /\ faults' \in Nat
<1>1. edits \in Nat /\ changes \in Nat /\ faults \in Nat
  BY DEF TypeOK
<1>2. ASSUME NextSending PROVE Counted
  <2>1. ASSUME NEW s \in Src, EditSource(s) \/ Queue(s) PROVE Counted
    BY <1>1, <2>1 DEF EditSource, Queue, bounds
  <2>2. ASSUME NEW m \in Msg, NEW status, Export(m) \/ Delivery(m, status) PROVE Counted
    BY <1>1, <2>2 DEF Export, Delivery, Change, bounds
  <2>3. ASSUME NEW add, NEW withdraw, ChangeSending(add, withdraw) \/ RevokeSending PROVE Counted
    BY <1>1, <2>3 DEF ChangeSending, RevokeSending, Change
  <2>4. RevokeSending => Counted
    BY <1>1 DEF RevokeSending, Change
  <2> HIDE DEF Counted
  <2> QED
    BY <1>2, <2>1, <2>2, <2>3, <2>4 DEF NextSending
<1>3. ASSUME NextReceiving PROVE Counted
  <2>1. ASSUME NEW m \in Msg, Applying(m) PROVE Counted
    <3>1. UNCHANGED bounds \/ Raise(m)
      BY <2>1 DEF Applying, Review, Claim, Begin, WriteTarget, WriteNew, Fill, Receipt, MarkUnknown
    <3> QED
      BY <1>1, <3>1 DEF Raise, Fault, bounds
  <2>2. ASSUME NEW m, NEW c, Receive(m, c) \/ Adopt(m, c) \/ Close(m) \/ EditTarget(c)
        PROVE  Counted
    BY <1>1, <2>2 DEF Receive, Adopt, Close, EditTarget, bounds
  <2>3. ASSUME NEW add, NEW withdraw, ChangeReceiving(add, withdraw) PROVE Counted
    BY <1>1, <2>3 DEF ChangeReceiving, Change
  <2>4. RevokeReceiving \/ Crash => Counted
    BY <1>1 DEF RevokeReceiving, Crash, Change, Fault
  <2> HIDE DEF Counted
  <2> QED
    BY <1>3, <2>1, <2>2, <2>3, <2>4 DEF NextReceiving
<1> QED
  BY <1>2, <1>3 DEF Next

\* The sending project's calls leave every variable of its type.
LEMMA SendingTyped ==
  ASSUME SendingOK, NextSending
  PROVE  SendingOK'
<1>1. ASSUME NEW s \in Src, EditSource(s) PROVE SendingOK'
  <2>1. /\ source[s] \in [version: Nat, archived: BOOLEAN]
        /\ sender' = sender /\ outbox' = outbox
    BY <1>1 DEF EditSource, SendingOK
  <2>2. CASE source' = [source EXCEPT ![s].version = @ + 1]
    BY <2>1, <2>2 DEF SendingOK
  <2>3. CASE source' = [source EXCEPT ![s].archived = ~@]
    BY <2>1, <2>3 DEF SendingOK
  <2> QED
    BY <1>1, <2>2, <2>3 DEF EditSource
<1>2. ASSUME NEW s \in Src, Queue(s) PROVE SendingOK'
  <2> DEFINE m == sender.cursor + 1
             op == IF source[s].archived THEN "TOMBSTONE" ELSE "SNAPSHOT"
  <2>1. [src |-> s, op |-> op, version |-> source[s].version,
                   attempts |-> 0, status |-> "PENDING"] \in Sent
    BY DEF SendingOK, Sent
  <2>2. m \in 0..MaxMessages /\ m \in Msg
    BY <1>2 DEF Queue, Msg, SendingOK
  <2>3. outbox' \in [Msg -> Sent \cup {None}]
    BY <1>2, <2>1, <2>2 DEF Queue, SendingOK
  <2>4. sender' \in [active: BOOLEAN, selected: SUBSET Src, baseline: SUBSET Src,
                 cursor: 0..MaxMessages, tombstones: SUBSET Src]
    BY <1>2, <2>2 DEF Queue, SendingOK
  <2> QED
    BY <1>2, <2>3, <2>4 DEF Queue, SendingOK
<1>3. ASSUME NEW m \in Msg, Export(m) PROVE SendingOK'
  BY <1>3 DEF Export, SendingOK, Sent
<1>4. ASSUME NEW m \in Msg, NEW status \in {"FAILED", "UNKNOWN", "ACKNOWLEDGED"},
             Delivery(m, status)
      PROVE  SendingOK'
  BY <1>4 DEF Delivery, SendingOK, Sent
<1>5. ASSUME NEW add \in SUBSET Src, NEW withdraw \in SUBSET Src,
             ChangeSending(add, withdraw)
      PROVE  SendingOK'
  <2>1. \A m \in Msg : outbox[m] \in Sent => [outbox[m] EXCEPT !.status = "SELECTION_REVOKED"] \in Sent
    BY DEF Sent
  <2>2. outbox' \in [Msg -> Sent \cup {None}]
    BY <1>5, <2>1 DEF ChangeSending, SendingOK
  <2> QED
    BY <1>5, <2>2 DEF ChangeSending, Selected, SendingOK
<1>6. ASSUME RevokeSending PROVE SendingOK'
  BY <1>6 DEF RevokeSending, SendingOK
<1> QED
  BY <1>1, <1>2, <1>3, <1>4, <1>5, <1>6 DEF NextSending

\* A receipt leaves the rows of their type.
LEMMA FinishTyped ==
  ASSUME TypeOK, NEW m \in Taken, NEW c \in Tgt, chapter[c] # None,
         NEW status \in Success, Finish(m, c, status)
  PROVE  /\ inbox' \in [Msg -> Received \cup {None}]
         /\ receiver' \in [active: BOOLEAN, selected: SUBSET Tgt, baseline: SUBSET Tgt,
                   cursor: 0..MaxMessages, tombstones: SUBSET Src,
                   withdrawn: SUBSET Src, binding: [Src -> Tgt \cup {None}]]
         /\ inbox'[m] \in Received
<1> USE Rows
<1>1. [inbox[m] EXCEPT !.status = status, !.target = c,
                       !.result = chapter[c].version] \in Received
  <2>1. inbox[m] \in Received /\ chapter[c].version \in Nat
    BY DEF Chapter
  <2> HIDE Rows
  <2> QED
    BY <2>1 DEF Received, Success
<1>2. inbox' = [inbox EXCEPT ![m] = [inbox[m] EXCEPT !.status = status, !.target = c,
                       !.result = chapter[c].version]]
  BY DEF Finish, TypeOK, ReceivingOK, Received
<1>3. [inbox EXCEPT ![m] = [inbox[m] EXCEPT !.status = status, !.target = c,
                       !.result = chapter[c].version]] \in [Msg -> Received \cup {None}]
  BY <1>1 DEF TypeOK, ReceivingOK
<1>4. receiver' \in [active: BOOLEAN, selected: SUBSET Tgt, baseline: SUBSET Tgt,
                   cursor: 0..MaxMessages, tombstones: SUBSET Src,
                   withdrawn: SUBSET Src, binding: [Src -> Tgt \cup {None}]]
  BY DEF Finish, TypeOK, ReceivingOK
<1> QED
  BY <1>1, <1>2, <1>3, <1>4 DEF TypeOK, ReceivingOK

\* What a call that applies a message relies on.
LEMMA Held ==
  ASSUME IInv, NEW m \in Msg, step[m].pc # "none"
  PROVE  /\ m \in Taken /\ inbox[m] \in Received
         /\ inbox[m].target # None =>
              /\ inbox[m].target \in Tgt /\ inbox[m].target \in receiver.baseline
              /\ chapter[inbox[m].target] \in Chapter
         /\ step[m].pc \in {"fill", "receipt"} =>
              step[m].made \in Tgt /\ chapter[step[m].made] \in Chapter
<1>1. m \in Taken /\ inbox[m] \in Received /\ step[m] \in Step
  BY Rows DEF IInv, Claims
<1>2. inbox[m].target \in Tgt \cup {None} /\ step[m].made \in Tgt \cup {None}
  BY <1>1 DEF Received, Step
<1>3. inbox[m].target # None => inbox[m].target \in receiver.baseline
  BY <1>1 DEF IInv, TargetsThere
<1> QED
  BY <1>1, <1>2, <1>3, Rows DEF IInv, TargetsThere, Claims

\* A chapter that was saved or archived.
LEMMA Saved ==
  ASSUME NEW k \in Chapter, NEW t \in Text
  PROVE  /\ [k EXCEPT !.version = @ + 1, !.text = t] \in Chapter
         /\ [k EXCEPT !.version = 2, !.text = t] \in Chapter
         /\ [k EXCEPT !.archived = ~@] \in Chapter
         /\ [k EXCEPT !.archived = TRUE] \in Chapter
<1> k \in [version: Nat, text: Text, archived: BOOLEAN]
  BY DEF Chapter
<1>1. k.version + 1 \in Nat /\ (~k.archived) \in BOOLEAN
  OBVIOUS
<1>2. [k EXCEPT !.version = k.version + 1, !.text = t] \in [version: Nat, text: Text, archived: BOOLEAN]
  BY <1>1
<1>3. [k EXCEPT !.version = 2, !.text = t] \in [version: Nat, text: Text, archived: BOOLEAN]
  BY <1>1
<1>4. [k EXCEPT !.archived = ~k.archived] \in [version: Nat, text: Text, archived: BOOLEAN]
  BY <1>1
<1>5. [k EXCEPT !.archived = TRUE] \in [version: Nat, text: Text, archived: BOOLEAN]
  BY <1>1
<1> QED
  BY <1>2, <1>3, <1>4, <1>5 DEF Chapter

\* A chapter the author or a writer leaves.
LEMMA ChapterTyped ==
  ASSUME ReceivingOK, NEW c \in Tgt, NEW k \in Chapter
  PROVE  [chapter EXCEPT ![c] = k] \in [Tgt -> Chapter \cup {None}]
BY DEF ReceivingOK

\* The receiving project's calls leave every variable of its type.
LEMMA AuthorTyped ==
  ASSUME IInv, NEW c \in Tgt, EditTarget(c)
  PROVE  ReceivingOK'
<1>1. ReceivingOK /\ TypeOK
  BY DEF IInv, TypeOK
<1>2. chapter[c] # None => chapter[c] \in Chapter
  BY <1>1, Rows
<1>3. \E k \in Chapter : chapter' = [chapter EXCEPT ![c] = k]
  <2>1. CASE \E t \in Text : chapter' = [chapter EXCEPT ![c] = [version |-> 1, text |-> t, archived |-> FALSE]]
    BY <2>1 DEF Chapter
  <2>2. CASE chapter[c] # None /\ \E t \in Text :
               chapter' = [chapter EXCEPT ![c].version = @ + 1, ![c].text = t]
    <3> PICK t \in Text : chapter' = [chapter EXCEPT ![c].version = @ + 1, ![c].text = t]
      BY <2>2
    <3>1. [chapter[c] EXCEPT !.version = @ + 1, !.text = t] \in Chapter
      BY <1>2, <2>2, Saved
    <3>2. chapter' = [chapter EXCEPT ![c] = [chapter[c] EXCEPT !.version = @ + 1, !.text = t]]
      BY <1>1, <1>2, <2>2 DEF ReceivingOK, Chapter
    <3> QED
      BY <3>1, <3>2
  <2>3. CASE chapter[c] # None /\ chapter' = [chapter EXCEPT ![c].archived = ~@]
    <3>1. [chapter[c] EXCEPT !.archived = ~@] \in Chapter
      BY <1>2, <2>3 DEF Chapter
    <3> QED
      BY <3>1, <2>3
  <2> QED
    BY <2>1, <2>2, <2>3 DEF EditTarget
<1>4. chapter' \in [Tgt -> Chapter \cup {None}]
  BY <1>1, <1>3, ChapterTyped
<1> QED
  BY <1>1, <1>4 DEF EditTarget, ReceivingOK

LEMMA ReceiveTyped ==
  ASSUME IInv, NEW m \in Msg, NEW c \in Tgt \cup {None}, Receive(m, c)
  PROVE  ReceivingOK'
<1>1. ReceivingOK /\ TypeOK
  BY DEF IInv, TypeOK
<1>2. outbox[m] \in Sent /\ outbox[m].src \in Src
  BY <1>1, Rows DEF Receive, Sent
<1>3. [target |-> c, status |-> "PENDING_REVIEW", checkpoint |-> None,
       intent |-> None, known |-> {}, result |-> 0] \in Received
  BY DEF Received, Desired
<1>4. \A n \in Taken : [inbox[n] EXCEPT !.status = "SUPERSEDED"] \in Received
  BY <1>1, Rows DEF Received
<1>5. inbox' \in [Msg -> Received \cup {None}]
  BY <1>1, <1>3, <1>4 DEF Receive, ReceivingOK, From
<1>6. receiver' \in [active: BOOLEAN, selected: SUBSET Tgt, baseline: SUBSET Tgt,
                   cursor: 0..MaxMessages, tombstones: SUBSET Src,
                   withdrawn: SUBSET Src, binding: [Src -> Tgt \cup {None}]]
  <2>1. m \in 0..MaxMessages
    BY SyncOK DEF Msg
  <2>2. [receiver.binding EXCEPT ![outbox[m].src] = IF c = None THEN @ ELSE c] \in [Src -> Tgt \cup {None}]
    BY <1>1, <1>2 DEF ReceivingOK
  <2>3. receiver' = [receiver EXCEPT !.cursor = m,
           !.binding = [receiver.binding EXCEPT ![outbox[m].src] = IF c = None THEN @ ELSE c],
           !.tombstones = IF outbox[m].op = "TOMBSTONE" THEN @ \cup {outbox[m].src} ELSE @]
    BY <1>1 DEF Receive, ReceivingOK
  <2> QED
    BY <1>1, <1>2, <2>1, <2>2, <2>3 DEF ReceivingOK
<1> QED
  BY <1>1, <1>5, <1>6 DEF Receive, ReceivingOK

\* Calls on one message of the inbox that was taken.
LEMMA RowTyped ==
  ASSUME IInv, NEW m \in Taken, NEW s \in {"CLAIMED", "UNKNOWN", "CLOSED_WITHOUT_REPLAY"},
         NEW k \in Chapter \cup {None}, NEW d \in Desired, NEW known \in SUBSET Tgt,
         \/ inbox' = [inbox EXCEPT ![m].status = s]
         \/ inbox' = [inbox EXCEPT ![m].status = s, ![m].checkpoint = k, ![m].intent = d,
                                   ![m].known = known]
  PROVE  inbox' \in [Msg -> Received \cup {None}] /\ inbox'[m] \in Received
<1>1. inbox \in [Msg -> Received \cup {None}] /\ inbox[m] \in Received
  BY Rows DEF IInv, TypeOK, ReceivingOK
<1>2. [inbox[m] EXCEPT !.status = s] \in Received
  BY <1>1 DEF Received
<1>3. [inbox[m] EXCEPT !.status = s, !.checkpoint = k, !.intent = d, !.known = known] \in Received
  BY <1>1 DEF Received
<1>4. [inbox EXCEPT ![m].status = s, ![m].checkpoint = k, ![m].intent = d, ![m].known = known]
      = [inbox EXCEPT ![m] = [inbox[m] EXCEPT !.status = s, !.checkpoint = k, !.intent = d, !.known = known]]
  BY <1>1 DEF Received
<1> QED
  BY <1>1, <1>2, <1>3, <1>4

LEMMA StepTyped ==
  ASSUME IInv, NEW m \in Msg,
         NEW pc \in {"none", "claimed", "write", "fill", "receipt", "failed"},
         NEW made \in Tgt \cup {None},
         \/ step' = [step EXCEPT ![m].pc = pc]
         \/ step' = [step EXCEPT ![m] = [pc |-> pc, made |-> made]]
  PROVE  step' \in [Msg -> Step]
BY DEF IInv, TypeOK, ReceivingOK, Step

\* The steps of a call that applies a message.
LEMMA ApplyingTyped ==
  ASSUME IInv, NEW m \in Msg, Applying(m)
  PROVE  ReceivingOK'
<1>1. ReceivingOK /\ TypeOK
  BY DEF IInv, TypeOK
<1>2. ASSUME Review(m) PROVE ReceivingOK'
  <2>1. PICK d \in Results(m) : preview' = [preview EXCEPT ![m] = [old |-> Current(m), desired |-> d]]
    BY <1>2 DEF Review
  <2>2. m \in Taken /\ inbox[m] \in Received /\ inbox[m].target \in Tgt \cup {None}
    BY <1>1, <1>2, Rows DEF Review, Reviewable, Received
  <2>3. Current(m) \in Chapter \cup {None}
    BY <1>1, <2>2 DEF Current, ReceivingOK
  <2>4. outbox[m].op = "TOMBSTONE" => Current(m) \in Chapter
    BY <1>1, <2>2, Rows DEF IInv, TargetsThere, Current
  <2>5. d \in Desired
    BY <2>3, <2>4 DEF Results, Desired, Chapter
  <2>6. [old |-> Current(m), desired |-> d] \in Preview
    BY <2>3, <2>5 DEF Preview
  <2> QED
    BY <1>1, <1>2, <2>1, <2>6 DEF Review, ReceivingOK
<1>3. ASSUME Claim(m) PROVE ReceivingOK'
  <2>1. m \in Taken /\ preview[m] \in Preview
    BY <1>1, <1>3, Rows DEF Claim, Reviewable, AsReviewed
  <2>2. preview[m].old \in Chapter \cup {None} /\ preview[m].desired \in Desired
    BY <2>1 DEF Preview
  <2>3. inbox' \in [Msg -> Received \cup {None}]
    <3> DEFINE known == {c \in Tgt : /\ preview[m].old = None
                                     /\ chapter[c] # None
                                     /\ ~chapter[c].archived}
    <3>1. known \in SUBSET Tgt
      OBVIOUS
    <3>2. inbox' = [inbox EXCEPT ![m].status = "CLAIMED", ![m].checkpoint = preview[m].old,
                 ![m].intent = preview[m].desired, ![m].known = known]
      BY <1>3 DEF Claim
    <3> HIDE DEF known
    <3> QED
      BY <2>1, <2>2, <3>1, <3>2, RowTyped
  <2>4. step' \in [Msg -> Step]
    <3>1. step[m] \in Step
      BY <1>1 DEF ReceivingOK
    <3> QED
      BY <1>1, <1>3, <3>1 DEF Claim, Step, ReceivingOK
  <2> QED
    BY <1>1, <1>3, <2>3, <2>4 DEF Claim, ReceivingOK
<1>4. ASSUME Begin(m) \/ Raise(m) PROVE ReceivingOK'
  <2>1. step' \in [Msg -> Step]
    <3>1. \E pc \in {"write", "failed"} : step' = [step EXCEPT ![m].pc = pc]
      BY <1>4 DEF Begin, Raise
    <3> QED
      BY <3>1, StepTyped
  <2> QED
    BY <1>1, <1>4, <2>1 DEF Begin, Raise, ReceivingOK
<1>5. ASSUME WriteTarget(m) PROVE ReceivingOK'
  <2> DEFINE c == inbox[m].target
  <2>1. m \in Taken /\ c \in Tgt /\ chapter[c] \in Chapter
    BY <1>5, Held DEF WriteTarget
  <2>2. step' \in [Msg -> Step]
    <3>1. \/ step' = [step EXCEPT ![m].pc = "failed"]
          \/ step' = [step EXCEPT ![m] = [pc |-> "receipt", made |-> c]]
      BY <1>5 DEF WriteTarget
    <3> QED
      BY <2>1, <3>1, StepTyped
  <2>3. chapter' \in [Tgt -> Chapter \cup {None}]
    <3>1. CASE ~Unmoved(m)
      BY <1>1, <1>5, <3>1 DEF WriteTarget, ReceivingOK
    <3>2. CASE Unmoved(m) /\ inbox[m].intent = None
      <4>1. chapter' = [chapter EXCEPT ![c] = [chapter[c] EXCEPT !.archived = TRUE]]
        BY <1>5, <3>2 DEF WriteTarget
      <4>2. [chapter[c] EXCEPT !.archived = TRUE] \in Chapter
        BY <2>1 DEF Chapter
      <4> QED
        BY <1>1, <2>1, <4>1, <4>2, ChapterTyped
    <3>3. CASE Unmoved(m) /\ inbox[m].intent # None
      <4>1. PICK t \in Text : chapter' = [chapter EXCEPT ![c].version = @ + 1, ![c].text = t]
        BY <1>5, <3>3 DEF WriteTarget
      <4>2. chapter' = [chapter EXCEPT ![c] = [chapter[c] EXCEPT !.version = @ + 1, !.text = t]]
        BY <1>1, <2>1, <4>1 DEF ReceivingOK, Chapter
      <4> QED
        BY <1>1, <2>1, <4>2, Saved, ChapterTyped
    <3> QED
      BY <3>1, <3>2, <3>3
  <2> QED
    BY <1>1, <1>5, <2>1, <2>2, <2>3 DEF WriteTarget, ReceivingOK
<1>6. ASSUME WriteNew(m) PROVE ReceivingOK'
  <2>1. PICK c \in Tgt, t \in Text :
          /\ chapter' = [chapter EXCEPT ![c] = [version |-> 1, text |-> t, archived |-> FALSE]]
          /\ step' = [step EXCEPT ![m] = [pc |-> "fill", made |-> c]]
    BY <1>6 DEF WriteNew
  <2>2. [version |-> 1, text |-> t, archived |-> FALSE] \in Chapter
    BY DEF Chapter
  <2>3. chapter' \in [Tgt -> Chapter \cup {None}] /\ step' \in [Msg -> Step]
    BY <1>1, <2>1, <2>2, ChapterTyped, StepTyped
  <2> QED
    BY <1>1, <1>6, <2>3 DEF WriteNew, ReceivingOK
<1>7. ASSUME Fill(m) PROVE ReceivingOK'
  <2> DEFINE c == step[m].made
  <2>1. c \in Tgt /\ chapter[c] \in Chapter
    BY <1>7, Held DEF Fill
  <2>2. step' \in [Msg -> Step]
    <3>1. \E pc \in {"receipt", "failed"} : step' = [step EXCEPT ![m].pc = pc]
      BY <1>7 DEF Fill
    <3> QED
      BY <3>1, StepTyped
  <2>3. chapter' \in [Tgt -> Chapter \cup {None}]
    <3>1. CASE chapter[c].version = 1
      <4>1. PICK t \in Text : chapter' = [chapter EXCEPT ![c].version = 2, ![c].text = t]
        BY <1>7, <3>1 DEF Fill
      <4>2. chapter' = [chapter EXCEPT ![c] = [chapter[c] EXCEPT !.version = 2, !.text = t]]
        BY <1>1, <2>1, <4>1 DEF ReceivingOK, Chapter
      <4> QED
        BY <1>1, <2>1, <4>2, Saved, ChapterTyped
    <3> QED
      BY <1>1, <1>7, <3>1 DEF Fill, ReceivingOK
  <2> QED
    BY <1>1, <1>7, <2>2, <2>3 DEF Fill, ReceivingOK
<1>8. ASSUME Receipt(m) PROVE ReceivingOK'
  <2> DEFINE c == step[m].made
  <2>1. m \in Taken /\ c \in Tgt /\ chapter[c] \in Chapter /\ chapter[c] # None
    BY <1>1, <1>8, Held, Rows DEF Receipt
  <2>2. step' \in [Msg -> Step]
    <3>1. \/ step' = [step EXCEPT ![m].pc = "failed"]
          \/ step' = [step EXCEPT ![m] = [pc |-> "none", made |-> None]]
      BY <1>8 DEF Receipt
    <3> QED
      BY <3>1, StepTyped
  <2>3. CASE Finishes(m, c)
    <3>1. Finish(m, c, "APPLIED")
      BY <1>8, <2>3 DEF Receipt
    <3> QED
      BY <1>1, <1>8, <2>1, <2>2, <3>1, FinishTyped DEF Receipt, ReceivingOK, Success
  <2>4. CASE ~Finishes(m, c)
    BY <1>1, <1>8, <2>2, <2>4 DEF Receipt, ReceivingOK
  <2> QED
    BY <2>3, <2>4
<1>9. ASSUME MarkUnknown(m) PROVE ReceivingOK'
  <2>1. m \in Taken
    BY <1>9, Held DEF MarkUnknown
  <2>2. inbox' \in [Msg -> Received \cup {None}]
    <3>1. CASE inbox[m].status \in Open
      <4>1. inbox' = [inbox EXCEPT ![m].status = "UNKNOWN"]
        BY <1>9, <3>1 DEF MarkUnknown
      <4> QED
        BY <2>1, <4>1, RowTyped DEF Desired
    <3>2. CASE inbox[m].status \notin Open
      <4>1. inbox' = [inbox EXCEPT ![m].status = inbox[m].status] /\ inbox[m] \in Received
        BY <1>1, <1>9, <2>1, <3>2, Rows DEF MarkUnknown
      <4> QED
        BY <1>1, <4>1 DEF ReceivingOK, Received
    <3> QED
      BY <3>1, <3>2
  <2>3. step' \in [Msg -> Step]
    BY <1>9, StepTyped DEF MarkUnknown
  <2> QED
    BY <1>1, <1>9, <2>2, <2>3 DEF MarkUnknown, ReceivingOK
<1> QED
  BY <1>2, <1>3, <1>4, <1>5, <1>6, <1>7, <1>8, <1>9 DEF Applying

LEMMA ReceivingTyped ==
  ASSUME IInv, NextReceiving
  PROVE  ReceivingOK'
<1>1. ReceivingOK /\ TypeOK
  BY DEF IInv, TypeOK
<1>2. ASSUME NEW m \in Msg, Close(m) PROVE ReceivingOK'
  <2>1. m \in Taken /\ inbox' \in [Msg -> Received \cup {None}]
    BY <1>2, RowTyped DEF Close, Desired
  <2> QED
    BY <1>1, <1>2, <2>1 DEF Close, ReceivingOK
<1>3. ASSUME NEW m \in Msg, NEW c \in Tgt, Adopt(m, c) PROVE ReceivingOK'
  <2>1. m \in Taken /\ chapter[c] # None
    <3>1. m \in Taken /\ inbox[m].target \in receiver.baseline \cup {None}
      BY <1>1, <1>3 DEF Adopt, IInv, TargetsThere
    <3> QED
      BY <1>1, <1>3, <3>1 DEF Adopt, Observed, IInv, TargetsThere
  <2> QED
    BY <1>1, <1>3, <2>1, FinishTyped DEF Adopt, ReceivingOK, Success
<1>4. ASSUME Crash PROVE ReceivingOK'
  BY <1>1, <1>4 DEF Crash, ReceivingOK, Step
<1>5. ASSUME NEW add \in SUBSET Tgt, NEW withdraw \in SUBSET Tgt,
             ChangeReceiving(add, withdraw)
      PROVE  ReceivingOK'
  <2>1. \A m \in Taken : [inbox[m] EXCEPT !.status = "SELECTION_REVOKED"] \in Received
    BY <1>1, Rows DEF Received
  <2>2. inbox' \in [Msg -> Received \cup {None}]
    BY <1>1, <1>5, <2>1 DEF ChangeReceiving, ReceivingOK
  <2>3. receiver' \in [active: BOOLEAN, selected: SUBSET Tgt, baseline: SUBSET Tgt,
                   cursor: 0..MaxMessages, tombstones: SUBSET Src,
                   withdrawn: SUBSET Src, binding: [Src -> Tgt \cup {None}]]
    BY <1>1, <1>5 DEF ChangeReceiving, ReceivingOK, Selected
  <2> QED
    BY <1>1, <1>5, <2>2, <2>3 DEF ChangeReceiving, ReceivingOK
<1>6. ASSUME RevokeReceiving PROVE ReceivingOK'
  BY <1>1, <1>6 DEF RevokeReceiving, ReceivingOK
<1> QED
  BY <1>2, <1>3, <1>4, <1>5, <1>6, AuthorTyped, ReceiveTyped, ApplyingTyped DEF NextReceiving

----------------------------------------------------------------------------
(* How rows and chapters may move. *)

\* Chapters stay, and a version of one is one text.
Kept(c) ==
  chapter[c] # None =>
    /\ chapter'[c] # None /\ chapter'[c].version >= chapter[c].version
    /\ chapter'[c].version = chapter[c].version => chapter'[c].text = chapter[c].text

\* A message of the inbox stays, or moves on.
Moved(m) ==
  /\ inbox[m].target # None => inbox'[m].target = inbox[m].target
  /\ \/ inbox'[m] = inbox[m]
     \/ /\ inbox[m].status = "PENDING_REVIEW" /\ inbox'[m].target = inbox[m].target
        /\ inbox'[m].status \in {"CLAIMED", "SELECTION_REVOKED", "SUPERSEDED"}
     \/ /\ inbox[m].status \in Open /\ inbox'[m].target = inbox[m].target
        /\ inbox'[m].status \in {"UNKNOWN", "CLOSED_WITHOUT_REPLAY"}
        /\ inbox'[m].checkpoint = inbox[m].checkpoint /\ inbox'[m].intent = inbox[m].intent
     \/ /\ inbox[m].status \in Open /\ inbox'[m].status \in Success
        /\ inbox'[m].checkpoint = inbox[m].checkpoint /\ inbox'[m].intent = inbox[m].intent
        /\ inbox'[m].target \in receiver'.baseline /\ chapter[inbox'[m].target] # None
        /\ inbox'[m].result = chapter[inbox'[m].target].version
        /\ inbox'[m].intent # None => chapter[inbox'[m].target].text = inbox'[m].intent

\* Sent messages keep what they are about.
SentKept ==
  \A m \in Msg : outbox[m] # None =>
    outbox'[m] # None /\ outbox'[m].src = outbox[m].src /\ outbox'[m].op = outbox[m].op

LEMMA SenderMoves ==
  ASSUME TypeOK, Numbered, NextSending
  PROVE  SentKept /\ UNCHANGED receiving /\ Numbered'
<1> DEFINE Goal == SentKept /\ UNCHANGED receiving /\ Numbered'
<1>1. /\ outbox \in [Msg -> Sent \cup {None}] /\ None \notin Sent
      /\ \A m \in Msg : outbox[m] # None => outbox[m] \in Sent
      /\ sender \in [active: BOOLEAN, selected: SUBSET Src, baseline: SUBSET Src,
                 cursor: 0..MaxMessages, tombstones: SUBSET Src]
      /\ sender.cursor \in Nat /\ Msg \subseteq Nat
  BY Rows DEF TypeOK, SendingOK, Msg
<1>2. ASSUME UNCHANGED receiving, sender'.cursor = sender.cursor,
             \A m \in Msg : /\ outbox'[m] = None <=> outbox[m] = None
                            /\ outbox[m] # None => outbox'[m].src = outbox[m].src
                                                  /\ outbox'[m].op = outbox[m].op
      PROVE  Goal
  BY <1>2 DEF receiving, SentKept, Numbered, Taken
<1>3. ASSUME NEW s \in Src, EditSource(s) PROVE Goal
  BY <1>2, <1>3 DEF EditSource
<1>4. ASSUME NEW s \in Src, Queue(s) PROVE Goal
  <2> DEFINE m == sender.cursor + 1
  <2>1. m \in Msg /\ outbox[m] = None /\ m \notin Taken
    BY <1>1, <1>4 DEF Queue, Numbered, Taken
  <2>2. outbox'[m] # None /\ \A n \in Msg : n # m => outbox'[n] = outbox[n]
    <3>1. outbox'[m] = [src |-> s, op |-> IF source[s].archived THEN "TOMBSTONE" ELSE "SNAPSHOT",
                        version |-> source[s].version, attempts |-> 0, status |-> "PENDING"]
      BY <1>1, <1>4, <2>1 DEF Queue
    <3>2. outbox'[m] \in Sent
      <4>1. source[s].version \in Nat
        BY DEF TypeOK, SendingOK
      <4> QED
        BY <3>1, <4>1 DEF Sent
    <3> QED
      BY <1>1, <1>4, <3>2 DEF Queue
  <2>3. sender'.cursor = m /\ UNCHANGED receiving
    BY <1>1, <1>4 DEF Queue
  <2>4. SentKept
    BY <2>1, <2>2 DEF SentKept
  <2>5. Taken' = Taken
    BY <2>3 DEF Taken, receiving
  <2>6. Numbered'
    <3>1. \A n \in Msg : outbox'[n] # None <=> n <= sender'.cursor
      <4> TAKE n \in Msg
      <4>1. outbox[n] # None <=> n <= sender.cursor
        BY DEF Numbered
      <4>2. n \in Nat /\ sender.cursor \in Nat /\ (n <= m <=> n = m \/ n <= sender.cursor)
        BY <1>1
      <4> QED
        BY <2>2, <2>3, <4>1, <4>2
    <3>2. \A n \in Taken' : n <= receiver'.cursor /\ outbox'[n] # None
      BY <2>1, <2>2, <2>3, <2>5 DEF Numbered, receiving, Taken
    <3> QED
      BY <3>1, <3>2 DEF Numbered
  <2> QED
    BY <2>3, <2>4, <2>6
<1>5. ASSUME NEW m \in Msg, NEW status \in {"FAILED", "UNKNOWN", "ACKNOWLEDGED"},
             Export(m) \/ Delivery(m, status)
      PROVE  Goal
  <2>1. \A n \in Msg : /\ outbox'[n] = None <=> outbox[n] = None
                       /\ outbox[n] # None => outbox'[n].src = outbox[n].src
                                             /\ outbox'[n].op = outbox[n].op
    <3>1. CASE Export(m)
      <4>1. \A n \in Msg : outbox[n] # None => /\ outbox'[n] # None
                                               /\ outbox'[n].src = outbox[n].src
                                               /\ outbox'[n].op = outbox[n].op
        <5>1. [outbox[m] EXCEPT !.status = "UNKNOWN", !.attempts = @ + 1] \in Sent
          BY <1>1, <3>1 DEF Export, Sent
        <5>2. outbox' = [outbox EXCEPT ![m] =
                           [outbox[m] EXCEPT !.status = "UNKNOWN", !.attempts = @ + 1]]
          BY <1>1, <3>1 DEF Export, Sent
        <5> QED
          BY <1>1, <5>1, <5>2 DEF Sent
      <4> QED
        BY <1>1, <3>1, <4>1 DEF Export
    <3>2. CASE Delivery(m, status)
      <4>1. outbox' = [outbox EXCEPT ![m] = [outbox[m] EXCEPT !.status = status]] /\ outbox[m] # None
        BY <3>2 DEF Delivery
      <4>2. outbox[m] \in Sent /\ [outbox[m] EXCEPT !.status = status] \in Sent
        BY <1>1, <4>1 DEF Sent
      <4> QED
        BY <1>1, <4>1, <4>2 DEF Sent
    <3> QED
      BY <1>5, <3>1, <3>2
  <2> QED
    BY <1>2, <1>5, <2>1 DEF Export, Delivery
<1>6. ASSUME NEW add, NEW withdraw, ChangeSending(add, withdraw) PROVE Goal
  <2>1. \A n \in Msg : /\ outbox'[n] = None <=> outbox[n] = None
                       /\ outbox[n] # None => outbox'[n].src = outbox[n].src
                                             /\ outbox'[n].op = outbox[n].op
    BY <1>1, <1>6 DEF ChangeSending, Sent
  <2>2. sender'.cursor = sender.cursor
    BY <1>1, <1>6 DEF ChangeSending
  <2> QED
    BY <1>2, <1>6, <2>1, <2>2 DEF ChangeSending
<1>7. ASSUME RevokeSending PROVE Goal
  <2>1. sender'.cursor = sender.cursor
    BY <1>1, <1>7 DEF RevokeSending
  <2> QED
    BY <1>2, <1>7, <2>1 DEF RevokeSending
<1> QED
  BY <1>3, <1>4, <1>5, <1>6, <1>7 DEF NextSending

\* The receiving calls keep every chapter.
LEMMA SavedKept ==
  ASSUME ReceivingOK, NEW c \in Tgt, chapter'[c] \in Chapter,
         \A d \in Tgt : d # c => chapter'[d] = chapter[d],
         chapter[c] # None =>
           /\ chapter'[c].version >= chapter[c].version
           /\ chapter'[c].version = chapter[c].version => chapter'[c].text = chapter[c].text
  PROVE  \A d \in Tgt : Kept(d)
<1>1. None \notin Chapter
  BY SyncOK
<1> QED
  BY <1>1 DEF Kept, ReceivingOK, Chapter

LEMMA SameKept ==
  ASSUME ReceivingOK, chapter' = chapter
  PROVE  \A d \in Tgt : Kept(d)
<1>1. \A d \in Tgt : chapter[d] # None => chapter[d].version \in Nat
  BY DEF ReceivingOK, Chapter
<1> QED
  BY <1>1 DEF Kept

LEMMA ChaptersKept ==
  ASSUME IInv, NextReceiving
  PROVE  \A d \in Tgt : Kept(d)
<1>1. ReceivingOK /\ TypeOK /\ \A d \in Tgt : chapter[d] # None => chapter[d] \in Chapter
  BY Rows DEF IInv, TypeOK
<1> DEFINE Goal == \A d \in Tgt : Kept(d)
<1>2. chapter' = chapter => Goal
  BY <1>1, SameKept
<1>3. ASSUME NEW c \in Tgt, EditTarget(c) PROVE Goal
  <2>1. CASE \E t \in Text : /\ chapter[c] = None
                            /\ chapter' = [chapter EXCEPT ![c] = [version |-> 1, text |-> t, archived |-> FALSE]]
    <3>1. \A t \in Text : [version |-> 1, text |-> t, archived |-> FALSE] \in Chapter
      BY DEF Chapter
    <3>2. PICK t \in Text : chapter' = [chapter EXCEPT ![c] = [version |-> 1, text |-> t, archived |-> FALSE]]
      BY <2>1
    <3>3. chapter'[c] \in Chapter /\ \A d \in Tgt : d # c => chapter'[d] = chapter[d]
      BY <1>1, <3>1, <3>2 DEF ReceivingOK
    <3> QED
      BY <1>1, <2>1, <3>3, SavedKept
  <2>2. CASE chapter[c] # None /\ \E t \in Text :
               chapter' = [chapter EXCEPT ![c].version = @ + 1, ![c].text = t]
    <3> PICK t \in Text : chapter' = [chapter EXCEPT ![c].version = @ + 1, ![c].text = t]
      BY <2>2
    <3> DEFINE k == [chapter[c] EXCEPT !.version = @ + 1, !.text = t]
    <3>1. chapter[c] \in Chapter /\ k \in Chapter
      BY <1>1, <2>2, Saved
    <3>2. chapter' = [chapter EXCEPT ![c] = k]
      BY <1>1, <3>1 DEF ReceivingOK, Chapter
    <3>3. k.version = chapter[c].version + 1 /\ chapter[c].version \in Nat
      BY <3>1 DEF Chapter
    <3> HIDE DEF k
    <3>4. chapter'[c] = k /\ \A d \in Tgt : d # c => chapter'[d] = chapter[d]
      BY <1>1, <3>2, <3>1, <3>3 DEF ReceivingOK
    <3>5. /\ chapter'[c].version >= chapter[c].version
          /\ chapter'[c].version = chapter[c].version => chapter'[c].text = chapter[c].text
      BY <3>1, <3>2, <3>3, <3>4
    <3>6. chapter'[c] \in Chapter /\ \A d \in Tgt : d # c => chapter'[d] = chapter[d]
      BY <3>1, <3>2, <3>3, <3>4
    <3> QED
      BY <1>1, <2>1, <3>5, <3>6, SavedKept
  <2>3. CASE chapter[c] # None /\ chapter' = [chapter EXCEPT ![c].archived = ~@]
    <3> DEFINE k == [chapter[c] EXCEPT !.archived = ~@]
    <3>1. chapter[c] \in Chapter /\ k \in Chapter
      <4>1. chapter[c] \in Chapter
        BY <1>1, <2>3
      <4> QED
        BY <4>1 DEF Chapter
    <3>2. k.version = chapter[c].version /\ chapter[c].version \in Nat /\ k.text = chapter[c].text
      BY <3>1 DEF Chapter
    <3>3. chapter' = [chapter EXCEPT ![c] = k]
      BY <2>3
    <3> HIDE DEF k
    <3>4. chapter'[c] = k /\ \A d \in Tgt : d # c => chapter'[d] = chapter[d]
      BY <1>1, <3>2, <3>1, <3>3 DEF ReceivingOK
    <3>5. /\ chapter'[c].version >= chapter[c].version
          /\ chapter'[c].version = chapter[c].version => chapter'[c].text = chapter[c].text
      BY <3>1, <3>2, <3>3, <3>4
    <3>6. chapter'[c] \in Chapter /\ \A d \in Tgt : d # c => chapter'[d] = chapter[d]
      BY <3>1, <3>2, <3>3, <3>4
    <3> QED
      BY <1>1, <2>1, <3>5, <3>6, SavedKept
  <2> QED
    BY <1>3, <2>1, <2>2, <2>3 DEF EditTarget
<1>4. ASSUME NEW m \in Msg, WriteTarget(m) PROVE Goal
  <2> DEFINE c == inbox[m].target
  <2>1. c \in Tgt /\ chapter[c] \in Chapter
    BY <1>4, Held DEF WriteTarget
  <2>2. CASE ~Unmoved(m)
    BY <1>2, <1>4, <2>2 DEF WriteTarget
  <2>3. CASE Unmoved(m) /\ inbox[m].intent = None
    <3> DEFINE k == [chapter[c] EXCEPT !.archived = TRUE]
    <3>1. chapter' = [chapter EXCEPT ![c] = k] /\ k \in Chapter
      BY <1>4, <2>1, <2>3 DEF WriteTarget, Chapter
    <3>2. k.version = chapter[c].version /\ chapter[c].version \in Nat /\ k.text = chapter[c].text
      BY <2>1 DEF Chapter
    <3> HIDE DEF k
    <3>4. chapter'[c] = k /\ \A d \in Tgt : d # c => chapter'[d] = chapter[d]
      BY <1>1, <2>1, <3>1 DEF ReceivingOK
    <3>5. /\ chapter'[c].version >= chapter[c].version
          /\ chapter'[c].version = chapter[c].version => chapter'[c].text = chapter[c].text
      BY <2>1, <3>1, <3>2, <3>4
    <3>6. chapter'[c] \in Chapter /\ \A d \in Tgt : d # c => chapter'[d] = chapter[d]
      BY <2>1, <3>1, <3>2, <3>4
    <3> QED
      BY <1>1, <2>1, <3>5, <3>6, SavedKept
  <2>4. CASE Unmoved(m) /\ inbox[m].intent # None
    <3> PICK t \in Text : chapter' = [chapter EXCEPT ![c].version = @ + 1, ![c].text = t]
      BY <1>4, <2>4 DEF WriteTarget
    <3> DEFINE k == [chapter[c] EXCEPT !.version = @ + 1, !.text = t]
    <3>1. chapter' = [chapter EXCEPT ![c] = k]
      BY <1>1, <2>1 DEF ReceivingOK, Chapter
    <3>2. k \in Chapter /\ k.version = chapter[c].version + 1 /\ chapter[c].version \in Nat
      BY <2>1, Saved DEF Chapter
    <3> HIDE DEF k
    <3>4. chapter'[c] = k /\ \A d \in Tgt : d # c => chapter'[d] = chapter[d]
      BY <1>1, <2>1, <3>1 DEF ReceivingOK
    <3>5. /\ chapter'[c].version >= chapter[c].version
          /\ chapter'[c].version = chapter[c].version => chapter'[c].text = chapter[c].text
      BY <2>1, <3>1, <3>2, <3>4
    <3>6. chapter'[c] \in Chapter /\ \A d \in Tgt : d # c => chapter'[d] = chapter[d]
      BY <2>1, <3>1, <3>2, <3>4
    <3> QED
      BY <1>1, <2>1, <3>5, <3>6, SavedKept
  <2> QED
    BY <2>2, <2>3, <2>4
<1>5. ASSUME NEW m \in Msg, WriteNew(m) PROVE Goal
  <2>1. \A t \in Text : [version |-> 1, text |-> t, archived |-> FALSE] \in Chapter
    BY DEF Chapter
  <2> QED
    <3>1. PICK c \in Tgt, t \in Text :
            /\ chapter[c] = None
            /\ chapter' = [chapter EXCEPT ![c] = [version |-> 1, text |-> t, archived |-> FALSE]]
      BY <1>5 DEF WriteNew
    <3>2. chapter'[c] \in Chapter /\ \A d \in Tgt : d # c => chapter'[d] = chapter[d]
      BY <1>1, <2>1, <3>1 DEF ReceivingOK
    <3> QED
      BY <1>1, <3>1, <3>2, SavedKept
<1>6. ASSUME NEW m \in Msg, Fill(m) PROVE Goal
  <2> DEFINE c == step[m].made
  <2>1. c \in Tgt /\ chapter[c] \in Chapter
    BY <1>6, Held DEF Fill
  <2>2. CASE chapter[c].version # 1
    BY <1>2, <1>6, <2>2 DEF Fill
  <2>3. CASE chapter[c].version = 1
    <3> PICK t \in Text : chapter' = [chapter EXCEPT ![c].version = 2, ![c].text = t]
      BY <1>6, <2>3 DEF Fill
    <3> DEFINE k == [chapter[c] EXCEPT !.version = 2, !.text = t]
    <3>1. chapter' = [chapter EXCEPT ![c] = k]
      BY <1>1, <2>1 DEF ReceivingOK, Chapter
    <3>2. k \in Chapter /\ k.version = 2
      BY <2>1, Saved DEF Chapter
    <3> HIDE DEF k
    <3>4. chapter'[c] = k /\ \A d \in Tgt : d # c => chapter'[d] = chapter[d]
      BY <1>1, <2>1, <3>1 DEF ReceivingOK
    <3>5. /\ chapter'[c].version >= chapter[c].version
          /\ chapter'[c].version = chapter[c].version => chapter'[c].text = chapter[c].text
      BY <2>1, <2>3, <3>1, <3>2, <3>4
    <3>6. chapter'[c] \in Chapter /\ \A d \in Tgt : d # c => chapter'[d] = chapter[d]
      BY <2>1, <2>3, <3>1, <3>2, <3>4
    <3> QED
      BY <1>1, <2>1, <3>5, <3>6, SavedKept
  <2> QED
    BY <2>2, <2>3
<1>7. ASSUME NEW m \in Msg,
             Review(m) \/ Claim(m) \/ Begin(m) \/ Receipt(m) \/ Raise(m) \/ MarkUnknown(m) \/ Close(m)
      PROVE  Goal
  BY <1>2, <1>7 DEF Review, Claim, Begin, Receipt, Raise, MarkUnknown, Close
<1>8. ASSUME NEW m, NEW c, Receive(m, c) \/ Adopt(m, c) PROVE Goal
  BY <1>2, <1>8 DEF Receive, Adopt
<1>9. ASSUME NEW add, NEW withdraw,
             Crash \/ RevokeReceiving \/ ChangeReceiving(add, withdraw)
      PROVE  Goal
  BY <1>2, <1>9 DEF Crash, RevokeReceiving, ChangeReceiving
<1>10. ASSUME NEW m \in Msg, Applying(m) PROVE Goal
  <2> HIDE DEF Goal
  <2> QED
    BY <1>10, <1>4, <1>5, <1>6, <1>7 DEF Applying
<1>11. Goal
  <2> HIDE DEF Goal
  <2> QED
    BY <1>3, <1>7, <1>8, <1>9, <1>10 DEF NextReceiving
<1> QED
  BY <1>11

\* What a receipt does, row by row.
LEMMA FinishMoves ==
  ASSUME IInv, NEW m \in Taken, NEW c \in Tgt, chapter[c] # None,
         NEW status \in Success, Finishes(m, c), Finish(m, c, status),
         inbox[m].target \in {None, c}
  PROVE  /\ \A n \in Msg : n # m => inbox'[n] = inbox[n]
         /\ inbox'[m] \in Received /\ inbox'[m] # None
         /\ inbox[m].status \in Open /\ inbox'[m].status = status
         /\ inbox'[m].target = c /\ inbox'[m].result = chapter[c].version
         /\ inbox'[m].intent = inbox[m].intent
         /\ inbox'[m].checkpoint = inbox[m].checkpoint
         /\ c \in receiver'.baseline
         /\ Moved(m)
<1>1. ReceivingOK /\ TypeOK /\ inbox[m] \in Received /\ m \in Msg /\ None \notin Received
  BY Rows DEF IInv, TypeOK
<1> DEFINE row == [inbox[m] EXCEPT !.status = status, !.target = c, !.result = chapter[c].version]
<1>2. inbox' = [inbox EXCEPT ![m] = row]
  BY <1>1 DEF Finish, ReceivingOK, Received
<1>3. inbox'[m] = row /\ \A n \in Msg : n # m => inbox'[n] = inbox[n]
  BY <1>1, <1>2 DEF ReceivingOK
<1>4. /\ row.status = status /\ row.target = c /\ row.result = chapter[c].version
      /\ row.intent = inbox[m].intent /\ row.checkpoint = inbox[m].checkpoint
  BY <1>1 DEF Received
<1>5. row \in Received
  BY <1>1, <1>2, <1>3, FinishTyped
<1>6. c \in receiver'.baseline
  <2>1. CASE inbox[m].target = None
    BY <1>1, <2>1 DEF Finish, ReceivingOK
  <2>2. CASE inbox[m].target # None
    BY <1>1, <2>2 DEF Finish, IInv, TargetsThere
  <2> QED
    BY <2>1, <2>2
<1>7. inbox[m].status \in Open
  BY DEF Finishes
<1> HIDE DEF row
<1> QED
  BY <1>1, <1>3, <1>4, <1>5, <1>6, <1>7 DEF Moved, Finishes, Matches

LEMMA InboxMoves ==
  ASSUME IInv, NextReceiving
  PROVE  /\ UNCHANGED sending
         /\ \A n \in Taken : inbox'[n] # None /\ Moved(n)
         /\ \A n \in Msg \ Taken : inbox'[n] = None \/ \E c \in Tgt \cup {None} : Receive(n, c)
<1> DEFINE Goal == /\ UNCHANGED sending
                   /\ \A n \in Taken : inbox'[n] # None /\ Moved(n)
                   /\ \A n \in Msg \ Taken : inbox'[n] = None \/ \E c \in Tgt \cup {None} : Receive(n, c)
<1>1. /\ ReceivingOK /\ TypeOK /\ \A n \in Taken : n \in Msg /\ inbox[n] \in Received
      /\ None \notin Received /\ inbox \in [Msg -> Received \cup {None}]
  BY Rows DEF IInv, TypeOK, ReceivingOK
<1>2. (inbox' = inbox /\ UNCHANGED sending) => Goal
  BY <1>1 DEF Moved, Taken
<1>3. ASSUME NEW m \in Msg, Review(m) \/ Begin(m) \/ WriteTarget(m) \/ WriteNew(m) \/ Fill(m) \/ Raise(m)
      PROVE  Goal
  BY <1>2, <1>3 DEF Review, Begin, WriteTarget, WriteNew, Fill, Raise
<1>4. ASSUME NEW c, EditTarget(c) \/ Crash \/ RevokeReceiving PROVE Goal
  BY <1>2, <1>4 DEF EditTarget, Crash, RevokeReceiving
<1>5. ASSUME NEW m \in Taken, UNCHANGED sending, inbox'[m] # None, Moved(m),
             \A n \in Msg : n # m => inbox'[n] = inbox[n]
      PROVE  Goal
  BY <1>1, <1>5 DEF Moved, Taken
<1>6. ASSUME NEW m \in Msg, Claim(m) PROVE Goal
  <2>1. m \in Taken /\ inbox[m].status = "PENDING_REVIEW"
    BY <1>6 DEF Claim, Reviewable
  <2>2. /\ \A n \in Msg : n # m => inbox'[n] = inbox[n]
        /\ inbox'[m].status = "CLAIMED" /\ inbox'[m].target = inbox[m].target
    BY <1>1, <1>6, <2>1 DEF Claim, Received
  <2>3. inbox'[m] # None
    <3> DEFINE known == {c \in Tgt : /\ preview[m].old = None
                                     /\ chapter[c] # None
                                     /\ ~chapter[c].archived}
    <3>1. inbox' = [inbox EXCEPT ![m].status = "CLAIMED", ![m].checkpoint = preview[m].old,
                 ![m].intent = preview[m].desired, ![m].known = known]
      BY <1>6 DEF Claim
    <3>2. known \in SUBSET Tgt
      OBVIOUS
    <3>3. preview[m].old \in Chapter \cup {None} /\ preview[m].desired \in Desired
      BY <1>1, <1>6, Rows DEF Claim, AsReviewed, Preview
    <3> HIDE DEF known
    <3>4. inbox'[m] = [inbox[m] EXCEPT !.status = "CLAIMED", !.checkpoint = preview[m].old,
                                       !.intent = preview[m].desired, !.known = known]
      BY <1>1, <3>1 DEF TypeOK, ReceivingOK
    <3>5. inbox[m] \in Received
      BY <1>1, <2>1 DEF TypeOK, ReceivingOK, Taken
    <3>6. inbox'[m] \in Received
      BY <3>2, <3>3, <3>4, <3>5 DEF Received
    <3> QED
      BY <1>1, <3>6
  <2> QED
    BY <1>5, <1>6, <2>1, <2>2, <2>3 DEF Claim, Moved
<1>7. ASSUME NEW m \in Msg, Receipt(m) PROVE Goal
  <2>1. CASE Finishes(m, step[m].made)
    <3>1. /\ m \in Taken /\ step[m].made \in Tgt /\ chapter[step[m].made] # None
          /\ inbox[m].target \in {None, step[m].made}
          /\ Finish(m, step[m].made, "APPLIED")
      BY <1>7, <2>1, Held DEF Receipt, IInv, Claims
    <3> QED
      BY <1>5, <1>7, <2>1, <3>1, FinishMoves DEF Receipt, Success
  <2>2. CASE ~Finishes(m, step[m].made)
    BY <1>2, <1>7, <2>2 DEF Receipt
  <2> QED
    BY <2>1, <2>2
<1>8. ASSUME NEW m \in Msg, NEW c \in Tgt, Adopt(m, c) PROVE Goal
  <2>1. m \in Taken /\ inbox[m].target \in receiver.baseline \cup {None}
    BY <1>1, <1>8 DEF Adopt, IInv, TargetsThere
  <2>2. inbox[m].target \in {None, c} /\ chapter[c] # None
    BY <1>1, <1>8, <2>1 DEF Adopt, Observed, IInv, TargetsThere
  <2> QED
    BY <1>5, <1>8, <2>1, <2>2, FinishMoves DEF Adopt, Success
<1>9. ASSUME NEW m \in Taken, NEW s \in {"UNKNOWN", "CLOSED_WITHOUT_REPLAY"},
             inbox[m].status \in Open, inbox' = [inbox EXCEPT ![m].status = s], UNCHANGED sending
      PROVE  Goal
  <2>1. /\ \A n \in Msg : n # m => inbox'[n] = inbox[n]
        /\ inbox'[m].status = s /\ inbox'[m].target = inbox[m].target
        /\ inbox'[m].checkpoint = inbox[m].checkpoint /\ inbox'[m].intent = inbox[m].intent
    BY <1>1, <1>9 DEF Received
  <2>2. inbox'[m] # None
    BY <1>1, <1>9, RowTyped DEF Desired
  <2>3. Moved(m)
    BY <1>9, <2>1 DEF Moved
  <2> QED
    BY <1>5, <1>9, <2>1, <2>2, <2>3
<1>10. ASSUME NEW m \in Msg, MarkUnknown(m) \/ Close(m) PROVE Goal
  <2>1. m \in Taken
    BY <1>10, Held DEF MarkUnknown, Close
  <2>2. CASE Close(m)
    BY <1>9, <2>1, <2>2 DEF Close
  <2>3. CASE MarkUnknown(m) /\ inbox[m].status \in Open
    BY <1>9, <2>1, <2>3 DEF MarkUnknown
  <2>4. CASE MarkUnknown(m) /\ inbox[m].status \notin Open
    <3>1. inbox' = [inbox EXCEPT ![m] = [inbox[m] EXCEPT !.status = inbox[m].status]]
      BY <1>1, <2>4 DEF MarkUnknown
    <3>2. [inbox[m] EXCEPT !.status = inbox[m].status] = inbox[m]
      BY <1>1, <2>1 DEF Received
    <3>3. inbox' = inbox
      BY <1>1, <3>1, <3>2
    <3> QED
      BY <1>2, <2>4, <3>3 DEF MarkUnknown
  <2> QED
    BY <1>10, <2>2, <2>3, <2>4
<1>11. ASSUME NEW add, NEW withdraw, ChangeReceiving(add, withdraw) PROVE Goal
  <2>1. ASSUME NEW n \in Taken PROVE inbox'[n] # None /\ Moved(n)
    <3>1. inbox'[n] = inbox[n] \/
            /\ inbox[n].status = "PENDING_REVIEW"
            /\ inbox'[n] = [inbox[n] EXCEPT !.status = "SELECTION_REVOKED"]
      BY <1>1, <1>11, <2>1 DEF ChangeReceiving
    <3>2. [inbox[n] EXCEPT !.status = "SELECTION_REVOKED"] \in Received
      BY <1>1 DEF Received
    <3>3. inbox'[n] # inbox[n] => inbox'[n].status = "SELECTION_REVOKED" /\ inbox'[n].target = inbox[n].target
      BY <1>1, <3>1 DEF Received
    <3> QED
      BY <1>1, <3>1, <3>2, <3>3 DEF Moved
  <2>2. \A n \in Msg \ Taken : inbox'[n] = None
    BY <1>1, <1>11 DEF ChangeReceiving, Taken
  <2> QED
    BY <1>11, <2>1, <2>2 DEF ChangeReceiving
<1>12. ASSUME NEW m \in Msg, NEW c \in Tgt \cup {None}, Receive(m, c) PROVE Goal
  <2>1. ASSUME NEW n \in Taken PROVE inbox'[n] # None /\ Moved(n)
    <3>1. inbox'[n] = inbox[n] \/
            /\ inbox[n].status = "PENDING_REVIEW"
            /\ inbox'[n] = [inbox[n] EXCEPT !.status = "SUPERSEDED"]
      BY <1>1, <1>12, <2>1 DEF Receive
    <3>2. [inbox[n] EXCEPT !.status = "SUPERSEDED"] \in Received
      BY <1>1 DEF Received
    <3>3. inbox'[n] # inbox[n] => inbox'[n].status = "SUPERSEDED" /\ inbox'[n].target = inbox[n].target
      BY <1>1, <3>1 DEF Received
    <3> QED
      BY <1>1, <3>1, <3>2, <3>3 DEF Moved
  <2>2. \A n \in Msg \ Taken : n # m => inbox'[n] = None
    BY <1>1, <1>12 DEF Receive, Taken, From
  <2> QED
    BY <1>12, <2>1, <2>2 DEF Receive
<1>13. ASSUME NEW m \in Msg, Applying(m) PROVE Goal
  <2> HIDE DEF Goal
  <2> QED
    BY <1>13, <1>3, <1>6, <1>7, <1>10 DEF Applying
<1>14. Goal
  <2> HIDE DEF Goal
  <2> QED
    BY <1>4, <1>8, <1>10, <1>11, <1>12, <1>13 DEF NextReceiving
<1> QED
  BY <1>14

\* What taking a message does.
LEMMA ReceiveMoves ==
  ASSUME IInv, NEW m \in Msg, NEW c \in Tgt \cup {None}, Receive(m, c)
  PROVE  /\ m \notin Taken /\ outbox[m] \in Sent /\ outbox[m].src \in Src
         /\ receiver'.cursor = m /\ \A n \in Taken : n < m
         /\ inbox'[m] # None /\ inbox'[m].target = c /\ inbox'[m].status = "PENDING_REVIEW"
         /\ \A n \in From(outbox[m].src) : inbox'[n].status \notin Open \cup {"PENDING_REVIEW"}
         /\ receiver'.baseline = receiver.baseline /\ receiver'.selected = receiver.selected
         /\ \A s \in Src : receiver'.binding[s] =
               IF s = outbox[m].src /\ c # None THEN c ELSE receiver.binding[s]
         /\ c \in Targets(m) /\ c \in receiver.baseline \cup {None}
         /\ outbox[m].op = "TOMBSTONE" => c # None
<1>1. /\ ReceivingOK /\ TypeOK /\ \A n \in Taken : n \in Msg /\ inbox[n] \in Received
      /\ None \notin Received /\ inbox \in [Msg -> Received \cup {None}]
  BY Rows DEF IInv, TypeOK, ReceivingOK
<1>2. outbox[m] \in Sent /\ outbox[m].src \in Src /\ m \notin Taken
  BY <1>1, Rows DEF Receive, Sent
<1> DEFINE fresh == [target |-> c, status |-> "PENDING_REVIEW", checkpoint |-> None,
                     intent |-> None, known |-> {}, result |-> 0]
<1>3. fresh \in Received /\ fresh.target = c /\ fresh.status = "PENDING_REVIEW"
  BY DEF Received, Desired
<1>4. inbox'[m] = fresh
  BY <1>1 DEF Receive
<1> HIDE DEF fresh
<1>5. \A n \in From(outbox[m].src) : inbox'[n].status \notin Open \cup {"PENDING_REVIEW"}
  <2> TAKE n \in From(outbox[m].src)
  <2>1. n \in Taken /\ n \in Msg /\ n # m /\ inbox[n] \in Received /\ inbox[n].status \notin Open
    BY <1>1, <1>2 DEF From, Receive
  <2>2. inbox'[n] = IF inbox[n].status = "PENDING_REVIEW"
                    THEN [inbox[n] EXCEPT !.status = "SUPERSEDED"] ELSE inbox[n]
    BY <2>1 DEF Receive
  <2>3. [inbox[n] EXCEPT !.status = "SUPERSEDED"].status = "SUPERSEDED"
    BY <2>1 DEF Received
  <2> QED
    BY <2>1, <2>2, <2>3 DEF Open
<1>6. /\ receiver'.cursor = m
      /\ receiver'.baseline = receiver.baseline /\ receiver'.selected = receiver.selected
      /\ \A s \in Src : receiver'.binding[s] =
               IF s = outbox[m].src /\ c # None THEN c ELSE receiver.binding[s]
  BY <1>1, <1>2 DEF Receive, ReceivingOK
<1>7. \A n \in Taken : n < m
  BY <1>1 DEF IInv, Numbered, Receive, ReceivingOK, Msg
<1>8. c \in Targets(m) /\ c \in receiver.baseline \cup {None}
  BY <1>2 DEF Receive, Guarded, Targets, IInv, TargetsThere
<1>9. outbox[m].op = "TOMBSTONE" => c # None
  <2>1. receiver.binding[outbox[m].src] \in Tgt \cup {None} /\ None \notin receiver.selected
    BY <1>1, <1>2, SyncOK DEF ReceivingOK
  <2> QED
    BY <1>8, <2>1 DEF Targets
<1> QED
  BY <1>1, <1>2, <1>3, <1>4, <1>5, <1>6, <1>7, <1>8, <1>9

\* What the calls do with the receiving project's channel.
LEMMA ReceiverMoves ==
  ASSUME IInv, NextReceiving
  PROVE  /\ receiver.baseline \subseteq receiver'.baseline
         /\ receiver'.selected \subseteq receiver'.baseline
         /\ \A s \in Src : receiver'.binding[s] \in receiver'.baseline \cup {None}
         /\ \A c \in receiver'.baseline : chapter'[c] # None
         /\ \/ receiver'.cursor = receiver.cursor
            \/ \E m \in Msg, c \in Tgt \cup {None} : Receive(m, c)
<1>1. /\ ReceivingOK /\ TypeOK /\ receiver.baseline \subseteq Tgt
      /\ \A d \in Tgt : Kept(d)
      /\ \A d \in receiver.baseline : chapter[d] # None /\ chapter'[d] # None
  BY ChaptersKept DEF IInv, TypeOK, ReceivingOK, TargetsThere, Kept
<1> DEFINE Goal == /\ receiver.baseline \subseteq receiver'.baseline
                   /\ receiver'.selected \subseteq receiver'.baseline
                   /\ \A s \in Src : receiver'.binding[s] \in receiver'.baseline \cup {None}
                   /\ \A c \in receiver'.baseline : chapter'[c] # None
                   /\ \/ receiver'.cursor = receiver.cursor
                      \/ \E m \in Msg, c \in Tgt \cup {None} : Receive(m, c)
<1>2. receiver' = receiver => Goal
  BY <1>1 DEF IInv, TargetsThere
<1>3. ASSUME NEW m \in Msg, NEW c \in Tgt \cup {None}, Receive(m, c) PROVE Goal
  BY <1>1, <1>3, ReceiveMoves DEF IInv, TargetsThere
<1>4. ASSUME NEW m \in Taken, NEW c \in Tgt, NEW status, Finish(m, c, status), chapter'[c] # None
      PROVE  Goal
  <2>1. outbox[m].src \in Src
    BY <1>1, Rows DEF IInv, Numbered, Sent
  <2>2. CASE inbox[m].target # None
    BY <1>2, <1>4, <2>2 DEF Finish
  <2>3. CASE inbox[m].target = None
    <3>1. /\ receiver'.selected = receiver.selected \cup {c}
          /\ receiver'.baseline = receiver.baseline \cup {c}
          /\ receiver'.cursor = receiver.cursor
          /\ receiver'.binding = [receiver.binding EXCEPT ![outbox[m].src] = c]
      BY <1>1, <1>4, <2>3 DEF Finish, ReceivingOK
    <3> QED
      BY <1>1, <1>4, <2>1, <3>1 DEF IInv, TargetsThere, ReceivingOK
  <2> QED
    BY <2>2, <2>3
<1>5. ASSUME NEW m \in Msg, Receipt(m) PROVE Goal
  <2>1. /\ m \in Taken /\ step[m].made \in Tgt /\ chapter' = chapter /\ chapter[step[m].made] # None
    BY <1>1, <1>5, Held, Rows DEF Receipt
  <2>2. CASE Finishes(m, step[m].made)
    BY <1>4, <1>5, <2>1, <2>2 DEF Receipt
  <2>3. CASE ~Finishes(m, step[m].made)
    BY <1>2, <1>5, <2>3 DEF Receipt
  <2> QED
    BY <2>2, <2>3
<1>6. ASSUME NEW m \in Msg, NEW c \in Tgt, Adopt(m, c) PROVE Goal
  <2>1. m \in Taken /\ inbox[m].target \in receiver.baseline \cup {None}
    BY <1>1, <1>6 DEF Adopt, IInv, TargetsThere
  <2>2. chapter[c] # None /\ chapter' = chapter
    BY <1>1, <1>6, <2>1 DEF Adopt, Observed
  <2> QED
    BY <1>4, <1>6, <2>1, <2>2 DEF Adopt
<1>7. ASSUME NEW add \in SUBSET Tgt, NEW withdraw \in SUBSET Tgt, ChangeReceiving(add, withdraw)
      PROVE  Goal
  <2>1. /\ receiver'.selected = (receiver.selected \ withdraw) \cup add
        /\ receiver'.baseline = receiver.baseline \cup add
        /\ receiver'.cursor = receiver.cursor
        /\ receiver'.binding = receiver.binding
    BY <1>1, <1>7 DEF ChangeReceiving, Selected, ReceivingOK
  <2>2. chapter' = chapter /\ \A c \in add : chapter[c] # None
    BY <1>7 DEF ChangeReceiving
  <2> QED
    BY <1>1, <2>1, <2>2 DEF IInv, TargetsThere
<1>8. ASSUME RevokeReceiving PROVE Goal
  <2>1. /\ receiver'.selected = receiver.selected /\ receiver'.baseline = receiver.baseline
        /\ receiver'.cursor = receiver.cursor /\ receiver'.binding = receiver.binding
    BY <1>1, <1>8 DEF RevokeReceiving, ReceivingOK
  <2> QED
    BY <1>1, <2>1 DEF IInv, TargetsThere
<1>9. ASSUME NEW m \in Msg, Applying(m) PROVE Goal
  <2>1. receiver' = receiver \/ Receipt(m)
    BY <1>9 DEF Applying, Review, Claim, Begin, WriteTarget, WriteNew, Fill, Raise, MarkUnknown
  <2> HIDE DEF Goal
  <2> QED
    BY <1>2, <1>5, <2>1
<1>10. ASSUME NEW m, NEW c, Close(m) \/ EditTarget(c) \/ Crash PROVE Goal
  BY <1>2, <1>10 DEF Close, EditTarget, Crash
<1>11. Goal
  <2> HIDE DEF Goal
  <2> QED
    BY <1>3, <1>6, <1>7, <1>8, <1>9, <1>10 DEF NextReceiving
<1> QED
  BY <1>11

----------------------------------------------------------------------------
(* The parts of the invariant. *)

LEMMA NumberedKept ==
  ASSUME IInv, Next
  PROVE  Numbered'
<1>1. CASE NextSending
  BY <1>1, SenderMoves DEF IInv
<1>2. CASE NextReceiving
  <2>1. outbox' = outbox /\ sender' = sender
    BY <1>2, InboxMoves DEF sending
  <2>2. CASE \E m \in Msg, c \in Tgt \cup {None} : Receive(m, c)
    <3> PICK m \in Msg, c \in Tgt \cup {None} : Receive(m, c)
      BY <2>2
    <3>1. Taken' \subseteq Taken \cup {m}
      <4>1. \A n \in Msg \ Taken : n # m => inbox'[n] = None
        BY DEF Receive, Taken, From, IInv, TypeOK, ReceivingOK
      <4> QED
        BY <4>1 DEF Taken
    <3>2. \A n \in Taken' : n <= m /\ outbox[n] # None
      <4>1. \A n \in Taken : n < m /\ n \in Nat /\ outbox[n] # None
        BY ReceiveMoves DEF IInv, Numbered, Taken, Msg
      <4>2. outbox[m] # None /\ m \in Nat
        BY DEF Receive, Msg
      <4> QED
        BY <3>1, <4>1, <4>2
    <3> QED
      BY <2>1, <3>2, ReceiveMoves DEF IInv, Numbered
  <2>3. CASE ~\E m \in Msg, c \in Tgt \cup {None} : Receive(m, c)
    <3>1. Taken' \subseteq Taken
      BY <1>2, <2>3, InboxMoves DEF Taken
    <3> QED
      BY <1>2, <2>1, <2>3, <3>1, ReceiverMoves DEF IInv, Numbered
  <2> QED
    BY <2>2, <2>3
<1> QED
  BY <1>1, <1>2 DEF Next

LEMMA NewestKept ==
  ASSUME IInv, Next
  PROVE  NewestLive'
<1>1. CASE NextSending
  <2>1. SentKept /\ inbox' = inbox /\ Taken' = Taken
    BY <1>1, SenderMoves DEF IInv, receiving, Taken
  <2> QED
    BY <2>1 DEF IInv, Numbered, NewestLive, SentKept, Taken
<1>2. CASE NextReceiving
  <2> SUFFICES ASSUME NEW m \in Taken', NEW n \in Taken',
                      outbox[m].src = outbox[n].src, m < n
               PROVE  inbox'[m].status \notin Open \cup {"PENDING_REVIEW"}
    BY <1>2, InboxMoves DEF NewestLive, sending
  <2>1. CASE m \in Taken /\ n \in Taken
    <3>1. inbox[m].status \notin Open \cup {"PENDING_REVIEW"}
      BY <2>1 DEF IInv, NewestLive
    <3> QED
      BY <1>2, <2>1, <3>1, InboxMoves DEF Moved
  <2>2. CASE n \notin Taken
    <3>1. PICK c \in Tgt \cup {None} : Receive(n, c)
      BY <1>2, <2>2, InboxMoves DEF Taken
    <3>2. m \in Taken
      <4>1. \A k \in Msg \ Taken : k # n => inbox'[k] = None
        BY <3>1 DEF Receive, Taken, From, IInv, TypeOK, ReceivingOK
      <4> QED
        BY <4>1 DEF Taken, Msg
    <3>3. m \in From(outbox[n].src)
      BY <3>2 DEF From
    <3> QED
      BY <3>1, <3>3, ReceiveMoves DEF Taken
  <2>3. CASE m \notin Taken /\ n \in Taken
    <3>1. PICK c \in Tgt \cup {None} : Receive(m, c)
      BY <1>2, <2>3, InboxMoves DEF Taken
    <3> QED
      BY <2>3, <3>1, ReceiveMoves DEF Taken, Msg
  <2> QED
    BY <2>1, <2>2, <2>3
<1> QED
  BY <1>1, <1>2 DEF Next

LEMMA TargetsKept ==
  ASSUME IInv, Next
  PROVE  TargetsThere'
<1>1. CASE NextSending
  <2>1. SentKept /\ UNCHANGED receiving /\ Taken' = Taken
    BY <1>1, SenderMoves DEF IInv, receiving, Taken
  <2> QED
    BY <2>1 DEF IInv, Numbered, TargetsThere, SentKept, Taken, receiving
<1>2. CASE NextReceiving
  <2>1. outbox' = outbox
    BY <1>2, InboxMoves DEF sending
  <2>2. ASSUME NEW m \in Taken'
        PROVE  /\ inbox'[m].target \in receiver'.baseline \cup {None}
               /\ outbox[m].op = "TOMBSTONE" => inbox'[m].target # None
    <3>1. CASE m \in Taken
      <4>1. Moved(m) /\ None \notin receiver'.baseline
        <5>1. None \notin receiver'.baseline
          BY <1>2, ReceivingTyped, SyncOK DEF ReceivingOK
        <5> QED
          BY <1>2, <3>1, <5>1, InboxMoves
      <4> QED
        BY <1>2, <3>1, <4>1, ReceiverMoves DEF Moved, IInv, TargetsThere
    <3>2. CASE m \notin Taken
      <4>1. m \in Msg /\ inbox'[m] # None
        BY DEF Taken
      <4>2. PICK c \in Tgt \cup {None} : Receive(m, c)
        BY <1>2, <3>2, <4>1, InboxMoves
      <4> QED
        BY <4>1, <4>2, ReceiveMoves
    <3> QED
      BY <3>1, <3>2
  <2> QED
    BY <1>2, <2>1, <2>2, ReceiverMoves DEF TargetsThere
<1> QED
  BY <1>1, <1>2 DEF Next

LEMMA TransactionKept ==
  ASSUME IInv, Next
  PROVE  OneTransaction'
<1>1. step \in [Msg -> Step] /\ TypeOK
  BY DEF IInv, TypeOK, ReceivingOK
<1>2. step' = step => OneTransaction'
  BY DEF IInv, OneTransaction
<1> DEFINE Busy == {"write", "fill", "receipt"}
<1>3. ASSUME NEW m \in Msg, \A n \in Msg : n # m => step'[n] = step[n],
             step'[m].pc \in Busy => step[m].pc \in Busy \/ ~InTransaction
      PROVE  OneTransaction'
  BY <1>3 DEF IInv, OneTransaction, InTransaction
<1>4. ASSUME NEW m \in Msg, Applying(m) PROVE OneTransaction'
  <2>1. CASE Review(m)
    BY <1>2, <2>1 DEF Review
  <2>2. CASE Claim(m)
    BY <1>1, <1>3, <2>2 DEF Claim, Step
  <2>3. CASE Begin(m)
    BY <1>1, <1>3, <2>3 DEF Begin
  <2>4. CASE WriteTarget(m) \/ WriteNew(m)
    BY <1>1, <1>3, <2>4 DEF WriteTarget, WriteNew
  <2>5. CASE Fill(m) \/ Receipt(m)
    BY <1>1, <1>3, <2>5 DEF Fill, Receipt
  <2>6. CASE Raise(m) \/ MarkUnknown(m)
    BY <1>1, <1>3, <2>6 DEF Raise, MarkUnknown, Step
  <2> QED
    BY <1>4, <2>1, <2>2, <2>3, <2>4, <2>5, <2>6 DEF Applying
<1>5. CASE NextSending
  BY <1>2, <1>5, SenderMoves DEF IInv, receiving
<1>6. CASE Crash
  BY <1>6 DEF Crash, OneTransaction
<1>7. CASE NextReceiving /\ ~Crash /\ ~\E m \in Msg : Applying(m)
  BY <1>2, <1>7 DEF NextReceiving, EditTarget, Receive, Close, Adopt, ChangeReceiving, RevokeReceiving
<1> QED
  BY <1>4, <1>5, <1>6, <1>7 DEF Next

\* What of the claims concerns one message.
ClaimOK(m) ==
  /\ m \in Taken /\ inbox[m].status \in Unclaimed => step[m].pc = "none" /\ m \notin merged
  /\ m \in merged => m \in Taken
  /\ m \in Taken /\ inbox[m].status \in Open =>
       /\ inbox[m].target = None <=> inbox[m].checkpoint = None
       /\ inbox[m].target # None => Remembered(inbox[m].target, inbox[m].checkpoint)
  /\ m \in Taken /\ inbox[m].status = "APPLIED" => m \in merged
  /\ step[m].pc # "none" => m \in Taken
  /\ step[m].pc \in {"claimed", "write"} => m \notin merged
  /\ step[m].pc \in {"fill", "receipt"} =>
       /\ m \in merged /\ step[m].made # None /\ chapter[step[m].made] # None
       /\ inbox[m].target \in {None, step[m].made}
  /\ step[m].pc \in {"write", "fill", "receipt"} => inbox[m].status = "CLAIMED"
  /\ step[m].pc = "fill" => inbox[m].target = None

LEMMA ClaimsParts == (Claims <=> \A m \in Msg : ClaimOK(m)) /\ (Claims' <=> \A m \in Msg : ClaimOK(m)')
BY DEF Claims, ClaimOK

\* What was agreed to stays remembered.
LEMMA RememberedStays ==
  ASSUME IInv, ReceivingOK', \A c \in Tgt : Kept(c),
         NEW m \in Taken, inbox[m].status \in Open,
         inbox'[m].target = inbox[m].target, inbox'[m].checkpoint = inbox[m].checkpoint
  PROVE  /\ inbox'[m].target = None <=> inbox'[m].checkpoint = None
         /\ inbox'[m].target # None => Remembered(inbox[m].target, inbox[m].checkpoint)'
<1>1. ClaimOK(m) /\ TypeOK /\ m \in Msg
  BY ClaimsParts DEF IInv, TypeOK, Taken
<1> DEFINE c == inbox[m].target
           old == inbox[m].checkpoint
<1>2. ASSUME c # None PROVE Remembered(inbox[m].target, inbox[m].checkpoint)'
  <2>1. c \in Tgt /\ old \in Chapter /\ chapter[c] # None
    <3>1. c \in Tgt \cup {None} /\ old \in Chapter \cup {None}
      BY <1>1, Rows DEF Received
    <3> QED
      BY <1>1, <1>2, <3>1 DEF ClaimOK, Remembered
  <2>2. chapter[c] \in Chapter /\ Kept(c)
    BY <1>1, <2>1, Rows
  <2>3. chapter'[c] \in Chapter
    BY <2>1, <2>2 DEF Kept, ReceivingOK
  <2>4. Remembered(c, old)
    BY <1>1, <1>2 DEF ClaimOK
  <2>5. /\ chapter'[c] # None /\ chapter'[c].version >= old.version
        /\ chapter'[c].version = old.version => chapter'[c].text = old.text
    BY <2>1, <2>2, <2>3, <2>4 DEF Kept, Remembered, Chapter
  <2> QED
    BY <2>5 DEF Remembered
<1> QED
  BY <1>1, <1>2 DEF ClaimOK

\* A claim of a message that stays where it is.
LEMMA ClaimStays ==
  ASSUME IInv, ReceivingOK', NEW m \in Msg, \A c \in Tgt : Kept(c),
         inbox'[m] = inbox[m], m \in merged' <=> m \in merged,
         step'[m] = step[m] \/ step'[m].pc = "none"
  PROVE  ClaimOK(m)'
<1>1. ClaimOK(m)
  BY ClaimsParts DEF IInv
<1>2. m \in Taken' <=> m \in Taken
  BY DEF Taken
<1>3. m \in Taken /\ inbox[m].status \in Open =>
        /\ inbox[m].target = None <=> inbox[m].checkpoint = None
        /\ inbox[m].target # None => Remembered(inbox[m].target, inbox[m].checkpoint)'
  BY RememberedStays
<1>4. step[m].pc \in {"fill", "receipt"} => chapter'[step[m].made] # None
  <2> SUFFICES ASSUME step[m].pc \in {"fill", "receipt"} PROVE chapter'[step[m].made] # None
    OBVIOUS
  <2> QED
    BY <1>1, Held DEF Kept, ClaimOK
<1> QED
  BY <1>1, <1>2, <1>3, <1>4 DEF ClaimOK

\* A message nobody has agreed to yet.
LEMMA ClaimUnread ==
  ASSUME IInv, NEW m \in Msg, m \notin Taken \/ inbox[m].status \in Unclaimed,
         inbox'[m] # None, inbox'[m].status \in Unclaimed,
         step'[m] = step[m], merged' = merged
  PROVE  ClaimOK(m)'
<1>1. ClaimOK(m)
  BY ClaimsParts DEF IInv
<1>2. step[m].pc = "none" /\ m \notin merged
  BY <1>1 DEF ClaimOK
<1> QED
  BY <1>2 DEF ClaimOK, Unclaimed, Open, Taken

\* A claimed message that is still claimed, or unknown, wherever its call is.
LEMMA ClaimOpen ==
  ASSUME IInv, ReceivingOK', NEW m \in Taken, \A c \in Tgt : Kept(c),
         inbox'[m] # None, inbox[m].status \in Open, inbox'[m].status \in Open,
         inbox'[m].target = inbox[m].target, inbox'[m].checkpoint = inbox[m].checkpoint,
         step'[m].pc \in {"claimed", "write"} => m \notin merged',
         step'[m].pc \in {"fill", "receipt"} =>
           /\ m \in merged' /\ step'[m].made # None /\ chapter'[step'[m].made] # None
           /\ inbox[m].target \in {None, step'[m].made},
         step'[m].pc \in {"write", "fill", "receipt"} => inbox'[m].status = "CLAIMED",
         step'[m].pc = "fill" => inbox[m].target = None
  PROVE  ClaimOK(m)'
<1>1. m \in Msg /\ m \in Taken'
  BY DEF Taken
<1>2. /\ inbox'[m].target = None <=> inbox'[m].checkpoint = None
      /\ inbox'[m].target # None => Remembered(inbox[m].target, inbox[m].checkpoint)'
  BY RememberedStays
<1> QED
  BY <1>1, <1>2 DEF ClaimOK, Unclaimed, Open

\* A call that failed, or a message that was resolved.
LEMMA ClaimDone ==
  ASSUME IInv, NEW m \in Taken, inbox'[m] # None,
         inbox'[m].status \in Success \cup {"CLOSED_WITHOUT_REPLAY"},
         inbox'[m].status = "APPLIED" => m \in merged',
         step'[m].pc \notin {"write", "fill", "receipt"},
         step'[m].pc = "claimed" => m \notin merged'
  PROVE  ClaimOK(m)'
<1>1. m \in Msg /\ m \in Taken'
  BY DEF Taken
<1> QED
  BY <1>1 DEF ClaimOK, Unclaimed, Open, Success

\* A call that fails, whatever became of its message meanwhile.
LEMMA ClaimFails ==
  ASSUME IInv, ReceivingOK', NEW m \in Taken, \A c \in Tgt : Kept(c),
         step[m].pc # "none", step'[m].pc \in {"failed", "none"}, merged' = merged,
         \/ inbox'[m] = inbox[m]
         \/ /\ inbox[m].status \in Open /\ inbox'[m] # None /\ inbox'[m].status \in Open
            /\ inbox'[m].target = inbox[m].target /\ inbox'[m].checkpoint = inbox[m].checkpoint
  PROVE  ClaimOK(m)'
<1>1. ClaimOK(m) /\ m \in Msg /\ inbox[m] # None
  BY ClaimsParts DEF IInv, Taken
<1>2. CASE inbox[m].status \in Open
  BY <1>1, <1>2, ClaimOpen
<1>3. CASE inbox[m].status \notin Open
  <2>1. inbox[m].status \in Success \cup {"CLOSED_WITHOUT_REPLAY"}
    BY <1>1, <1>3, Rows DEF IInv, Received, ClaimOK, Unclaimed, Open, Success
  <2>2. inbox[m].status = "APPLIED" => m \in merged
    BY <1>1 DEF ClaimOK
  <2> QED
    BY <1>1, <1>3, <2>1, <2>2, ClaimDone
<1> QED
  BY <1>2, <1>3

LEMMA ClaimsApplying ==
  ASSUME IInv, ReceivingOK', NEW m \in Msg, Applying(m), \A c \in Tgt : Kept(c)
  PROVE  \A n \in Msg : ClaimOK(n)'
<1>1. /\ TypeOK /\ ReceivingOK /\ ClaimOK(m)
      /\ step \in [Msg -> Step] /\ inbox \in [Msg -> Received \cup {None}]
  BY ClaimsParts DEF IInv, TypeOK, ReceivingOK
<1> DEFINE Others == \A n \in Msg : n # m =>
                       /\ inbox'[n] = inbox[n] /\ step'[n] = step[n]
                       /\ n \in merged' <=> n \in merged
<1>2. ASSUME Others, ClaimOK(m)' PROVE \A n \in Msg : ClaimOK(n)'
  <2>1. \A n \in Msg : n # m => ClaimOK(n)'
    BY <1>2, ClaimStays
  <2> QED
    BY <1>2, <2>1
<1>3. CASE Review(m)
  BY <1>3, ClaimStays DEF Review
<1>4. CASE Claim(m)
  <2>1. m \in Taken /\ inbox[m].status = "PENDING_REVIEW" /\ inbox[m] \in Received
    BY <1>1, <1>4, Rows DEF Claim, Reviewable
  <2>2. /\ inbox'[m].status = "CLAIMED" /\ inbox'[m].target = inbox[m].target
        /\ inbox'[m].checkpoint = Current(m) /\ step'[m].pc = "claimed"
    BY <1>1, <1>4, <2>1 DEF Claim, AsReviewed, Received, Step
  <2>3. inbox'[m] # None /\ m \notin merged
    <3>1. inbox'[m] # None
      BY <1>4, <2>1, InboxMoves DEF NextReceiving, Applying
    <3> QED
      BY <1>1, <2>1, <3>1 DEF ClaimOK, Unclaimed
  <2>4. inbox[m].target # None => /\ Current(m) # None
                                 /\ Remembered(inbox[m].target, inbox[m].checkpoint)'
    <3>1. inbox[m].target # None => inbox[m].target \in Tgt /\ chapter[inbox[m].target] \in Chapter
      <4>1. inbox[m].target # None => inbox[m].target \in Tgt /\ chapter[inbox[m].target] # None
        BY <2>1 DEF IInv, TargetsThere, Received
      <4> QED
        BY <1>1, <4>1, Rows
    <3>2. chapter' = chapter
      BY <1>4 DEF Claim
    <3>3. \A k \in Chapter : k.version >= k.version
      BY DEF Chapter
    <3>4. inbox[m].target # None =>
            Current(m) = chapter[inbox[m].target] /\ Current(m) # None
      BY <3>1, SyncOK DEF Current
    <3> QED
      BY <2>2, <3>1, <3>2, <3>3, <3>4, SyncOK DEF Remembered
  <2>5. inbox[m].target = None => Current(m) = None
    BY DEF Current
  <2>6. ClaimOK(m)'
    <3>1. m \in Taken'
      BY <2>3 DEF Taken
    <3>2. merged' = merged
      BY <1>4 DEF Claim
    <3> QED
      BY <2>2, <2>3, <2>4, <2>5, <3>1, <3>2 DEF ClaimOK, Unclaimed, Open
  <2>7. Others
    BY <1>1, <1>4 DEF Claim
  <2> QED
    BY <1>2, <2>6, <2>7
<1>5. CASE Begin(m)
  <2>1. m \in Taken /\ step[m].pc = "claimed" /\ inbox' = inbox /\ merged' = merged
    BY <1>5, Held DEF Begin
  <2>2. Others
    BY <1>1, <1>5 DEF Begin
  <2>3. CASE step'[m].pc = "failed"
    BY <1>2, <2>1, <2>2, <2>3, ClaimFails
  <2>4. CASE step'[m].pc = "write"
    <3>1. inbox[m].status = "CLAIMED" /\ m \notin merged /\ inbox[m] # None
      BY <1>1, <1>5, <2>1, <2>4 DEF Begin, ClaimOK, Step, Taken
    <3>2. ClaimOK(m)'
      BY <2>1, <2>4, <3>1, ClaimOpen DEF Open
    <3> QED
      BY <1>2, <2>2, <3>2
  <2> QED
    BY <1>1, <1>5, <2>3, <2>4 DEF Begin, Step
<1>6. CASE Raise(m) \/ MarkUnknown(m)
  <2>1. m \in Taken /\ step[m].pc # "none" /\ inbox[m] # None /\ inbox[m] \in Received
    BY <1>1, <1>6, Held, Rows DEF Raise, MarkUnknown
  <2>2. Others /\ step'[m].pc \in {"failed", "none"} /\ merged' = merged
    BY <1>1, <1>6 DEF Raise, MarkUnknown, Step
  <2>3. \/ inbox'[m] = inbox[m]
        \/ /\ inbox[m].status \in Open /\ inbox'[m] # None /\ inbox'[m].status \in Open
           /\ inbox'[m].target = inbox[m].target /\ inbox'[m].checkpoint = inbox[m].checkpoint
    <3>1. CASE Raise(m)
      BY <3>1 DEF Raise
    <3>2. CASE MarkUnknown(m)
      <4>1. Moved(m) /\ inbox'[m] # None
        BY <3>2, <2>1, InboxMoves DEF NextReceiving, Applying
      <4>2. inbox'[m].status = IF inbox[m].status \in Open THEN "UNKNOWN" ELSE inbox[m].status
        BY <1>1, <2>1, <3>2 DEF MarkUnknown, Received
      <4> QED
        BY <4>1, <4>2 DEF Moved, Open, Success
    <3> QED
      BY <1>6, <3>1, <3>2
  <2>4. ClaimOK(m)'
    BY <2>1, <2>2, <2>3, ClaimFails
  <2> QED
    BY <1>2, <2>2, <2>4
<1>7. CASE WriteTarget(m)
  <2> DEFINE c == inbox[m].target
  <2>1. /\ m \in Taken /\ c \in Tgt /\ chapter[c] \in Chapter /\ inbox' = inbox
        /\ inbox[m].status = "CLAIMED" /\ inbox[m] # None /\ chapter'[c] # None
    <3>1. m \in Taken /\ c \in Tgt /\ chapter[c] \in Chapter /\ inbox' = inbox
      BY <1>7, Held DEF WriteTarget
    <3> QED
      BY <1>1, <1>7, <3>1, SyncOK DEF WriteTarget, ClaimOK, Taken, Kept
  <2>2. Others
    BY <1>1, <1>7 DEF WriteTarget
  <2>3. CASE Unmoved(m)
    <3>1. merged' = merged \cup {m} /\ step'[m] = [pc |-> "receipt", made |-> c]
      BY <1>1, <1>7, <2>3 DEF WriteTarget
    <3>2. c # None
      BY <2>1, SyncOK
    <3>3. ClaimOK(m)'
      BY <2>1, <3>1, <3>2, ClaimOpen DEF Open
    <3> QED
      BY <1>2, <2>2, <3>3
  <2>4. CASE ~Unmoved(m)
    <3>1. step'[m].pc = "failed" /\ merged' = merged /\ step[m].pc # "none"
      BY <1>1, <1>7, <2>4 DEF WriteTarget, Step
    <3>2. ClaimOK(m)'
      BY <2>1, <3>1, ClaimFails
    <3> QED
      BY <1>2, <2>2, <3>2
  <2> QED
    BY <2>3, <2>4
<1>8. CASE WriteNew(m)
  <2>1. m \in Taken /\ inbox' = inbox /\ inbox[m].status = "CLAIMED" /\ inbox[m] # None
    <3>1. m \in Taken
      BY <1>8, Held DEF WriteNew
    <3> QED
      BY <1>1, <1>8, <3>1 DEF WriteNew, ClaimOK, Taken
  <2>2. Others /\ merged' = merged \cup {m} /\ inbox[m].target = None
    BY <1>1, <1>8 DEF WriteNew
  <2>3. PICK c \in Tgt, t \in Text :
          /\ chapter' = [chapter EXCEPT ![c] = [version |-> 1, text |-> t, archived |-> FALSE]]
          /\ step' = [step EXCEPT ![m] = [pc |-> "fill", made |-> c]]
    BY <1>8 DEF WriteNew
  <2>4. step'[m].pc = "fill" /\ step'[m].made = c /\ c # None
    BY <1>1, <2>3, SyncOK
  <2>5. chapter'[c] # None
    <3>1. [version |-> 1, text |-> t, archived |-> FALSE] \in Chapter
      BY DEF Chapter
    <3> QED
      BY <1>1, <2>3, <3>1, SyncOK DEF ReceivingOK
  <2>6. ClaimOK(m)'
    BY <2>1, <2>2, <2>4, <2>5, ClaimOpen DEF Open
  <2> QED
    BY <1>2, <2>2, <2>6
<1>9. CASE Fill(m)
  <2> DEFINE c == step[m].made
  <2>1. /\ m \in Taken /\ inbox' = inbox /\ inbox[m].status = "CLAIMED" /\ inbox[m] # None
        /\ c \in Tgt /\ c # None /\ chapter[c] # None /\ chapter'[c] # None
        /\ inbox[m].target = None /\ m \in merged
    <3>1. m \in Taken /\ c \in Tgt /\ chapter[c] \in Chapter
      BY <1>9, Held DEF Fill
    <3> QED
      BY <1>1, <1>9, <3>1, SyncOK DEF Fill, ClaimOK, Taken, Kept
  <2>2. Others /\ merged' = merged
    BY <1>1, <1>9 DEF Fill
  <2>3. step'[m].made = c /\ step'[m].pc \in {"receipt", "failed"} /\ step[m].pc # "none"
    BY <1>1, <1>9 DEF Fill, Step
  <2>4. ClaimOK(m)'
    <3>1. CASE step'[m].pc = "failed"
      BY <2>1, <2>2, <2>3, <3>1, ClaimFails
    <3>2. CASE step'[m].pc = "receipt"
      BY <2>1, <2>2, <2>3, <3>2, ClaimOpen DEF Open
    <3> QED
      BY <2>3, <3>1, <3>2
  <2> QED
    BY <1>2, <2>2, <2>4
<1>10. CASE Receipt(m)
  <2> DEFINE c == step[m].made
  <2>1. /\ m \in Taken /\ c \in Tgt /\ chapter[c] # None
        /\ inbox[m].target \in {None, c} /\ m \in merged /\ step[m].pc # "none"
    <3>1. m \in Taken /\ c \in Tgt /\ chapter[c] \in Chapter
      BY <1>10, Held DEF Receipt
    <3> QED
      BY <1>1, <1>10, <3>1, SyncOK DEF Receipt, ClaimOK
  <2>2. merged' = merged /\ \A n \in Msg : n # m => step'[n] = step[n]
    BY <1>1, <1>10 DEF Receipt
  <2>3. CASE Finishes(m, c)
    <3>1. Finish(m, c, "APPLIED") /\ step'[m].pc = "none"
      BY <1>1, <1>10, <2>3 DEF Receipt
    <3>2. /\ \A n \in Msg : n # m => inbox'[n] = inbox[n]
          /\ inbox'[m] # None /\ inbox'[m].status = "APPLIED"
      BY <2>1, <2>3, <3>1, FinishMoves DEF Success
    <3>3. ClaimOK(m)'
      BY <2>1, <2>2, <3>1, <3>2, ClaimDone DEF Success
    <3> QED
      BY <1>2, <2>2, <3>2, <3>3
  <2>4. CASE ~Finishes(m, c)
    <3>1. inbox' = inbox /\ step'[m].pc = "failed"
      BY <1>1, <1>10, <2>4 DEF Receipt, Step
    <3>2. ClaimOK(m)'
      BY <2>1, <2>2, <3>1, ClaimFails
    <3> QED
      BY <1>2, <2>2, <3>1, <3>2
  <2> QED
    BY <2>3, <2>4
<1> QED
  BY <1>3, <1>4, <1>5, <1>6, <1>7, <1>8, <1>9, <1>10 DEF Applying

LEMMA ClaimsKept ==
  ASSUME IInv, Next
  PROVE  Claims'
<1>1. TypeOK /\ ReceivingOK /\ \A m \in Msg : ClaimOK(m)
  BY ClaimsParts DEF IInv, TypeOK
<1>2. CASE NextSending
  <2>1. UNCHANGED receiving
    BY <1>2, SenderMoves DEF IInv
  <2> QED
    BY <2>1 DEF receiving, Claims, IInv, Taken, Remembered
<1>3. CASE NextReceiving
  <2>1. ReceivingOK' /\ \A c \in Tgt : Kept(c)
    BY <1>3, ReceivingTyped, ChaptersKept
  <2>2. ASSUME NEW m \in Msg, Applying(m) PROVE \A n \in Msg : ClaimOK(n)'
    BY <2>1, <2>2, ClaimsApplying
  <2>3. (inbox' = inbox /\ merged' = merged /\ \A n \in Msg : step'[n] = step[n] \/ step'[n].pc = "none")
          => \A n \in Msg : ClaimOK(n)'
    BY <2>1, ClaimStays
  <2>4. ASSUME NEW c, EditTarget(c) \/ Crash \/ RevokeReceiving PROVE \A n \in Msg : ClaimOK(n)'
    BY <2>3, <2>4 DEF EditTarget, Crash, RevokeReceiving
  <2>5. ASSUME NEW m \in Msg, NEW c \in Tgt \cup {None}, Receive(m, c)
        PROVE  \A n \in Msg : ClaimOK(n)'
    <3> TAKE n \in Msg
    <3>1. step'[n] = step[n] /\ merged' = merged
      BY <2>5 DEF Receive
    <3>2. CASE n = m
      BY <2>5, <3>1, <3>2, ReceiveMoves, ClaimUnread DEF Unclaimed
    <3>3. CASE n # m /\ inbox'[n] = inbox[n]
      BY <2>1, <3>1, <3>3, ClaimStays
    <3>4. CASE n # m /\ inbox'[n] # inbox[n]
      <4>1. n \in Taken /\ inbox[n].status = "PENDING_REVIEW" /\ inbox[n] \in Received
            /\ inbox'[n] = [inbox[n] EXCEPT !.status = "SUPERSEDED"]
        BY <1>1, <2>5, <3>4, Rows DEF Receive, From, ReceivingOK
      <4>2. inbox'[n].status = "SUPERSEDED" /\ inbox'[n] # None
        BY <1>3, <4>1, InboxMoves DEF Received
      <4> QED
        BY <3>1, <4>1, <4>2, ClaimUnread DEF Unclaimed
    <3> QED
      BY <3>2, <3>3, <3>4
  <2>6. ASSUME NEW add, NEW withdraw, ChangeReceiving(add, withdraw)
        PROVE  \A n \in Msg : ClaimOK(n)'
    <3> TAKE n \in Msg
    <3>1. step'[n] = step[n] /\ merged' = merged
      BY <2>6 DEF ChangeReceiving
    <3>2. CASE inbox'[n] = inbox[n]
      BY <2>1, <3>1, <3>2, ClaimStays
    <3>3. CASE inbox'[n] # inbox[n]
      <4>1. n \in Taken /\ inbox[n].status = "PENDING_REVIEW" /\ inbox[n] \in Received
            /\ inbox'[n] = [inbox[n] EXCEPT !.status = "SELECTION_REVOKED"]
        BY <1>1, <2>6, <3>3, Rows DEF ChangeReceiving, ReceivingOK
      <4>2. inbox'[n].status = "SELECTION_REVOKED" /\ inbox'[n] # None
        BY <1>3, <4>1, InboxMoves DEF Received
      <4> QED
        BY <3>1, <4>1, <4>2, ClaimUnread DEF Unclaimed
    <3> QED
      BY <3>2, <3>3
  <2>7. ASSUME NEW m \in Msg, NEW c, Close(m) \/ (c \in Tgt /\ Adopt(m, c))
        PROVE  \A n \in Msg : ClaimOK(n)'
    <3>1. /\ m \in Taken /\ step' = step /\ merged' = merged
          /\ step[m].pc \notin {"write", "fill", "receipt"}
          /\ step[m].pc = "claimed" => m \notin merged
      BY <1>1, <2>7 DEF Close, Adopt, InTransaction, ClaimOK
    <3>2. /\ \A n \in Msg : n # m => inbox'[n] = inbox[n]
          /\ inbox'[m] # None /\ inbox'[m].status \in {"CLOSED_WITHOUT_REPLAY", "RECONCILED"}
      <4>1. CASE Close(m)
        BY <1>1, <1>3, <3>1, <4>1, InboxMoves, Rows DEF Close, ReceivingOK, Received
      <4>2. CASE c \in Tgt /\ Adopt(m, c)
        <5>1. inbox[m].target \in {None, c} /\ chapter[c] # None
          BY <3>1, <4>2 DEF Adopt, Observed, IInv, TargetsThere
        <5> QED
          BY <3>1, <4>2, <5>1, FinishMoves DEF Adopt, Success
      <4> QED
        BY <2>7, <4>1, <4>2
    <3>3. ClaimOK(m)'
      BY <3>1, <3>2, ClaimDone DEF Success
    <3> QED
      BY <2>1, <3>1, <3>2, <3>3, ClaimStays
  <2>8. \A n \in Msg : ClaimOK(n)'
    <3> DEFINE Goal == \A n \in Msg : ClaimOK(n)'
    <3> HIDE DEF Goal
    <3>1. Goal
      <4>1. \A m \in Msg : Applying(m) => Goal
        BY <2>2 DEF Goal
      <4>2. \A c : EditTarget(c) \/ Crash \/ RevokeReceiving => Goal
        BY <2>4 DEF Goal
      <4>3. \A m \in Msg, c \in Tgt \cup {None} : Receive(m, c) => Goal
        BY <2>5 DEF Goal
      <4>4. \A add, withdraw : ChangeReceiving(add, withdraw) => Goal
        BY <2>6 DEF Goal
      <4>5. \A m \in Msg : Close(m) \/ (\E c \in Tgt : Adopt(m, c)) => Goal
        BY <2>7 DEF Goal
      <4> QED
        BY <1>3, <4>1, <4>2, <4>3, <4>4, <4>5 DEF NextReceiving
    <3> QED
      BY <3>1 DEF Goal
  <2> QED
    BY <2>8, ClaimsParts
<1> QED
  BY <1>2, <1>3 DEF Next

----------------------------------------------------------------------------
(* The invariant. *)

LEMMA InitHolds == Init => IInv
<1> SUFFICES ASSUME Init PROVE IInv
  OBVIOUS
<1>1. Taken = {} /\ merged = {} /\ \A m \in Msg : step[m].pc = "none" /\ outbox[m] = None
  BY DEF Init, Taken
<1>2. Numbered
  BY <1>1 DEF Init, Numbered, Msg
<1>3. NewestLive /\ Claims /\ OneTransaction
  BY <1>1 DEF NewestLive, Claims, OneTransaction
<1>4. TargetsThere
  <2>1. receiver.selected = First \cap Tgt /\ receiver.baseline = First \cap Tgt
    BY DEF Init
  <2>2. \A s \in Src : receiver.binding[s] = None
    BY DEF Init
  <2>3. \A c \in First \cap Tgt : chapter[c] # None
    BY DEF Init
  <2> QED
    BY <1>1, <2>1, <2>2, <2>3 DEF TargetsThere
<1> QED
  BY <1>2, <1>3, <1>4, InitTyped DEF IInv

LEMMA TypeKept ==
  ASSUME IInv, Next
  PROVE  TypeOK'
<1>1. TypeOK /\ SendingOK /\ ReceivingOK
  BY DEF IInv, TypeOK
<1>2. CASE NextSending
  <2>1. ReceivingOK'
    BY <1>1, <1>2, SenderMoves DEF IInv, receiving, ReceivingOK
  <2> QED
    BY <1>1, <1>2, <2>1, SendingTyped, Bounded DEF TypeOK
<1>3. CASE NextReceiving
  <2>1. SendingOK'
    BY <1>1, <1>3, InboxMoves DEF sending, SendingOK
  <2> QED
    BY <1>1, <1>3, <2>1, ReceivingTyped, Bounded DEF TypeOK
<1> QED
  BY <1>2, <1>3 DEF Next

LEMMA Inductive == IInv /\ [Next]_vars => IInv'
<1> SUFFICES ASSUME IInv, [Next]_vars PROVE IInv'
  OBVIOUS
<1>1. CASE Next
  BY <1>1, TypeKept, NumberedKept, NewestKept, TargetsKept, ClaimsKept, TransactionKept DEF IInv
<1>2. CASE UNCHANGED vars
  BY <1>2 DEF vars, sending, receiving, bounds, IInv, TypeOK, SendingOK, ReceivingOK, Numbered,
    NewestLive, TargetsThere, Claims, OneTransaction, Taken, Remembered
<1> QED
  BY <1>1, <1>2

\* In every reachable state the strengthened invariant of the exchange holds:
\* what may still be merged is the newest message of its chapter, what a claim
\* agreed to is remembered, and one transaction is open at a time.
THEOREM Invariance == Spec => []IInv
BY InitHolds, Inductive, PTL DEF Spec

\* Every variable keeps its type.
THEOREM Typing == Spec => []TypeOK
<1>1. IInv => TypeOK
  BY DEF IInv
<1> QED
  BY <1>1, Invariance, PTL

----------------------------------------------------------------------------
(* The journal. *)

LEMMA ResultsKept ==
  ASSUME IInv, ResultHeld, Next
  PROVE  ResultHeld'
<1>1. TypeOK /\ ReceivingOK /\ ReceivingOK' /\ IInv'
  BY Inductive DEF IInv, TypeOK
<1>2. CASE NextSending
  BY <1>2, SenderMoves DEF IInv, receiving, ResultHeld, Taken
<1>3. CASE NextReceiving
  <2> SUFFICES ASSUME NEW m \in Taken', inbox'[m].status \in Success
               PROVE  LET c == inbox'[m].target IN
                      /\ c # None /\ chapter'[c].version >= inbox'[m].result
                      /\ chapter'[c].version = inbox'[m].result /\ inbox'[m].intent # None =>
                           chapter'[c].text = inbox'[m].intent
    BY DEF ResultHeld
  <2> DEFINE c == inbox'[m].target
  <2>1. m \in Taken
    <3>1. m \in Msg /\ inbox'[m] # None
      BY DEF Taken
    <3>2. CASE m \notin Taken
      <4>1. PICK d \in Tgt \cup {None} : Receive(m, d)
        BY <1>3, <3>1, <3>2, InboxMoves
      <4> QED
        BY <3>1, <4>1, ReceiveMoves DEF Success
    <3> QED
      BY <3>2
  <2>2. Moved(m) /\ inbox[m] \in Received /\ inbox[m].result \in Nat
    BY <1>1, <1>3, <2>1, InboxMoves, Rows DEF Received
  <2>3. \A d \in Tgt : Kept(d) /\ (chapter[d] # None => chapter[d] \in Chapter)
    BY <1>1, <1>3, ChaptersKept, Rows
  <2>4. \A d \in Tgt : chapter'[d] # None => chapter'[d] \in Chapter
    BY <1>1 DEF ReceivingOK
  <2>5. CASE inbox'[m] = inbox[m]
    <3>1. /\ c # None /\ chapter[c].version >= inbox[m].result
          /\ chapter[c].version = inbox[m].result /\ inbox[m].intent # None =>
               chapter[c].text = inbox[m].intent
      BY <2>1, <2>5 DEF ResultHeld
    <3>2. c \in Tgt /\ chapter[c] # None
      BY <1>1, <2>1, <2>2, <2>5, <3>1 DEF IInv, TargetsThere, Received
    <3> QED
      BY <2>2, <2>3, <2>4, <2>5, <3>1, <3>2 DEF Kept, Chapter
  <2>6. CASE inbox'[m] # inbox[m]
    <3>1. /\ c \in receiver'.baseline
          /\ chapter[c] # None /\ inbox'[m].result = chapter[c].version
          /\ inbox'[m].intent # None => chapter[c].text = inbox'[m].intent
      BY <2>2, <2>6 DEF Moved, Success
    <3>2. c \in Tgt /\ c # None
      BY <1>1, <3>1, SyncOK DEF ReceivingOK
    <3> QED
      BY <2>3, <2>4, <3>1, <3>2 DEF Kept, Chapter
  <2> QED
    BY <2>5, <2>6
<1> QED
  BY <1>2, <1>3 DEF Next

\* A new chapter's receipt, or nothing of the channel's chapters changes.
Recorded(m, c) ==
  /\ m \in Taken /\ inbox[m].target = None /\ c \in Tgt \ receiver.baseline
  /\ receiver'.baseline = receiver.baseline \cup {c}
  /\ receiver'.binding = [receiver.binding EXCEPT ![outbox[m].src] = c]
  /\ Reserved' = Reserved \ {m}

LEMMA ReservedStays ==
  ASSUME IInv, NEW m \in Msg, \A n \in Msg : n # m => inbox'[n] = inbox[n],
         m \in Taken, inbox'[m] # None
  PROVE  Reserved' = IF inbox'[m].target = None THEN Reserved \cup {m} ELSE Reserved \ {m}
BY DEF Reserved, Taken

\* What the calls do with the places of new chapters.
LEMMA PlacesMove ==
  ASSUME IInv, NextReceiving
  PROVE  \/ /\ receiver'.baseline = receiver.baseline /\ receiver'.binding = receiver.binding
            /\ Reserved' = Reserved
         \/ \E m \in Msg, c \in Tgt : Recorded(m, c)
         \/ \E m \in Msg, c \in Tgt \cup {None} : Receive(m, c)
         \/ \E add, withdraw \in SUBSET Tgt : ChangeReceiving(add, withdraw)
<1> DEFINE Goal == \/ /\ receiver'.baseline = receiver.baseline /\ receiver'.binding = receiver.binding
                      /\ Reserved' = Reserved
                   \/ \E m \in Msg, c \in Tgt : Recorded(m, c)
                   \/ \E m \in Msg, c \in Tgt \cup {None} : Receive(m, c)
                   \/ \E add, withdraw \in SUBSET Tgt : ChangeReceiving(add, withdraw)
<1>1. TypeOK /\ ReceivingOK
  BY DEF IInv, TypeOK
<1>2. ASSUME NEW m \in Taken, NEW c \in Tgt, chapter[c] # None, inbox[m].target \in {None, c},
             NEW status \in Success, Finishes(m, c), Finish(m, c, status)
      PROVE  Goal
  <2>1. /\ \A n \in Msg : n # m => inbox'[n] = inbox[n]
        /\ inbox'[m] # None /\ inbox'[m].target = c /\ m \in Msg /\ c # None
    BY <1>2, FinishMoves, SyncOK DEF Taken
  <2>2. Reserved' = Reserved \ {m}
    BY <2>1, ReservedStays
  <2>3. CASE inbox[m].target = None
    <3>1. c \notin receiver.baseline
      BY <1>2, <2>3 DEF Finishes
    <3>2. /\ receiver'.baseline = receiver.baseline \cup {c}
          /\ receiver'.binding = [receiver.binding EXCEPT ![outbox[m].src] = c]
      BY <1>1, <1>2, <2>3 DEF Finish, ReceivingOK
    <3>3. Recorded(m, c)
      BY <2>2, <2>3, <3>1, <3>2 DEF Recorded
    <3> QED
      BY <2>1, <3>3
  <2>4. CASE inbox[m].target # None
    <3>1. receiver' = receiver /\ m \notin Reserved
      BY <1>2, <2>4 DEF Finish, Reserved
    <3> QED
      BY <2>2, <3>1
  <2> QED
    BY <2>3, <2>4
<1>3. ASSUME NEW m \in Msg, Receipt(m) PROVE Goal
  <2> DEFINE c == step[m].made
  <2>1. /\ m \in Taken /\ c \in Tgt /\ chapter[c] # None /\ inbox[m].target \in {None, c}
    BY <1>1, <1>3, Held, Rows DEF Receipt, IInv, Claims
  <2>2. CASE Finishes(m, c)
    BY <1>2, <1>3, <2>1, <2>2 DEF Receipt, Success
  <2>3. CASE ~Finishes(m, c)
    BY <1>3, <2>3 DEF Receipt, Reserved, Taken
  <2> QED
    BY <2>2, <2>3
<1>4. ASSUME NEW m \in Msg, NEW c \in Tgt, Adopt(m, c) PROVE Goal
  <2>1. m \in Taken /\ inbox[m].target \in receiver.baseline \cup {None}
    BY <1>1, <1>4 DEF Adopt, IInv, TargetsThere
  <2>2. inbox[m].target \in {None, c} /\ chapter[c] # None
    BY <1>1, <1>4, <2>1 DEF Adopt, Observed, IInv, TargetsThere
  <2> QED
    BY <1>2, <1>4, <2>1, <2>2 DEF Adopt, Success
<1>5. (receiver' = receiver /\ inbox' = inbox) => Goal
  BY DEF Reserved, Taken
<1>6. ASSUME NEW m \in Msg, Claim(m) \/ MarkUnknown(m) \/ Close(m) PROVE Goal
  <2>1. m \in Taken /\ receiver' = receiver
    BY <1>6, Held DEF Claim, Reviewable, MarkUnknown, Close
  <2>2. \A n \in Msg : n # m => inbox'[n] = inbox[n]
    BY <1>1, <1>6 DEF Claim, MarkUnknown, Close, ReceivingOK
  <2>3. inbox'[m] # None
    BY <2>1, InboxMoves
  <2>4. inbox'[m].target = inbox[m].target
    <3>1. inbox[m] \in Received
      BY <1>1, <2>1, Rows
    <3> QED
      BY <1>1, <1>6, <3>1 DEF Claim, MarkUnknown, Close, ReceivingOK, Received
  <2>5. Reserved' = Reserved
    BY <2>1, <2>2, <2>3, <2>4 DEF Reserved, Taken
  <2> QED
    BY <2>1, <2>5
<1>7. ASSUME RevokeReceiving PROVE Goal
  <2>1. receiver'.baseline = receiver.baseline /\ receiver'.binding = receiver.binding /\ inbox' = inbox
    BY <1>1, <1>7 DEF RevokeReceiving, ReceivingOK
  <2> QED
    BY <2>1 DEF Reserved, Taken
<1>8. ASSUME NEW m \in Msg, Applying(m) PROVE Goal
  <2>1. (receiver' = receiver /\ inbox' = inbox) \/ Claim(m) \/ MarkUnknown(m) \/ Receipt(m)
    BY <1>8 DEF Applying, Review, Begin, WriteTarget, WriteNew, Fill, Raise
  <2> HIDE DEF Goal
  <2> QED
    BY <1>3, <1>5, <1>6, <2>1
<1>9. ASSUME NEW c, EditTarget(c) \/ Crash PROVE Goal
  BY <1>5, <1>9 DEF EditTarget, Crash
<1>10. ASSUME NEW m \in Msg, NEW c \in Tgt \cup {None}, Receive(m, c) PROVE Goal
  BY <1>10
<1>11. ASSUME NEW add \in SUBSET Tgt, NEW withdraw \in SUBSET Tgt, ChangeReceiving(add, withdraw)
       PROVE  Goal
  BY <1>11
<1>12. Goal
  <2> HIDE DEF Goal
  <2> QED
    BY <1>4, <1>6, <1>7, <1>8, <1>9, <1>10, <1>11 DEF NextReceiving
<1> QED
  BY <1>12

LEMMA SourcesKept ==
  ASSUME IInv, OneSourceEach, Next
  PROVE  OneSourceEach'
<1>1. TypeOK /\ ReceivingOK /\ receiver.binding \in [Src -> Tgt \cup {None}]
  BY DEF IInv, TypeOK, ReceivingOK
<1>2. receiver'.binding = receiver.binding => OneSourceEach'
  BY DEF OneSourceEach
<1>3. CASE NextSending
  BY <1>2, <1>3, SenderMoves DEF IInv, receiving
<1>4. ASSUME NEW m \in Msg, NEW c \in Tgt, Recorded(m, c) PROVE OneSourceEach'
  <2>1. outbox[m].src \in Src
    BY <1>1, <1>4, Rows DEF Recorded, IInv, Numbered, Sent
  <2>2. \A s \in Src : receiver.binding[s] # c
    BY <1>4, SyncOK DEF Recorded, IInv, TargetsThere
  <2> QED
    BY <1>1, <1>4, <2>1, <2>2 DEF Recorded, OneSourceEach
<1>5. ASSUME NEW m \in Msg, NEW c \in Tgt \cup {None}, Receive(m, c) PROVE OneSourceEach'
  <2> DEFINE o == outbox[m].src
  <2>1. /\ o \in Src /\ c \in Targets(m)
        /\ \A s \in Src : receiver'.binding[s] =
               IF s = o /\ c # None THEN c ELSE receiver.binding[s]
    BY <1>5, ReceiveMoves
  <2>2. c # None /\ c # receiver.binding[o] => \A s \in Src : receiver.binding[s] # c
    BY <2>1 DEF Targets
  <2> QED
    BY <2>1, <2>2 DEF OneSourceEach
<1>6. ASSUME NEW add, NEW withdraw, ChangeReceiving(add, withdraw) PROVE OneSourceEach'
  <2>1. receiver'.binding = receiver.binding
    BY <1>1, <1>6 DEF ChangeReceiving, ReceivingOK
  <2> QED
    BY <1>2, <2>1
<1>7. CASE NextReceiving
  BY <1>2, <1>4, <1>5, <1>6, <1>7, PlacesMove
<1> QED
  BY <1>3, <1>7 DEF Next

LEMMA PlacesFinite ==
  ASSUME TypeOK
  PROVE  /\ IsFiniteSet(receiver.baseline) /\ Cardinality(receiver.baseline) \in Nat
         /\ IsFiniteSet(Reserved) /\ Cardinality(Reserved) \in Nat /\ Reserved \subseteq Msg
<1>1. IsFiniteSet(Msg) /\ IsFiniteSet(Tgt)
  BY FS_Interval, SyncOK DEF Msg
<1>2. Reserved \subseteq Msg /\ receiver.baseline \subseteq Tgt
  BY DEF Reserved, Taken, TypeOK, ReceivingOK
<1> QED
  BY <1>1, <1>2, FS_Subset, FS_CardinalityType

LEMMA PlacesKept ==
  ASSUME IInv, SlotsKept, Next
  PROVE  SlotsKept'
<1>1. TypeOK /\ ReceivingOK /\ MaxSelected \in Nat
  BY SyncOK DEF IInv, TypeOK
<1>2. (receiver'.baseline = receiver.baseline /\ Reserved' = Reserved) => SlotsKept'
  BY DEF SlotsKept
<1>3. CASE NextSending
  BY <1>2, <1>3, SenderMoves DEF IInv, receiving, Reserved, Taken
<1>4. ASSUME NEW m \in Msg, NEW c \in Tgt, Recorded(m, c) PROVE SlotsKept'
  <2>1. m \in Reserved
    BY <1>4 DEF Recorded, Reserved
  <2>2. Cardinality(Reserved') = Cardinality(Reserved) - 1
    BY <1>1, <1>4, <2>1, PlacesFinite, FS_RemoveElement DEF Recorded
  <2>3. Cardinality(receiver'.baseline) = Cardinality(receiver.baseline) + 1
    BY <1>1, <1>4, PlacesFinite, FS_AddElement DEF Recorded
  <2> QED
    BY <1>1, <2>2, <2>3, PlacesFinite DEF SlotsKept
<1>5. ASSUME NEW m \in Msg, NEW c \in Tgt \cup {None}, Receive(m, c) PROVE SlotsKept'
  <2>1. /\ receiver'.baseline = receiver.baseline /\ m \notin Taken
        /\ inbox'[m] # None /\ inbox'[m].target = c /\ c \in Targets(m)
    BY <1>5, ReceiveMoves
  <2>2. /\ \A n \in Taken : inbox'[n] # None /\ inbox'[n].target = inbox[n].target
        /\ \A n \in Msg \ Taken : n # m => inbox'[n] = None
    <3>1. \A n \in Taken : inbox'[n].target = inbox[n].target
      <4>1. \A n \in Taken : n # m /\ n \in Msg /\ inbox[n] \in Received
        BY <1>1, <2>1, Rows
      <4>2. \A n \in Taken : inbox'[n] = inbox[n] \/ inbox'[n] = [inbox[n] EXCEPT !.status = "SUPERSEDED"]
        BY <1>5, <4>1 DEF Receive
      <4> QED
        BY <4>1, <4>2 DEF Received
    <3>2. \A n \in Msg \ Taken : n # m => inbox'[n] = None
      BY <1>5 DEF Receive, Taken, From
    <3> QED
      BY <1>5, <3>1, <3>2, InboxMoves DEF NextReceiving
  <2>3. Reserved' = IF c = None THEN Reserved \cup {m} ELSE Reserved
    BY <2>1, <2>2 DEF Reserved, Taken
  <2>4. CASE c # None
    BY <1>2, <2>1, <2>3, <2>4
  <2>5. CASE c = None
    <3>1. None \notin receiver.selected
      BY <1>1, SyncOK DEF ReceivingOK
    <3>2. Room
      BY <2>1, <2>5, <3>1 DEF Targets
    <3>3. m \notin Reserved
      BY <2>1 DEF Reserved
    <3>4. Cardinality(Reserved') = Cardinality(Reserved) + 1
      BY <1>1, <2>3, <2>5, <3>3, PlacesFinite, FS_AddElement
    <3> QED
      BY <1>1, <2>1, <3>2, <3>4, PlacesFinite DEF Room, SlotsKept
  <2> QED
    BY <2>4, <2>5
<1>6. ASSUME NEW add \in SUBSET Tgt, NEW withdraw \in SUBSET Tgt, ChangeReceiving(add, withdraw)
      PROVE  SlotsKept'
  <2>1. receiver'.baseline = receiver.baseline \cup add
    BY <1>1, <1>6 DEF ChangeReceiving, ReceivingOK
  <2>2. Reserved' = Reserved
    <3>1. \A n \in Taken : inbox[n] \in Received
      BY <1>1, Rows
    <3>2. \A n \in Taken : inbox'[n] # None /\ inbox'[n].target = inbox[n].target
      <4>1. \A n \in Taken : inbox'[n] = inbox[n] \/ inbox'[n] = [inbox[n] EXCEPT !.status = "SELECTION_REVOKED"]
        BY <1>6 DEF ChangeReceiving, Taken
      <4>2. \A n \in Taken : inbox'[n] # None
        BY <1>6, InboxMoves DEF NextReceiving
      <4> QED
        BY <3>1, <4>1, <4>2 DEF Received
    <3>3. \A n \in Msg \ Taken : inbox'[n] = None
      BY <1>6 DEF ChangeReceiving, Taken
    <3> QED
      BY <3>2, <3>3 DEF Reserved, Taken
  <2>3. Cardinality(receiver.baseline) + Cardinality(Reserved) + Cardinality(add) <= MaxSelected
    BY <1>6 DEF ChangeReceiving, SelectionPlan
  <2>4. /\ Cardinality(add) \in Nat
        /\ Cardinality(receiver.baseline \cup add) <= Cardinality(receiver.baseline) + Cardinality(add)
        /\ Cardinality(receiver.baseline \cup add) \in Nat
    <3>1. IsFiniteSet(add) /\ IsFiniteSet(receiver.baseline)
      BY <1>1, FS_Subset, SyncOK, PlacesFinite
    <3>2. /\ IsFiniteSet(receiver.baseline \cup add)
          /\ Cardinality(receiver.baseline \cup add) =
                Cardinality(receiver.baseline) + Cardinality(add) - Cardinality(receiver.baseline \cap add)
      BY <3>1, FS_Union
    <3>3. IsFiniteSet(receiver.baseline \cap add)
      BY <3>1, FS_Intersection
    <3> QED
      BY <3>1, <3>2, <3>3, FS_CardinalityType
  <2> QED
    BY <1>1, <2>1, <2>2, <2>3, <2>4, PlacesFinite DEF SlotsKept
<1>7. CASE NextReceiving
  BY <1>2, <1>4, <1>5, <1>6, <1>7, PlacesMove
<1> QED
  BY <1>3, <1>7 DEF Next

LEMMA JournalInit == Init => JournalTruth
<1> SUFFICES ASSUME Init PROVE JournalTruth
  OBVIOUS
<1>1. Taken = {} /\ Reserved = {} /\ receiver.baseline = First \cap Tgt
  BY DEF Init, Taken, Reserved
<1>2. ResultHeld /\ OneSourceEach
  BY <1>1 DEF ResultHeld, OneSourceEach, Init
<1>3. Cardinality(Reserved) = 0 /\ Cardinality(First \cap Tgt) \in Nat
  BY <1>1, FS_EmptySet, FS_Intersection, FS_Subset, FS_CardinalityType, SyncOK
<1>4. SlotsKept
  BY <1>1, <1>3, SyncOK DEF SlotsKept
<1> QED
  BY <1>2, <1>4 DEF JournalTruth

\* The receiving project's journal is true: a message reported as applied or
\* adopted names a version that held its text, no chapter takes two sources, and
\* every new chapter let into the inbox keeps its place.
THEOREM Journal == Spec => []JournalTruth
<1>1. IInv /\ JournalTruth /\ [Next]_vars => JournalTruth'
  <2> SUFFICES ASSUME IInv, JournalTruth, [Next]_vars PROVE JournalTruth'
    OBVIOUS
  <2>1. CASE Next
    BY <2>1, ResultsKept, SourcesKept, PlacesKept DEF JournalTruth
  <2>2. CASE UNCHANGED vars
    BY <2>2 DEF vars, receiving, JournalTruth, ResultHeld, OneSourceEach, SlotsKept, Reserved, Taken
  <2> QED
    BY <2>1, <2>2
<1> QED
  BY <1>1, JournalInit, Invariance, PTL DEF Spec

----------------------------------------------------------------------------
(* The exchange implements ReviewedMerge. *)

Mapped == [Exchange!Next]_(Exchange!vars)

LEMMA Stutter ==
  ASSUME About' = About, Texts' = Texts, Taken' = Taken, Agreements' = Agreements,
         merged' = merged, Reported' = Reported
  PROVE  Mapped
BY DEF Mapped, Exchange!vars

\* Rows that are not claimed or applied by the step show the same.
LEMMA AgreedStays ==
  ASSUME NEW m \in Taken, inbox'[m] # None, Moved(m),
         inbox'[m] = inbox[m] \/ inbox'[m].status \notin {"CLAIMED", "APPLIED"}
  PROVE  Agreed(m)' = Agreed(m) /\ (m \in Reported' <=> m \in Reported)
<1>1. m \in Taken'
  BY DEF Taken
<1>2. CASE inbox'[m] = inbox[m]
  BY <1>1, <1>2 DEF Agreed, Reported
<1>3. CASE inbox'[m] # inbox[m]
  BY <1>1, <1>3 DEF Agreed, Reported, Moved, Unclaimed, Open, Success
<1> QED
  BY <1>2, <1>3

\* Only a message that is the newest of its chapter is pending or claimed.
LEMMA NewestOne ==
  ASSUME IInv, NEW m \in Taken, inbox[m].status \in Open \cup {"PENDING_REVIEW"}
  PROVE  Exchange!Newest(m)
<1>1. \A n \in Taken : n \in Msg /\ outbox[n] # None /\ n \in Nat
  BY DEF IInv, Numbered, Taken, Msg
<1>2. \A n \in Taken : outbox[n].src = outbox[m].src => ~(m < n)
  BY DEF IInv, NewestLive
<1>3. \A n \in Taken : About[n] = outbox[n].src
  BY <1>1 DEF About
<1> QED
  BY <1>1, <1>2, <1>3 DEF Exchange!Newest

LEMMA SendingMaps ==
  ASSUME IInv, NextSending
  PROVE  Mapped
<1>1. TypeOK /\ SentKept /\ UNCHANGED receiving
  BY SenderMoves DEF IInv
<1>2. /\ Texts' = Texts /\ Taken' = Taken /\ Agreements' = Agreements /\ merged' = merged
      /\ Reported' = Reported
  BY <1>1 DEF receiving, Texts, Taken, Agreements, Agreed, Reported
<1>3. (\A m \in Msg : outbox[m] = None => outbox'[m] = None) => About' = About
  BY <1>1 DEF About, SentKept
<1>4. ASSUME NEW s \in Src, Queue(s) PROVE Mapped
  <2> DEFINE m == sender.cursor + 1
  <2>1. m \in Msg /\ outbox[m] = None
    <3>1. sender.cursor \in Nat
      BY <1>1 DEF TypeOK, SendingOK
    <3> QED
      BY <1>4, <3>1 DEF Queue, IInv, Numbered
  <2>2. outbox'[m] # None /\ outbox'[m].src = s /\ \A n \in Msg : n # m => outbox'[n] = outbox[n]
    <3> DEFINE e == [src |-> s, op |-> IF source[s].archived THEN "TOMBSTONE" ELSE "SNAPSHOT",
                     version |-> source[s].version, attempts |-> 0, status |-> "PENDING"]
    <3>1. e \in Sent /\ e.src = s
      BY <1>1 DEF TypeOK, SendingOK, Sent
    <3>2. outbox' = [outbox EXCEPT ![m] = e]
      BY <1>4 DEF Queue
    <3> HIDE DEF e
    <3> QED
      BY <1>1, <2>1, <3>1, <3>2, SyncOK DEF TypeOK, SendingOK
  <2>3. About' = [About EXCEPT ![m] = s] /\ About[m] = None
    BY <2>1, <2>2 DEF About
  <2>4. Exchange!Send(m, s)
    BY <1>2, <2>3 DEF Exchange!Send
  <2> QED
    BY <1>4, <2>1, <2>4 DEF Mapped, Exchange!Next
<1>5. ASSUME NEW m \in Msg, NEW status, Export(m) \/ Delivery(m, status) PROVE Mapped
  <2>1. \A n \in Msg : outbox[n] = None => outbox'[n] = None
    BY <1>1, <1>5 DEF Export, Delivery, TypeOK, SendingOK
  <2> QED
    BY <1>2, <1>3, <2>1, Stutter
<1>6. ASSUME NEW add, NEW withdraw, ChangeSending(add, withdraw) PROVE Mapped
  <2>1. \A n \in Msg : outbox[n] = None => outbox'[n] = None
    BY <1>6 DEF ChangeSending
  <2> QED
    BY <1>2, <1>3, <2>1, Stutter
<1>7. ASSUME NEW s, EditSource(s) \/ RevokeSending PROVE Mapped
  <2>1. \A n \in Msg : outbox[n] = None => outbox'[n] = None
    BY <1>7 DEF EditSource, RevokeSending
  <2> QED
    BY <1>2, <1>3, <2>1, Stutter
<1> QED
  <2> HIDE DEF Mapped
  <2> QED
    BY <1>4, <1>5, <1>6, <1>7 DEF NextSending

\* Calls that neither claim, write, apply nor take a message show nothing.
LEMMA QuietMaps ==
  ASSUME IInv, NextReceiving, merged' = merged, chapter' = chapter,
         \A m \in Msg \ Taken : inbox'[m] = None,
         \A m \in Taken : inbox'[m] = inbox[m] \/ inbox'[m].status \notin {"CLAIMED", "APPLIED"}
  PROVE  Mapped
<1>1. About' = About /\ Texts' = Texts
  BY InboxMoves DEF sending, About, Texts
<1>2. \A m \in Taken : inbox'[m] # None /\ Agreed(m)' = Agreed(m) /\ (m \in Reported' <=> m \in Reported)
  BY InboxMoves, AgreedStays
<1>3. Taken' = Taken
  BY <1>2 DEF Taken
<1>4. Agreements' = Agreements
  <2>1. \A m \in Msg \ Taken : Agreed(m)' = "unread" /\ Agreed(m) = "unread"
    BY <1>3 DEF Agreed
  <2> QED
    BY <1>2, <2>1 DEF Agreements, Taken
<1>5. Reported' = Reported
  <2>1. Reported \subseteq Taken /\ Reported' \subseteq Taken
    BY <1>3 DEF Reported
  <2> QED
    BY <1>2, <2>1
<1> QED
  BY <1>1, <1>3, <1>4, <1>5, Stutter

\* The author, or the filling of a new chapter, writes a text.
LEMMA TextMaps ==
  ASSUME TypeOK, NEW c \in Tgt, UNCHANGED <<outbox, inbox, merged>>,
         chapter'[c] \in Chapter, \A d \in Tgt : d # c => chapter'[d] = chapter[d]
  PROVE  Mapped
<1>1. /\ About' = About /\ Taken' = Taken /\ Agreements' = Agreements /\ Reported' = Reported
  BY DEF About, Taken, Agreements, Agreed, Reported
<1>2. chapter'[c].text \in Text /\ chapter'[c] # None
  BY SyncOK DEF Chapter
<1>3. Texts' = [Texts EXCEPT ![c] = chapter'[c].text]
  BY <1>2 DEF Texts
<1>4. Exchange!Author(c)
  BY <1>1, <1>2, <1>3 DEF Exchange!Author
<1> QED
  BY <1>4 DEF Mapped, Exchange!Next

LEMMA AuthorMaps ==
  ASSUME IInv, NEW c \in Tgt, EditTarget(c)
  PROVE  Mapped
<1>1. TypeOK /\ ReceivingOK /\ ReceivingOK' /\ UNCHANGED <<outbox, inbox, merged>>
  BY AuthorTyped DEF IInv, TypeOK, EditTarget, sending
<1>2. \A d \in Tgt : d # c => chapter'[d] = chapter[d]
  BY <1>1 DEF EditTarget, ReceivingOK
<1>3. Kept(c)
  BY ChaptersKept DEF NextReceiving
<1>4. chapter'[c] \in Chapter
  <2>1. chapter'[c] # None
    <3>1. CASE chapter[c] # None
      BY <1>3, <3>1 DEF Kept
    <3>2. CASE chapter[c] = None
      <4>1. \A t \in Text : [version |-> 1, text |-> t, archived |-> FALSE] \in Chapter
        BY DEF Chapter
      <4> QED
        BY <1>1, <3>2, <4>1, SyncOK DEF EditTarget, ReceivingOK
    <3> QED
      BY <3>1, <3>2
  <2> QED
    BY <1>1, <2>1 DEF ReceivingOK
<1> QED
  BY <1>1, <1>2, <1>4, TextMaps

LEMMA FillMaps ==
  ASSUME IInv, NEW m \in Msg, Fill(m)
  PROVE  Mapped
<1> DEFINE c == step[m].made
<1>1. c \in Tgt /\ chapter[c] \in Chapter /\ TypeOK /\ ReceivingOK
  BY Held DEF Fill, IInv, TypeOK
<1>2. UNCHANGED <<outbox, inbox, merged>>
  BY DEF Fill, sending
<1>3. \A d \in Tgt : d # c => chapter'[d] = chapter[d]
  BY <1>1 DEF Fill, ReceivingOK
<1>4. chapter'[c] \in Chapter
  <2>1. ReceivingOK' /\ Kept(c)
    BY <1>1, ReceivingTyped, ChaptersKept DEF NextReceiving, Applying
  <2> QED
    BY <1>1, <2>1, SyncOK DEF Kept, ReceivingOK
<1> HIDE DEF c
<1> QED
  BY <1>1, <1>2, <1>3, <1>4, TextMaps

LEMMA ReceiveMaps ==
  ASSUME IInv, NEW m \in Msg, NEW c \in Tgt \cup {None}, Receive(m, c)
  PROVE  Mapped
<1>1. NextReceiving /\ UNCHANGED <<outbox, chapter, merged>>
  BY DEF NextReceiving, Receive, sending
<1>2. /\ m \notin Taken /\ \A n \in Taken : n < m
      /\ inbox'[m] # None /\ inbox'[m].status = "PENDING_REVIEW"
      /\ \A n \in From(outbox[m].src) : inbox'[n].status \notin Open \cup {"PENDING_REVIEW"}
  BY ReceiveMoves
<1>3. \A n \in Msg \ Taken : n # m => inbox'[n] = None
  BY DEF Receive, Taken, From, IInv, TypeOK, ReceivingOK
<1>4. \A n \in Taken : inbox'[n] # None /\ Moved(n)
  BY <1>1, InboxMoves
<1>5. Taken' = Taken \cup {m}
  BY <1>2, <1>3, <1>4 DEF Taken
<1>6. \A n \in Taken : inbox'[n] = inbox[n] \/ inbox'[n].status = "SUPERSEDED"
  <2>1. \A n \in Taken : n # m /\ n \in Msg /\ inbox[n] \in Received
    BY <1>2, Rows DEF IInv
  <2>2. \A n \in Taken : inbox'[n] = inbox[n] \/ inbox'[n] = [inbox[n] EXCEPT !.status = "SUPERSEDED"]
    BY <2>1 DEF Receive
  <2> QED
    BY <2>1, <2>2 DEF Received
<1>7. \A n \in Taken : Agreed(n)' = Agreed(n) /\ (n \in Reported' <=> n \in Reported)
  BY <1>4, <1>6, AgreedStays
<1>8. Agreements' = Agreements
  <2>1. \A n \in Msg \ Taken : Agreed(n)' = "unread" /\ Agreed(n) = "unread"
    BY <1>2, <1>5 DEF Agreed, Unclaimed
  <2> QED
    BY <1>7, <2>1 DEF Agreements, Taken
<1>9. Reported' = Reported
  <2>1. Reported \subseteq Taken /\ Reported' \subseteq Taken
    BY <1>2, <1>5 DEF Reported
  <2> QED
    BY <1>7, <2>1
<1>10. About' = About /\ Texts' = Texts
  BY <1>1 DEF About, Texts
<1>11. About[m] # None
  <2>1. outbox[m] \in Sent /\ outbox[m].src \in Src
    BY ReceiveMoves
  <2> QED
    BY <2>1, SyncOK DEF About
<1>12. Exchange!Take(m)
  BY <1>1, <1>2, <1>5, <1>8, <1>9, <1>10, <1>11 DEF Exchange!Take
<1> QED
  BY <1>12 DEF Mapped, Exchange!Next

LEMMA ClaimMaps ==
  ASSUME IInv, NEW m \in Msg, Claim(m)
  PROVE  Mapped
<1>1. /\ NextReceiving /\ UNCHANGED <<outbox, chapter, merged>> /\ TypeOK /\ ReceivingOK
      /\ m \in Taken /\ inbox[m].status = "PENDING_REVIEW" /\ inbox[m] \in Received
  <2>1. m \in Taken /\ inbox[m].status = "PENDING_REVIEW"
    BY DEF Claim, Reviewable
  <2> QED
    BY <2>1, Rows DEF NextReceiving, Applying, Claim, sending, IInv, TypeOK
<1>2. /\ inbox'[m].status = "CLAIMED" /\ inbox'[m].checkpoint = Current(m)
      /\ \A n \in Msg : n # m => inbox'[n] = inbox[n]
  BY <1>1 DEF Claim, AsReviewed, Received, ReceivingOK
<1>3. Taken' = Taken
  <2>1. inbox'[m] # None
    BY <1>1, InboxMoves
  <2> QED
    BY <1>1, <1>2, <2>1 DEF Taken
<1>4. About' = About /\ Texts' = Texts
  BY <1>1 DEF About, Texts
<1>5. Reported' = Reported
  BY <1>1, <1>2, <1>3 DEF Reported, Taken
<1>6. PICK t \in Text \cup {None} : Agreed(m)' = t
  <2>1. Current(m) = None \/ Current(m).text \in Text
    <3>1. inbox[m].target \in Tgt \cup {None}
      BY <1>1 DEF Received
    <3> QED
      BY <1>1, <3>1 DEF Current, ReceivingOK, Chapter
  <2> QED
    BY <1>1, <1>2, <1>3, <2>1 DEF Agreed, Unclaimed
<1>7. Agreed(m) = "unread" /\ \A n \in Msg : n # m => Agreed(n)' = Agreed(n)
  BY <1>1, <1>2, <1>3 DEF Agreed, Unclaimed
<1>8. Agreements' = [Agreements EXCEPT ![m] = t] /\ Agreements[m] = "unread"
  BY <1>6, <1>7 DEF Agreements
<1>9. Exchange!Newest(m)
  BY <1>1, NewestOne
<1>10. Exchange!Agree(m)
  BY <1>1, <1>3, <1>4, <1>5, <1>8, <1>9 DEF Exchange!Agree
<1> QED
  BY <1>10 DEF Mapped, Exchange!Next

LEMMA MergeMaps ==
  ASSUME IInv, NEW m \in Taken, NEW c \in Tgt, UNCHANGED <<outbox, inbox>>,
         inbox[m].status \in Open, m \notin merged, merged' = merged \cup {m},
         Agreed(m) = Texts[c], chapter'[c] \in Chapter,
         \A d \in Tgt : d # c => chapter'[d] = chapter[d]
  PROVE  Mapped
<1>1. /\ About' = About /\ Taken' = Taken /\ Agreements' = Agreements /\ Reported' = Reported
      /\ m \in Msg /\ Agreements[m] = Agreed(m)
  BY DEF About, Taken, Agreements, Agreed, Reported
<1>2. chapter'[c].text \in Text /\ chapter'[c] # None
  BY SyncOK DEF Chapter
<1>3. Texts' = [Texts EXCEPT ![c] = chapter'[c].text]
  BY <1>2 DEF Texts
<1>4. Exchange!Newest(m)
  BY NewestOne
<1>5. Exchange!Merge(m, c)
  BY <1>1, <1>2, <1>3, <1>4 DEF Exchange!Merge
<1> QED
  BY <1>1, <1>5 DEF Mapped, Exchange!Next

LEMMA WriteMaps ==
  ASSUME IInv, NEW m \in Msg, WriteTarget(m) \/ WriteNew(m)
  PROVE  Mapped
<1>1. /\ NextReceiving /\ UNCHANGED <<outbox, inbox>> /\ TypeOK /\ ReceivingOK /\ ReceivingOK'
      /\ \A c \in Tgt : Kept(c)
  BY ReceivingTyped, ChaptersKept DEF NextReceiving, Applying, WriteTarget, WriteNew, sending, IInv, TypeOK
<1>2. /\ m \in Taken /\ inbox[m].status = "CLAIMED" /\ m \notin merged /\ inbox[m] \in Received
      /\ inbox[m].target = None <=> inbox[m].checkpoint = None
      /\ inbox[m].target # None => Remembered(inbox[m].target, inbox[m].checkpoint)
  <2>1. m \in Taken /\ inbox[m] \in Received /\ step[m].pc = "write"
    BY Held DEF WriteTarget, WriteNew
  <2> QED
    BY <2>1 DEF IInv, Claims, Open
<1>3. CASE WriteTarget(m) /\ ~Unmoved(m)
  BY <1>1, <1>2, <1>3, QuietMaps DEF WriteTarget, Taken
<1>4. CASE WriteTarget(m) /\ Unmoved(m)
  <2> DEFINE c == inbox[m].target
  <2>1. c \in Tgt /\ c # None /\ chapter[c] \in Chapter
    BY <1>4, Held, SyncOK DEF WriteTarget
  <2>2. merged' = merged \cup {m} /\ \A d \in Tgt : d # c => chapter'[d] = chapter[d]
    BY <1>1, <1>4 DEF WriteTarget, ReceivingOK
  <2>3. chapter'[c] \in Chapter
    BY <1>1, <2>1, SyncOK DEF Kept, ReceivingOK
  <2>4. Agreed(m) = Texts[c]
    <3>1. inbox[m].checkpoint # None /\ chapter[c].text = inbox[m].checkpoint.text
      BY <1>2, <1>4, <2>1 DEF Unmoved, Remembered
    <3> QED
      BY <1>2, <2>1, <3>1, SyncOK DEF Agreed, Texts, Unclaimed
  <2> HIDE DEF c
  <2> QED
    BY <1>1, <1>2, <2>1, <2>2, <2>3, <2>4, MergeMaps DEF Open
<1>5. CASE WriteNew(m)
  <2>1. PICK c \in Tgt, t \in Text :
          /\ chapter[c] = None
          /\ chapter' = [chapter EXCEPT ![c] = [version |-> 1, text |-> t, archived |-> FALSE]]
    BY <1>5 DEF WriteNew
  <2>2. chapter'[c] \in Chapter /\ \A d \in Tgt : d # c => chapter'[d] = chapter[d]
    BY <1>1, <2>1 DEF ReceivingOK, Chapter
  <2>3. Agreed(m) = Texts[c]
    BY <1>2, <1>5, <2>1 DEF WriteNew, Agreed, Texts, Unclaimed
  <2>4. merged' = merged \cup {m}
    BY <1>5 DEF WriteNew
  <2> QED
    BY <1>1, <1>2, <2>2, <2>3, <2>4, MergeMaps DEF Open
<1> QED
  BY <1>3, <1>4, <1>5

LEMMA ReceiptMaps ==
  ASSUME IInv, NEW m \in Msg, Receipt(m)
  PROVE  Mapped
<1> DEFINE c == step[m].made
<1>1. /\ NextReceiving /\ UNCHANGED <<outbox, chapter, merged>> /\ TypeOK
      /\ m \in Taken /\ c \in Tgt /\ chapter[c] # None
      /\ inbox[m].target \in {None, c} /\ m \in merged
  <2>1. m \in Taken /\ c \in Tgt /\ chapter[c] \in Chapter
    BY Held DEF Receipt
  <2> QED
    BY <2>1, SyncOK DEF NextReceiving, Applying, Receipt, sending, IInv, TypeOK, Claims
<1>2. CASE ~Finishes(m, c)
  <2>1. inbox' = inbox
    BY <1>2 DEF Receipt
  <2> QED
    BY <1>1, <2>1, QuietMaps DEF Taken
<1>3. CASE Finishes(m, c)
  <2>1. Finish(m, c, "APPLIED")
    BY <1>3 DEF Receipt
  <2>2. /\ \A n \in Msg : n # m => inbox'[n] = inbox[n]
        /\ inbox'[m] # None /\ inbox[m].status \in Open /\ inbox'[m].status = "APPLIED"
        /\ inbox'[m].checkpoint = inbox[m].checkpoint
    BY <1>1, <1>3, <2>1, FinishMoves DEF Success
  <2>3. Taken' = Taken
    BY <1>1, <2>2 DEF Taken
  <2>4. Agreements' = Agreements
    <3>1. Agreed(m)' = Agreed(m)
      BY <2>2, <2>3 DEF Agreed, Unclaimed, Open
    <3>2. \A n \in Msg : n # m => Agreed(n)' = Agreed(n)
      BY <2>2, <2>3 DEF Agreed
    <3> QED
      BY <3>1, <3>2 DEF Agreements
  <2>5. Reported' = Reported \cup {m}
    BY <1>1, <2>2, <2>3 DEF Reported, Taken
  <2>6. About' = About /\ Texts' = Texts
    BY <1>1 DEF About, Texts
  <2>7. Exchange!Report(m)
    BY <1>1, <2>3, <2>4, <2>5, <2>6 DEF Exchange!Report
  <2> QED
    BY <2>7 DEF Mapped, Exchange!Next
<1> QED
  BY <1>2, <1>3

LEMMA StepMaps ==
  ASSUME IInv, Next
  PROVE  Mapped
<1>1. CASE NextSending
  BY <1>1, SendingMaps
<1>2. CASE NextReceiving
  <2>1. ASSUME inbox' = inbox, chapter' = chapter, merged' = merged PROVE Mapped
    BY <1>2, <2>1, QuietMaps DEF Taken
  <2>2. ASSUME NEW m \in Msg, MarkUnknown(m) \/ Close(m) PROVE Mapped
    <3>1. m \in Taken
      BY <2>2, Held DEF MarkUnknown, Close
    <3>2. \A n \in Msg : n # m => inbox'[n] = inbox[n]
      BY <2>2 DEF MarkUnknown, Close, IInv, TypeOK, ReceivingOK
    <3>3. inbox'[m] = inbox[m] \/ inbox'[m].status \notin {"CLAIMED", "APPLIED"}
      <4>1. Moved(m) /\ inbox[m] \in Received
        BY <1>2, <3>1, InboxMoves, Rows DEF IInv
      <4>2. inbox'[m].status \in {"UNKNOWN", "CLOSED_WITHOUT_REPLAY"} \/ inbox'[m].status = inbox[m].status
        BY <2>2, <3>1, <4>1 DEF MarkUnknown, Close, IInv, TypeOK, ReceivingOK, Received
      <4> QED
        BY <4>1, <4>2 DEF Moved, Open, Success
    <3> QED
      BY <1>2, <2>2, <3>1, <3>2, <3>3, QuietMaps DEF MarkUnknown, Close, Taken
  <2>3. ASSUME NEW m \in Msg, NEW c \in Tgt, Adopt(m, c) PROVE Mapped
    <3>1. m \in Taken /\ inbox[m].target \in receiver.baseline \cup {None}
      BY <2>3 DEF Adopt, IInv, TargetsThere
    <3>2. inbox[m].target \in {None, c} /\ chapter[c] # None
      BY <2>3, <3>1 DEF Adopt, Observed, IInv, TargetsThere
    <3>3. /\ \A n \in Msg : n # m => inbox'[n] = inbox[n]
          /\ inbox'[m].status = "RECONCILED"
      BY <2>3, <3>1, <3>2, FinishMoves DEF Adopt, Success
    <3> QED
      BY <1>2, <2>3, <3>1, <3>3, QuietMaps DEF Adopt, Taken
  <2>4. ASSUME NEW add, NEW withdraw, ChangeReceiving(add, withdraw) PROVE Mapped
    <3>1. \A n \in Msg \ Taken : inbox'[n] = None
      BY <2>4 DEF ChangeReceiving, Taken
    <3>2. \A n \in Taken : inbox'[n] = inbox[n] \/ inbox'[n].status = "SELECTION_REVOKED"
      <4>1. \A n \in Taken : inbox[n] \in Received /\ n \in Msg
        BY Rows DEF IInv
      <4>2. \A n \in Taken : inbox'[n] = inbox[n] \/ inbox'[n] = [inbox[n] EXCEPT !.status = "SELECTION_REVOKED"]
        BY <2>4, <4>1 DEF ChangeReceiving
      <4> QED
        BY <4>1, <4>2 DEF Received
    <3> QED
      BY <1>2, <2>4, <3>1, <3>2, QuietMaps DEF ChangeReceiving
  <2>5. ASSUME NEW m \in Msg, Applying(m) PROVE Mapped
    <3>1. CASE Review(m) \/ Begin(m) \/ Raise(m)
      BY <2>1, <3>1 DEF Review, Begin, Raise
    <3> HIDE DEF Mapped
    <3> QED
      BY <2>2, <2>5, <3>1, ClaimMaps, WriteMaps, FillMaps, ReceiptMaps DEF Applying
  <2>6. ASSUME Crash \/ RevokeReceiving PROVE Mapped
    BY <2>1, <2>6 DEF Crash, RevokeReceiving
  <2> HIDE DEF Mapped
  <2> QED
    BY <1>2, <2>2, <2>3, <2>4, <2>5, <2>6, AuthorMaps, ReceiveMaps DEF NextReceiving
<1> QED
  BY <1>1, <1>2 DEF Next

\* Every message is merged at most once, in order, and only over the text its
\* reviewer agreed to replace, for any number of chapters, messages and failures.
THEOREM Implementation == Spec => ExchangeContract
<1>1. Init => Exchange!Init
  <2> SUFFICES ASSUME Init PROVE Exchange!Init
    OBVIOUS
  <2>1. Taken = {} /\ merged = {} /\ Reported = {}
    BY DEF Init, Taken, Reported
  <2>2. About = [m \in Msg |-> None] /\ Agreements = [m \in Msg |-> "unread"]
    BY <2>1 DEF Init, About, Agreements, Agreed
  <2>3. ReceivingOK
    BY InitTyped DEF TypeOK
  <2>4. Texts \in [Tgt -> Text \cup {None}]
    BY <2>3 DEF Texts, ReceivingOK, Chapter
  <2> QED
    BY <2>1, <2>2, <2>4 DEF Exchange!Init
<1>2. IInv /\ [Next]_vars => [Exchange!Next]_(Exchange!vars)
  <2>1. CASE Next
    BY <2>1, StepMaps DEF Mapped
  <2>2. UNCHANGED vars => Mapped
    <3> SUFFICES ASSUME UNCHANGED vars PROVE Mapped
      OBVIOUS
    <3> QED
      BY Stutter DEF vars, sending, receiving, About, Texts, Taken, Agreements, Agreed, Reported
  <2> QED
    BY <2>1, <2>2 DEF Mapped
<1> QED
  BY <1>1, <1>2, Invariance, PTL DEF Spec, ExchangeContract, Exchange!Spec
=============================================================================

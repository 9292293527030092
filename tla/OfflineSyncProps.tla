--------------------------- MODULE OfflineSyncProps ---------------------------
(***************************************************************************)
(* What the offline exchange must guarantee.                               *)
(***************************************************************************)
EXTENDS OfflineSync

SendingOK ==
  /\ sender \in [active: BOOLEAN, selected: SUBSET Src, baseline: SUBSET Src,
                 cursor: 0..MaxMessages, tombstones: SUBSET Src]
  /\ outbox \in [Msg -> Sent \cup {None}]
  /\ source \in [Src -> [version: Nat, archived: BOOLEAN]]

ReceivingOK ==
  /\ receiver \in [active: BOOLEAN, selected: SUBSET Tgt, baseline: SUBSET Tgt,
                   cursor: 0..MaxMessages, tombstones: SUBSET Src,
                   withdrawn: SUBSET Src, binding: [Src -> Tgt \cup {None}]]
  /\ inbox \in [Msg -> Received \cup {None}]
  /\ chapter \in [Tgt -> Chapter \cup {None}]
  /\ preview \in [Msg -> Preview \cup {None}]
  /\ step \in [Msg -> Step]
  /\ merged \subseteq Msg

\* The type of every variable of OfflineSync.
TypeOK == SendingOK /\ ReceivingOK /\ edits \in Nat /\ changes \in Nat /\ faults \in Nat

Unclaimed == {"PENDING_REVIEW", "SUPERSEDED", "SELECTION_REVOKED"}
Success == {"APPLIED", "RECONCILED"}

\* Messages are numbered without gaps and taken in order, and only what was sent.
Numbered ==
  /\ \A m \in Msg : outbox[m] # None <=> m <= sender.cursor
  /\ \A m \in Taken : m <= receiver.cursor /\ outbox[m] # None

\* Only the newest message taken of a chapter may still be merged.
NewestLive ==
  \A m, n \in Taken :
    outbox[m].src = outbox[n].src /\ m < n =>
      inbox[m].status \notin Open \cup {"PENDING_REVIEW"}

\* Targets are chapters of the channel; they never disappear.
TargetsThere ==
  /\ receiver.selected \subseteq receiver.baseline
  /\ \A c \in receiver.baseline : chapter[c] # None
  /\ \A s \in Src : receiver.binding[s] \in receiver.baseline \cup {None}
  /\ \A m \in Taken : inbox[m].target \in receiver.baseline \cup {None}
  /\ \A m \in Taken : outbox[m].op = "TOMBSTONE" => inbox[m].target # None

\* A version of a chapter is one text, also if it is the one agreed to.
Remembered(c, old) ==
  /\ chapter[c] # None /\ chapter[c].version >= old.version
  /\ chapter[c].version = old.version => chapter[c].text = old.text

\* What a claim fixed, and where the call is that made it.
Claims ==
  \A m \in Msg :
    /\ m \in Taken /\ inbox[m].status \in Unclaimed =>
         step[m].pc = "none" /\ m \notin merged
    /\ m \in merged => m \in Taken
    /\ m \in Taken /\ inbox[m].status \in Open =>
         /\ inbox[m].target = None <=> inbox[m].checkpoint = None
         /\ inbox[m].target # None => Remembered(inbox[m].target, inbox[m].checkpoint)
    /\ m \in Taken /\ inbox[m].status = "APPLIED" => m \in merged
    /\ step[m].pc # "none" => m \in Taken
    /\ step[m].pc \in {"claimed", "write"} => m \notin merged
    /\ step[m].pc \in {"fill", "receipt"} =>
         /\ m \in merged /\ step[m].made # None /\ chapter[step[m].made] # None
         /\ inbox[m].target \in {None, step[m].made}
    /\ step[m].pc \in {"write", "fill", "receipt"} => inbox[m].status = "CLAIMED"
    /\ step[m].pc = "fill" => inbox[m].target = None

OneTransaction ==
  \A m, n \in Msg :
    {step[m].pc, step[n].pc} \subseteq {"write", "fill", "receipt"} => m = n

\* The inductive invariant behind the safety properties.
IInv ==
  TypeOK /\ Numbered /\ NewestLive /\ TargetsThere /\ Claims /\ OneTransaction

\* A row that says a message was applied or adopted names a version of the
\* chapter that held the text of its review.
ResultHeld ==
  \A m \in Taken : inbox[m].status \in Success =>
    LET c == inbox[m].target IN
    /\ c # None /\ chapter[c].version >= inbox[m].result
    /\ chapter[c].version = inbox[m].result /\ inbox[m].intent # None =>
         chapter[c].text = inbox[m].intent

\* No chapter takes messages of two sources, whatever reviews and claims of new
\* chapters are pending when a source is bound.
OneSourceEach ==
  \A r, s \in Src :
    receiver.binding[r] = receiver.binding[s] /\ r # s => receiver.binding[r] = None

\* A new chapter that was let into the inbox has its place among the chapters
\* of the channel, whatever is selected until it is written and recorded.
SlotsKept ==
  Cardinality(receiver.baseline) + Cardinality(Reserved) <= MaxSelected

\* The journal of the receiving project can be believed after any interleaving,
\* crash or recovery.
JournalTruth == ResultHeld /\ OneSourceEach /\ SlotsKept

\* What ReviewedMerge sees of the exchange: the chapter a message is about, the
\* texts, what the reviewer of a claimed message agreed to replace, and what is
\* reported as applied.
About == [m \in Msg |-> IF outbox[m] = None THEN None ELSE outbox[m].src]

Texts == [c \in Tgt |-> IF chapter[c] = None THEN None ELSE chapter[c].text]

Agreed(m) ==
  IF m \notin Taken \/ inbox[m].status \in Unclaimed THEN "unread"
  ELSE IF inbox[m].checkpoint = None THEN None ELSE inbox[m].checkpoint.text

Agreements == [m \in Msg |-> Agreed(m)]

Reported == {m \in Taken : inbox[m].status = "APPLIED"}

Exchange == INSTANCE ReviewedMerge WITH
  Unread <- "unread", about <- About, text <- Texts, taken <- Taken,
  agreed <- Agreements, done <- merged, reported <- Reported

\* Every message is merged at most once, in the order of its chapter, never
\* after a newer one or a tombstone of it was taken, and only over the text its
\* reviewer saw, however copies are lost, repeated and reordered, whatever the
\* author does meanwhile, and wherever applying it dies or is recovered.
ExchangeContract == Exchange!Spec
=============================================================================

--------------------------- MODULE ChapterStoreProps ---------------------------
(***************************************************************************)
(* What the chapter store must guarantee.                                  *)
(***************************************************************************)
EXTENDS ChapterStore

CONSTANTS Absent, Gone

ASSUME AbsentOK == Absent \notin Doc /\ Gone \notin Doc /\ Absent # Gone

\* The type of every variable of ChapterStore.
TypeOK ==
  /\ ledger \in [Number -> {"none", "reserved", "active", "deleted"}]
  /\ md \in [Number -> Text \cup {None}]
  /\ pkg \in [Number -> Doc \cup {None}]
  /\ hist \in [Number -> SUBSET Doc]
  /\ op \in Op \cup {None}
  /\ seen \in [Client -> (Number \X Doc) \cup {None}]
  /\ faults \in Nat

\* Until an audited operation answers, and until a copy is filled, the chapter
\* is what it was.
Hidden(n) ==
  op # None /\ op.number = n /\ (op.audited \/ op.kind = "copy")

TextOf(n) ==
  IF Hidden(n) THEN IF op.kind = "save" THEN op.before.pkg ELSE Absent
  ELSE IF ledger[n] \in {"none", "reserved"} THEN Absent
  ELSE IF Live(n) THEN Current(n) ELSE Gone

ShelfOf(n) ==
  IF TextOf(n) \in {Absent, Gone} THEN hist[n]
  ELSE {d \in hist[n] : d.version < TextOf(n).version}

Chapters == INSTANCE ChapterText WITH
  Nothing <- None,
  text <- [n \in Number |-> TextOf(n)],
  shelf <- [n \in Number |-> ShelfOf(n)]

\* Nobody's text is replaced by a client that has not seen it, a version never
\* names two texts, the history shows each version as it was, and a number is
\* never used for a second chapter: whichever files a raised exception, its
\* compensation or a death left behind.
RegisterContract == Chapters!Spec

\* Numbers without a chapter have nothing that could be taken for one's.
NumbersClean ==
  \A n \in Number :
    /\ ledger[n] = "none" => md[n] = None
    /\ ledger[n] \in {"none", "reserved"} => pkg[n] = None /\ hist[n] = {}

\* The history of a chapter holds one document for a version, none newer than
\* the chapter, and for the current version nothing but its text.
HistoryHonest ==
  \A n \in Number :
    /\ \A d, e \in hist[n] : d.version = e.version => d = e
    /\ Live(n) => \A d \in hist[n] :
         /\ d.version <= Current(n).version
         /\ d.version = Current(n).version => d = Current(n)

\* What a client saw is still true, or an older version; and reading it left a
\* package.
SeenHonest ==
  \A c \in Client : seen[c] # None =>
    LET n == seen[c][1]
        d == seen[c][2]
        now == TextOf(n) IN
    /\ now # Absent
    /\ Live(n) => pkg[n] # None
    /\ now # Gone => d.version <= now.version /\ (d.version = now.version => d = now)

\* What a save finds on disk between its steps: the package it replaces, or
\* the next one, and a history that does not go beyond what it replaces.
SaveFinds ==
  op # None /\ op.kind = "save" =>
    LET n == op.number
        old == op.before.pkg
        new == [version |-> old.version + 1, text |-> op.text] IN
    /\ Live(n) /\ old # None /\ op.before.md # None
    /\ op.client # None /\ seen[op.client] = <<n, old>>
    /\ pkg[n] \in {old, new}
    /\ op.step \in {"history", "package", "undo2", "undo3"} => pkg[n] = old
    /\ op.step \in {"markdown", "answer"} => pkg[n] = new
    /\ op.step = "answer" => md[n] = op.text
    /\ \A d \in hist[n] : d.version <= old.version /\ (d.version = old.version => d = old)
    /\ op.before.old \subseteq {old}
    /\ op.step = "undo3" => {d \in hist[n] : d.version = old.version} = op.before.old

\* What the creation of a chapter finds: nothing but what it made itself.
CreateFinds ==
  op # None /\ op.kind \in {"create", "copy"} =>
    LET n == op.number
        new == [version |-> 1, text |-> op.text] IN
    /\ ledger[n] \in {"reserved", "active"} /\ hist[n] = {}
    /\ op.before = [md |-> None, pkg |-> None, old |-> {}]
    /\ pkg[n] \in {None, new}
    /\ op.step \in {"markdown", "activate"} => ledger[n] = "reserved"
    /\ op.step = "markdown" => md[n] = None
    /\ op.step = "activate" => md[n] # None
    /\ op.step \in {"package", "fill", "answer"} =>
         Live(n) /\ (op.audited \/ op.kind = "copy")
    /\ op.step \in {"fill", "answer"} => pkg[n] = new
    /\ op.step = "undo2" => md[n] = None

DeleteFinds ==
  op # None =>
    /\ op.kind = "delete" => ledger[op.number] = "deleted"
    /\ op.kind \in {"copy", "delete"} => ~op.audited
    /\ op.step \in Undo => op.audited

\* The inductive invariant behind the contract.
IInv ==
  /\ TypeOK /\ NumbersClean /\ HistoryHonest /\ SeenHonest
  /\ SaveFinds /\ CreateFinds /\ DeleteFinds

\* The markdown of a chapter, which lists, searches and exports read, is the
\* text of its document, as long as nothing raised and nobody died.
MarkdownAgrees ==
  faults = 0 /\ op = None =>
    \A n \in Number : Live(n) => md[n] = Current(n).text

\* An audited operation that raised, and could restore what it captured, has
\* changed nothing: text, markdown and the history file of that version are
\* what they were, and a chapter whose creation failed is not there.
RefusedUnchanged ==
  [][op # None /\ op.step \in Undo /\ op' = None /\ faults' = faults =>
       LET n == op.number IN
       /\ md'[n] = op.before.md /\ pkg'[n] = op.before.pkg
       /\ op.kind = "save" =>
            {d \in hist'[n] : d.version = op.before.pkg.version} = op.before.old
       /\ op.kind = "create" => md'[n] = None]_vars
=============================================================================

----------------------------- MODULE ChapterStore -----------------------------
(***************************************************************************)
(* Chapters of one project in files (repositories/chapter_repository.py,   *)
(* repository.py, chapter_identity.py, application/persistence.py): an     *)
(* identity ledger, a markdown file, a versioned document package and one  *)
(* history file per replaced version.  Every operation holds the project   *)
(* lock and changes several files, one atomic replacement after the other; *)
(* it is cut between them, where it may raise or the process may die.      *)
(* Audited operations restore the files they captured when they raise.     *)
(*                                                                         *)
(* Clients (editors, the autosave adapter, the acceptance of a draft) read *)
(* a chapter and write it any time later with the version they saw;        *)
(* acceptance compares that version itself before, which changes nothing.  *)
(* A text stands for a document and for its markdown.  Display order,      *)
(* archive flags, summaries and legacy projects without a ledger are left  *)
(* out.                                                                    *)
(***************************************************************************)
EXTENDS Naturals

CONSTANTS
  Number,       \* chapter numbers; a number is the identity of its chapter
  Client,
  Text,
  Blank,        \* the text of a copy before it is filled
  MaxVersion,   \* bound on versions of a chapter
  MaxFaults,    \* bound on deaths and failing writes
  None

Doc == [version: Nat, text: Text]

\* What an audited operation captured; old: the history file it may replace.
Files == [md: Text \cup {None}, pkg: Doc \cup {None}, old: SUBSET Doc]

\* An operation inside the project lock, and the file it changes next.
Op == [kind: {"save", "create", "copy", "delete"}, number: Number,
       step: {"history", "package", "markdown", "activate", "fill", "answer",
              "undo1", "undo2", "undo3"},
       client: Client \cup {None}, text: Text, revision: BOOLEAN,
       audited: BOOLEAN, before: Files]

ASSUME StoreOK ==
  /\ Blank \in Text /\ MaxVersion \in Nat /\ MaxFaults \in Nat
  /\ None \notin Client \cup Text \cup Doc \cup Op \cup (Number \X Doc)

VARIABLES
  ledger,       \* chapter_identity.json: the state of each number
  md,           \* chapters/chapter-n.md
  pkg,          \* documents/chapter-n.json
  hist,         \* history/chapter-n: one document for each version kept
  op,           \* the operation inside the project lock
  seen,         \* what each client read or was answered last
  faults

files == <<ledger, md, pkg, hist>>
vars == <<files, op, seen, faults>>

Init ==
  /\ ledger = [n \in Number |-> "none"]
  /\ md = [n \in Number |-> None]
  /\ pkg = [n \in Number |-> None]
  /\ hist = [n \in Number |-> {}]
  /\ op = None
  /\ seen = [c \in Client |-> None]
  /\ faults = 0

----------------------------------------------------------------------------
(* Reading. *)

Fault == faults < MaxFaults /\ faults' = faults + 1

\* FileRepository.chapter: the identity is active and the markdown is there.
Live(n) == ledger[n] = "active" /\ md[n] # None

\* A chapter without a package is version 1 of its markdown.
Current(n) == IF pkg[n] = None THEN [version |-> 1, text |-> md[n]] ELSE pkg[n]

\* get writes the package it did not find.
Read(c, n) ==
  /\ op = None /\ Live(n)
  /\ pkg' = [pkg EXCEPT ![n] = Current(n)]
  /\ seen' = [seen EXCEPT ![c] = <<n, Current(n)>>]
  /\ UNCHANGED <<ledger, md, hist, op, faults>>

----------------------------------------------------------------------------
(* Operations enter the lock. *)

Captured(n, v) ==
  [md |-> md[n], pkg |-> pkg[n], old |-> {d \in hist[n] : d.version = v}]

\* Mutant: the expected version is not compared.
MutCurrentFor(c) == seen[c] # None

\* The expected version is the version of the package.
CurrentFor(c) == seen[c] # None /\ Current(seen[c][1]).version = seen[c][2].version

\* save, rename and restore: restore writes a text of the history.
SaveBegin(c, t, revision, audited) ==
  LET n == seen[c][1] IN
  /\ op = None /\ CurrentFor(c)
  /\ Live(n) /\ Current(n).version < MaxVersion
  /\ pkg' = [pkg EXCEPT ![n] = Current(n)]
  /\ op' = [kind |-> "save", number |-> n,
            step |-> IF revision THEN "history" ELSE "package",
            client |-> c, text |-> t, revision |-> revision, audited |-> audited,
            before |-> Captured(n, Current(n).version)]
  /\ UNCHANGED <<ledger, md, hist, seen, faults>>

\* next_number: never allocated, and nothing left of a former chapter.
Unused(n) ==
  ledger[n] = "none" /\ md[n] = None /\ pkg[n] = None /\ hist[n] = {}

\* The number is reserved before there are bytes.
Reserve(kind, n, t, audited) ==
  /\ op = None /\ Unused(n)
  /\ ledger' = [ledger EXCEPT ![n] = "reserved"]
  /\ op' = [kind |-> kind, number |-> n, step |-> "markdown", client |-> None,
            text |-> t, revision |-> FALSE, audited |-> audited,
            before |-> Captured(n, 0)]
  /\ UNCHANGED <<md, pkg, hist, seen, faults>>

CreateBegin(n, t, audited) == Reserve("create", n, t, audited)

\* duplicate reads its source inside of the same lock.
CopyBegin(n, source) ==
  Live(source) /\ Reserve("copy", n, Current(source).text, FALSE)

DeleteBegin(n) ==
  /\ op = None /\ Live(n)
  /\ ledger' = [ledger EXCEPT ![n] = "deleted"]
  /\ op' = [kind |-> "delete", number |-> n, step |-> "markdown", client |-> None,
            text |-> Blank, revision |-> FALSE, audited |-> FALSE,
            before |-> Captured(n, 0)]
  /\ UNCHANGED <<md, pkg, hist, seen, faults>>

----------------------------------------------------------------------------
(* The steps of the operation inside the lock. *)

Is(kind, step) == op # None /\ op.kind = kind /\ op.step = step
Goto(step) == op' = [op EXCEPT !.step = step]

PutMarkdown(t) == md' = [md EXCEPT ![op.number] = t]
PutPackage(d)  == pkg' = [pkg EXCEPT ![op.number] = d]
Others(v) == {d \in hist[op.number] : d.version # v}

\* Mutant: the history takes the new text.
MutReplaced == [Current(op.number) EXCEPT !.text = op.text]

\* The document the save replaces, under its own version.
Replaced == Current(op.number)

SaveHistory ==
  /\ Is("save", "history")
  /\ hist' = [hist EXCEPT ![op.number] = Others(Replaced.version) \cup {Replaced}]
  /\ Goto("package")
  /\ UNCHANGED <<ledger, md, pkg, seen, faults>>

SavePackage ==
  /\ Is("save", "package")
  /\ PutPackage([version |-> Current(op.number).version + 1, text |-> op.text])
  /\ Goto("markdown")
  /\ UNCHANGED <<ledger, md, hist, seen, faults>>

SaveMarkdown ==
  /\ Is("save", "markdown")
  /\ PutMarkdown(op.text)
  /\ Goto("answer")
  /\ UNCHANGED <<ledger, pkg, hist, seen, faults>>

\* The audit event is appended; the answer carries the new version.
SaveAnswer ==
  /\ Is("save", "answer")
  /\ seen' = [seen EXCEPT ![op.client] = <<op.number, Current(op.number)>>]
  /\ op' = None
  /\ UNCHANGED <<files, faults>>

NewMarkdown ==
  /\ Is("create", "markdown") \/ Is("copy", "markdown")
  /\ PutMarkdown(IF op.kind = "copy" THEN Blank ELSE op.text)
  /\ Goto("activate")
  /\ UNCHANGED <<ledger, pkg, hist, seen, faults>>

\* A plain create ends here; the others go on to the package.
Activate ==
  /\ Is("create", "activate") \/ Is("copy", "activate")
  /\ ledger' = [ledger EXCEPT ![op.number] = "active"]
  /\ IF op.kind = "copy" \/ op.audited THEN Goto("package") ELSE op' = None
  /\ UNCHANGED <<md, pkg, hist, seen, faults>>

NewPackage ==
  /\ Is("create", "package") \/ Is("copy", "package")
  /\ PutPackage([version |-> 1, text |-> op.text])
  /\ Goto(IF op.kind = "copy" THEN "fill" ELSE "answer")
  /\ UNCHANGED <<ledger, md, hist, seen, faults>>

\* Mutant: the markdown of a copy stays blank.
MutFillCopy ==
  /\ Is("copy", "fill") /\ op' = None
  /\ UNCHANGED <<files, seen, faults>>

FillCopy ==
  /\ Is("copy", "fill")
  /\ PutMarkdown(op.text)
  /\ op' = None
  /\ UNCHANGED <<ledger, pkg, hist, seen, faults>>

CreateAnswer ==
  /\ Is("create", "answer")
  /\ op' = None
  /\ UNCHANGED <<files, seen, faults>>

DeleteMarkdown ==
  /\ Is("delete", "markdown")
  /\ PutMarkdown(None)
  /\ Goto("package")
  /\ UNCHANGED <<ledger, pkg, hist, seen, faults>>

\* The history stays.
DeletePackage ==
  /\ Is("delete", "package")
  /\ PutPackage(None)
  /\ op' = None
  /\ UNCHANGED <<ledger, md, hist, seen, faults>>

----------------------------------------------------------------------------
(* A write raises; the captured files are restored in their order. *)

Undo == {"undo1", "undo2", "undo3"}

\* What is not audited, or raises while it is restored, stays as it is.
Raise ==
  /\ Fault /\ op # None
  /\ IF op.audited /\ op.step \notin Undo THEN Goto("undo1") ELSE op' = None
  /\ UNCHANGED <<files, seen>>

\* Mutant: the markdown is not among the captured files.
MutUndoSave ==
  \/ /\ Is("save", "undo1")
     /\ PutPackage(op.before.pkg) /\ Goto("undo2") /\ UNCHANGED <<md, hist>>
  \/ /\ Is("save", "undo2")
     /\ hist' = [hist EXCEPT ![op.number] =
          op.before.old \cup Others(op.before.pkg.version)]
     /\ op' = None /\ UNCHANGED <<md, pkg>>

UndoSave ==
  \/ /\ Is("save", "undo1")
     /\ PutPackage(op.before.pkg) /\ Goto("undo2") /\ UNCHANGED <<md, hist>>
  \/ /\ Is("save", "undo2")
     /\ hist' = [hist EXCEPT ![op.number] =
          op.before.old \cup Others(IF op.before.pkg = None THEN 1
                                    ELSE op.before.pkg.version)]
     /\ Goto("undo3") /\ UNCHANGED <<md, pkg>>
  \/ /\ Is("save", "undo3")
     /\ PutMarkdown(op.before.md) /\ op' = None /\ UNCHANGED <<pkg, hist>>

\* The ledger is not restored: the number is spent.
UndoCreate ==
  \/ /\ Is("create", "undo1")
     /\ PutMarkdown(op.before.md) /\ Goto("undo2") /\ UNCHANGED <<pkg, hist>>
  \/ /\ Is("create", "undo2")
     /\ PutPackage(op.before.pkg) /\ op' = None /\ UNCHANGED <<md, hist>>

Restore ==
  /\ UndoSave \/ UndoCreate
  /\ UNCHANGED <<ledger, seen, faults>>

\* The lock goes with its process; clients and files stay.
Crash ==
  /\ Fault /\ op # None /\ op' = None
  /\ UNCHANGED <<files, seen>>

----------------------------------------------------------------------------

Step ==
  \/ SaveHistory \/ SavePackage \/ SaveMarkdown \/ SaveAnswer
  \/ NewMarkdown \/ Activate \/ NewPackage \/ FillCopy \/ CreateAnswer
  \/ DeleteMarkdown \/ DeletePackage \/ Restore

Next ==
  \/ \E c \in Client, n \in Number : Read(c, n)
  \/ \E c \in Client, t \in Text, revision, audited \in BOOLEAN :
       SaveBegin(c, t, revision, audited)
  \/ \E n \in Number :
       \/ \E t \in Text, audited \in BOOLEAN : CreateBegin(n, t, audited)
       \/ \E source \in Number : CopyBegin(n, source)
       \/ DeleteBegin(n)
  \/ Step \/ Raise \/ Crash

Spec == Init /\ [][Next]_vars
=============================================================================

-------------------------- MODULE ChapterStoreProofs --------------------------
(***************************************************************************)
(* The chapter store keeps its invariant and implements ChapterText.       *)
(***************************************************************************)
EXTENDS ChapterStoreProps, TLAPS

----------------------------------------------------------------------------
(* Types. *)

\* What an operation finds and captures is of its type.
LEMMA ReadTyped ==
  ASSUME TypeOK, NEW n \in Number
  PROVE  /\ Live(n) => Current(n) \in Doc /\ Current(n).version \in Nat
         /\ \A v : Captured(n, v) \in Files
BY StoreOK DEF TypeOK, Live, Current, Captured, Files, Doc

\* The step of an operation stays of its type.
LEMMA GotoTyped ==
  ASSUME TypeOK, op # None, NEW s, Goto(s),
         s \in {"history", "package", "markdown", "activate", "fill", "answer",
                "undo1", "undo2", "undo3"}
  PROVE  /\ op' \in Op /\ op' # None /\ op'.number = op.number /\ op'.kind = op.kind
         /\ op'.step = s /\ op'.text = op.text /\ op'.audited = op.audited
         /\ op'.before = op.before /\ op'.client = op.client
         /\ op \in Op
BY StoreOK DEF TypeOK, Goto, Op

LEMMA OpTyped ==
  ASSUME TypeOK, op # None
  PROVE  /\ op \in Op /\ op.number \in Number /\ op.text \in Text
         /\ op.before \in Files /\ op.audited \in BOOLEAN
         /\ op.client \in Client \cup {None}
         /\ op.before.md \in Text \cup {None}
         /\ op.before.pkg \in Doc \cup {None}
         /\ op.before.old \subseteq Doc
BY DEF TypeOK, Op, Files

LEMMA InitTyped == Init => TypeOK
BY StoreOK DEF Init, TypeOK

\* An operation that enters the lock leaves every variable of its type.
LEMMA BeginTyped ==
  ASSUME TypeOK, NEW n \in Number,
         \/ \E c \in Client : Read(c, n)
         \/ \E t \in Text, a \in BOOLEAN : CreateBegin(n, t, a)
         \/ \E source \in Number : CopyBegin(n, source)
         \/ DeleteBegin(n)
  PROVE  TypeOK'
<1>1. CASE \E c \in Client : Read(c, n)
  BY <1>1, ReadTyped DEF TypeOK, Read
<1>2. ASSUME NEW t \in Text, NEW a \in BOOLEAN, NEW k \in {"create", "copy"}, Reserve(k, n, t, a)
      PROVE  TypeOK'
  <2>1. Captured(n, 0) \in Files
    BY ReadTyped
  <2>2. op' \in Op
    BY <1>2, <2>1 DEF Reserve, Op
  <2> QED
    BY <1>2, <2>2 DEF TypeOK, Reserve
<1>3. CASE DeleteBegin(n)
  <2>1. Captured(n, 0) \in Files
    BY ReadTyped
  <2>2. op' \in Op
    BY <1>3, <2>1, StoreOK DEF DeleteBegin, Op
  <2> QED
    BY <1>3, <2>2 DEF TypeOK, DeleteBegin
<1>4. ASSUME NEW source \in Number, CopyBegin(n, source) PROVE TypeOK'
  <2>1. Current(source) \in Doc
    BY <1>4, ReadTyped DEF CopyBegin
  <2>2. Current(source).text \in Text
    BY <2>1 DEF Doc
  <2> QED
    BY <1>2, <1>4, <2>2 DEF CopyBegin
<1> QED
  BY <1>1, <1>2, <1>3, <1>4 DEF CreateBegin

LEMMA SaveBeginTyped ==
  ASSUME TypeOK, NEW c \in Client, NEW t \in Text, NEW r \in BOOLEAN, NEW a \in BOOLEAN,
         SaveBegin(c, t, r, a)
  PROVE  TypeOK'
<1> DEFINE n == seen[c][1]
<1>1. n \in Number
  BY DEF SaveBegin, CurrentFor, TypeOK
<1>2. Current(n) \in Doc /\ Captured(n, Current(n).version) \in Files
  BY <1>1, ReadTyped DEF SaveBegin
<1>3. op' \in Op
  BY <1>1, <1>2 DEF SaveBegin, Op
<1> QED
  BY <1>1, <1>2, <1>3 DEF TypeOK, SaveBegin

\* So does each of its steps; a save needs what it found.
LEMMA StepTyped ==
  ASSUME IInv, Step \/ Raise \/ Crash
  PROVE  TypeOK'
<1>a. TypeOK /\ (op # None => op \in Op /\ op.number \in Number)
  BY OpTyped DEF IInv
<1>b. ASSUME op # None, op.kind = "save"
      PROVE  Current(op.number) \in Doc /\ Current(op.number).version \in Nat
  BY <1>a, <1>b, ReadTyped DEF IInv, SaveFinds
<1>1. CASE SaveHistory
  BY <1>1, <1>a, <1>b, GotoTyped DEF SaveHistory, Replaced, Others, Is, TypeOK
<1>2. CASE SavePackage
  <2>1. [version |-> Current(op.number).version + 1, text |-> op.text] \in Doc
    BY <1>2, <1>a, <1>b, OpTyped DEF SavePackage, Is, Doc
  <2> QED
    BY <1>2, <1>a, <2>1, GotoTyped DEF SavePackage, PutPackage, Is, TypeOK
<1>3. CASE SaveMarkdown
  BY <1>3, <1>a, OpTyped, GotoTyped DEF SaveMarkdown, PutMarkdown, Is, TypeOK
<1>4. CASE SaveAnswer
  BY <1>4, <1>a, <1>b DEF SaveAnswer, Is, TypeOK, files
<1>5. CASE NewMarkdown
  BY <1>5, <1>a, OpTyped, GotoTyped, StoreOK DEF NewMarkdown, PutMarkdown, Is, TypeOK
<1>6. CASE Activate
  BY <1>6, <1>a, GotoTyped DEF Activate, Is, TypeOK
<1>7. CASE NewPackage
  <2>1. [version |-> 1, text |-> op.text] \in Doc
    BY <1>7, <1>a, OpTyped DEF NewPackage, Is, Doc
  <2> QED
    BY <1>7, <1>a, <2>1, GotoTyped DEF NewPackage, PutPackage, Is, TypeOK
<1>8. CASE FillCopy
  BY <1>8, <1>a, OpTyped DEF FillCopy, PutMarkdown, Is, TypeOK
<1>9. CASE CreateAnswer \/ Crash
  BY <1>9, <1>a DEF CreateAnswer, Crash, Fault, TypeOK, files
<1>10. CASE DeleteMarkdown \/ DeletePackage
  BY <1>10, <1>a, GotoTyped DEF DeleteMarkdown, DeletePackage, PutMarkdown, PutPackage, Is, TypeOK
<1>11. CASE Raise
  BY <1>11, <1>a, GotoTyped DEF Raise, Fault, TypeOK, files
<1>12. CASE Restore
  <2>1. CASE UndoSave
    BY <1>12, <2>1, <1>a, OpTyped, GotoTyped
       DEF Restore, UndoSave, PutMarkdown, PutPackage, Others, Is, TypeOK
  <2>2. CASE UndoCreate
    BY <1>12, <2>2, <1>a, OpTyped, GotoTyped
       DEF Restore, UndoCreate, PutMarkdown, PutPackage, Is, TypeOK
  <2> QED
    BY <1>12, <2>1, <2>2 DEF Restore
<1> QED
  BY <1>1, <1>2, <1>3, <1>4, <1>5, <1>6, <1>7, <1>8, <1>9, <1>10, <1>11, <1>12 DEF Step

LEMMA TypeStep == ASSUME IInv, [Next]_vars PROVE TypeOK'
<1>1. TypeOK
  BY DEF IInv
<1>2. CASE UNCHANGED vars
  BY <1>1, <1>2 DEF vars, files, TypeOK
<1> QED
  BY <1>1, <1>2, BeginTyped, SaveBeginTyped, StepTyped DEF Next

----------------------------------------------------------------------------
(* A step works on one chapter. *)

\* Files of other chapters are not touched, nor held.
Local(m) ==
  /\ \A n \in Number \ {m} :
       /\ ledger'[n] = ledger[n] /\ md'[n] = md[n]
       /\ pkg'[n] = pkg[n] /\ hist'[n] = hist[n]
  /\ op = None \/ op.number = m
  /\ op' = None \/ op'.number = m

\* What the contract sees.
TextBar == [n \in Number |-> TextOf(n)]
ShelfBar == [n \in Number |-> ShelfOf(n)]

Same(n) == TextOf(n)' = TextOf(n) /\ ShelfOf(n)' = ShelfOf(n)

\* Other chapters look as before.
LEMMA Elsewhere ==
  ASSUME NEW m \in Number, Local(m)
  PROVE  \A n \in Number \ {m} : Same(n)
<1> SUFFICES ASSUME NEW n \in Number \ {m} PROVE Same(n)
  OBVIOUS
<1>1. ledger'[n] = ledger[n] /\ md'[n] = md[n] /\ pkg'[n] = pkg[n] /\ hist'[n] = hist[n]
  BY DEF Local
<1>2. ~Hidden(n) /\ ~Hidden(n)'
  BY DEF Local, Hidden
<1>3. TextOf(n)' = TextOf(n)
  BY <1>1, <1>2 DEF TextOf, Live, Current
<1> QED
  BY <1>1, <1>3 DEF Same, ShelfOf

\* A chapter looks like a document, or is absent or gone.
LEMMA TextTyped ==
  ASSUME IInv, NEW n \in Number
  PROVE  TextOf(n) \in Doc \cup {Absent, Gone}
<1>1. CASE Hidden(n) /\ op.kind = "save"
  BY <1>1, OpTyped DEF TextOf, Hidden, IInv, SaveFinds
<1>2. CASE ~Hidden(n) /\ Live(n)
  BY <1>2, ReadTyped DEF TextOf, IInv
<1> QED
  BY <1>1, <1>2 DEF TextOf

LEMMA Focus ==
  ASSUME NEW m \in Number, Local(m)
  PROVE  /\ TextBar' = [TextBar EXCEPT ![m] = TextOf(m)']
         /\ ShelfBar' = [ShelfBar EXCEPT ![m] = ShelfOf(m)']
<1>1. \A n \in Number \ {m} : TextOf(n)' = TextOf(n) /\ ShelfOf(n)' = ShelfOf(n)
  BY Elsewhere DEF Same
<1>2. /\ TextBar' = [n \in Number |-> TextOf(n)']
      /\ ShelfBar' = [n \in Number |-> ShelfOf(n)']
  BY DEF TextBar, ShelfBar
<1> QED
  BY <1>1, <1>2 DEF TextBar, ShelfBar

Mapped == [Chapters!Next]_(Chapters!vars)

\* The ways in which a step may show.
LEMMA StutterMaps ==
  ASSUME NEW m \in Number, Local(m), Same(m), seen' = seen
  PROVE  Mapped
<1>1. TextBar' = TextBar /\ ShelfBar' = ShelfBar
  BY Focus DEF Same, TextBar, ShelfBar
<1> QED
  BY <1>1 DEF Mapped, Chapters!vars, TextBar, ShelfBar

LEMMA SeeMaps ==
  ASSUME IInv, NEW m \in Number, Local(m), Same(m), NEW c \in Client,
         TextOf(m) \in Doc, seen' = [seen EXCEPT ![c] = <<m, TextOf(m)>>]
  PROVE  Mapped
<1>1. TextBar' = TextBar /\ ShelfBar' = ShelfBar
  BY Focus DEF Same, TextBar, ShelfBar
<1>2. Chapters!See(c, m)
  BY <1>1, AbsentOK DEF Chapters!See, Chapters!Present, TextBar, ShelfBar
<1> QED
  BY <1>2 DEF Mapped, Chapters!Next

LEMMA OpenMaps ==
  ASSUME NEW m \in Number, Local(m), seen' = seen, NEW t \in Text,
         TextOf(m) = Absent, TextOf(m)' = [version |-> 1, text |-> t],
         ShelfOf(m)' = ShelfOf(m)
  PROVE  Mapped
<1>1. TextBar' = [TextBar EXCEPT ![m] = [version |-> 1, text |-> t]] /\ ShelfBar' = ShelfBar
  BY Focus DEF TextBar, ShelfBar
<1>2. Chapters!Open(m, t)
  BY <1>1 DEF Chapters!Open, TextBar, ShelfBar
<1> QED
  BY <1>2 DEF Mapped, Chapters!Next

LEMMA WriteMaps ==
  ASSUME IInv, NEW m \in Number, Local(m), NEW c \in Client, NEW t \in Text,
         TextOf(m) \in Doc, seen[c] = <<m, TextOf(m)>>,
         TextOf(m)' = [version |-> TextOf(m).version + 1, text |-> t],
         ShelfOf(m)' \in {ShelfOf(m), ShelfOf(m) \cup {TextOf(m)}},
         seen' \in {seen, [seen EXCEPT ![c] = <<m, TextOf(m)'>>]}
  PROVE  Mapped
<1>1. /\ TextBar' = [TextBar EXCEPT ![m] = [version |-> TextOf(m).version + 1, text |-> t]]
      /\ ShelfBar' \in {ShelfBar, [ShelfBar EXCEPT ![m] = ShelfOf(m) \cup {TextOf(m)}]}
      /\ TextBar'[m] = TextOf(m)'
  BY Focus DEF TextBar, ShelfBar
<1>2. Chapters!Write(c, m, t)
  BY <1>1, AbsentOK DEF Chapters!Write, Chapters!Present, Chapters!MayKeep, TextBar, ShelfBar
<1> QED
  BY <1>2 DEF Mapped, Chapters!Next

LEMMA CloseMaps ==
  ASSUME IInv, NEW m \in Number, Local(m), seen' = seen,
         TextOf(m) # Gone, TextOf(m)' = Gone,
         \/ ShelfOf(m)' = ShelfOf(m)
         \/ TextOf(m) # Absent /\ ShelfOf(m)' = ShelfOf(m) \cup {TextOf(m)}
  PROVE  Mapped
<1>1. /\ TextBar' = [TextBar EXCEPT ![m] = Gone]
      /\ \/ ShelfBar' = ShelfBar
         \/ TextOf(m) # Absent /\ ShelfBar' = [ShelfBar EXCEPT ![m] = ShelfOf(m) \cup {TextOf(m)}]
  BY Focus DEF TextBar, ShelfBar
<1>2. Chapters!Close(m)
  BY <1>1, AbsentOK DEF Chapters!Close, Chapters!Present, Chapters!MayKeep, TextBar, ShelfBar
<1> QED
  BY <1>2 DEF Mapped, Chapters!Next

----------------------------------------------------------------------------
(* What a step on a chapter must show to keep the invariant of files and   *)
(* clients.                                                                *)

\* NumbersClean and HistoryHonest of one number.
NumberOK(n) ==
  /\ ledger[n] = "none" => md[n] = None
  /\ ledger[n] \in {"none", "reserved"} => pkg[n] = None /\ hist[n] = {}
  /\ \A d, e \in hist[n] : d.version = e.version => d = e
  /\ Live(n) => \A d \in hist[n] :
       /\ d.version <= Current(n).version
       /\ d.version = Current(n).version => d = Current(n)

LEMMA NumberHolds == ASSUME IInv, NEW n \in Number PROVE NumberOK(n)
BY DEF IInv, NumbersClean, HistoryHonest, NumberOK

LEMMA FilesKeep ==
  ASSUME IInv, NEW m \in Number, Local(m), NumberOK(m)'
  PROVE  NumbersClean' /\ HistoryHonest'
<1>1. ASSUME NEW n \in Number \ {m} PROVE NumberOK(n)'
  BY <1>1, NumberHolds DEF Local, NumberOK, Live, Current
<1>2. \A n \in Number : NumberOK(n)'
  BY <1>1
<1> QED
  BY <1>2 DEF NumberOK, NumbersClean, HistoryHonest

\* A client that saw the chapter may still rely on it.
StillSeen(m) ==
  TextOf(m) # Absent =>
    /\ TextOf(m)' # Absent
    /\ Live(m)' => Live(m) /\ (pkg[m] # None => pkg'[m] # None)
    /\ \/ TextOf(m)' \in {Gone, TextOf(m)}
       \/ TextOf(m) # Gone /\ TextOf(m)'.version > TextOf(m).version

SeenOK(c) ==
  seen[c] # None =>
    LET n == seen[c][1]
        d == seen[c][2]
        now == TextOf(n) IN
    /\ now # Absent
    /\ Live(n) => pkg[n] # None
    /\ now # Gone => d.version <= now.version /\ (d.version = now.version => d = now)

LEMMA SeenKeeps ==
  ASSUME IInv, TypeOK', NEW m \in Number, Local(m), StillSeen(m), NEW c \in Client,
         seen'[c] = seen[c], TextOf(m)' \in Doc \cup {Absent, Gone}
  PROVE  SeenOK(c)'
<1> SUFFICES ASSUME seen[c] # None PROVE SeenOK(c)'
  BY DEF SeenOK
<1> DEFINE n == seen[c][1]
           d == seen[c][2]
<1>1. n \in Number /\ d \in Doc /\ SeenOK(c)
  BY DEF IInv, TypeOK, SeenHonest, SeenOK
<1>2. CASE n # m
  <2>1. TextOf(n)' = TextOf(n)
    BY <1>1, <1>2, Elsewhere DEF Same
  <2>2. Live(n)' = Live(n) /\ pkg'[n] = pkg[n]
    BY <1>1, <1>2 DEF Local, Live
  <2> QED
    BY <1>1, <2>1, <2>2 DEF SeenOK
<1>3. CASE n = m
  <2>1. /\ TextOf(m) # Absent
        /\ Live(m) => pkg[m] # None
        /\ TextOf(m) # Gone =>
             d.version <= TextOf(m).version /\ (d.version = TextOf(m).version => d = TextOf(m))
    BY <1>1, <1>3 DEF SeenOK
  <2>2. d.version \in Nat /\ (TextOf(m) \in Doc => TextOf(m).version \in Nat)
        /\ (TextOf(m)' \in Doc => TextOf(m)'.version \in Nat)
    BY <1>1 DEF Doc
  <2>3. TextOf(m) \in Doc \cup {Absent, Gone}
    BY TextTyped
  <2>4. TextOf(m)' # Gone =>
             d.version <= TextOf(m)'.version /\ (d.version = TextOf(m)'.version => d = TextOf(m)')
    BY <2>1, <2>2, <2>3 DEF StillSeen
  <2>5. TextOf(m)' # Absent /\ (Live(m)' => pkg'[m] # None)
    BY <2>1 DEF StillSeen
  <2> QED
    BY <1>3, <2>4, <2>5 DEF SeenOK
<1> QED
  BY <1>2, <1>3

\* A client that is shown the chapter now relies on the truth.
LEMMA SeenNow ==
  ASSUME NEW m \in Number, NEW c \in Client, TextOf(m)' \in Doc,
         seen'[c] = <<m, TextOf(m)'>>, pkg'[m] # None, TypeOK'
  PROVE  SeenOK(c)'
<1>1. TextOf(m)'.version \in Nat
  BY DEF Doc
<1> QED
  BY <1>1, AbsentOK DEF SeenOK

LEMMA SeenCollects == (\A c \in Client : SeenOK(c)') => SeenHonest'
BY DEF SeenOK, SeenHonest

Keeps == NumbersClean' /\ HistoryHonest' /\ SeenHonest' /\ Mapped

\* The chapter looks as before.
LEMMA QuietKeeps ==
  ASSUME IInv, TypeOK', NEW m \in Number, Local(m), NumberOK(m)', Same(m), seen' = seen,
         TextOf(m) # Absent => (Live(m)' => Live(m) /\ (pkg[m] # None => pkg'[m] # None))
  PROVE  Keeps
<1>1. TextOf(m)' \in Doc \cup {Absent, Gone}
  BY TextTyped DEF Same
<1>2. StillSeen(m)
  BY DEF Same, StillSeen
<1>3. SeenHonest'
  BY <1>1, <1>2, SeenKeeps, SeenCollects
<1> QED
  BY <1>3, FilesKeep, StutterMaps DEF Keeps

\* A client is shown it.
LEMMA SeeKeeps ==
  ASSUME IInv, TypeOK', NEW m \in Number, Local(m), NumberOK(m)', Same(m),
         NEW c \in Client, TextOf(m) \in Doc, Live(m), pkg'[m] # None,
         seen' = [seen EXCEPT ![c] = <<m, TextOf(m)>>]
  PROVE  Keeps
<1>1. TextOf(m)' = TextOf(m) /\ TextOf(m)' \in Doc
  BY DEF Same
<1>2. StillSeen(m)
  BY <1>1 DEF StillSeen
<1>3. ASSUME NEW e \in Client PROVE SeenOK(e)'
  <2>1. seen'[e] = seen[e] \/ (e = c /\ seen'[e] = <<m, TextOf(m)'>>)
    BY <1>1 DEF IInv, TypeOK
  <2> QED
    BY <1>1, <1>2, <2>1, SeenKeeps, SeenNow
<1> QED
  BY <1>3, SeenCollects, FilesKeep, SeeMaps DEF Keeps

\* It appears, or is replaced, or disappears.
LEMMA OpenKeeps ==
  ASSUME IInv, TypeOK', NEW m \in Number, Local(m), NumberOK(m)', seen' = seen,
         NEW t \in Text,
         TextOf(m) = Absent, TextOf(m)' = [version |-> 1, text |-> t],
         ShelfOf(m)' = ShelfOf(m)
  PROVE  Keeps
<1>1. TextOf(m)' \in Doc \cup {Absent, Gone}
  BY DEF Doc
<1>2. SeenHonest'
  BY <1>1, SeenKeeps, SeenCollects DEF StillSeen
<1> QED
  BY <1>2, FilesKeep, OpenMaps DEF Keeps

LEMMA CloseKeeps ==
  ASSUME IInv, TypeOK', NEW m \in Number, Local(m), NumberOK(m)', seen' = seen,
         TextOf(m) # Gone, TextOf(m)' = Gone, ~Live(m)',
         \/ ShelfOf(m)' = ShelfOf(m)
         \/ TextOf(m) # Absent /\ ShelfOf(m)' = ShelfOf(m) \cup {TextOf(m)}
  PROVE  Keeps
<1>1. StillSeen(m)
  BY AbsentOK DEF StillSeen
<1>2. SeenHonest'
  BY <1>1, SeenKeeps, SeenCollects
<1> QED
  BY <1>2, FilesKeep, CloseMaps DEF Keeps

LEMMA WriteKeeps ==
  ASSUME IInv, TypeOK', NEW m \in Number, Local(m), NumberOK(m)',
         NEW c \in Client, NEW t \in Text,
         TextOf(m) \in Doc, seen[c] = <<m, TextOf(m)>>,
         TextOf(m)' = [version |-> TextOf(m).version + 1, text |-> t],
         ShelfOf(m)' \in {ShelfOf(m), ShelfOf(m) \cup {TextOf(m)}},
         seen' \in {seen, [seen EXCEPT ![c] = <<m, TextOf(m)'>>]},
         Live(m), pkg'[m] # None
  PROVE  Keeps
<1>1. TextOf(m).version \in Nat /\ TextOf(m)' \in Doc
  BY DEF Doc
<1>2. StillSeen(m)
  BY <1>1, AbsentOK DEF StillSeen
<1>3. ASSUME NEW e \in Client PROVE SeenOK(e)'
  <2>0. seen \in [Client -> (Number \X Doc) \cup {None}]
    BY DEF IInv, TypeOK
  <2>1. seen'[e] = seen[e] \/ (e = c /\ seen'[e] = <<m, TextOf(m)'>>)
    BY <2>0
  <2> QED
    BY <1>1, <1>2, <2>1, SeenKeeps, SeenNow
<1> QED
  BY <1>3, SeenCollects, FilesKeep, WriteMaps DEF Keeps

----------------------------------------------------------------------------
(* Reading, and the operations that enter the lock. *)

Finds == SaveFinds' /\ CreateFinds' /\ DeleteFinds'

LEMMA FreeFinds == op' = None => Finds
BY DEF Finds, SaveFinds, CreateFinds, DeleteFinds

\* Outside of operations a chapter that is there shows its document.
LEMMA FreeText ==
  ASSUME IInv, op = None, NEW n \in Number
  PROVE  /\ TextOf(n) = IF ledger[n] \in {"none", "reserved"} THEN Absent
                        ELSE IF Live(n) THEN Current(n) ELSE Gone
         /\ Live(n) => /\ TextOf(n) = Current(n) /\ Current(n) \in Doc
                       /\ Current(n).version \in Nat /\ ledger[n] = "active"
BY ReadTyped DEF TextOf, Hidden, Live, IInv, Doc

LEMMA ReadKeeps ==
  ASSUME IInv, TypeOK', NEW c \in Client, NEW n \in Number, Read(c, n)
  PROVE  Keeps /\ Finds
<1>1. Local(n) /\ op = None /\ op' = None /\ Live(n) /\ Live(n)'
  BY DEF Read, Local, Live
<1>2. TextOf(n) = Current(n) /\ TextOf(n) \in Doc
  BY <1>1, FreeText
<1>3. pkg'[n] = Current(n) /\ pkg'[n] # None /\ Current(n)' = Current(n)
  BY <1>2, StoreOK DEF Read, IInv, TypeOK, Current
<1>4. TextOf(n)' = TextOf(n) /\ ShelfOf(n)' = ShelfOf(n)
  BY <1>1, <1>2, <1>3, FreeText DEF Read, TextOf, ShelfOf, Hidden
<1>5. NumberOK(n)'
  BY <1>1, <1>3, NumberHolds DEF Read, NumberOK, Live
<1>6. seen' = [seen EXCEPT ![c] = <<n, TextOf(n)>>]
  BY <1>2 DEF Read
<1> QED
  BY <1>1, <1>2, <1>3, <1>4, <1>5, <1>6, SeeKeeps, FreeFinds DEF Same

\* A save starts from the document its client saw.
LEMMA SaveBeginKeeps ==
  ASSUME IInv, TypeOK', NEW c \in Client, NEW t \in Text, NEW r \in BOOLEAN,
         NEW a \in BOOLEAN, SaveBegin(c, t, r, a)
  PROVE  Keeps /\ Finds
<1> DEFINE n == seen[c][1]
           d == seen[c][2]
<1>1. /\ op = None /\ Live(n) /\ seen[c] # None /\ Current(n).version = d.version
      /\ n \in Number /\ d \in Doc /\ seen[c] = <<n, d>>
  BY DEF SaveBegin, CurrentFor, IInv, TypeOK
<1>2. TextOf(n) = Current(n) /\ TextOf(n) \in Doc
  BY <1>1, FreeText
<1>3. pkg[n] # None /\ Current(n) = pkg[n] /\ d = pkg[n] /\ pkg[n] \in Doc
  BY <1>1, <1>2, AbsentOK DEF IInv, SeenHonest, Current
<1>4. pkg' = pkg /\ UNCHANGED <<ledger, md, hist, seen>>
  BY <1>3 DEF SaveBegin, IInv, TypeOK
<1>5. op' = [kind |-> "save", number |-> n,
             step |-> IF r THEN "history" ELSE "package",
             client |-> c, text |-> t, revision |-> r, audited |-> a,
             before |-> Captured(n, Current(n).version)]
  BY DEF SaveBegin
<1>6. op' # None
  <2>1. Captured(n, Current(n).version) \in Files
    BY <1>1, ReadTyped DEF IInv
  <2>2. op' \in Op
    BY <1>1, <1>5, <2>1 DEF Op
  <2> QED
    BY <2>2, StoreOK
<1>7. Local(n) /\ Live(n)'
  BY <1>1, <1>4, <1>5 DEF Local, Live
<1>8. op'.before.pkg = pkg[n]
  BY <1>5 DEF Captured
<1>9. TextOf(n)' = TextOf(n)
  BY <1>1, <1>2, <1>3, <1>4, <1>5, <1>8, FreeText DEF TextOf, Hidden, Current, Live
<1>10. Same(n) /\ NumberOK(n)'
  BY <1>4, <1>9, <1>1, NumberHolds DEF Same, ShelfOf, NumberOK, Live, Current
<1>11. Keeps
  BY <1>1, <1>4, <1>7, <1>10, QuietKeeps
<1>12. SaveFinds'
  <2>1. /\ op'.number = n /\ op'.client = c /\ op'.kind = "save" /\ op'.text = t
        /\ op'.step \in {"history", "package"} /\ op'.before.md = md[n]
        /\ op'.before.old = {e \in hist[n] : e.version = pkg[n].version}
    BY <1>3, <1>5 DEF Captured
  <2>2. md[n] # None /\ c # None /\ seen'[c] = <<n, pkg[n]>> /\ pkg'[n] = pkg[n]
    BY <1>1, <1>3, <1>4, StoreOK DEF Live
  <2>3. \A e \in hist[n] : e.version <= pkg[n].version /\ (e.version = pkg[n].version => e = pkg[n])
    BY <1>1, <1>3, NumberHolds DEF NumberOK
  <2>4. hist'[n] = hist[n] /\ op'.before.old \subseteq {pkg[n]}
    BY <1>4, <2>1, <2>3
  <2> QED
    BY <1>3, <1>6, <1>7, <1>8, <2>1, <2>2, <2>3, <2>4 DEF SaveFinds
<1> QED
  BY <1>11, <1>12, <1>5 DEF Finds, CreateFinds, DeleteFinds, Undo

\* A number is reserved before anybody can see it.
LEMMA ReserveKeeps ==
  ASSUME IInv, TypeOK', NEW k \in {"create", "copy"}, NEW n \in Number, NEW t \in Text,
         NEW a \in BOOLEAN, k = "copy" => ~a, Reserve(k, n, t, a)
  PROVE  Keeps /\ Finds
<1>1. /\ op = None /\ ledger[n] = "none" /\ md[n] = None /\ pkg[n] = None /\ hist[n] = {}
      /\ UNCHANGED <<md, pkg, hist, seen>>
      /\ ledger' = [ledger EXCEPT ![n] = "reserved"] /\ ledger'[n] = "reserved"
  BY DEF Reserve, Unused, IInv, TypeOK
<1>2. op' = [kind |-> k, number |-> n, step |-> "markdown", client |-> None,
             text |-> t, revision |-> FALSE, audited |-> a, before |-> Captured(n, 0)]
  BY DEF Reserve
<1>3. op'.before = [md |-> None, pkg |-> None, old |-> {}]
  BY <1>1, <1>2 DEF Captured
<1>4. Local(n) /\ ~Live(n) /\ ~Live(n)'
  BY <1>1, <1>2 DEF Local, Live, IInv, TypeOK
<1>5. TextOf(n) = Absent
  BY <1>1 DEF TextOf, Hidden
<1>6. TextOf(n)' = Absent
  BY <1>1, <1>2 DEF TextOf, Hidden
<1>7. Same(n) /\ NumberOK(n)'
  BY <1>1, <1>4, <1>5, <1>6 DEF Same, ShelfOf, NumberOK
<1>8. Keeps
  BY <1>1, <1>4, <1>7, QuietKeeps
<1>9. Finds
  BY <1>1, <1>2, <1>3 DEF Finds, SaveFinds, CreateFinds, DeleteFinds, Undo
<1> QED
  BY <1>8, <1>9

\* A deletion keeps what the history has.
LEMMA DeleteBeginKeeps ==
  ASSUME IInv, TypeOK', NEW n \in Number, DeleteBegin(n)
  PROVE  Keeps /\ Finds
<1>1. /\ op = None /\ Live(n) /\ UNCHANGED <<md, pkg, hist, seen>>
      /\ ledger' = [ledger EXCEPT ![n] = "deleted"] /\ ledger'[n] = "deleted"
  BY DEF DeleteBegin, IInv, TypeOK
<1>2. op' = [kind |-> "delete", number |-> n, step |-> "markdown", client |-> None,
             text |-> Blank, revision |-> FALSE, audited |-> FALSE,
             before |-> Captured(n, 0)]
  BY DEF DeleteBegin
<1>3. Local(n) /\ ~Live(n)'
  BY <1>1, <1>2 DEF Local, Live, IInv, TypeOK
<1>4. TextOf(n) \in Doc /\ TextOf(n) = Current(n) /\ TextOf(n).version \in Nat
      /\ TextOf(n) \notin {Absent, Gone}
  BY <1>1, FreeText, AbsentOK
<1>5. TextOf(n)' = Gone
  BY <1>1, <1>2, <1>3 DEF TextOf, Hidden
<1>6. ShelfOf(n)' = hist[n]
  BY <1>1, <1>5 DEF ShelfOf
<1>7. /\ hist[n] \subseteq Doc
      /\ \A d \in hist[n] : d.version <= TextOf(n).version
                            /\ (d.version = TextOf(n).version => d = TextOf(n))
  BY <1>1, <1>4, NumberHolds DEF NumberOK, IInv, TypeOK
<1>8. hist[n] \in {ShelfOf(n), ShelfOf(n) \cup {TextOf(n)}}
  <2>1. \A d \in hist[n] : d.version \in Nat
    BY <1>7 DEF Doc
  <2>2. ShelfOf(n) = {d \in hist[n] : d.version < TextOf(n).version}
    BY <1>4 DEF ShelfOf
  <2>3. \A d \in hist[n] : d \in ShelfOf(n) \/ d = TextOf(n)
    BY <1>4, <1>7, <2>1, <2>2
  <2> QED
    BY <2>2, <2>3
<1>9. NumberOK(n)'
  BY <1>1, <1>3, NumberHolds DEF NumberOK
<1>10. Keeps
  BY <1>1, <1>3, <1>4, <1>5, <1>6, <1>8, <1>9, CloseKeeps, AbsentOK
<1>11. Finds
  BY <1>1, <1>2 DEF Finds, SaveFinds, CreateFinds, DeleteFinds, Undo
<1> QED
  BY <1>10, <1>11

----------------------------------------------------------------------------
(* The steps of a save. *)

\* Step s of a save of chapter n, from document old to document new.
LEMMA SaveState ==
  ASSUME IInv, op # None, op.kind = "save"
  PROVE  LET n == op.number
             old == op.before.pkg
             new == [version |-> old.version + 1, text |-> op.text]
         IN  /\ n \in Number /\ op.client \in Client /\ op.text \in Text
             /\ old \in Doc /\ old.version \in Nat /\ new \in Doc
             /\ old \notin {None, Absent, Gone} /\ new \notin {None, Absent, Gone}
             /\ Live(n) /\ pkg[n] # None /\ Current(n) = pkg[n] /\ pkg[n] \in {old, new}
             /\ ledger[n] = "active" /\ seen[op.client] = <<n, old>>
             /\ TextOf(n) = IF op.audited THEN old ELSE pkg[n]
             /\ hist[n] \subseteq Doc
             /\ \A d \in hist[n] : /\ d.version \in Nat /\ d.version <= old.version
                                   /\ d.version = old.version => d = old
<1> DEFINE n == op.number
           old == op.before.pkg
           new == [version |-> old.version + 1, text |-> op.text]
<1>1. n \in Number /\ op.text \in Text /\ hist[n] \subseteq Doc
  BY OpTyped DEF IInv, TypeOK
<1>2. op.client \in Client /\ old \in Doc
  BY OpTyped DEF IInv, SaveFinds
<1>3. old.version \in Nat /\ new \in Doc
  BY <1>1, <1>2 DEF Doc
<1>4. old \notin {None, Absent, Gone} /\ new \notin {None, Absent, Gone}
  BY <1>2, <1>3, AbsentOK, StoreOK
<1>5. /\ Live(n) /\ pkg[n] \in {old, new} /\ seen[op.client] = <<n, old>>
      /\ \A d \in hist[n] : d.version <= old.version /\ (d.version = old.version => d = old)
  BY DEF IInv, SaveFinds
<1>6. pkg[n] # None /\ Current(n) = pkg[n] /\ ledger[n] = "active"
  BY <1>4, <1>5 DEF Current, Live
<1>7. TextOf(n) = IF op.audited THEN old ELSE pkg[n]
  BY <1>5, <1>6 DEF TextOf, Hidden
<1>8. \A d \in hist[n] : d.version \in Nat
  BY <1>1 DEF Doc
<1> QED
  BY <1>1, <1>2, <1>3, <1>4, <1>5, <1>6, <1>7, <1>8

\* What goes into the history is not newer than the document.
LEMMA SaveHistoryKeeps ==
  ASSUME IInv, TypeOK', NEW n, n = op.number, SaveHistory
  PROVE Keeps /\ Finds
<1> DEFINE old == op.before.pkg
           new == [version |-> old.version + 1, text |-> op.text]
<1>1. op # None /\ op.kind = "save" /\ op.step = "history"
  BY DEF SaveHistory, Is
<1>2. pkg[n] = old
  BY <1>1 DEF IInv, SaveFinds
<1>3. Replaced = old
  BY <1>1, <1>2, SaveState DEF Replaced
<1>4. /\ UNCHANGED <<ledger, md, pkg, seen>>
      /\ hist' = [hist EXCEPT ![n] = {d \in hist[n] : d.version # old.version} \cup {old}]
  BY <1>3 DEF SaveHistory, Others
<1>5. /\ op' # None /\ op'.number = n /\ op'.kind = "save" /\ op'.step = "package"
      /\ op'.text = op.text /\ op'.audited = op.audited /\ op'.before = op.before
      /\ op'.client = op.client
  BY <1>1, GotoTyped DEF SaveHistory, IInv
<1>6. Local(n) /\ Live(n)' /\ Live(n)
  BY <1>1, <1>4, <1>5, SaveState DEF Local, Live, IInv, TypeOK
<1>7. hist'[n] = {d \in hist[n] : d.version # old.version} \cup {old}
  BY <1>1, <1>4, SaveState DEF IInv, TypeOK
<1>8. TextOf(n) = old /\ TextOf(n)' = TextOf(n) /\ old.version \in Nat /\ old \notin {Absent, Gone}
  BY <1>1, <1>2, <1>4, <1>5, <1>6, SaveState DEF TextOf, Hidden, Current
<1>9. ShelfOf(n)' = ShelfOf(n)
  <2>1. ShelfOf(n) = {d \in hist[n] : d.version < old.version}
    BY <1>8 DEF ShelfOf
  <2>2. ShelfOf(n)' = {d \in hist'[n] : d.version < old.version}
    BY <1>8 DEF ShelfOf
  <2> QED
    BY <1>1, <1>7, <1>8, <2>1, <2>2, SaveState
<1>10. \A d \in hist'[n] : d.version <= old.version /\ (d.version = old.version => d = old)
  BY <1>1, <1>7, <1>8, SaveState
<1>11. Current(n)' = old
  BY <1>1, <1>2, <1>4, SaveState DEF Current
<1>12. NumberOK(n)'
  BY <1>1, <1>4, <1>6, <1>7, <1>10, <1>11, NumberHolds, SaveState DEF NumberOK, Live
<1>13. Keeps
  BY <1>1, <1>4, <1>6, <1>8, <1>9, <1>12, QuietKeeps, SaveState DEF Same
<1>14. SaveFinds'
  BY <1>1, <1>2, <1>4, <1>5, <1>6, <1>10 DEF SaveFinds, IInv
<1> QED
  BY <1>5, <1>13, <1>14 DEF Finds, CreateFinds, DeleteFinds, Undo

\* The versions on the shelf when a document is replaced.
LEMMA ShelfGrows ==
  ASSUME NEW H, NEW old \in Doc, old.version \in Nat,
         \A d \in H : /\ d.version \in Nat /\ d.version <= old.version
                      /\ d.version = old.version => d = old
  PROVE  {d \in H : d.version < old.version + 1} \in
           {{d \in H : d.version < old.version},
            {d \in H : d.version < old.version} \cup {old}}
<1> DEFINE S == {d \in H : d.version < old.version}
           T == {d \in H : d.version < old.version + 1}
<1>1. \A d \in T : d \in S \/ d = old
  OBVIOUS
<1>2. S \subseteq T
  OBVIOUS
<1>3. CASE old \in T
  BY <1>1, <1>2, <1>3
<1>4. CASE old \notin T
  BY <1>1, <1>2, <1>4
<1> QED
  BY <1>3, <1>4

LEMMA SavePackageKeeps ==
  ASSUME IInv, TypeOK', NEW n, n = op.number, SavePackage
  PROVE Keeps /\ Finds
<1> DEFINE old == op.before.pkg
           new == [version |-> old.version + 1, text |-> op.text]
<1>1. op # None /\ op.kind = "save" /\ op.step = "package" /\ pkg[n] = old
  BY DEF SavePackage, Is, IInv, SaveFinds
<1>2. /\ UNCHANGED <<ledger, md, hist, seen>> /\ pkg' = [pkg EXCEPT ![n] = new]
      /\ pkg'[n] = new
  BY <1>1, SaveState DEF SavePackage, PutPackage, IInv, TypeOK
<1>3. /\ op' # None /\ op'.number = n /\ op'.kind = "save" /\ op'.step = "markdown"
      /\ op'.text = op.text /\ op'.audited = op.audited /\ op'.before = op.before
      /\ op'.client = op.client
  BY <1>1, GotoTyped DEF SavePackage, IInv
<1>4. Local(n) /\ Live(n)' /\ Live(n)
  BY <1>1, <1>2, <1>3, SaveState DEF Local, Live, IInv, TypeOK
<1>5. Current(n)' = new /\ new.version = old.version + 1 /\ new # None
  BY <1>1, <1>2, SaveState DEF Current
<1>6. TextOf(n) = old /\ TextOf(n)' = IF op.audited THEN old ELSE new
  BY <1>1, <1>3, <1>4, <1>5, SaveState DEF TextOf, Hidden, Live
<1>7. NumberOK(n)'
  BY <1>1, <1>2, <1>4, <1>5, NumberHolds, SaveState DEF NumberOK, Live
<1>8. SaveFinds'
  BY <1>1, <1>2, <1>3, <1>4 DEF SaveFinds, IInv
<1>9. ShelfOf(n) = {d \in hist[n] : d.version < old.version}
  BY <1>1, <1>6, SaveState DEF ShelfOf
<1>10. ASSUME op.audited PROVE Keeps
  <2>1. Same(n)
    BY <1>1, <1>2, <1>6, <1>9, <1>10, SaveState DEF Same, ShelfOf
  <2> QED
    <3>1. n \in Number /\ pkg'[n] # None /\ seen' = seen
      BY <1>1, <1>2, <1>5, SaveState
    <3> QED
      BY <1>4, <1>7, <2>1, <3>1, QuietKeeps
<1>11. ASSUME ~op.audited PROVE Keeps
  <2>1. ShelfOf(n)' = {d \in hist[n] : d.version < old.version + 1}
    BY <1>1, <1>2, <1>5, <1>6, <1>11, SaveState DEF ShelfOf
  <2>2. ShelfOf(n)' \in {ShelfOf(n), ShelfOf(n) \cup {TextOf(n)}}
    <3> HIDE DEF old
    <3>1. /\ old \in Doc /\ old.version \in Nat
          /\ \A d \in hist[n] : /\ d.version \in Nat /\ d.version <= old.version
                                /\ d.version = old.version => d = old
      BY <1>1, SaveState DEF old
    <3> QED
      BY <1>6, <1>9, <2>1, <3>1, ShelfGrows
  <2>3. TextOf(n)' = [version |-> TextOf(n).version + 1, text |-> op.text]
    BY <1>6, <1>11
  <2>4. n \in Number /\ op.client \in Client /\ op.text \in Text /\ TextOf(n) \in Doc
        /\ seen[op.client] = <<n, TextOf(n)>>
    BY <1>1, <1>6, SaveState
  <2> QED
    <3>1. seen' = seen /\ pkg'[n] # None
      BY <1>2, <1>5
    <3> QED
      BY <1>4, <1>7, <2>2, <2>3, <2>4, <3>1, WriteKeeps
<1>12. CreateFinds' /\ DeleteFinds'
  BY <1>3 DEF CreateFinds, DeleteFinds, Undo
<1> QED
  BY <1>8, <1>10, <1>11, <1>12 DEF Finds

LEMMA SaveMarkdownKeeps ==
  ASSUME IInv, TypeOK', NEW n, n = op.number, SaveMarkdown
  PROVE Keeps /\ Finds
<1> DEFINE old == op.before.pkg
           new == [version |-> old.version + 1, text |-> op.text]
<1>1. op # None /\ op.kind = "save" /\ op.step = "markdown" /\ pkg[n] = new
  BY DEF SaveMarkdown, Is, IInv, SaveFinds
<1>2. /\ UNCHANGED <<ledger, pkg, hist, seen>> /\ md' = [md EXCEPT ![n] = op.text]
      /\ md'[n] = op.text /\ op.text # None /\ n \in Number
  BY <1>1, SaveState, StoreOK DEF SaveMarkdown, PutMarkdown, IInv, TypeOK
<1>3. /\ op' # None /\ op'.number = n /\ op'.kind = "save" /\ op'.step = "answer"
      /\ op'.text = op.text /\ op'.audited = op.audited /\ op'.before = op.before
      /\ op'.client = op.client
  BY <1>1, GotoTyped DEF SaveMarkdown, IInv
<1>4. Local(n) /\ Live(n)' /\ Live(n)
  BY <1>1, <1>2, <1>3, SaveState DEF Local, Live, IInv, TypeOK
<1>5. Current(n)' = Current(n) /\ pkg'[n] # None
  BY <1>1, <1>2, SaveState DEF Current
<1>6. TextOf(n)' = TextOf(n) /\ ShelfOf(n)' = ShelfOf(n)
  BY <1>1, <1>2, <1>3, <1>4, <1>5 DEF TextOf, ShelfOf, Hidden, Live
<1>7. NumberOK(n)'
  BY <1>2, <1>4, <1>5, NumberHolds DEF NumberOK, Live
<1>8. Keeps
  BY <1>2, <1>4, <1>5, <1>6, <1>7, QuietKeeps DEF Same
<1>9. SaveFinds'
  BY <1>1, <1>2, <1>3, <1>4 DEF SaveFinds, IInv
<1> QED
  BY <1>3, <1>8, <1>9 DEF Finds, CreateFinds, DeleteFinds, Undo

\* However a save ends, its chapter then shows the package.
LEMMA SaveShows ==
  ASSUME IInv, TypeOK', NEW n, n = op.number, op # None, op.kind = "save", op' = None,
         UNCHANGED files,
         seen' = seen \/ seen' = [seen EXCEPT ![op.client] = <<n, pkg[n]>>]
  PROVE  Keeps /\ Finds
<1> SUFFICES Keeps
  BY FreeFinds
<1> DEFINE old == op.before.pkg
           new == [version |-> old.version + 1, text |-> op.text]
<1>1. n \in Number /\ Local(n) /\ UNCHANGED <<ledger, md, pkg, hist>>
  BY SaveState DEF Local, files
<1>2. Live(n) /\ Live(n)' /\ pkg[n] # None /\ pkg'[n] # None /\ pkg[n] \in Doc
      /\ ledger[n] = "active"
  BY <1>1, SaveState DEF Live
<1>3. TextOf(n)' = pkg[n]
  BY <1>1, <1>2 DEF TextOf, Hidden, Current
<1>4. NumberOK(n)'
  BY <1>1, NumberHolds DEF NumberOK, Live, Current
<1>5. ASSUME TextOf(n) = pkg[n] PROVE Keeps
  <2>1. Same(n)
    BY <1>1, <1>3, <1>5 DEF Same, ShelfOf
  <2>2. op.client \in Client
    BY SaveState
  <2> QED
    BY <1>1, <1>2, <1>4, <1>5, <2>1, <2>2, QuietKeeps, SeeKeeps
<1>6. ASSUME TextOf(n) = old, pkg[n] = new PROVE Keeps
  <2>1. /\ old \in Doc /\ old.version \in Nat /\ hist[n] \subseteq Doc
        /\ \A d \in hist[n] : /\ d.version \in Nat /\ d.version <= old.version
                              /\ d.version = old.version => d = old
        /\ old \notin {Absent, Gone} /\ new \notin {Absent, Gone}
        /\ op.client \in Client /\ op.text \in Text /\ seen[op.client] = <<n, old>>
    BY SaveState
  <2>2. /\ ShelfOf(n) = {d \in hist[n] : d.version < old.version}
        /\ ShelfOf(n)' = {d \in hist[n] : d.version < old.version + 1}
    BY <1>1, <1>3, <1>6, <2>1 DEF ShelfOf
  <2>3. ShelfOf(n)' \in {ShelfOf(n), ShelfOf(n) \cup {TextOf(n)}}
    <3> HIDE DEF old
    <3> QED
      BY <1>6, <2>1, <2>2, ShelfGrows
  <2>4. TextOf(n)' = [version |-> TextOf(n).version + 1, text |-> op.text]
    BY <1>3, <1>6
  <2>5. seen' \in {seen, [seen EXCEPT ![op.client] = <<n, TextOf(n)'>>]}
    BY <1>3
  <2>6. TextOf(n) \in Doc /\ seen[op.client] = <<n, TextOf(n)>>
    BY <1>6, <2>1
  <2> QED
    BY <1>1, <1>2, <1>4, <2>1, <2>3, <2>4, <2>5, <2>6, WriteKeeps
<1>7. \/ TextOf(n) = pkg[n]
      \/ TextOf(n) = old /\ pkg[n] = new
  BY SaveState
<1> QED
  BY <1>5, <1>6, <1>7

LEMMA SaveAnswerKeeps ==
  ASSUME IInv, TypeOK', NEW n, n = op.number, SaveAnswer
  PROVE Keeps /\ Finds
<1>1. op # None /\ op.kind = "save" /\ op' = None /\ UNCHANGED files
  BY DEF SaveAnswer, Is
<1>2. seen' = [seen EXCEPT ![op.client] = <<n, pkg[n]>>]
  BY <1>1, SaveState DEF SaveAnswer
<1> QED
  BY <1>1, <1>2, SaveShows

\* The compensation of a save is not seen.
LEMMA UndoSaveKeeps ==
  ASSUME IInv, TypeOK', NEW n, n = op.number, UndoSave, UNCHANGED <<ledger, seen>>
  PROVE  Keeps /\ Finds
<1> DEFINE old == op.before.pkg
<1>0. op # None /\ op.kind = "save" /\ op.step \in Undo
  BY DEF UndoSave, Is, Undo
<1>1. /\ op.audited = TRUE /\ TextOf(n) = old /\ Live(n) /\ n \in Number
      /\ old \in Doc /\ old.version \in Nat /\ old \notin {None, Absent, Gone}
      /\ hist[n] \subseteq Doc /\ ledger[n] = "active" /\ pkg[n] # None
      /\ \A d \in hist[n] : /\ d.version \in Nat /\ d.version <= old.version
                            /\ d.version = old.version => d = old
      /\ op.before.old \subseteq {old} /\ op.before.md # None
  BY <1>0, SaveState DEF IInv, SaveFinds, DeleteFinds
<1>2. ShelfOf(n) = {d \in hist[n] : d.version < old.version}
  BY <1>1 DEF ShelfOf
<1>3. ASSUME Is("save", "undo1"), PutPackage(old), Goto("undo2"), UNCHANGED <<md, hist>>
      PROVE  Keeps /\ Finds
  <2>1. pkg' = [pkg EXCEPT ![n] = old] /\ pkg'[n] = old
    BY <1>1, <1>3 DEF PutPackage, IInv, TypeOK
  <2>2. /\ op' # None /\ op'.number = n /\ op'.kind = "save" /\ op'.step = "undo2"
        /\ op'.text = op.text /\ op'.audited = op.audited /\ op'.before = op.before
        /\ op'.client = op.client
    BY <1>0, <1>3, GotoTyped DEF IInv
  <2>3. Local(n) /\ Live(n)'
    BY <1>1, <1>3, <2>1, <2>2 DEF Local, Live
  <2>4. Current(n)' = old
    BY <1>1, <2>1 DEF Current
  <2>5. TextOf(n)' = old /\ Same(n)
    BY <1>1, <1>2, <1>3, <2>2 DEF TextOf, Hidden, Same, ShelfOf
  <2>6. NumberOK(n)'
    BY <1>1, <1>3, <2>1, <2>3, <2>4, NumberHolds DEF NumberOK, Live
  <2>7. Keeps
    BY <1>1, <2>1, <2>3, <2>5, <2>6, QuietKeeps
  <2>8. SaveFinds'
    BY <1>0, <1>1, <1>3, <2>1, <2>2, <2>3 DEF SaveFinds, IInv
  <2> QED
    BY <1>1, <2>2, <2>7, <2>8 DEF Finds, CreateFinds, DeleteFinds
<1>4. ASSUME Is("save", "undo2"), Goto("undo3"), UNCHANGED <<md, pkg>>,
             hist' = [hist EXCEPT ![n] = op.before.old \cup Others(old.version)]
      PROVE  Keeps /\ Finds
  <2>1. hist'[n] = op.before.old \cup {d \in hist[n] : d.version # old.version}
    BY <1>1, <1>4 DEF Others, IInv, TypeOK
  <2>2. /\ op' # None /\ op'.number = n /\ op'.kind = "save" /\ op'.step = "undo3"
        /\ op'.text = op.text /\ op'.audited = op.audited /\ op'.before = op.before
        /\ op'.client = op.client
    BY <1>0, <1>4, GotoTyped DEF IInv
  <2>3. Local(n) /\ Live(n)' /\ Current(n)' = Current(n)
    BY <1>1, <1>4, <2>2 DEF Local, Live, Current
  <2>4. TextOf(n)' = old
    BY <1>1, <2>2 DEF TextOf, Hidden
  <2>5. ShelfOf(n)' = {d \in hist'[n] : d.version < old.version}
    BY <1>1, <2>4 DEF ShelfOf
  <2>6. Same(n)
    <3>1. {d \in hist'[n] : d.version < old.version} = {d \in hist[n] : d.version < old.version}
      BY <1>1, <2>1
    <3> QED
      BY <1>1, <1>2, <2>4, <2>5, <3>1 DEF Same
  <2>7. pkg[n] = old
    BY <1>0, <1>4 DEF Is, IInv, SaveFinds
  <2>8. \A d \in hist'[n] : d.version <= old.version /\ (d.version = old.version => d = old)
    BY <1>1, <2>1
  <2>9. \A d, e \in hist'[n] : d.version = e.version => d = e
    BY <1>1, <2>1, NumberHolds DEF NumberOK
  <2>10. NumberOK(n)'
    BY <1>0, <1>1, <1>4, <2>3, <2>7, <2>8, <2>9, SaveState DEF NumberOK
  <2>11. Keeps
    BY <1>1, <1>4, <2>3, <2>6, <2>10, QuietKeeps
  <2>12. {d \in hist'[n] : d.version = old.version} = op.before.old
    BY <1>1, <2>1
  <2>13. SaveFinds'
    BY <1>0, <1>1, <1>4, <2>2, <2>3, <2>7, <2>8, <2>12 DEF SaveFinds, IInv
  <2> QED
    BY <1>1, <2>2, <2>11, <2>13 DEF Finds, CreateFinds, DeleteFinds
<1>5. ASSUME Is("save", "undo3"), PutMarkdown(op.before.md), op' = None, UNCHANGED <<pkg, hist>>
      PROVE  Keeps /\ Finds
  <2>1. md'[n] # None
    BY <1>1, <1>5 DEF PutMarkdown, IInv, TypeOK
  <2>2. Local(n) /\ Live(n)'
    BY <1>1, <1>5, <2>1 DEF Local, Live, PutMarkdown, IInv, TypeOK
  <2>3. pkg[n] = old /\ Current(n) = old /\ Current(n)' = old
    BY <1>0, <1>1, <1>5 DEF Is, IInv, SaveFinds, Current
  <2>4. TextOf(n)' = old
    BY <1>1, <1>5, <2>2, <2>3 DEF TextOf, Hidden
  <2>5. Same(n)
    BY <1>1, <1>5, <2>4 DEF Same, ShelfOf
  <2>6. NumberOK(n)'
    BY <1>1, <1>5, <2>2, <2>3, NumberHolds DEF NumberOK
  <2>7. Keeps
    BY <1>1, <1>5, <2>2, <2>5, <2>6, QuietKeeps
  <2> QED
    BY <1>5, <2>7, FreeFinds
<1> QED
  BY <1>1, <1>3, <1>4, <1>5 DEF UndoSave

----------------------------------------------------------------------------
(* The steps of a creation and of a deletion. *)

LEMMA CreateState ==
  ASSUME IInv, op # None, op.kind \in {"create", "copy"}
  PROVE  LET n == op.number
             new == [version |-> 1, text |-> op.text]
         IN  /\ n \in Number /\ op.text \in Text /\ op.audited \in BOOLEAN
             /\ new \in Doc /\ new # None /\ new.version = 1
             /\ ledger[n] \in {"reserved", "active"} /\ hist[n] = {}
             /\ ledger[n] = "reserved" => pkg[n] = None
             /\ pkg[n] \in {None, new}
             /\ op.audited \/ op.kind = "copy" => TextOf(n) = Absent
             /\ op.before = [md |-> None, pkg |-> None, old |-> {}]
             /\ ledger[n] = "reserved" => TextOf(n) = Absent
<1> DEFINE n == op.number
           new == [version |-> 1, text |-> op.text]
<1>1. n \in Number /\ op.text \in Text /\ op.audited \in BOOLEAN
  BY OpTyped DEF IInv
<1>2. new \in Doc /\ new # None
  BY <1>1, StoreOK DEF Doc
<1>3. /\ ledger[n] \in {"reserved", "active"} /\ hist[n] = {} /\ pkg[n] \in {None, new}
      /\ op.before = [md |-> None, pkg |-> None, old |-> {}]
  BY DEF IInv, CreateFinds
<1>4. ledger[n] = "reserved" => pkg[n] = None
  BY <1>1, NumberHolds DEF NumberOK
<1>5. op.audited \/ op.kind = "copy" => TextOf(n) = Absent
  BY DEF TextOf, Hidden
<1>6. ledger[n] = "reserved" => TextOf(n) = Absent
  BY DEF TextOf, Hidden
<1> QED
  BY <1>1, <1>2, <1>3, <1>4, <1>5, <1>6

\* What is not shown yet may be made.
LEMMA HiddenKeeps ==
  ASSUME IInv, TypeOK', NEW n \in Number, Local(n), seen' = seen,
         TextOf(n) = Absent, TextOf(n)' = Absent, hist[n] = {}, hist'[n] = {},
         ledger'[n] # "none", ledger'[n] = "reserved" => pkg'[n] = None
  PROVE  Keeps
<1>1. Same(n)
  BY DEF Same, ShelfOf
<1>2. NumberOK(n)'
  BY DEF NumberOK
<1> QED
  BY <1>1, <1>2, QuietKeeps

\* A creation that ends shows its chapter, or spends its number.
LEMMA CreateShows ==
  ASSUME IInv, TypeOK', NEW n \in Number, Local(n), seen' = seen, op' = None,
         TextOf(n) = Absent, hist[n] = {}, hist'[n] = {},
         ledger'[n] \in {"reserved", "active"}, ledger'[n] = "reserved" => pkg'[n] = None,
         pkg'[n] # None => pkg'[n].version = 1
  PROVE  Keeps /\ Finds
<1> SUFFICES Keeps
  BY FreeFinds
<1>0. NumberOK(n)' /\ ShelfOf(n) = {} /\ ShelfOf(n)' = {}
  BY DEF NumberOK, ShelfOf
<1>1. CASE ledger'[n] = "reserved"
  <2>1. TextOf(n)' = Absent
    BY <1>1 DEF TextOf, Hidden
  <2> QED
    BY <1>1, <2>1, HiddenKeeps
<1>2. CASE ledger'[n] = "active" /\ Live(n)'
  <2>1. TextOf(n)' = Current(n)'
    BY <1>2 DEF TextOf, Hidden
  <2>2. Current(n)' \in Doc
    BY <1>2 DEF Live, Current, TypeOK, Doc
  <2>3. Current(n)'.version = 1
    BY DEF Current
  <2>4. PICK t \in Text : Current(n)' = [version |-> 1, text |-> t]
    BY <2>2, <2>3 DEF Doc
  <2> QED
    BY <1>0, <2>1, <2>4, OpenKeeps
<1>3. CASE ledger'[n] = "active" /\ ~Live(n)'
  <2>1. TextOf(n)' = Gone
    BY <1>3 DEF TextOf, Hidden
  <2> QED
    BY <1>0, <1>3, <2>1, CloseKeeps, AbsentOK
<1> QED
  BY <1>1, <1>2, <1>3

LEMMA NewMarkdownKeeps ==
  ASSUME IInv, TypeOK', NEW n, n = op.number, NewMarkdown
  PROVE Keeps /\ Finds
<1>1. op # None /\ op.kind \in {"create", "copy"} /\ op.step = "markdown"
  BY DEF NewMarkdown, Is
<1>2. /\ op' # None /\ op'.number = n /\ op'.kind = op.kind /\ op'.step = "activate"
      /\ op'.text = op.text /\ op'.audited = op.audited /\ op'.before = op.before
  BY <1>1, GotoTyped DEF NewMarkdown, IInv
<1>3. n \in Number /\ ledger[n] = "reserved" /\ UNCHANGED <<ledger, pkg, hist, seen>>
  BY <1>1, CreateState DEF NewMarkdown, IInv, CreateFinds
<1>4. md'[n] # None
  BY <1>1, <1>3, CreateState, StoreOK DEF NewMarkdown, PutMarkdown, IInv, TypeOK
<1>5. Local(n)
  BY <1>1, <1>2, <1>3 DEF NewMarkdown, PutMarkdown, Local
<1>6. TextOf(n) = Absent /\ TextOf(n)' = Absent
  BY <1>1, <1>2, <1>3 DEF TextOf, Hidden
<1>7. Keeps
  BY <1>1, <1>3, <1>5, <1>6, CreateState, HiddenKeeps
<1>8. CreateFinds'
  BY <1>1, <1>2, <1>3, <1>4, CreateState DEF CreateFinds
<1> QED
  BY <1>1, <1>2, <1>7, <1>8 DEF Finds, SaveFinds, DeleteFinds, Undo, IInv

LEMMA ActivateKeeps ==
  ASSUME IInv, TypeOK', NEW n, n = op.number, Activate
  PROVE Keeps /\ Finds
<1>1. op # None /\ op.kind \in {"create", "copy"} /\ op.step = "activate"
  BY DEF Activate, Is
<1>2. /\ n \in Number /\ ledger[n] = "reserved" /\ UNCHANGED <<md, pkg, hist, seen>>
      /\ md[n] # None /\ pkg[n] = None /\ hist[n] = {} /\ TextOf(n) = Absent
  BY <1>1, CreateState DEF Activate, IInv, CreateFinds
<1>3. ledger' = [ledger EXCEPT ![n] = "active"] /\ ledger'[n] = "active"
  BY <1>2 DEF Activate, IInv, TypeOK
<1>4. CASE op' = None
  <2>1. Local(n)
    BY <1>1, <1>2, <1>3, <1>4 DEF Local
  <2> QED
    BY <1>2, <1>3, <1>4, <2>1, CreateShows
<1>5. CASE op' # None
  <2>0. Goto("package") /\ (op.audited \/ op.kind = "copy")
    BY <1>5 DEF Activate
  <2>1. /\ op' # None /\ op'.number = n /\ op'.kind = op.kind /\ op'.step = "package"
        /\ op'.text = op.text /\ op'.audited = op.audited /\ op'.before = op.before
    BY <1>1, <2>0, GotoTyped DEF IInv
  <2>2. Local(n) /\ Live(n)'
    BY <1>1, <1>2, <1>3, <2>1 DEF Local, Live
  <2>3. TextOf(n)' = Absent
    BY <1>1, <2>0, <2>1 DEF TextOf, Hidden
  <2>4. Keeps
    BY <1>2, <1>3, <2>2, <2>3, HiddenKeeps
  <2>5. CreateFinds'
    BY <1>1, <1>2, <1>3, <2>0, <2>1, <2>2, CreateState DEF CreateFinds
  <2> QED
    BY <1>1, <2>1, <2>4, <2>5 DEF Finds, SaveFinds, DeleteFinds, Undo, IInv
<1> QED
  BY <1>4, <1>5

LEMMA NewPackageKeeps ==
  ASSUME IInv, TypeOK', NEW n, n = op.number, NewPackage
  PROVE Keeps /\ Finds
<1>1. op # None /\ op.kind \in {"create", "copy"} /\ op.step = "package"
  BY DEF NewPackage, Is
<1>2. /\ op' # None /\ op'.number = n /\ op'.kind = op.kind /\ op'.step \in {"fill", "answer"}
      /\ op'.text = op.text /\ op'.audited = op.audited /\ op'.before = op.before
  BY <1>1, GotoTyped DEF NewPackage, IInv
<1>3. n \in Number /\ Live(n) /\ UNCHANGED <<ledger, md, hist, seen>> /\ hist[n] = {}
      /\ (op.audited \/ op.kind = "copy") /\ ledger[n] = "active" /\ TextOf(n) = Absent
  BY <1>1, CreateState DEF NewPackage, IInv, CreateFinds, Live
<1>4. pkg'[n] = [version |-> 1, text |-> op.text]
  BY <1>3 DEF NewPackage, PutPackage, IInv, TypeOK
<1>5. Local(n) /\ Live(n)'
  BY <1>1, <1>2, <1>3 DEF NewPackage, PutPackage, Local, Live
<1>6. TextOf(n)' = Absent
  BY <1>1, <1>2, <1>3 DEF TextOf, Hidden
<1>7. Keeps
  BY <1>3, <1>5, <1>6, HiddenKeeps
<1>8. CreateFinds'
  BY <1>1, <1>2, <1>3, <1>4, <1>5, CreateState DEF CreateFinds
<1> QED
  BY <1>1, <1>2, <1>7, <1>8 DEF Finds, SaveFinds, DeleteFinds, Undo, IInv

\* The last step of a copy and of an audited creation.
LEMMA CreateEndKeeps ==
  ASSUME IInv, TypeOK', NEW n, n = op.number, FillCopy \/ CreateAnswer
  PROVE  Keeps /\ Finds
<1>1. /\ op # None /\ op.kind \in {"create", "copy"} /\ op.step \in {"fill", "answer"}
      /\ op' = None /\ UNCHANGED <<ledger, pkg, hist, seen>>
  BY DEF FillCopy, CreateAnswer, Is, files
<1>2. /\ n \in Number /\ hist[n] = {} /\ TextOf(n) = Absent /\ ledger[n] \in {"reserved", "active"}
      /\ ledger[n] = "reserved" => pkg[n] = None
      /\ pkg[n] # None => pkg[n].version = 1
  BY <1>1, CreateState DEF IInv, CreateFinds
<1>3. Local(n)
  BY <1>1, <1>2 DEF Local, FillCopy, CreateAnswer, PutMarkdown, files, IInv, TypeOK
<1> QED
  BY <1>1, <1>2, <1>3, CreateShows

LEMMA UndoCreateKeeps ==
  ASSUME IInv, TypeOK', NEW n, n = op.number, UndoCreate, UNCHANGED <<ledger, seen>>
  PROVE  Keeps /\ Finds
<1>1. op # None /\ op.kind = "create" /\ op.step \in Undo /\ op.audited = TRUE
  BY OpTyped DEF UndoCreate, Is, Undo, IInv, DeleteFinds
<1>2. /\ n \in Number /\ hist[n] = {} /\ TextOf(n) = Absent /\ ledger[n] \in {"reserved", "active"}
      /\ op.before.md = None /\ op.before.pkg = None
      /\ ledger[n] = "reserved" => pkg[n] = None
  BY <1>1, CreateState
<1>3. ASSUME Is("create", "undo1"), PutMarkdown(op.before.md), Goto("undo2"),
             UNCHANGED <<pkg, hist>>
      PROVE  Keeps /\ Finds
  <2>1. /\ op' # None /\ op'.number = n /\ op'.kind = op.kind /\ op'.step = "undo2"
        /\ op'.text = op.text /\ op'.audited = op.audited /\ op'.before = op.before
    BY <1>1, <1>3, GotoTyped DEF IInv
  <2>2. Local(n) /\ md'[n] = None
    BY <1>1, <1>2, <1>3, <2>1 DEF Local, PutMarkdown, IInv, TypeOK
  <2>3. TextOf(n)' = Absent
    BY <1>1, <2>1 DEF TextOf, Hidden
  <2>4. Keeps
    BY <1>2, <1>3, <2>2, <2>3, HiddenKeeps
  <2>5. CreateFinds'
    BY <1>1, <1>2, <1>3, <2>1, <2>2, CreateState DEF CreateFinds
  <2> QED
    BY <1>1, <2>1, <2>4, <2>5 DEF Finds, SaveFinds, DeleteFinds
<1>4. ASSUME PutPackage(op.before.pkg), op' = None, UNCHANGED <<md, hist>>
      PROVE  Keeps /\ Finds
  <2>1. Local(n) /\ pkg'[n] = None
    BY <1>1, <1>2, <1>4 DEF Local, PutPackage, IInv, TypeOK
  <2> QED
    BY <1>2, <1>4, <2>1, CreateShows
<1> QED
  BY <1>3, <1>4 DEF UndoCreate

\* A deleted chapter is gone before its files are.
LEMMA DeleteStepKeeps ==
  ASSUME IInv, TypeOK', NEW n, n = op.number, DeleteMarkdown \/ DeletePackage
  PROVE  Keeps /\ Finds
<1>1. /\ op # None /\ op.kind = "delete" /\ n \in Number /\ op.audited = FALSE
      /\ ledger[n] = "deleted" /\ UNCHANGED <<ledger, hist, seen>>
  BY OpTyped DEF DeleteMarkdown, DeletePackage, Is, IInv, DeleteFinds
<1>2. /\ op' = None \/ (op' # None /\ op'.number = n /\ op'.kind = "delete"
                        /\ op'.audited = FALSE /\ op'.step = "package")
  BY <1>1, GotoTyped DEF DeleteMarkdown, DeletePackage, IInv
<1>3. Local(n) /\ ~Live(n) /\ ~Live(n)'
  BY <1>1, <1>2
     DEF Local, Live, DeleteMarkdown, DeletePackage, PutMarkdown, PutPackage, IInv, TypeOK
<1>4. TextOf(n) = Gone /\ TextOf(n)' = Gone
  BY <1>1, <1>2, <1>3 DEF TextOf, Hidden
<1>5. Same(n) /\ NumberOK(n)'
  BY <1>1, <1>3, <1>4, NumberHolds DEF Same, ShelfOf, NumberOK
<1>6. Keeps
  BY <1>1, <1>3, <1>5, QuietKeeps
<1> QED
  BY <1>1, <1>2, <1>6 DEF Finds, SaveFinds, CreateFinds, DeleteFinds, Undo

----------------------------------------------------------------------------
(* A raised exception, a death. *)

\* An operation that stops where it is leaves what the contract allows.
LEMMA StopKeeps ==
  ASSUME IInv, TypeOK', op # None, op' = None, UNCHANGED <<files, seen>>
  PROVE  Keeps /\ Finds
<1>1. PICK n \in Number : n = op.number
  BY OpTyped DEF IInv
<1>2. Local(n) /\ UNCHANGED <<ledger, md, pkg, hist, seen>>
  BY <1>1 DEF Local, files
<1>3. op.kind \in {"save", "create", "copy", "delete"}
  BY OpTyped DEF IInv, Op
<1>4. CASE op.kind = "save"
  BY <1>1, <1>2, <1>4, SaveShows
<1>5. CASE op.kind \in {"create", "copy"} /\ TextOf(n) = Absent
  <2>1. /\ hist[n] = {} /\ ledger[n] \in {"reserved", "active"}
        /\ ledger[n] = "reserved" => pkg[n] = None
        /\ pkg[n] # None => pkg[n].version = 1
    BY <1>1, <1>5, CreateState
  <2> QED
    BY <1>2, <1>5, <2>1, CreateShows
<1>6. CASE op.kind = "delete" \/ (op.kind = "create" /\ TextOf(n) # Absent)
  <2>1. ~Hidden(n) /\ ~Hidden(n)'
    BY <1>1, <1>6, CreateState DEF Hidden, IInv, DeleteFinds
  <2>2. Same(n)
    BY <1>2, <2>1 DEF Same, TextOf, ShelfOf, Live, Current
  <2>3. NumberOK(n)' /\ Live(n)' = Live(n)
    BY <1>2, NumberHolds DEF NumberOK, Live, Current
  <2>4. Keeps
    BY <1>2, <2>2, <2>3, QuietKeeps
  <2> QED
    BY <2>4, FreeFinds
<1>7. op.kind = "copy" => TextOf(n) = Absent
  BY <1>1, CreateState
<1> QED
  BY <1>3, <1>4, <1>5, <1>6, <1>7

\* An audited operation that raises begins to restore.
LEMMA RaiseKeeps == ASSUME IInv, TypeOK', Raise PROVE Keeps /\ Finds
<1>1. CASE op' = None
  BY <1>1, StopKeeps DEF Raise
<1>2. CASE op' # None
  <2>1. PICK n \in Number : n = op.number
    BY OpTyped DEF Raise, IInv
  <2>2. op # None /\ op.audited /\ Goto("undo1") /\ UNCHANGED <<ledger, md, pkg, hist, seen>>
    BY <1>2 DEF Raise, files
  <2>3. /\ op' # None /\ op'.number = n /\ op'.kind = op.kind /\ op'.step = "undo1"
        /\ op'.text = op.text /\ op'.audited = op.audited /\ op'.before = op.before
        /\ op'.client = op.client
    BY <2>1, <2>2, GotoTyped DEF IInv
  <2>4. Local(n) /\ Live(n)' = Live(n)
    BY <2>1, <2>2, <2>3 DEF Local, Live
  <2>5. Same(n)
    BY <2>2, <2>3, <2>1 DEF Same, TextOf, ShelfOf, Hidden, Live, Current
  <2>6. NumberOK(n)'
    BY <2>2, NumberHolds DEF NumberOK, Live, Current
  <2>7. Keeps
    BY <2>2, <2>4, <2>5, <2>6, QuietKeeps
  <2>8. SaveFinds'
    BY <2>1, <2>2, <2>3, <2>4 DEF SaveFinds, IInv
  <2>9. CreateFinds' /\ DeleteFinds'
    BY <2>1, <2>2, <2>3, <2>4 DEF CreateFinds, DeleteFinds, IInv
  <2> QED
    BY <2>7, <2>8, <2>9 DEF Finds
<1> QED
  BY <1>1, <1>2

----------------------------------------------------------------------------

\* Every step keeps the invariant and shows as a step of ChapterText or none.
LEMMA InvStep == ASSUME IInv, [Next]_vars PROVE IInv' /\ Mapped
<1>0. TypeOK'
  BY TypeStep
<1>1. ASSUME NEW c \in Client, NEW n \in Number, Read(c, n) PROVE Keeps /\ Finds
  BY <1>0, <1>1, ReadKeeps
<1>2. ASSUME NEW c \in Client, NEW t \in Text, NEW r \in BOOLEAN, NEW a \in BOOLEAN,
             SaveBegin(c, t, r, a)
      PROVE  Keeps /\ Finds
  BY <1>0, <1>2, SaveBeginKeeps
<1>3. ASSUME NEW n \in Number, NEW t \in Text, NEW a \in BOOLEAN, CreateBegin(n, t, a)
      PROVE  Keeps /\ Finds
  BY <1>0, <1>3, ReserveKeeps DEF CreateBegin
<1>4. ASSUME NEW n \in Number, NEW source \in Number, CopyBegin(n, source)
      PROVE  Keeps /\ Finds
  <2>1. Current(source).text \in Text
    BY <1>4, ReadTyped DEF CopyBegin, IInv, Doc
  <2> QED
    BY <1>0, <1>4, <2>1, ReserveKeeps DEF CopyBegin
<1>5. ASSUME NEW n \in Number, DeleteBegin(n) PROVE Keeps /\ Finds
  BY <1>0, <1>5, DeleteBeginKeeps
<1>6. ASSUME Step PROVE Keeps /\ Finds
  <2>1. PICK n : n = op.number
    OBVIOUS
  <2> QED
    BY <1>0, <1>6, <2>1, SaveHistoryKeeps, SavePackageKeeps, SaveMarkdownKeeps,
       SaveAnswerKeeps, NewMarkdownKeeps, ActivateKeeps, NewPackageKeeps, CreateEndKeeps,
       DeleteStepKeeps, UndoSaveKeeps, UndoCreateKeeps DEF Step, Restore
<1>7. ASSUME Raise PROVE Keeps /\ Finds
  BY <1>0, <1>7, RaiseKeeps
<1>8. ASSUME Crash PROVE Keeps /\ Finds
  BY <1>0, <1>8, StopKeeps DEF Crash
<1>9. CASE UNCHANGED vars
  <2>1. IInv'
    BY <1>0, <1>9 DEF vars, files, IInv, NumbersClean, HistoryHonest, SeenHonest, SaveFinds,
      CreateFinds, DeleteFinds, TextOf, Hidden, Live, Current
  <2>2. TextBar' = TextBar /\ ShelfBar' = ShelfBar /\ seen' = seen
    BY <1>9 DEF vars, files, TextBar, ShelfBar, TextOf, ShelfOf, Hidden, Live, Current
  <2> QED
    BY <2>1, <2>2 DEF Mapped, Chapters!vars, TextBar, ShelfBar
<1>10. CASE Next
  <2>1. Keeps /\ Finds
    BY <1>1, <1>2, <1>3, <1>4, <1>5, <1>6, <1>7, <1>8, <1>10 DEF Next
  <2> QED
    BY <1>0, <2>1 DEF Keeps, Finds, IInv
<1> QED
  BY <1>9, <1>10

LEMMA InitInv == Init => IInv
BY InitTyped DEF Init, IInv, NumbersClean, HistoryHonest, SeenHonest, SaveFinds, CreateFinds,
  DeleteFinds, Live

\* What clients saw, what the history holds and what an operation finds stays
\* as the invariant says, through every failure and death.
THEOREM Invariance == Spec => []IInv
<1>1. IInv /\ [Next]_vars => IInv'
  BY InvStep
<1> QED
  BY <1>1, InitInv, PTL DEF Spec

\* Every variable keeps its type.
THEOREM Typing == Spec => []TypeOK
<1>1. IInv => TypeOK
  BY DEF IInv
<1> QED
  BY <1>1, Invariance, PTL

\* No text is replaced by a client that has not seen it, no version names two
\* texts, no number is used twice: the files, the ledger and the compensation
\* implement the register with a shelf.
THEOREM Implementation == Spec => RegisterContract
<1>1. Init => Chapters!Init
  BY DEF Init, Chapters!Init, TextOf, ShelfOf, Hidden
<1>2. IInv /\ [Next]_vars => [Chapters!Next]_(Chapters!vars)
  BY InvStep DEF Mapped
<1> QED
  BY <1>1, <1>2, Invariance, PTL DEF Spec, RegisterContract, Chapters!Spec

\* An audited operation that raised and could restore has changed nothing.
THEOREM RefusedIsUnchanged == Spec => RefusedUnchanged
<1> DEFINE Refused ==
      op # None /\ op.step \in Undo /\ op' = None /\ faults' = faults =>
        LET n == op.number IN
        /\ md'[n] = op.before.md /\ pkg'[n] = op.before.pkg
        /\ op.kind = "save" =>
             {d \in hist'[n] : d.version = op.before.pkg.version} = op.before.old
        /\ op.kind = "create" => md'[n] = None
<1>1. ASSUME IInv, [Next]_vars, op # None, op.step \in Undo, op' = None, faults' = faults
      PROVE  LET n == op.number IN
             /\ md'[n] = op.before.md /\ pkg'[n] = op.before.pkg
             /\ op.kind = "save" =>
                  {d \in hist'[n] : d.version = op.before.pkg.version} = op.before.old
             /\ op.kind = "create" => md'[n] = None
  <2>0. TypeOK /\ op.number \in Number
    BY <1>1, OpTyped DEF IInv
  <2>1. faults \in Nat
    BY <2>0 DEF TypeOK
  <2>2. UndoSave \/ UndoCreate
    BY <1>1, <2>1 DEF Next, Read, SaveBegin, CreateBegin, CopyBegin, Reserve, DeleteBegin,
      Step, SaveHistory, SavePackage, SaveMarkdown, SaveAnswer, NewMarkdown, Activate,
      NewPackage, FillCopy, CreateAnswer, DeleteMarkdown, DeletePackage, Is, Undo, Restore,
      Raise, Crash, Fault, vars
  <2>3. CASE UndoSave
    <3>1. /\ Is("save", "undo3") /\ PutMarkdown(op.before.md) /\ UNCHANGED <<pkg, hist>>
      BY <1>1, <2>0, <2>3, GotoTyped DEF UndoSave
    <3>2. /\ pkg[op.number] = op.before.pkg
          /\ {d \in hist[op.number] : d.version = op.before.pkg.version} = op.before.old
      BY <1>1, <3>1 DEF Is, IInv, SaveFinds
    <3>3. md'[op.number] = op.before.md
      BY <2>0, <3>1 DEF PutMarkdown, TypeOK
    <3> QED
      BY <3>1, <3>2, <3>3 DEF Is
  <2>4. CASE UndoCreate
    <3>1. /\ Is("create", "undo2") /\ PutPackage(op.before.pkg) /\ UNCHANGED <<md, hist>>
      BY <1>1, <2>0, <2>4, GotoTyped DEF UndoCreate
    <3>2. md[op.number] = None /\ op.before.md = None
      BY <1>1, <3>1 DEF Is, IInv, CreateFinds
    <3>3. pkg'[op.number] = op.before.pkg
      BY <2>0, <3>1 DEF PutPackage, TypeOK
    <3> QED
      BY <3>1, <3>2, <3>3 DEF Is
  <2> QED
    BY <2>2, <2>3, <2>4
<1>2. IInv /\ [Next]_vars => [Refused]_vars
  BY <1>1
<1> QED
  BY <1>2, Invariance, PTL DEF Spec, RefusedUnchanged

----------------------------------------------------------------------------
(* Markdown and document agree without failures. *)

Agrees(n) == Live(n) => md[n] = Current(n).text

\* What MarkdownAgrees needs of an operation on its way.
Undisturbed ==
  faults = 0 =>
    /\ \A n \in Number : op = None \/ op.number # n => Agrees(n)
    /\ op # None =>
         /\ op.step \notin Undo
         /\ op.kind = "save" /\ op.step \in {"history", "package"} => Agrees(op.number)
         /\ op.kind = "create" /\ op.step \in {"activate", "package", "answer"} =>
              md[op.number] = op.text

\* An operation that enters the lock finds all in agreement.
LEMMA BeginAgrees ==
  ASSUME IInv, Undisturbed, faults = 0, UNCHANGED <<md, hist, faults>>, NEW m \in Number,
         op = None, Live(m)' => Live(m),
         pkg' = pkg \/ (Live(m) /\ pkg' = [pkg EXCEPT ![m] = Current(m)]),
         \A n \in Number \ {m} : ledger'[n] = ledger[n],
         \/ op' = None
         \/ /\ op' # None /\ op'.number = m
            /\ \/ op'.kind = "save" /\ op'.step \in {"history", "package"}
               \/ op'.kind # "save" /\ op'.step = "markdown"
  PROVE  Undisturbed'
<1>1. \A n \in Number : Agrees(n)
  BY DEF Undisturbed
<1>2. \A n \in Number \ {m} : Agrees(n)'
  BY <1>1 DEF Agrees, Live, Current, IInv, TypeOK
<1>3. Agrees(m)'
  <2>1. CASE Live(m)
    <3>1. Current(m) # None /\ Current(m)' = Current(m)
      BY <2>1, ReadTyped, StoreOK DEF Current, IInv, TypeOK
    <3> QED
      BY <1>1, <2>1, <3>1 DEF Agrees
  <2>2. CASE ~Live(m)
    BY <2>2 DEF Agrees
  <2> QED
    BY <2>1, <2>2
<1> QED
  BY <1>2, <1>3 DEF Undisturbed, Undo

\* A step elsewhere does not matter.
LEMMA OthersAgree ==
  ASSUME Undisturbed, faults = 0, op # None, NEW m \in Number, m = op.number, Local(m)
  PROVE  \A n \in Number \ {m} : Agrees(n)'
BY DEF Undisturbed, Local, Agrees, Live, Current

LEMMA StepAgrees ==
  ASSUME IInv, Undisturbed, faults = 0, faults' = 0, TypeOK', NEW m \in Number, m = op.number,
         op # None, Step
  PROVE  Undisturbed'
<1>a. /\ op.step \notin Undo
      /\ op.kind = "save" /\ op.step \in {"history", "package"} => Agrees(m)
      /\ op.kind = "create" /\ op.step \in {"activate", "package", "answer"} => md[m] = op.text
  BY DEF Undisturbed
<1>b. ASSUME \A n \in Number \ {m} : Agrees(n)', op' = None, Agrees(m)'
      PROVE  Undisturbed'
  BY <1>b DEF Undisturbed
<1>c. ASSUME \A n \in Number \ {m} : Agrees(n)', op' # None, op'.number = m,
             op'.kind = op.kind, op'.step \notin Undo,
             op.kind = "save" /\ op'.step \in {"history", "package"} => Agrees(m)',
             op.kind = "create" /\ op'.step \in {"activate", "package", "answer"} =>
               md'[m] = op'.text
      PROVE  Undisturbed'
  BY <1>c DEF Undisturbed
<1>d. ASSUME \A n \in Number \ {m} : /\ ledger'[n] = ledger[n] /\ md'[n] = md[n]
                                     /\ pkg'[n] = pkg[n]
      PROVE  \A n \in Number \ {m} : Agrees(n)'
  BY <1>d DEF Undisturbed, Agrees, Live, Current
<1>e. ASSUME NEW s, Goto(s), s \in {"history", "package", "markdown", "activate", "fill",
                                    "answer"}
      PROVE  /\ op' # None /\ op'.number = m /\ op'.kind = op.kind /\ op'.step = s
             /\ op'.step \notin Undo /\ op'.text = op.text
  BY <1>e, GotoTyped DEF IInv, Undo
<1>f. TypeOK
  BY DEF IInv
<1>1. CASE SaveHistory
  BY <1>1, <1>a, <1>c, <1>d, <1>e DEF SaveHistory, Is, Agrees, Live, Current
<1>2. CASE SavePackage
  BY <1>2, <1>c, <1>d, <1>e, <1>f DEF SavePackage, PutPackage, Is, TypeOK
<1>3. CASE SaveMarkdown
  BY <1>3, <1>c, <1>d, <1>e, <1>f DEF SaveMarkdown, PutMarkdown, Is, TypeOK
<1>4. CASE SaveAnswer
  <2>1. md[m] = op.text /\ pkg[m] = [version |-> op.before.pkg.version + 1, text |-> op.text]
    BY <1>4 DEF SaveAnswer, Is, IInv, SaveFinds
  <2>2. Agrees(m)'
    BY <1>4, <2>1, SaveState DEF SaveAnswer, Is, files, Agrees, Live, Current
  <2> QED
    BY <1>4, <1>b, <1>d, <2>2 DEF SaveAnswer, files
<1>5. CASE NewMarkdown
  <2>1. op.kind = "create" => md'[m] = op.text
    BY <1>5, <1>f DEF NewMarkdown, PutMarkdown, TypeOK
  <2>2. op.kind # "save"
    BY <1>5 DEF NewMarkdown, Is
  <2> QED
    BY <1>5, <1>c, <1>d, <1>e, <1>f, <2>1, <2>2 DEF NewMarkdown, PutMarkdown, TypeOK
<1>6. CASE Activate
  <2>1. /\ op.kind # "save" /\ op.kind = "create" => md[m] = op.text
        /\ pkg[m] = None
    BY <1>6, <1>a, CreateState DEF Activate, Is, IInv, CreateFinds
  <2>2. Agrees(m)'
    BY <1>6, <2>1 DEF Activate, Agrees, Current
  <2>3. \A n \in Number \ {m} : Agrees(n)'
    BY <1>6, <1>d, <1>f DEF Activate, TypeOK
  <2>4. CASE op' = None
    BY <1>b, <2>2, <2>3, <2>4
  <2>5. CASE op' # None
    <3>1. Goto("package")
      BY <1>6, <2>5 DEF Activate
    <3> QED
      BY <1>6, <1>c, <1>e, <2>1, <2>3, <3>1 DEF Activate, Is
  <2> QED
    BY <2>4, <2>5
<1>7. CASE NewPackage
  <2>1. op.kind # "save" /\ (op.kind = "create" => md[m] = op.text)
    BY <1>7, <1>a DEF NewPackage, Is
  <2>2. \A n \in Number \ {m} : Agrees(n)'
    BY <1>7, <1>d, <1>f DEF NewPackage, PutPackage, TypeOK
  <2> QED
    BY <1>7, <1>c, <1>e, <2>1, <2>2 DEF NewPackage
<1>8. CASE FillCopy
  <2>1. md'[m] = op.text /\ pkg'[m] = [version |-> 1, text |-> op.text]
    BY <1>8, <1>f DEF FillCopy, Is, PutMarkdown, IInv, CreateFinds, TypeOK
  <2>2. pkg'[m] # None
    BY <1>8, <2>1, CreateState DEF FillCopy, Is
  <2>3. Agrees(m)'
    BY <2>1, <2>2 DEF Agrees, Current
  <2> QED
    BY <1>8, <1>b, <1>d, <1>f, <2>3 DEF FillCopy, PutMarkdown, TypeOK
<1>9. CASE CreateAnswer
  <2>1. md[m] = op.text /\ pkg[m] = [version |-> 1, text |-> op.text] /\ pkg[m] # None
    BY <1>9, <1>a, CreateState DEF CreateAnswer, Is, IInv, CreateFinds
  <2>2. Agrees(m)'
    BY <1>9, <2>1 DEF CreateAnswer, files, Agrees, Live, Current
  <2> QED
    BY <1>9, <1>b, <1>d, <2>2 DEF CreateAnswer, files
<1>10. CASE DeleteMarkdown \/ DeletePackage
  <2>1. op.kind = "delete" /\ ledger[m] = "deleted" /\ UNCHANGED ledger
    BY <1>10 DEF DeleteMarkdown, DeletePackage, Is, IInv, DeleteFinds
  <2>2. Agrees(m)'
    BY <2>1 DEF Agrees, Live
  <2>3. \A n \in Number \ {m} : Agrees(n)'
    BY <1>10, <1>d, <1>f DEF DeleteMarkdown, DeletePackage, PutMarkdown, PutPackage, TypeOK
  <2> QED
    BY <1>10, <1>b, <1>c, <1>e, <2>1, <2>2, <2>3 DEF DeleteMarkdown, DeletePackage
<1>11. ~Restore
  BY <1>a DEF Restore, UndoSave, UndoCreate, Is, Undo
<1> QED
  BY <1>1, <1>2, <1>3, <1>4, <1>5, <1>6, <1>7, <1>8, <1>9, <1>10, <1>11 DEF Step

\* Lists, searches and exports, which read the markdown, show the document of
\* every chapter, unless something raised or died.
THEOREM MarkdownFaithful == Spec => []MarkdownAgrees
<1>1. Init => Undisturbed
  BY DEF Init, Undisturbed, Agrees, Live
<1>2. ASSUME IInv, Undisturbed, [Next]_vars PROVE Undisturbed'
  <2> SUFFICES ASSUME faults' = 0 PROVE Undisturbed'
    BY DEF Undisturbed
  <2>0. TypeOK' /\ TypeOK
    BY <1>2, TypeStep DEF IInv
  <2>1. CASE UNCHANGED vars
    BY <1>2, <2>1 DEF vars, files, Undisturbed, Agrees, Live, Current
  <2>2. ASSUME NEW c \in Client, NEW n \in Number, Read(c, n) PROVE Undisturbed'
    BY <1>2, <2>0, <2>2, BeginAgrees DEF Read, Live
  <2>3. ASSUME NEW c \in Client, NEW t \in Text, NEW r \in BOOLEAN, NEW a \in BOOLEAN,
               SaveBegin(c, t, r, a)
        PROVE  Undisturbed'
    <3>1. PICK n \in Number : n = seen[c][1]
      BY <2>0, <2>3 DEF SaveBegin, CurrentFor, TypeOK
    <3>2. op'.number = n /\ op'.kind = "save" /\ op'.step \in {"history", "package"}
      BY <2>3, <3>1 DEF SaveBegin
    <3> QED
      BY <1>2, <2>3, <3>1, <3>2, BeginAgrees, AbsentOK DEF SaveBegin, Live
  <2>4. ASSUME NEW k \in {"create", "copy"}, NEW n \in Number, NEW t \in Text,
               NEW a \in BOOLEAN, Reserve(k, n, t, a)
        PROVE  Undisturbed'
    <3>1. op'.number = n /\ op'.kind # "save" /\ op'.step = "markdown"
      BY <2>4 DEF Reserve
    <3>2. ~Live(n)' /\ \A m \in Number \ {n} : ledger'[m] = ledger[m]
      BY <2>0, <2>4 DEF Reserve, Live, TypeOK
    <3> QED
      BY <1>2, <2>4, <3>1, <3>2, BeginAgrees DEF Reserve
  <2>5. ASSUME NEW n \in Number, DeleteBegin(n) PROVE Undisturbed'
    <3>1. op'.number = n /\ op'.kind # "save" /\ op'.step = "markdown"
      BY <2>5 DEF DeleteBegin
    <3>2. ~Live(n)' /\ \A m \in Number \ {n} : ledger'[m] = ledger[m]
      BY <2>0, <2>5 DEF DeleteBegin, Live, TypeOK
    <3> QED
      BY <1>2, <2>5, <3>1, <3>2, BeginAgrees DEF DeleteBegin
  <2>6. ASSUME NEW n \in Number, NEW source \in Number, CopyBegin(n, source)
        PROVE  Undisturbed'
    <3>1. Current(source).text \in Text
      BY <1>2, <2>6, ReadTyped DEF CopyBegin, IInv, Doc
    <3> QED
      BY <2>4, <2>6, <3>1 DEF CopyBegin
  <2>7. ASSUME Step PROVE Undisturbed'
    <3>1. op # None /\ faults = 0
      BY <2>7 DEF Step, SaveHistory, SavePackage, SaveMarkdown, SaveAnswer, NewMarkdown, Activate,
        NewPackage, FillCopy, CreateAnswer, DeleteMarkdown, DeletePackage, Is, Restore,
        UndoSave, UndoCreate
    <3>2. PICK m \in Number : m = op.number
      BY <2>0, <3>1, OpTyped
    <3> QED
      BY <1>2, <2>0, <2>7, <3>1, <3>2, StepAgrees
  <2>8. ~Raise /\ ~Crash
    <3>1. faults' # faults + 1
      BY <2>0 DEF TypeOK
    <3> QED
      BY <3>1 DEF Raise, Crash, Fault
  <2> QED
    BY <1>2, <2>1, <2>2, <2>3, <2>4, <2>5, <2>6, <2>7, <2>8 DEF Next, CreateBegin
<1>3. Undisturbed => MarkdownAgrees
  BY DEF Undisturbed, MarkdownAgrees, Agrees
<1> QED
  BY <1>1, <1>2, <1>3, Invariance, PTL DEF Spec
=============================================================================

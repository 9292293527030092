------------------------------ MODULE ChapterText ------------------------------
(***************************************************************************)
(* What the chapter store promises, with files, steps, locks, ledger and   *)
(* failures left out.  A chapter is absent, then a text with a version,    *)
(* then gone, and never comes back.  A client replaces a text only if what *)
(* it saw last is exactly that text and version; the replaced text may go  *)
(* to the shelf under its own version, where it stays for ever.            *)
(***************************************************************************)
EXTENDS Naturals

CONSTANTS
  Number, Client, Text,
  Absent,       \* what a number that was never used names
  Gone,         \* what the number of a deleted chapter names
  Nothing       \* what a client saw that read nothing

VARIABLES
  text,         \* absent, gone, or the current version and text
  shelf,        \* replaced versions that were kept
  seen          \* what each client saw last, and of which chapter

vars == <<text, shelf, seen>>

Present(n) == text[n] \notin {Absent, Gone}

Init ==
  /\ text = [n \in Number |-> Absent]
  /\ shelf = [n \in Number |-> {}]
  /\ seen = [c \in Client |-> Nothing]

Open(n, t) ==
  /\ text[n] = Absent
  /\ text' = [text EXCEPT ![n] = [version |-> 1, text |-> t]]
  /\ UNCHANGED <<shelf, seen>>

See(c, n) ==
  /\ Present(n)
  /\ seen' = [seen EXCEPT ![c] = <<n, text[n]>>]
  /\ UNCHANGED <<text, shelf>>

MayKeep(n) == shelf' \in {shelf, [shelf EXCEPT ![n] = shelf[n] \cup {text[n]}]}

Write(c, n, t) ==
  /\ Present(n) /\ seen[c] = <<n, text[n]>>
  /\ text' = [text EXCEPT ![n] = [version |-> text[n].version + 1, text |-> t]]
  /\ MayKeep(n)
  /\ seen' \in {seen, [seen EXCEPT ![c] = <<n, text'[n]>>]}

\* Deleted; or never opened, when its creation failed.
Close(n) ==
  /\ text[n] # Gone
  /\ text' = [text EXCEPT ![n] = Gone]
  /\ IF Present(n) THEN MayKeep(n) ELSE UNCHANGED shelf
  /\ UNCHANGED seen

Next ==
  \E n \in Number :
    \/ \E t \in Text : Open(n, t) \/ \E c \in Client : Write(c, n, t)
    \/ \E c \in Client : See(c, n)
    \/ Close(n)

Spec == Init /\ [][Next]_vars
=============================================================================

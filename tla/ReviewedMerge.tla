----------------------------- MODULE ReviewedMerge -----------------------------
(***************************************************************************)
(* What the offline exchange promises the two authors, with channels,      *)
(* copies, selections, transactions and failures left out.  Messages are   *)
(* taken in the order they were numbered in, each at most once.  One is    *)
(* merged at most once, only while it is the newest that was taken of its  *)
(* chapter, and only over the very text its reviewer agreed to replace.    *)
(* It is reported as applied only after it was merged.                     *)
(***************************************************************************)
EXTENDS Naturals

CONSTANTS
  Msg, Src, Tgt, Text,
  None,         \* the text of a chapter that is not there
  Unread        \* a message nobody has agreed to

VARIABLES
  about,        \* the chapter a message is about; None if there is no such message
  text,
  taken, agreed, done, reported

vars == <<about, text, taken, agreed, done, reported>>

Init ==
  /\ about = [m \in Msg |-> None]
  /\ text \in [Tgt -> Text \cup {None}]
  /\ taken = {} /\ done = {} /\ reported = {}
  /\ agreed = [m \in Msg |-> Unread]

Author(c) ==
  /\ \E t \in Text : text' = [text EXCEPT ![c] = t]
  /\ UNCHANGED <<about, taken, agreed, done, reported>>

Send(m, s) ==
  /\ about[m] = None
  /\ about' = [about EXCEPT ![m] = s]
  /\ UNCHANGED <<text, taken, agreed, done, reported>>

Take(m) ==
  /\ about[m] # None /\ \A n \in taken : n < m
  /\ taken' = taken \cup {m}
  /\ UNCHANGED <<about, text, agreed, done, reported>>

Newest(m) == m \in taken /\ \A n \in taken : about[n] = about[m] => n <= m

Agree(m) ==
  /\ Newest(m) /\ agreed[m] = Unread
  /\ agreed' \in {[agreed EXCEPT ![m] = t] : t \in Text \cup {None}}
  /\ UNCHANGED <<about, text, taken, done, reported>>

Merge(m, c) ==
  /\ Newest(m) /\ m \notin done /\ agreed[m] = text[c]
  /\ done' = done \cup {m}
  /\ \E t \in Text : text' = [text EXCEPT ![c] = t]
  /\ UNCHANGED <<about, taken, agreed, reported>>

Report(m) ==
  /\ m \in done
  /\ reported' = reported \cup {m}
  /\ UNCHANGED <<about, text, taken, agreed, done>>

Next ==
  \/ \E c \in Tgt : Author(c) \/ \E m \in Msg : Merge(m, c)
  \/ \E m \in Msg : Take(m) \/ Agree(m) \/ Report(m) \/ \E s \in Src : Send(m, s)

Spec == Init /\ [][Next]_vars
=============================================================================

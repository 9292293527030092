---------------------------- MODULE MCChapterStore ----------------------------
(* A small instance of ChapterStore for TLC. *)
EXTENDS ChapterStoreProps, TLC

\* No chapter number and no client has a part of its own.
Alike == Permutations(Client) \cup Permutations(Number)
=============================================================================

----------------------------- MODULE MCOfflineSync -----------------------------
(* A small instance of OfflineSync for TLC. *)
EXTENDS OfflineSyncProps, TLC

\* Texts and sources are interchangeable, and every property is one of safety.
Symmetry == Permutations(Text) \cup Permutations(Src)
=============================================================================

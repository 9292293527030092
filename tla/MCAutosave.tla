------------------------------ MODULE MCAutosave ------------------------------
(* Small instances of Autosave for TLC. *)
EXTENDS AutosaveProps, TLC

\* Threads and documents are interchangeable in the safety runs.
Symmetry == Permutations(Thread) \cup Permutations(Doc)
=============================================================================

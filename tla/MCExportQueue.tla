---------------------------- MODULE MCExportQueue ----------------------------
(* Small instances of ExportQueue for TLC. *)
EXTENDS ExportQueueProps, TLC

\* Processes, jobs and keys are interchangeable in the safety runs.
Symmetry == Permutations(Proc) \cup Permutations(Job)
=============================================================================

--------------------------- MODULE MCDispatchLedger ---------------------------
(* A small instance of DispatchLedger for TLC. *)
EXTENDS DispatchLedgerProps
=============================================================================

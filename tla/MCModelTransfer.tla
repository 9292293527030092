--------------------------- MODULE MCModelTransfer ---------------------------
(* A small instance of ModelTransfer for TLC. *)
EXTENDS ModelTransferProps
=============================================================================

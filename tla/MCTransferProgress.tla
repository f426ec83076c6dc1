-------------------------- MODULE MCTransferProgress --------------------------
(* Nothing, one byte or three to transfer; answers may be longer than that. *)
EXTENDS TransferProgress
=============================================================================

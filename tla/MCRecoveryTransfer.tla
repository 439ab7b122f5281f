------------------------- MODULE MCRecoveryTransfer -------------------------
(* Records of two bytes and a window of three records; the images end in the *)
(* middle of a record, of a window, and on the boundary of both.           *)
EXTENDS RecoveryTransfer

MCSizes == 1 .. 13
=============================================================================

--------------------------- MODULE MCFixedBuffers ---------------------------
(***************************************************************************)
(* Requests over buffers that are views of the same memory, so that the     *)
(* kernel accepts every index of the table.                                 *)
(***************************************************************************)
EXTENDS FixedBuffers

CONSTANTS r1, r2, r3, r4
=============================================================================

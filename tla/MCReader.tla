------------------------------ MODULE MCReader ------------------------------
(***************************************************************************)
(* Reader for TLC: one byte of each class, slices and buffers of up to     *)
(* three bytes, and an int64 of four bits (-8 .. 7), so that Seek can      *)
(* stand past the end of every slice and its sums overflow.                *)
(***************************************************************************)
EXTENDS Reader

CONSTANTS a, l, c

=============================================================================

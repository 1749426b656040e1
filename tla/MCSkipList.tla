----------------------------- MODULE MCSkipList -----------------------------
(***************************************************************************)
(* The skip list for TLC: three keys and towers of up to three levels.     *)
(***************************************************************************)
EXTENDS SkipList

CONSTANTS v1

MCValues == {v1}
MCKeys   == 1 .. 3

=============================================================================

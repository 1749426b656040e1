---------------------------- MODULE MCConsistent ----------------------------
(***************************************************************************)
(* Consistent for TLC: three hosts with two virtual nodes each and four    *)
(* keys: one before every position, one exactly on a position, one between *)
(* two positions and one past the last (the wrap-around to index 0).  The  *)
(* last position belongs to h3 and the first two to h1, so that a walk     *)
(* which starts at h2 meets h3 at the end of the slice before it wraps.    *)
(***************************************************************************)
EXTENDS Consistent

CONSTANTS h1, h2, h3, k1, k2, k3, k4

MCHash ==
    [n \in ReplicaNames \cup Keys |->
        CASE n = <<h1, 0>> -> 20  [] n = <<h1, 1>> -> 25
          [] n = <<h2, 0>> -> 40  [] n = <<h2, 1>> -> 50
          [] n = <<h3, 0>> -> 30  [] n = <<h3, 1>> -> 90
          [] n = k1 -> 10  [] n = k2 -> 25  [] n = k3 -> 45  [] n = k4 -> 95]

\* A .cfg cannot write a negative number: the lower bounds are named here.
Minus1 == -1
Minus2 == -2

=============================================================================

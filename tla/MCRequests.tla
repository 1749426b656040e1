----------------------------- MODULE MCRequests -----------------------------
(***************************************************************************)
(* Requests for TLC: two hosts with two virtual nodes each, interleaved on *)
(* the ring, and two keys whose successors belong to different hosts.      *)
(***************************************************************************)
EXTENDS Requests

CONSTANTS h1, h2, k1, k2

MCHash ==
    [n \in ReplicaNames \cup Keys |->
        CASE n = <<h1, 0>> -> 20  [] n = <<h1, 1>> -> 60
          [] n = <<h2, 0>> -> 40  [] n = <<h2, 1>> -> 80
          [] n = k1 -> 10  [] n = k2 -> 30]

\* A .cfg cannot write a negative number: the lower bounds are named here.
Minus3 == -3

=============================================================================

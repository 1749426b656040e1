----------------------------- MODULE MCRebalance -----------------------------
(***************************************************************************)
(* Rebalance for TLC: three keys on three volumes, two workers and a       *)
(* channel of one request.  k1 moves from v1, v2 to v2, v3; k2 is recorded *)
(* on v3, v2 and maps to v2, v3; k3 moves from v3 to v1.                   *)
(***************************************************************************)
EXTENDS Rebalance, TLC

CONSTANTS k1, k2, k3, v1, v2, v3

MCRecorded == (k1 :> <<v1, v2>>) @@ (k2 :> <<v3, v2>>) @@ (k3 :> <<v3>>)
MCTarget   == (k1 :> <<v2, v3>>) @@ (k2 :> <<v2, v3>>) @@ (k3 :> <<v1>>)

=============================================================================

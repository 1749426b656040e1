------------------------------ MODULE MCEpoll ------------------------------
(***************************************************************************)
(* The echo server with three connections and two descriptors for them,    *)
(* so that Accept runs out of descriptors and a closed number is given out *)
(* again.  One connection sends two chunks, so that two goroutines hold    *)
(* bytes of one descriptor at once; the others only come and go.           *)
(***************************************************************************)
EXTENDS Epoll, TLC

CONSTANTS c1, c2, c3

MCConns    == {c1, c2, c3}
MCMaxSends == (c1 :> 2) @@ (c2 :> 0) @@ (c3 :> 0)
=============================================================================

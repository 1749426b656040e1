------------------------------ MODULE Requests ------------------------------
(***************************************************************************)
(* The ring of Consistent as a load balancer uses it.  The comments on Inc *)
(* and Done (consistent.go, lines 140-142 and 149-151) give the           *)
(* discipline: a host is obtained with GetLeast, counted with Inc, served, *)
(* and released with Done.  The goroutines in Clients follow it, one       *)
(* request at a time each; the goroutines in Admins change the membership  *)
(* with Add and Remove while requests are in flight, and those in Monitors *)
(* read the loads with GetLoads.                                           *)
(*                                                                         *)
(* A client's place in its request is read off what its last call          *)
(* returned, so the module adds no state to Consistent's.                  *)
(***************************************************************************)
EXTENDS Consistent

CONSTANTS
    Clients,    \* the goroutines that serve requests
    Admins,     \* the goroutines that add and remove hosts
    Monitors    \* the goroutines that report the loads

ASSUME /\ Clients \cup Admins \cup Monitors = Threads
       /\ Cardinality(Clients) + Cardinality(Admins) + Cardinality(Monitors)
              = Cardinality(Threads)

-----------------------------------------------------------------------------
(* Where a client is in its request *)

\* GetLeast named a host and Inc has not been called on it yet.
Picked(c) == Idle(c) /\ ret[c].op = "GetLeast" /\ ret[c].val \in HostNames

\* Inc has counted the request on host h and Done has not been called.
Holding(c, h) == ret[c] = Returned("Inc", h)

\* Inc has returned; the request is being served.
Serving(c) == Idle(c) /\ ret[c].op = "Inc" /\ ret[c].val \in HostNames

\* Between requests: nothing picked, nothing held.
Free(c) == Idle(c) /\ ~Picked(c) /\ ~Serving(c)

-----------------------------------------------------------------------------
(* The calls of a request, and the calls of an administrator *)

Pick(c)    == Free(c) /\ \E key \in Keys : GetLeast(c, key)
Count(c)   == Picked(c) /\ Inc(c, ret[c].val)
Release(c) == Serving(c) /\ Done(c, ret[c].val)

ClientStep(c) ==
    Pick(c) \/ GetLeastStep(c) \/ Count(c) \/ IncTotal(c) \/ Release(c)

AdminStep(a) == \E host \in HostNames : Add(a, host) \/ Remove(a, host)

MonitorStep(m) == GetLoadsEnter(m) \/ GetLoadsStep(m)

RequestsNext ==
    \/ \E c \in Clients  : ClientStep(c)
    \/ \E a \in Admins   : AdminStep(a)
    \/ \E m \in Monitors : MonitorStep(m)

RequestsSpec == Init /\ [][RequestsNext]_vars

\* A goroutine inside GetLeast's loop or between Inc's two adds keeps
\* running: the scheduler does not starve it.  Nothing obliges a client to
\* start a request or an administrator to call.
RequestsFairSpec == RequestsSpec /\ Fairness

-----------------------------------------------------------------------------
(* Properties *)

InFlight(h) == {c \in Clients : Holding(c, h)}

\* A host's load never exceeds the requests in flight on it: a request
\* that is over is not held against the host, whatever Remove and Add did
\* to the host's entry between the request's Inc and its Done.
InFlightCovered ==
    \A h \in DOMAIN loadMap : loadMap[h] <= Cardinality(InFlight(h))

\* totalLoad, with the Incs that are between their two adds, is never below
\* the sum of the loads.  loadOK's threshold then always admits the least
\* loaded host, which is what keeps GetLeast's loop from spinning.
TotalCoversLoads == Drift >= 0

\* The comment on Inc: it is to be called with a host obtained from
\* GetLeast.  A client that does so never meets Inc's nil dereference.
\* (Remove between the client's GetLeast and its Inc makes it false.)
IncNeverPanics ==
    \A c \in Clients : ret[c] # Returned("Inc", Panic)

\* GetLoads reports loads the ring had: a request is counted on one host,
\* so what a monitor is told adds up to no more than the requests the
\* clients can have in flight.  (Spec section 5: linearizability at the
\* structure level.  GetLoads ranges over loadMap without the lock, and a
\* request that moves from one host to another during the range is
\* counted on both.)
GetLoadsCountsOnce ==
    [][\A m \in Monitors :
          pc[m] = "GetLoads" /\ pc'[m] = "idle" =>
              Fn!SumFunction(walk[m].loads) <= Cardinality(Clients)]_vars

=============================================================================

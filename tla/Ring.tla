-------------------------------- MODULE Ring --------------------------------
(***************************************************************************)
(* What the ring promises its callers, with no data structure in it: a set *)
(* of member hosts, and for every key the member that owns the first       *)
(* virtual node at or after the key's hash, going round the ring.  The     *)
(* answer depends on the member set alone, so it is the same on every      *)
(* call, adding a host twice is adding it once, and removing a host that   *)
(* was just added restores every answer.                                   *)
(***************************************************************************)
EXTENDS Integers, FiniteSets

LOCAL INSTANCE FiniteSetsExt

CONSTANTS
    HostNames,          \* the hosts that may join
    Keys,               \* the keys that may be looked up
    Callers,            \* who calls
    replicationFactor,  \* virtual nodes per host
    hash                \* position of a virtual node, and of a key

VARIABLES
    members,  \* the hosts in the ring
    answer    \* what each caller's last call answered

ringVars == <<members, answer>>

Ack        == "ack"
Elsewhere  == "elsewhere"
ErrNoHosts == "ErrNoHosts"

VirtualNodes(host) == {hash[<<host, i>>] : i \in 0 .. (replicationFactor - 1)}

Points(S) == UNION {VirtualNodes(h) : h \in S}

\* The first point at or after x, or the lowest point when x is past them all.
Successor(S, x) ==
    LET ahead == {p \in Points(S) : p >= x}
    IN  IF ahead # {} THEN Min(ahead) ELSE Min(Points(S))

Owner(S, key) == CHOOSE h \in S : Successor(S, hash[key]) \in VirtualNodes(h)

Answers(c, a) == answer' = [answer EXCEPT ![c] = a]

Join(c, host) ==
    /\ members' = members \cup {host}
    /\ Answers(c, Ack)

Leave(c, host) ==
    /\ members' = members \ {host}
    /\ Answers(c, Ack)

Locate(c, key) ==
    /\ Answers(c, IF members = {} THEN ErrNoHosts ELSE Owner(members, key))
    /\ UNCHANGED members

\* The caller uses its answer for something that is not the ring's business.
MoveOn(c) ==
    /\ Answers(c, Elsewhere)
    /\ UNCHANGED members

RingInit ==
    /\ members = {}
    /\ answer = [c \in Callers |-> Elsewhere]

RingNext ==
    \E c \in Callers :
        \/ \E host \in HostNames : Join(c, host) \/ Leave(c, host)
        \/ \E key \in Keys : Locate(c, key)
        \/ MoveOn(c)

RingSpec == RingInit /\ [][RingNext]_ringVars

=============================================================================

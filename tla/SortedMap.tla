------------------------------ MODULE SortedMap ------------------------------
(***************************************************************************)
(* What the skip list promises its callers: a map from keys to values      *)
(* that answers lookups from its present content and hands out iterators   *)
(* that open on the least key at or after a bound.  Every call leaves in   *)
(* `out` its name, its argument and what it returned.                      *)
(***************************************************************************)
EXTENDS Integers

CONSTANTS
    Keys,       \* the keys callers use
    Values,     \* the values callers store
    None,       \* returned where the map has nothing to return
    Panic       \* returned by a call that did not return

VARIABLES
    dict,       \* the content: a function from the keys present to values
    out         \* the last call: [op, arg, val]

\* The call `op` of `arg` returns `val`.
Answered(op, arg, val) ==
    /\ out'.op = op
    /\ out'.arg = arg
    /\ out'.val = val

Least(S) == IF S = {} THEN None ELSE CHOOSE x \in S : \A y \in S : x <= y

Put(k, v) ==
    /\ Answered("Insert", <<k>>, v)
    /\ LET d == dict
       IN  dict' = [x \in DOMAIN d \cup {k} |-> IF x = k THEN v ELSE d[x]]

\* An insertion of a new key may fail; what the map holds then is not
\* promised.
PutFails(k) ==
    /\ Answered("Insert", <<k>>, Panic)
    /\ k \notin DOMAIN dict

Delete(k) ==
    /\ Answered("Remove", <<k>>, k \in DOMAIN dict)
    /\ LET d == dict
       IN  dict' = [x \in DOMAIN d \ {k} |-> d[x]]

Wipe ==
    /\ Answered("Clear", <<>>, None)
    /\ dict' = [x \in {} |-> None]

Get(k) ==
    /\ Answered("Find", <<k>>,
                LET d == dict IN IF k \in DOMAIN d THEN d[k] ELSE None)
    /\ UNCHANGED dict

Contains(k) ==
    /\ Answered("Has", <<k>>, k \in DOMAIN dict)
    /\ UNCHANGED dict

\* The calls that open an iterator answer with the key it stands on.
Seek ==
    /\ \/ Answered("Iterate", <<>>, Least(DOMAIN dict))
       \/ \E k \in Keys :
             \/ Answered("LowerBound", <<k>>, Least({x \in DOMAIN dict : x >= k}))
             \/ Answered("UpperBound", <<k>>, Least({x \in DOMAIN dict : x > k}))
       \/ \E first, last \in Keys :
             Answered("FindRange", <<first, last>>,
                      Least({x \in DOMAIN dict : x >= first}))
    /\ UNCHANGED dict

\* An iterator moves on, or fails, without touching the map.
Step ==
    /\ \/ \E k \in Keys : Answered("MoveToNext", <<>>, k)
       \/ Answered("Key", <<>>, Panic)
    /\ UNCHANGED dict

Renew ==
    /\ out.val = Panic
    /\ Answered("New", <<>>, None)
    /\ dict' = [x \in {} |-> None]

MapInit ==
    /\ dict = [x \in {} |-> None]
    /\ out = [op |-> "New", arg |-> <<>>, val |-> None]

MapNext ==
    \/ /\ out.val # Panic
       /\ \/ \E k \in Keys : \/ \E v \in Values : Put(k, v)
                             \/ PutFails(k) \/ Delete(k) \/ Get(k) \/ Contains(k)
          \/ Wipe \/ Seek \/ Step
    \/ Renew

MapSpec == MapInit /\ [][MapNext]_<<dict, out>>

=============================================================================

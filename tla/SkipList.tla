------------------------------ MODULE SkipList ------------------------------
(***************************************************************************)
(* The skip list of src/fast_skiplist/skiplist.go: a sorted map whose      *)
(* nodes carry a tower of next pointers.                                   *)
(*                                                                         *)
(* A node is named <<key, "live">> while it is linked into level 0, and    *)
(* <<key, "held">> once it is unlinked and only the caller's iterator can  *)
(* still reach it: an address carries no more than that.  An unlinked node *)
(* stays in `node` for as long as the iterator can walk to it, which is    *)
(* what Go's collector does.                                               *)
(*                                                                         *)
(* The list has one of two search implementations (sl.impl), chosen when   *)
(* it is built: skipListOrdered compares keys with == and >, skipListFunc  *)
(* calls keyCmp.  prevsCache is scratch space that every search overwrites *)
(* before it is read; it is the value `prevs` of the walks below.          *)
(***************************************************************************)
EXTENDS Integers, Sequences, FiniteSets

Fn == INSTANCE Functions

CONSTANTS
    Keys,       \* the keys callers use; positive integers
    Values,     \* the values callers store
    MaxLevel,   \* skipListMaxLevel (40 in the source)
    Impls,      \* the constructors the program calls: "ordered", "func"
    None,       \* what a call returns that has nothing to return (nil)
    Panic       \* what a call "returns" that panicked

ASSUME /\ Keys \subseteq Nat \ {0}
       /\ MaxLevel \in Nat \ {0}
       /\ Impls \subseteq {"ordered", "func"}

VARIABLES
    impl,       \* "ordered" or "func": which skipListImpl the list has
    level,      \* sl.level
    len,        \* sl.len
    head,       \* sl.head.next, a sequence of MaxLevel pointers
    node,       \* the nodes on the heap: <<key, gen>> -> [value, next]
    it,         \* the iterator the caller holds: [node, end], or NoIter
    result      \* the last call: [op, arg, val]

vars == <<impl, level, len, head, node, it, result>>
list == <<level, len, head, node>>

-----------------------------------------------------------------------------
(* Values *)

Nil      == <<0, "nil">>    \* the nil pointer
HeadNode == <<0, "head">>   \* &sl.head
Gone     == <<0, "gone">>   \* a node the iterator cannot come to any more
NoIter   == [node |-> HeadNode, end |-> HeadNode]

NodeIds == Keys \X {"live", "held"}
Ptrs    == NodeIds \cup {Nil}

KeyOf(n) == n[1]

Called(op, arg, val) == [op |-> op, arg |-> arg, val |-> val]

Panicked == result.val = Panic

\* n.next[i] for a node or the head; levels are 0-based as in the source.
NextOf(nd, hd, n, i) == IF n = HeadNode THEN hd[i + 1] ELSE nd[n].next[i + 1]
next(n, i) == NextOf(node, head, n, i)

\* The nodes from n on along level i.
RECURSIVE ChainOf(_, _, _)
ChainOf(nd, n, i) ==
    IF n = Nil THEN <<>> ELSE <<n>> \o ChainOf(nd, nd[n].next[i + 1], i)

Level(i) == ChainOf(node, head[i + 1], i)
Live     == Fn!Range(Level(0))

\* The nodes from n on along level 0, for an iterator that stands on n.
Path(nd, iter) ==
    IF iter.node \in DOMAIN nd THEN Fn!Range(ChainOf(nd, iter.node, 0)) ELSE {}

\* The heap and the iterator once `unlinked` have left the list.  The
\* collector keeps what the iterator can walk to; of such a node the
\* iterator reads the key, the value and next[0] only, so that is all that
\* is kept of it.  An end node that is not ahead of the iterator is never
\* met, whatever it is.
Settled(nd, hd, iter) ==
    LET live == Fn!Range(ChainOf(nd, hd[1], 0))
        walk == Path(nd, iter)
        Now(n) == IF n \in DOMAIN nd \ live THEN <<KeyOf(n), "held">> ELSE n
        Was(m) == CHOOSE n \in live \cup walk : Now(n) = m
    IN  [node |-> [m \in {Now(n) : n \in live \cup walk} |->
                     IF Was(m) \in live THEN nd[Was(m)]
                     ELSE [value |-> nd[Was(m)].value,
                           next  |-> <<Now(nd[Was(m)].next[1])>>]],
         it   |-> IF iter.node = HeadNode THEN iter
                  ELSE [node |-> Now(iter.node),
                        end  |-> IF iter.end \in walk \cup {Nil}
                                 THEN Now(iter.end) ELSE Gone]]

-----------------------------------------------------------------------------
(* randomLevel *)

\* 1 << n
Pow2(n) == 2 ^ n

\* A plausible slip: the shift one short, 1 << (level - 4).
RECURSIVE fitLevelShifted(_)
fitLevelShifted(l) ==
    IF l > 3 /\ Pow2(l - 4) > len THEN fitLevelShifted(l - 1) ELSE l

\* The loop that lowers a level the list is too short for.
RECURSIVE fitLevel(_)
fitLevel(l) == IF l > 3 /\ Pow2(l - 3) > len THEN fitLevel(l - 1) ELSE l

\* bitLen is bits.Len64 of the random number, 0 .. MaxLevel.
randomLevel(bitLen) == fitLevel(MaxLevel - bitLen + 1)

-----------------------------------------------------------------------------
(* skipListOrdered: the searches on keys with == and > *)

\* The two loops of doFindNode and findInsertPoint: i is the level, prev
\* the last node below key, cur the node under test, prevs what has been
\* stored so far.  An equal key ends the walk at once.
RECURSIVE walkOrdered(_, _, _, _, _)
walkOrdered(prev, cur, i, key, prevs) ==
    IF cur # Nil /\ KeyOf(cur) = key
    THEN [found |-> cur, prev |-> prev, prevs |-> <<>>]
    ELSE IF cur # Nil /\ ~(KeyOf(cur) > key)
    THEN walkOrdered(cur, next(cur, i), i, key, prevs)
    ELSE LET stored == [prevs EXCEPT ![i + 1] = prev]
         IN  IF i = 0
             THEN [found |-> Nil, prev |-> prev, prevs |-> stored]
             ELSE walkOrdered(prev, next(prev, i - 1), i - 1, key, stored)

startOrdered(key) ==
    walkOrdered(HeadNode, next(HeadNode, level - 1), level - 1, key,
                [i \in 1 .. level |-> Nil])

doFindNode(key, eq) ==
    LET w == startOrdered(key)
    IN  IF w.found # Nil THEN w.found
        ELSE IF eq THEN Nil ELSE next(w.prev, 0)

findNodeOrdered(key)   == doFindNode(key, TRUE)
lowerBoundOrdered(key) == doFindNode(key, FALSE)

\* A plausible slip: the step past an equal key is left out.
upperBoundOrderedSame(key) == lowerBoundOrdered(key)

upperBoundOrdered(key) ==
    LET n == lowerBoundOrdered(key)
    IN  IF n # Nil /\ KeyOf(n) = key THEN next(n, 0) ELSE n

findInsertPointOrdered(key) ==
    LET w == startOrdered(key) IN [node |-> w.found, prevs |-> w.prevs]

\* findPrevNodes: the walk that stops in front of the first key >= key.
RECURSIVE prevsOrdered(_, _, _, _, _)
prevsOrdered(prev, cur, i, key, prevs) ==
    IF cur # Nil /\ ~(KeyOf(cur) >= key)
    THEN prevsOrdered(cur, next(cur, i), i, key, prevs)
    ELSE LET stored == [prevs EXCEPT ![i + 1] = prev]
         IN  IF i = 0 THEN stored
             ELSE prevsOrdered(prev, next(prev, i - 1), i - 1, key, stored)

findPrevNodesOrdered(key) ==
    prevsOrdered(HeadNode, next(HeadNode, level - 1), level - 1, key,
                 [i \in 1 .. level |-> Nil])

findRemovePointOrdered(key) ==
    LET prevs == findPrevNodesOrdered(key)
        n     == next(prevs[1], 0)
    IN  IF n = Nil \/ KeyOf(n) # key
        THEN [node |-> Nil, prevs |-> <<>>]
        ELSE [node |-> n, prevs |-> prevs]

-----------------------------------------------------------------------------
(* skipListFunc: the searches through keyCmp *)

\* The CompareFn the list was built with: the order of the keys.
keyCmp(a, b) == IF a < b THEN -1 ELSE IF a = b THEN 0 ELSE 1

RECURSIVE walkFunc(_, _, _, _, _)
walkFunc(prev, cur, i, key, prevs) ==
    IF cur # Nil /\ keyCmp(KeyOf(cur), key) = 0
    THEN [found |-> cur, prev |-> prev, prevs |-> <<>>]
    ELSE IF cur # Nil /\ ~(keyCmp(KeyOf(cur), key) > 0)
    THEN walkFunc(cur, next(cur, i), i, key, prevs)
    ELSE LET stored == [prevs EXCEPT ![i + 1] = prev]
         IN  IF i = 0
             THEN [found |-> Nil, prev |-> prev, prevs |-> stored]
             ELSE walkFunc(prev, next(prev, i - 1), i - 1, key, stored)

startFunc(key) ==
    walkFunc(HeadNode, next(HeadNode, level - 1), level - 1, key,
             [i \in 1 .. level |-> Nil])

lowerBoundFunc(key) ==
    LET w == startFunc(key)
    IN  IF w.found # Nil THEN w.found ELSE next(w.prev, 0)

findNodeFunc(key) ==
    LET n == lowerBoundFunc(key)
    IN  IF n # Nil /\ keyCmp(KeyOf(n), key) = 0 THEN n ELSE Nil

upperBoundFunc(key) ==
    LET n == lowerBoundFunc(key)
    IN  IF n # Nil /\ keyCmp(KeyOf(n), key) = 0 THEN next(n, 0) ELSE n

findInsertPointFunc(key) ==
    LET w == startFunc(key) IN [node |-> w.found, prevs |-> w.prevs]

\* A plausible slip: > 0 for >= 0, so that the walk passes the key.
RECURSIVE prevsFuncPast(_, _, _, _, _)
prevsFuncPast(prev, cur, i, key, prevs) ==
    IF cur # Nil /\ ~(keyCmp(KeyOf(cur), key) > 0)
    THEN prevsFuncPast(cur, next(cur, i), i, key, prevs)
    ELSE LET stored == [prevs EXCEPT ![i + 1] = prev]
         IN  IF i = 0 THEN stored
             ELSE prevsFuncPast(prev, next(prev, i - 1), i - 1, key, stored)

RECURSIVE prevsFunc(_, _, _, _, _)
prevsFunc(prev, cur, i, key, prevs) ==
    IF cur # Nil /\ ~(keyCmp(KeyOf(cur), key) >= 0)
    THEN prevsFunc(cur, next(cur, i), i, key, prevs)
    ELSE LET stored == [prevs EXCEPT ![i + 1] = prev]
         IN  IF i = 0 THEN stored
             ELSE prevsFunc(prev, next(prev, i - 1), i - 1, key, stored)

findPrevNodesFunc(key) ==
    prevsFunc(HeadNode, next(HeadNode, level - 1), level - 1, key,
              [i \in 1 .. level |-> Nil])

findRemovePointFunc(key) ==
    LET prevs == findPrevNodesFunc(key)
        n     == next(prevs[1], 0)
    IN  IF n = Nil \/ keyCmp(KeyOf(n), key) # 0
        THEN [node |-> Nil, prevs |-> <<>>]
        ELSE [node |-> n, prevs |-> prevs]

-----------------------------------------------------------------------------
(* sl.impl: the calls through the skipListImpl interface *)

Ordered == impl = "ordered"

findNode(key)        == IF Ordered THEN findNodeOrdered(key) ELSE findNodeFunc(key)
lowerBound(key)      == IF Ordered THEN lowerBoundOrdered(key) ELSE lowerBoundFunc(key)
upperBound(key)      == IF Ordered THEN upperBoundOrdered(key) ELSE upperBoundFunc(key)
findInsertPoint(key) ==
    IF Ordered THEN findInsertPointOrdered(key) ELSE findInsertPointFunc(key)
findRemovePoint(key) ==
    IF Ordered THEN findRemovePointOrdered(key) ELSE findRemovePointFunc(key)

-----------------------------------------------------------------------------
(* Insert *)

Returns(op, arg, val) == result' = Called(op, arg, val)

\* The heap and the iterator after a call that unlinked nodes or moved
\* the iterator.
Leaves(nd, hd, iter) ==
    /\ node' = Settled(nd, hd, iter).node
    /\ it' = Settled(nd, hd, iter).it

\* newSkipListNode: the node of a key that has none in the list.
FreshNode(key) == <<key, "live">>

InsertExisting(key, value) ==
    LET n == findInsertPoint(key).node IN
    /\ ~Panicked
    /\ n # Nil
    /\ node' = [node EXCEPT ![n].value = value]
    /\ Returns("Insert", <<key>>, value)
    /\ UNCHANGED <<impl, level, len, head, it>>

\* The two loops of Insert for a new node n of lvl levels: below sl.level
\* the node goes in after prevs[i], from sl.level up it is the head's first
\* (and only the head's array bounds that second loop).
Spliced(n, value, lvl, prevs) ==
    LET low  == IF lvl < level THEN lvl ELSE level
        into == [i \in 1 .. low |-> prevs[i]]
        nd   == [m \in DOMAIN node \cup {n} |->
                   IF m = n
                   THEN [value |-> value,
                         next  |-> [i \in 1 .. lvl |->
                                      IF i <= low THEN next(into[i], i - 1)
                                      ELSE Nil]]
                   ELSE [node[m] EXCEPT !.next =
                           [i \in DOMAIN @ |->
                              IF i <= low /\ into[i] = m THEN n ELSE @[i]]]]
        hd   == [i \in 1 .. MaxLevel |->
                   IF \/ i <= low /\ into[i] = HeadNode
                      \/ i > level /\ i <= lvl
                   THEN n ELSE head[i]]
    IN  [node |-> nd, head |-> hd]

InsertNew(key, value, bitLen) ==
    LET fp  == findInsertPoint(key)
        lvl == randomLevel(bitLen)
        n   == FreshNode(key)
        new == Spliced(n, value, lvl, fp.prevs)
    IN  /\ ~Panicked
        /\ fp.node = Nil
        /\ lvl <= MaxLevel
        /\ head' = new.head
        /\ node' = new.node
        /\ level' = IF lvl > level THEN lvl ELSE level
        /\ len' = len + 1
        /\ Returns("Insert", <<key>>, value)
        /\ UNCHANGED <<impl, it>>

\* randomLevel gave skipListMaxLevel + 1: the node is linked in, the write
\* of sl.head.next[skipListMaxLevel] is out of range, and sl.level and
\* sl.len are never updated.
InsertOverflow(key, value, bitLen) ==
    LET fp  == findInsertPoint(key)
        lvl == randomLevel(bitLen)
        n   == FreshNode(key)
        new == Spliced(n, value, lvl, fp.prevs)
    IN  /\ ~Panicked
        /\ fp.node = Nil
        /\ lvl > MaxLevel
        /\ head' = new.head
        /\ node' = new.node
        /\ Returns("Insert", <<key>>, Panic)
        /\ UNCHANGED <<impl, level, len, it>>

\* bitLen is what sl.rander gives this call; it is drawn only when the key
\* is new.
Insert(key, value) ==
    \/ InsertExisting(key, value)
    \/ \E bitLen \in 0 .. MaxLevel :
          InsertNew(key, value, bitLen) \/ InsertOverflow(key, value, bitLen)

-----------------------------------------------------------------------------
(* Remove, Clear *)

\* A plausible slip: sl.len-- ahead of the test for a missing key.
RemoveAbsentCounts(key) ==
    /\ ~Panicked
    /\ findRemovePoint(key).node = Nil
    /\ len' = len - 1
    /\ Returns("Remove", <<key>>, FALSE)
    /\ UNCHANGED <<impl, level, head, node, it>>

RemoveAbsent(key) ==
    /\ ~Panicked
    /\ findRemovePoint(key).node = Nil
    /\ Returns("Remove", <<key>>, FALSE)
    /\ UNCHANGED <<impl, list, it>>

\* A plausible slip: the removed node's pointers are cleared as well.
UnlinkedCleared(n, prevs) ==
    LET lvls == DOMAIN node[n].next IN
    [node |-> [m \in DOMAIN node |->
                 [node[m] EXCEPT !.next =
                    [i \in DOMAIN @ |->
                       IF m = n THEN Nil
                       ELSE IF i \in lvls /\ prevs[i] = m
                       THEN node[n].next[i] ELSE @[i]]]],
     head |-> [i \in 1 .. MaxLevel |->
                 IF i \in lvls /\ prevs[i] = HeadNode
                 THEN node[n].next[i] ELSE head[i]]]

\* The loop of Remove over node.next: on each level of n's tower, what
\* stood before n now points past it.  n keeps its own pointers.
Unlinked(n, prevs) ==
    LET lvls == DOMAIN node[n].next IN
    [node |-> [m \in DOMAIN node |->
                 [node[m] EXCEPT !.next =
                    [i \in DOMAIN @ |->
                       IF i \in lvls /\ prevs[i] = m
                       THEN node[n].next[i] ELSE @[i]]]],
     head |-> [i \in 1 .. MaxLevel |->
                 IF i \in lvls /\ prevs[i] = HeadNode
                 THEN node[n].next[i] ELSE head[i]]]

\* A plausible slip: the loop that lowers sl.level is left out.
LoweredNot(hd) == level

\* The level left when the empty top levels are dropped.
Lowered(hd) ==
    CHOOSE l \in 1 .. level :
        /\ l = 1 \/ hd[l] # Nil
        /\ \A m \in (l + 1) .. level : hd[m] = Nil

RemovePresent(key) ==
    LET rp  == findRemovePoint(key)
        new == Unlinked(rp.node, rp.prevs)
    IN  /\ ~Panicked
        /\ rp.node # Nil
        /\ head' = new.head
        /\ Leaves(new.node, new.head, it)
        /\ level' = Lowered(new.head)
        /\ len' = len - 1
        /\ Returns("Remove", <<key>>, TRUE)
        /\ UNCHANGED impl

Remove(key) == RemoveAbsent(key) \/ RemovePresent(key)

Clear ==
    /\ ~Panicked
    /\ head' = [i \in 1 .. MaxLevel |-> Nil]
    /\ Leaves(node, head', it)
    /\ level' = 1
    /\ len' = 0
    /\ Returns("Clear", <<>>, None)
    /\ UNCHANGED impl

-----------------------------------------------------------------------------
(* Lookups *)

IsEmpty == len = 0
Length  == len

\* Find returns a pointer to the value, or nil.
Find(key) ==
    LET n == findNode(key) IN
    /\ ~Panicked
    /\ Returns("Find", <<key>>, IF n # Nil THEN node[n].value ELSE None)
    /\ UNCHANGED <<impl, list, it>>

Has(key) ==
    /\ ~Panicked
    /\ Returns("Has", <<key>>, findNode(key) # Nil)
    /\ UNCHANGED <<impl, list, it>>

\* ForEach and its variants: the entries along level 0, in that order.
ForEach ==
    [i \in DOMAIN Level(0) |->
       [key |-> KeyOf(Level(0)[i]), value |-> node[Level(0)[i]].value]]

-----------------------------------------------------------------------------
(* Iterators *)

\* The iterator a caller holds on `first` up to `end`.  One that stands on
\* its end can do nothing more (IsNotEnd is false) and the caller lets go
\* of it.
Iterator(first, end) ==
    IF first = end THEN NoIter ELSE [node |-> first, end |-> end]

\* A call that hands the caller a new iterator in place of the one it had.
Opens(op, arg, first, end) ==
    /\ ~Panicked
    /\ Leaves(node, head, Iterator(first, end))
    /\ Returns(op, arg, IF first = Nil THEN None ELSE KeyOf(first))
    /\ UNCHANGED <<impl, level, len, head>>

Iterate         == Opens("Iterate", <<>>, next(HeadNode, 0), Nil)
LowerBound(key) == Opens("LowerBound", <<key>>, lowerBound(key), Nil)
UpperBound(key) == Opens("UpperBound", <<key>>, upperBound(key), Nil)

FindRange(first, last) ==
    Opens("FindRange", <<first, last>>, lowerBound(first), upperBound(last))

IsNotEnd == it.node # it.end

\* The caller's loop: for ; it.IsNotEnd(); it.MoveToNext() { it.Key() ... }
MoveToNext ==
    /\ ~Panicked
    /\ IsNotEnd
    /\ it.node # Nil
    /\ Leaves(node, head, Iterator(node[it.node].next[1], it.end))
    /\ Returns("MoveToNext", <<>>, KeyOf(it.node))
    /\ UNCHANGED <<impl, level, len, head>>

\* The iterator ran past the list without meeting its end node: Key()
\* dereferences nil.
IteratorPanics ==
    /\ ~Panicked
    /\ IsNotEnd
    /\ it.node = Nil
    /\ Returns("Key", <<>>, Panic)
    /\ UNCHANGED <<impl, list, it>>

-----------------------------------------------------------------------------
(* NewSkipList, NewSkipListFunc; after a panic the program starts again *)

NoNext == [i \in 1 .. MaxLevel |-> Nil]

Init ==
    /\ impl \in Impls
    /\ level = 1
    /\ len = 0
    /\ head = NoNext
    /\ node = <<>>
    /\ it = NoIter
    /\ result = Called("New", <<>>, None)

Restart ==
    /\ Panicked
    /\ impl' \in Impls
    /\ level' = 1
    /\ len' = 0
    /\ head' = NoNext
    /\ node' = <<>>
    /\ it' = NoIter
    /\ Returns("New", <<>>, None)

Next ==
    \/ \E key \in Keys, value \in Values : Insert(key, value)
    \/ \E key \in Keys :
          Remove(key) \/ Find(key) \/ Has(key) \/ LowerBound(key) \/ UpperBound(key)
    \/ \E first, last \in Keys : FindRange(first, last)
    \/ Clear \/ Iterate \/ MoveToNext \/ IteratorPanics \/ Restart

Spec == Init /\ [][Next]_vars

-----------------------------------------------------------------------------
(* What the list is, read off its level 0 *)

\* The map the list holds, as ForEach shows it: the refinement mapping to
\* SortedMap's dict.
Content ==
    LET entries == Fn!Range(ForEach)
    IN  [k \in {e.key : e \in entries} |->
           (CHOOSE e \in entries : e.key = k).value]

Ascending(chain) ==
    \A i, j \in DOMAIN chain : i < j => KeyOf(chain[i]) < KeyOf(chain[j])

Height(n) == Len(node[n].next)

\* The extreme of a set of nodes by key, or `none` when the set is empty.
Lowest(S, none) ==
    IF S = {} THEN none ELSE CHOOSE n \in S : \A m \in S : KeyOf(n) <= KeyOf(m)
Highest(S, none) ==
    IF S = {} THEN none ELSE CHOOSE n \in S : \A m \in S : KeyOf(n) >= KeyOf(m)

\* What the searches are to return, said without walking the towers.
Holder(key)    == Lowest({n \in Live : KeyOf(n) = key}, Nil)
Ceiling(key)   == Lowest({n \in Live : KeyOf(n) >= key}, Nil)
Above(key)     == Lowest({n \in Live : KeyOf(n) > key}, Nil)
Before(i, key) == Highest({n \in Fn!Range(Level(i)) : KeyOf(n) < key}, HeadNode)
Befores(key)   == [i \in 1 .. level |-> Before(i - 1, key)]

-----------------------------------------------------------------------------
(* Properties *)

\* What each call can leave in `result`.
Results ==
    LET One == {<<k>> : k \in Keys} IN
         [op : {"New", "Clear"}, arg : {<<>>}, val : {None}]
    \cup [op : {"Insert"}, arg : One, val : Values \cup {Panic}]
    \cup [op : {"Remove", "Has"}, arg : One, val : BOOLEAN]
    \cup [op : {"Find"}, arg : One, val : Values \cup {None}]
    \cup [op : {"Iterate"}, arg : {<<>>}, val : Keys \cup {None}]
    \cup [op : {"LowerBound", "UpperBound"}, arg : One, val : Keys \cup {None}]
    \cup [op : {"FindRange"}, arg : Keys \X Keys, val : Keys \cup {None}]
    \cup [op : {"MoveToNext"}, arg : {<<>>}, val : Keys]
    \cup [op : {"Key"}, arg : {<<>>}, val : {Panic}]

\* Type invariant.
TypeOK ==
    /\ impl \in {"ordered", "func"}
    /\ level \in 1 .. MaxLevel
    /\ len \in 0 .. Cardinality(Keys)
    /\ DOMAIN node \subseteq NodeIds
    /\ head \in [1 .. MaxLevel -> DOMAIN node \cup {Nil}]
    /\ \A n \in DOMAIN node :
          /\ node[n].value \in Values
          /\ Height(n) \in 1 .. MaxLevel + 1
          /\ node[n].next \in [1 .. Height(n) -> Ptrs]
    /\ it \in [node : DOMAIN node \cup {Nil, HeadNode},
               end  : DOMAIN node \cup {Nil, HeadNode, Gone}]
    /\ result \in Results

\* The shape Insert and Remove keep between calls: every level in use is a
\* strictly ascending chain, a node stands on each level of its tower and
\* on no other, no level above sl.level holds a node, sl.level is the
\* height of the tallest tower (1 for an empty list), and Len and IsEmpty
\* count the nodes of level 0.
WellFormed ==
    ~Panicked =>
        /\ \A i \in 0 .. level - 1 :
              /\ Ascending(Level(i))
              /\ Fn!Range(Level(i)) = {n \in Live : Height(n) > i}
        /\ \A i \in level + 1 .. MaxLevel : head[i] = Nil
        /\ \A n \in Live : Height(n) <= level
        /\ level = 1 \/ head[level] # Nil
        /\ Length = Cardinality(Live)
        /\ IsEmpty <=> Live = {}

\* Both implementations of skipListImpl, the one on == and > and the one on
\* keyCmp, return for every key what a scan of level 0 would: findNode the
\* node of the key, lowerBound the first node at or after it, upperBound
\* the first node after it, and findInsertPoint and findRemovePoint, on
\* each level, the last node before it.
SearchesCorrect ==
    ~Panicked =>
        \A key \in Keys :
            LET at    == Holder(key)
                ins   == IF at # Nil THEN [node |-> at, prevs |-> <<>>]
                         ELSE [node |-> Nil, prevs |-> Befores(key)]
                rem   == IF at = Nil THEN [node |-> Nil, prevs |-> <<>>]
                         ELSE [node |-> at, prevs |-> Befores(key)]
            IN  /\ findNodeOrdered(key) = at
                /\ findNodeFunc(key) = at
                /\ lowerBoundOrdered(key) = Ceiling(key)
                /\ lowerBoundFunc(key) = Ceiling(key)
                /\ upperBoundOrdered(key) = Above(key)
                /\ upperBoundFunc(key) = Above(key)
                /\ findInsertPointOrdered(key) = ins
                /\ findInsertPointFunc(key) = ins
                /\ findRemovePointOrdered(key) = rem
                /\ findRemovePointFunc(key) = rem

\* randomLevel gives a level inside sl.head.next, 1 .. skipListMaxLevel,
\* for every number sl.rander can draw but one: 0, whose level is one too
\* high, and the loop on sl.len lowers that one as long as the list holds
\* fewer than 1 << (skipListMaxLevel - 2) entries.
RandomLevelFits ==
    \A bitLen \in 0 .. MaxLevel :
        \/ randomLevel(bitLen) \in 1 .. MaxLevel
        \/ bitLen = 0 /\ len >= Pow2(MaxLevel - 2)

\* The list is a sorted map: with its content read off level 0, every call
\* of Insert, Remove, Clear, Find, Has, Iterate, LowerBound, UpperBound and
\* FindRange changes and answers what the same call on a map would.
Map == INSTANCE SortedMap WITH dict <- Content, out <- result

ImplementsSortedMap == Map!MapSpec

\* An iterator that is walked while the list changes misses nothing that
\* stays: a node that is ahead of the iterator and remains in the list is
\* still ahead of it after any Insert, Remove or Clear, also when the node
\* the iterator stands on is the one removed, and MoveToNext leaves behind
\* the one node it was on.
Opening == {"Iterate", "LowerBound", "UpperBound", "FindRange", "New"}

IteratorKeepsPath ==
    [][it' # NoIter /\ result'.op \notin Opening =>
         \A n \in Live \cap Live' :
             n \in Path(node, it) =>
                 \/ n \in Path(node', it')
                 \/ result'.op = "MoveToNext" /\ n = it.node]_vars

=============================================================================

----------------------------- MODULE Consistent -----------------------------
(***************************************************************************)
(* The bounded-load consistent-hashing ring of                             *)
(* src/consistent-hashing/lafikl_consistent/consistent.go.                 *)
(*                                                                         *)
(* One Consistent structure is shared by the goroutines in Threads.  Each  *)
(* exported method is an action (or a few, where the method can be         *)
(* observed half way).  A method that holds the exclusive lock from its    *)
(* first statement to its deferred Unlock is ONE step, enabled when no     *)
(* reader holds the lock: the only code that runs beside it is Inc, whose  *)
(* two atomic adds commute with what Add, Remove and Done write.  GetLeast *)
(* holds the read lock over a loop, so it is one step per iteration; Inc,  *)
(* which takes no lock at all, is one step per atomic add, and GetLoads,   *)
(* which takes none either, one step per entry its range visits.           *)
(*                                                                         *)
(* Indices into sortedSet are 0-based as in the Go code; At(s, i) reads    *)
(* the i-th element of the TLA+ (1-based) sequence.                        *)
(***************************************************************************)
EXTENDS Integers, Sequences, FiniteSets, TLC

Fn   == INSTANCE Functions
SeqX == INSTANCE SequencesExt

CONSTANTS
    HostNames,          \* the host strings callers pass to Add, Remove, Inc, ...
    Keys,               \* the request keys callers pass to Get and GetLeast
    Threads,            \* the goroutines that call into the structure
    replicationFactor,  \* virtual nodes per host (10 in the source)
    hash,               \* the 64-bit digest, on replica names and on keys
    MaxHostLoad,        \* bound: Inc and UpdateLoad keep a host's load <= this
    MinHostLoad,        \* bound: Done keeps a host's load >= this
    MaxTotalLoad,       \* bound: no step raises totalLoad above this
    MinTotalLoad,       \* bound: no step lowers totalLoad below this
    LoadValues          \* the loads callers pass to UpdateLoad

Replicas == 0 .. (replicationFactor - 1)

\* fmt.Sprintf("%s%d", host, i): with a single digit i the text determines
\* the pair, so the replica name is modelled as the pair itself.
ReplicaName(host, i) == <<host, i>>

ReplicaNames == HostNames \X Replicas

ASSUME /\ replicationFactor \in Nat \ {0}
       /\ hash \in [ReplicaNames \cup Keys -> Nat]
       \* A 64-bit digest of a handful of names: collisions between
       \* virtual nodes are taken not to happen.
       /\ \A a, b \in ReplicaNames : hash[a] = hash[b] => a = b
       /\ LoadValues \subseteq MinHostLoad .. MaxHostLoad
       /\ MinTotalLoad <= 0 /\ 0 <= MaxTotalLoad

VARIABLES
    hosts,      \* map[uint64]string : ring position -> host
    sortedSet,  \* []uint64          : the ring positions, ascending
    loadMap,    \* map[string]*Host  : host -> Load
    totalLoad,  \* int64
    readers,    \* the goroutines inside RLock ... RUnlock of the RWMutex
    pc,         \* where each goroutine is: "idle" or inside a method
    walk,       \* the locals of the loop a goroutine is in: GetLeast's idx
                \* and i, or GetLoads' loads and the keys its range began on
    ret         \* what each goroutine's last call returned

ring  == <<hosts, sortedSet>>
loads == <<loadMap, totalLoad>>
vars  == <<hosts, sortedSet, loadMap, totalLoad, readers, pc, walk, ret>>

-----------------------------------------------------------------------------
(* Values *)

Ok         == "ok"
True       == "true"
ErrNoHosts == "ErrNoHosts"
Panic      == "panic"
NoWalk     == [idx |-> 0, i |-> 0]

Ops == {"none", "Add", "Get", "GetLeast", "UpdateLoad", "Inc", "Done",
        "Remove", "GetLoads", "MaxLoad"}

Returned(op, val) == [op |-> op, val |-> val]

AllPositions == {hash[n] : n \in ReplicaNames}

At(s, i) == s[i + 1]

WithinBounds(load, total) ==
    /\ load  \in MinHostLoad .. MaxHostLoad
    /\ total \in MinTotalLoad .. MaxTotalLoad

-----------------------------------------------------------------------------
(* Helpers of the source *)

\* The positions Add inserts for host, in the order the loop appends them.
Appended(host) == [n \in 1 .. replicationFactor |-> hash[ReplicaName(host, n - 1)]]

\* Mutation (ImplementsRing): the predicate of search written with > for >=,
\* so that a key whose digest is a ring position goes to the next position.
RECURSIVE sortSearchStrict(_, _, _)
sortSearchStrict(i, j, key) ==
    IF i >= j THEN i
    ELSE LET h == (i + j) \div 2
         IN  IF At(sortedSet, h) > key
             THEN sortSearchStrict(i, h, key)
             ELSE sortSearchStrict(h + 1, j, key)

\* sort.Search(n, f): the binary search of the standard library, on [i, j).
RECURSIVE sortSearch(_, _, _)
sortSearch(i, j, key) ==
    IF i >= j THEN i
    ELSE LET h == (i + j) \div 2
         IN  IF At(sortedSet, h) >= key
             THEN sortSearch(i, h, key)
             ELSE sortSearch(h + 1, j, key)

search(key) ==
    LET idx == sortSearch(0, Len(sortedSet), key)
    IN  IF idx >= Len(sortedSet) THEN 0 ELSE idx

\* delSlice's loop from index i on: an element is cut out in place and the
\* loop goes on at i + 1 of the shortened slice.
RECURSIVE delSliceFrom(_, _, _)
delSliceFrom(s, i, val) ==
    IF i >= Len(s) THEN s
    ELSE IF At(s, i) = val
         THEN delSliceFrom(SubSeq(s, 1, i) \o SubSeq(s, i + 2, Len(s)), i + 1, val)
         ELSE delSliceFrom(s, i + 1, val)

delSlice(s, val) == delSliceFrom(s, 0, val)

\* Go's integer division truncates toward zero.
Quot(a, b) == IF a >= 0 THEN a \div b ELSE -((-a) \div b)

\* math.Ceil(avg * 1.25) of an integer-valued avg.
CeilTimes125(avg) == (5 * avg + 3) \div 4

\* Mutation (GetLeastReturns): the average without its "0 becomes 1" step.
AvgLoadPerNodeZero(total) == Quot(total, Cardinality(DOMAIN loadMap))

\* The two averages the source computes, each with its "0 becomes 1" step.
AvgLoadPerNode(total) ==
    LET avg == Quot(total, Cardinality(DOMAIN loadMap))
    IN  IF avg = 0 THEN 1 ELSE avg

\* loadOK reads totalLoad after its own clamp of a negative total to 0.
Clamped(total) == IF total < 0 THEN 0 ELSE total

\* Mutation (GetLeastReturnsWhenCovered): `<` for `<=` in loadOK's test.
loadOKStrict(host) ==
    loadMap[host] + 1 < CeilTimes125(AvgLoadPerNode(Clamped(totalLoad) + 1))

loadOK(host) ==
    loadMap[host] + 1 <= CeilTimes125(AvgLoadPerNode(Clamped(totalLoad) + 1))

\* Hosts() reads loadMap under the read lock and changes nothing.
Hosts == DOMAIN loadMap

-----------------------------------------------------------------------------
(* Steps every call shares *)

Idle(t) == pc[t] = "idle"

\* c.Lock() succeeds when no reader is inside; writers are single steps.
CanLock == readers = {}

Return(t, op, val) == ret' = [ret EXCEPT ![t] = Returned(op, val)]

-----------------------------------------------------------------------------
(* Add *)

AddKnown(t, host) ==
    /\ Idle(t) /\ CanLock
    /\ host \in DOMAIN loadMap
    /\ Return(t, "Add", Ok)
    /\ UNCHANGED <<ring, loads, readers, pc, walk>>

\* Mutation (RingWellFormed): Add without its sort.Slice.
AddNewUnsorted(t, host) ==
    /\ Idle(t) /\ CanLock
    /\ host \notin DOMAIN loadMap
    /\ loadMap' = [h \in DOMAIN loadMap \cup {host} |->
                      IF h = host THEN 0 ELSE loadMap[h]]
    /\ hosts' = [p \in DOMAIN hosts \cup Fn!Range(Appended(host)) |->
                      IF p \in Fn!Range(Appended(host)) THEN host ELSE hosts[p]]
    /\ sortedSet' = sortedSet \o Appended(host)
    /\ Return(t, "Add", Ok)
    /\ UNCHANGED <<totalLoad, readers, pc, walk>>

AddNew(t, host) ==
    /\ Idle(t) /\ CanLock
    /\ host \notin DOMAIN loadMap
    /\ loadMap' = [h \in DOMAIN loadMap \cup {host} |->
                      IF h = host THEN 0 ELSE loadMap[h]]
    /\ hosts' = [p \in DOMAIN hosts \cup Fn!Range(Appended(host)) |->
                      IF p \in Fn!Range(Appended(host)) THEN host ELSE hosts[p]]
    /\ sortedSet' = SortSeq(sortedSet \o Appended(host), <)
    /\ Return(t, "Add", Ok)
    /\ UNCHANGED <<totalLoad, readers, pc, walk>>

Add(t, host) == AddKnown(t, host) \/ AddNew(t, host)

-----------------------------------------------------------------------------
(* Get *)

GetNoHosts(t) ==
    /\ Idle(t)
    /\ DOMAIN hosts = {}
    /\ Return(t, "Get", ErrNoHosts)
    /\ UNCHANGED <<ring, loads, readers, pc, walk>>

GetOwner(t, key) ==
    /\ Idle(t)
    /\ DOMAIN hosts # {}
    /\ Return(t, "Get", hosts[At(sortedSet, search(hash[key]))])
    /\ UNCHANGED <<ring, loads, readers, pc, walk>>

Get(t, key) == GetNoHosts(t) \/ GetOwner(t, key)

-----------------------------------------------------------------------------
(* GetLeast: entry, then one step per iteration of the for loop *)

GetLeastNoHosts(t) ==
    /\ Idle(t)
    /\ DOMAIN hosts = {}
    /\ Return(t, "GetLeast", ErrNoHosts)
    /\ UNCHANGED <<ring, loads, readers, pc, walk>>

GetLeastEnter(t, key) ==
    /\ Idle(t)
    /\ DOMAIN hosts # {}
    /\ readers' = readers \cup {t}
    /\ LET idx == search(hash[key])
       IN  walk' = [walk EXCEPT ![t] = [idx |-> idx, i |-> idx]]
    /\ pc' = [pc EXCEPT ![t] = "GetLeast"]
    /\ UNCHANGED <<ring, loads, ret>>

\* The host the loop looks at.
Candidate(t) == hosts[At(sortedSet, walk[t].i)]

\* Mutation (WalkInsideRing): a return that leaves the read lock held.
GetLeastFoundLocked(t) ==
    /\ pc[t] = "GetLeast"
    /\ loadOK(Candidate(t))
    /\ totalLoad' = Clamped(totalLoad)
    /\ Return(t, "GetLeast", Candidate(t))
    /\ pc' = [pc EXCEPT ![t] = "idle"]
    /\ walk' = [walk EXCEPT ![t] = NoWalk]
    /\ UNCHANGED <<ring, loadMap, readers>>

GetLeastFound(t) ==
    /\ pc[t] = "GetLeast"
    /\ loadOK(Candidate(t))
    /\ totalLoad' = Clamped(totalLoad)
    /\ Return(t, "GetLeast", Candidate(t))
    /\ readers' = readers \ {t}
    /\ pc' = [pc EXCEPT ![t] = "idle"]
    /\ walk' = [walk EXCEPT ![t] = NoWalk]
    /\ UNCHANGED <<ring, loadMap>>

\* Mutation (GetLeastFirstEligible): the wrap one position early, so that
\* the walk never looks at the last position of the ring.
GetLeastAdvanceEarly(t) ==
    /\ pc[t] = "GetLeast"
    /\ ~loadOK(Candidate(t))
    /\ totalLoad' = Clamped(totalLoad)
    /\ walk' = [walk EXCEPT ![t].i =
                   IF @ + 1 >= Cardinality(DOMAIN hosts) - 1 THEN 0 ELSE @ + 1]
    /\ UNCHANGED <<ring, loadMap, readers, pc, ret>>

GetLeastAdvance(t) ==
    /\ pc[t] = "GetLeast"
    /\ ~loadOK(Candidate(t))
    /\ totalLoad' = Clamped(totalLoad)
    /\ walk' = [walk EXCEPT ![t].i =
                   IF @ + 1 >= Cardinality(DOMAIN hosts) THEN 0 ELSE @ + 1]
    /\ UNCHANGED <<ring, loadMap, readers, pc, ret>>

GetLeastStep(t) == GetLeastFound(t) \/ GetLeastAdvance(t)

GetLeast(t, key) == GetLeastNoHosts(t) \/ GetLeastEnter(t, key)

-----------------------------------------------------------------------------
(* UpdateLoad *)

UpdateLoadUnknown(t, host) ==
    /\ Idle(t) /\ CanLock
    /\ host \notin DOMAIN loadMap
    /\ Return(t, "UpdateLoad", Ok)
    /\ UNCHANGED <<ring, loads, readers, pc, walk>>

\* Mutation (TypeOK): UpdateLoad without `c.totalLoad -= old`, so that the
\* total grows with every call and leaves the range the loads allow.
UpdateLoadKnownAdds(t, host, load) ==
    /\ Idle(t) /\ CanLock
    /\ host \in DOMAIN loadMap
    /\ WithinBounds(load, totalLoad - loadMap[host] + load)
    /\ totalLoad' = totalLoad + load
    /\ loadMap' = [loadMap EXCEPT ![host] = load]
    /\ Return(t, "UpdateLoad", Ok)
    /\ UNCHANGED <<ring, readers, pc, walk>>

UpdateLoadKnown(t, host, load) ==
    /\ Idle(t) /\ CanLock
    /\ host \in DOMAIN loadMap
    /\ WithinBounds(load, totalLoad - loadMap[host] + load)
    /\ totalLoad' = (totalLoad - loadMap[host]) + load
    /\ loadMap' = [loadMap EXCEPT ![host] = load]
    /\ Return(t, "UpdateLoad", Ok)
    /\ UNCHANGED <<ring, readers, pc, walk>>

UpdateLoad(t, host, load) ==
    UpdateLoadUnknown(t, host) \/ UpdateLoadKnown(t, host, load)

-----------------------------------------------------------------------------
(* Inc: no lock; the map lookup with the first atomic add, then the second *)

IncPanic(t, host) ==
    /\ Idle(t)
    /\ host \notin DOMAIN loadMap
    /\ Return(t, "Inc", Panic)
    /\ UNCHANGED <<ring, loads, readers, pc, walk>>

IncLoad(t, host) ==
    /\ Idle(t)
    /\ host \in DOMAIN loadMap
    /\ WithinBounds(loadMap[host] + 1, totalLoad + 1)
    /\ loadMap' = [loadMap EXCEPT ![host] = @ + 1]
    /\ pc' = [pc EXCEPT ![t] = "Inc"]
    /\ Return(t, "Inc", host)
    /\ UNCHANGED <<ring, totalLoad, readers, walk>>

\* Mutation (TotalCoversLoads): Inc without its second atomic add.
IncTotalForgotten(t) ==
    /\ pc[t] = "Inc"
    /\ pc' = [pc EXCEPT ![t] = "idle"]
    /\ UNCHANGED <<ring, loads, readers, walk, ret>>

IncTotal(t) ==
    /\ pc[t] = "Inc"
    /\ totalLoad' = totalLoad + 1
    /\ pc' = [pc EXCEPT ![t] = "idle"]
    /\ UNCHANGED <<ring, loadMap, readers, walk, ret>>

Inc(t, host) == IncPanic(t, host) \/ IncLoad(t, host)

-----------------------------------------------------------------------------
(* Done *)

DoneUnknown(t, host) ==
    /\ Idle(t) /\ CanLock
    /\ host \notin DOMAIN loadMap
    /\ Return(t, "Done", Ok)
    /\ UNCHANGED <<ring, loads, readers, pc, walk>>

\* Mutation (AccountingKept): Done without its add of -1 to the total.
DoneKnownKeepsTotal(t, host) ==
    /\ Idle(t) /\ CanLock
    /\ host \in DOMAIN loadMap
    /\ WithinBounds(loadMap[host] - 1, totalLoad - 1)
    /\ loadMap' = [loadMap EXCEPT ![host] = @ - 1]
    /\ Return(t, "Done", Ok)
    /\ UNCHANGED <<ring, totalLoad, readers, pc, walk>>

\* Mutation (InFlightCovered): Done without its add of -1 to the host.
DoneKnownKeepsLoad(t, host) ==
    /\ Idle(t) /\ CanLock
    /\ host \in DOMAIN loadMap
    /\ WithinBounds(loadMap[host] - 1, totalLoad - 1)
    /\ totalLoad' = totalLoad - 1
    /\ Return(t, "Done", Ok)
    /\ UNCHANGED <<ring, loadMap, readers, pc, walk>>

DoneKnown(t, host) ==
    /\ Idle(t) /\ CanLock
    /\ host \in DOMAIN loadMap
    /\ WithinBounds(loadMap[host] - 1, totalLoad - 1)
    /\ loadMap' = [loadMap EXCEPT ![host] = @ - 1]
    /\ totalLoad' = totalLoad - 1
    /\ Return(t, "Done", Ok)
    /\ UNCHANGED <<ring, readers, pc, walk>>

Done(t, host) == DoneUnknown(t, host) \/ DoneKnown(t, host)

-----------------------------------------------------------------------------
(* Remove: no membership test, no change of totalLoad, always true *)

Remove(t, host) ==
    /\ Idle(t) /\ CanLock
    /\ hosts' = Fn!Restrict(hosts, DOMAIN hosts \ Fn!Range(Appended(host)))
    /\ sortedSet' = SeqX!FoldLeft(delSlice, sortedSet, Appended(host))
    /\ loadMap' = Fn!Restrict(loadMap, DOMAIN loadMap \ {host})
    /\ Return(t, "Remove", True)
    /\ UNCHANGED <<totalLoad, readers, pc, walk>>

-----------------------------------------------------------------------------
(* GetLoads: no lock; one step per entry of loadMap the range visits *)

GetLoadsEnter(t) ==
    /\ Idle(t)
    /\ pc' = [pc EXCEPT ![t] = "GetLoads"]
    /\ walk' = [walk EXCEPT ![t] = [from |-> DOMAIN loadMap, loads |-> <<>>]]
    /\ UNCHANGED <<ring, loads, readers, ret>>

\* The range visits a key once, with the load the host has then.
GetLoadsVisit(t) ==
    /\ pc[t] = "GetLoads"
    /\ \E k \in DOMAIN loadMap \ DOMAIN walk[t].loads :
          walk' = [walk EXCEPT ![t].loads = @ @@ (k :> loadMap[k])]
    /\ UNCHANGED <<ring, loads, readers, pc, ret>>

\* It ends when it has visited every key that was there from its start to
\* its end; a key that Add put in meanwhile it may have visited or not.
GetLoadsReturn(t) ==
    /\ pc[t] = "GetLoads"
    /\ (walk[t].from \cap DOMAIN loadMap) \subseteq DOMAIN walk[t].loads
    /\ pc' = [pc EXCEPT ![t] = "idle"]
    /\ walk' = [walk EXCEPT ![t] = NoWalk]
    /\ Return(t, "GetLoads", Ok)
    /\ UNCHANGED <<ring, loads, readers>>

GetLoadsStep(t) == GetLoadsVisit(t) \/ GetLoadsReturn(t)

-----------------------------------------------------------------------------
(* MaxLoad: no lock; writes totalLoad, then divides by the number of hosts *)

MaxLoadValue ==
    CeilTimes125(AvgLoadPerNode(IF totalLoad = 0 THEN 1 ELSE totalLoad))

MaxLoadPanic(t) ==
    /\ Idle(t)
    /\ DOMAIN loadMap = {}
    /\ totalLoad' = IF totalLoad = 0 THEN 1 ELSE totalLoad
    /\ Return(t, "MaxLoad", Panic)
    /\ UNCHANGED <<ring, loadMap, readers, pc, walk>>

MaxLoadReturn(t) ==
    /\ Idle(t)
    /\ DOMAIN loadMap # {}
    /\ totalLoad' = IF totalLoad = 0 THEN 1 ELSE totalLoad
    /\ Return(t, "MaxLoad", Ok)
    /\ UNCHANGED <<ring, loadMap, readers, pc, walk>>

MaxLoad(t) == MaxLoadPanic(t) \/ MaxLoadReturn(t)

-----------------------------------------------------------------------------
(* The structure New() returns, and any goroutine calling any method *)

Init ==
    /\ hosts = <<>>
    /\ sortedSet = <<>>
    /\ loadMap = <<>>
    /\ totalLoad = 0
    /\ readers = {}
    /\ pc = [t \in Threads |-> "idle"]
    /\ walk = [t \in Threads |-> NoWalk]
    /\ ret = [t \in Threads |-> Returned("none", Ok)]

Next ==
    \E t \in Threads :
        \/ \E host \in HostNames :
              \/ Add(t, host)
              \/ Remove(t, host)
              \/ Inc(t, host)
              \/ Done(t, host)
              \/ \E load \in LoadValues : UpdateLoad(t, host, load)
        \/ \E key \in Keys : Get(t, key) \/ GetLeast(t, key)
        \/ GetLeastStep(t)
        \/ IncTotal(t)
        \/ GetLoadsEnter(t) \/ GetLoadsStep(t)
        \/ MaxLoad(t)

Spec == Init /\ [][Next]_vars

\* A goroutine that is inside a method keeps running.
Fairness ==
    \A t \in Threads :
        WF_vars(GetLeastStep(t)) /\ WF_vars(IncTotal(t)) /\ WF_vars(GetLoadsStep(t))

FairSpec == Spec /\ Fairness

-----------------------------------------------------------------------------
(* Properties *)

Results == HostNames \cup {Ok, True, ErrNoHosts, Panic}

TypeOK ==
    /\ DOMAIN hosts \subseteq AllPositions
    /\ hosts \in [DOMAIN hosts -> HostNames]
    /\ sortedSet \in Seq(AllPositions)
    /\ DOMAIN loadMap \subseteq HostNames
    /\ loadMap \in [DOMAIN loadMap -> MinHostLoad .. MaxHostLoad]
    /\ totalLoad \in MinTotalLoad .. MaxTotalLoad
    /\ readers \subseteq Threads
    /\ pc \in [Threads -> {"idle", "GetLeast", "Inc", "GetLoads"}]
    /\ \A t \in Threads :
          IF pc[t] = "GetLoads"
          THEN /\ walk[t].from \subseteq HostNames
               /\ DOMAIN walk[t].loads \subseteq HostNames
               /\ Fn!Range(walk[t].loads) \subseteq MinHostLoad .. MaxHostLoad
          ELSE walk[t] \in [idx : Nat, i : Nat]
    /\ ret \in [Threads -> [op : Ops, val : Results]]

\* The three structures Add and Remove keep in step describe one ring: the
\* slice is strictly ascending (what search's bisection needs), it holds
\* exactly the keys of the hosts map, every position belongs to a host that
\* has a load entry (so loadOK never reaches its panic), and every
\* registered host has all replicationFactor positions of its own.
RingWellFormed ==
    /\ \A n \in 1 .. Len(sortedSet) - 1 : sortedSet[n] < sortedSet[n + 1]
    /\ Fn!Range(sortedSet) = DOMAIN hosts
    /\ \A p \in DOMAIN hosts :
          hosts[p] \in DOMAIN loadMap /\ p \in Fn!Range(Appended(hosts[p]))
    /\ \A h \in DOMAIN loadMap : Fn!Range(Appended(h)) \subseteq DOMAIN hosts

\* The inside of GetLeast is entered under the read lock and left with it
\* released, and the loop index stays inside the slice although it wraps on
\* len(c.hosts), the size of the map, not on the length of the slice.
WalkInsideRing ==
    \A t \in Threads :
        /\ t \in readers <=> pc[t] = "GetLeast"
        /\ pc[t] = "GetLeast" =>
              walk[t].i < Len(sortedSet) /\ walk[t].idx < Len(sortedSet)

\* Get, Add and Remove implement the abstract ring: whatever Add's append
\* and sort, delSlice's in-place cuts and search's bisection do to the
\* slice and the map, Get answers every key with the owner the successor
\* rule names for the current set of hosts.
RingAnswer(t) ==
    CASE ret[t].op = "Get"               -> ret[t].val
      [] ret[t].op \in {"Add", "Remove"} -> "ack"
      [] OTHER                           -> "elsewhere"

AbstractRing ==
    INSTANCE Ring WITH Callers <- Threads,
                       members <- Hosts,
                       answer  <- [t \in Threads |-> RingAnswer(t)]

ImplementsRing == AbstractRing!RingSpec

\* The order in which a walk that starts at index idx meets the positions.
Clockwise(idx) ==
    [n \in 1 .. Len(sortedSet) |-> (idx + n - 1) % Len(sortedSet)]

\* The host bounded-load hashing names for a walk from idx: the owner of
\* the first position, clockwise from idx, whose host can take one more.
FirstEligible(idx) ==
    LET order == Clockwise(idx)
        first == CHOOSE n \in DOMAIN order :
                    /\ loadOK(hosts[At(sortedSet, order[n])])
                    /\ \A m \in 1 .. n - 1 : ~loadOK(hosts[At(sortedSet, order[m])])
    IN  hosts[At(sortedSet, order[first])]

\* With one caller at a time, GetLeast's loop (i++, back to 0 at
\* len(c.hosts)) returns the first eligible host clockwise from the key's
\* successor, skipping none and not passing an eligible one.
GetLeastFirstEligible ==
    [][\A t \in Threads :
          (pc[t] = "GetLeast" /\ pc'[t] = "idle") =>
              ret'[t].val = FirstEligible(walk[t].idx)]_vars

\* How far totalLoad is from the loads it is meant to total.  An Inc between
\* its two adds has counted the host and not yet the total.
SumOfLoads == Fn!SumFunction(loadMap)
MidInc     == Cardinality({t \in Threads : pc[t] = "Inc"})
Drift      == (totalLoad + MidInc) - SumOfLoads

\* The three places where the source lets the total part from the sum.
RemoveDropsLoad ==
    \E h \in DOMAIN loadMap : h \notin DOMAIN loadMap' /\ loadMap[h] # 0
ClampLifts    == totalLoad < 0 /\ totalLoad' = 0
MaxLoadLifts  == totalLoad = 0 /\ totalLoad' = 1 /\ MidInc' = MidInc

\* totalLoad is kept by increments beside the loads (Inc, Done, UpdateLoad's
\* delta, Add's zero).  No step moves it away from their sum except the
\* three the source is known for: Remove of a loaded host, loadOK's clamp
\* of a negative total, and MaxLoad's write of 1 over 0.
AccountingKept ==
    [][Drift' # Drift => RemoveDropsLoad \/ ClampLifts \/ MaxLoadLifts]_vars

\* Spec section 4.2: GetLeast's walk is guaranteed to terminate.  The loop
\* of the source has no exit but an eligible host.
GetLeastReturns ==
    \A t \in Threads : pc[t] = "GetLeast" ~> pc[t] = "idle"

\* Whatever calls came before, on hosts known or not, a walk that begins
\* while totalLoad is no less than the sum of the loads returns: the least
\* loaded host then passes loadOK.  (Without that premise the walk can go
\* round for ever: Done on a host that holds no request, then Remove of
\* that host, leave the total below the loads that remain.)
GetLeastReturnsWhenCovered ==
    \A t \in Threads : (pc[t] = "GetLeast" /\ Drift >= 0) ~> pc[t] = "idle"

=============================================================================

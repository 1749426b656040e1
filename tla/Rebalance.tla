------------------------------ MODULE Rebalance ------------------------------
(***************************************************************************)
(* Rebalance of src/minikeyvalue/rebalance.go: the index database names,   *)
(* for every key, the volume servers that hold its object.  After a change *)
(* of the volumes, Rebalance walks the index and hands every key to a pool *)
(* of workers; rebalance moves one object to the volumes the key now maps  *)
(* to: it asks each recorded volume whether it has the object, reads it    *)
(* from the first that has, writes it where it is missing, records the new *)
(* volumes in the index, and deletes it where it no longer belongs.        *)
(*                                                                         *)
(* Every remote call is one step and may fail; remote_head gives up after  *)
(* a second, the other remote calls wait for their answer without a limit  *)
(* and may wait for ever.  The functions the file calls and does not       *)
(* define (remote_head, remote_get, remote_put, remote_delete,             *)
(* needs_rebalance, key2volume, PutRecord, the iterator of the database)   *)
(* are modelled by their contracts.                                        *)
(***************************************************************************)
EXTENDS Integers, Sequences, FiniteSets

Fn   == INSTANCE Functions
SeqX == INSTANCE SequencesExt

CONSTANTS
    Keys,       \* the keys of the index
    Volumes,    \* the volume servers, old and new
    Workers,    \* the goroutines of the pool (16 in the source)
    Capacity,   \* cap(reqs) (20000 in the source)
    Recorded,   \* the index before Rebalance: key -> sequence of volumes
    Target,     \* key2volume: key -> the volumes the key maps to now
    None        \* no request, no outcome

ASSUME /\ Capacity \in Nat \ {0}
       /\ Recorded \in [Keys -> Seq(Volumes) \ {<<>>}]
       /\ Target \in [Keys -> Seq(Volumes) \ {<<>>}]

VARIABLES
    db,         \* a.db: key -> Record.rvolumes
    store,      \* volume -> the keys whose object it holds
    todo,       \* what the iterator of Rebalance has yet to yield
    reqs,       \* the channel of requests
    closed,     \* close(reqs) has happened
    wg,         \* the WaitGroup's counter
    main,       \* where Rebalance is: "iterate", "send", "wait", "returned"
    worker,     \* worker -> [pc, req, rv, i, delErr]
    outcome     \* key -> what rebalance returned for it (the caller drops it)

vars == <<db, store, todo, reqs, closed, wg, main, worker, outcome>>

-----------------------------------------------------------------------------
(* Helpers *)

Members(seq) == Fn!Range(seq)

Holds(v, key) == key \in store[v]
Holders(key)  == {v \in Volumes : Holds(v, key)}

\* The volume has the object, or not, after a call that wrote or deleted.
With(v, key)    == [store EXCEPT ![v] = @ \cup {key}]
Without(v, key) == [store EXCEPT ![v] = @ \ {key}]

\* What a remote call may answer: an error always, success where `can`.
Answers(can) == {FALSE} \cup {can}

\* Differ in length or in some position.
needs_rebalance(volumes, kvolumes) == volumes # kvolumes

\* The first index from `from` on whose volume is not among `there`; 0 when
\* there is none: the inner loops that set needs_write and needs_delete.
NextNotIn(seq, from, there) ==
    LET js == {j \in from .. Len(seq) : seq[j] \notin Members(there)}
    IN  IF js = {} THEN 0 ELSE CHOOSE j \in js : \A h \in js : j <= h

Resting == [pc |-> "idle", req |-> None, rv |-> <<>>, i |-> 0, delErr |-> FALSE]

\* The worker goes on with the request it has.
Goes(w, rec) ==
    /\ worker' = [worker EXCEPT ![w] = rec]
    /\ UNCHANGED <<wg, outcome>>

\* rebalance returns `ok`; the counter goes down by `done`.
Returned(w, ok, done) ==
    /\ worker' = [worker EXCEPT ![w] = Resting]
    /\ outcome' = [outcome EXCEPT ![worker[w].req.key] = ok]
    /\ wg' = wg - done

\* A plausible slip: wg.Done() only for a request that succeeded.
FinishesCounted(w, ok) == Returned(w, ok, IF ok THEN 1 ELSE 0)

\* rebalance returns `ok`, and the worker's loop calls wg.Done().
Finishes(w, ok) == Returned(w, ok, 1)

-----------------------------------------------------------------------------
(* Rebalance: the producer *)

\* The first half of a turn of the loop over the iterator: the next key and
\* its record are read, and the request is counted.
Counts(at, to) ==
    /\ main = at
    /\ todo # <<>>
    /\ wg' = wg + 1
    /\ main' = to
    /\ UNCHANGED <<db, store, todo, reqs, closed, worker, outcome>>

\* The second half: the send, which waits while the channel is full.
Sends(at, to) ==
    /\ main = at
    /\ todo # <<>>
    /\ Len(reqs) < Capacity
    /\ reqs' = Append(reqs, [key      |-> Head(todo),
                             volumes  |-> db[Head(todo)],
                             kvolumes |-> Target[Head(todo)]])
    /\ todo' = Tail(todo)
    /\ main' = to
    /\ UNCHANGED <<db, store, closed, wg, worker, outcome>>

\* A plausible slip: the request is sent before it is counted.
IterateSendsFirst == Sends("iterate", "send") \/ Counts("send", "iterate")

\* wg.Add(1), then the send.
Iterate == Counts("iterate", "send") \/ Sends("send", "iterate")

Close ==
    /\ main = "iterate"
    /\ todo = <<>>
    /\ closed' = TRUE
    /\ main' = "wait"
    /\ UNCHANGED <<db, store, todo, reqs, wg, worker, outcome>>

\* A plausible slip: wg.Wait() left out.
WaitMissing ==
    /\ main = "wait"
    /\ main' = "returned"
    /\ UNCHANGED <<db, store, todo, reqs, closed, wg, worker, outcome>>

\* wg.Wait(): every request sent has been handled.
Wait ==
    /\ main = "wait"
    /\ wg = 0
    /\ main' = "returned"
    /\ UNCHANGED <<db, store, todo, reqs, closed, wg, worker, outcome>>

-----------------------------------------------------------------------------
(* The workers' loop *)

Receive(w) ==
    /\ worker[w].pc = "idle"
    /\ reqs # <<>>
    /\ reqs' = Tail(reqs)
    /\ worker' = [worker EXCEPT ![w] = [Resting EXCEPT !.pc = "head",
                                                      !.req = Head(reqs),
                                                      !.i = 1]]
    /\ UNCHANGED <<db, store, todo, closed, wg, main, outcome>>

\* `range reqs` ends on a closed and drained channel.
Exit(w) ==
    /\ worker[w].pc = "idle"
    /\ reqs = <<>>
    /\ closed
    /\ worker' = [worker EXCEPT ![w].pc = "exited"]
    /\ UNCHANGED <<db, store, todo, reqs, closed, wg, main, outcome>>

-----------------------------------------------------------------------------
(* rebalance: one action per remote call *)

\* From the next volume that needs the object written, or on to the index.
ThenPut(w, rec, from) ==
    LET j == NextNotIn(rec.req.kvolumes, from, rec.rv)
    IN  Goes(w, IF j # 0 THEN [rec EXCEPT !.pc = "put", !.i = j]
                ELSE [rec EXCEPT !.pc = "record"])

\* A plausible slip: the test of needs_delete inverted.
ThenDeleteKept(w, rec, from) ==
    LET js == {j \in from .. Len(rec.rv) : rec.rv[j] \in Members(rec.req.kvolumes)}
    IN  \/ \E j \in js : (\A h \in js : j <= h) /\ Goes(w, [rec EXCEPT !.pc = "delete", !.i = j])
        \/ js = {} /\ Finishes(w, ~rec.delErr)

\* From the next real volume the key no longer maps to, or the return.
ThenDelete(w, rec, from) ==
    LET j == NextNotIn(rec.rv, from, rec.req.kvolumes)
    IN  \/ j # 0 /\ Goes(w, [rec EXCEPT !.pc = "delete", !.i = j])
        \/ j = 0 /\ Finishes(w, ~rec.delErr)

\* A plausible slip: the lengths alone are compared.
DecidedByLength(w, rec) ==
    \/ rec.rv = <<>> /\ Finishes(w, FALSE)
    \/ rec.rv # <<>> /\ Len(rec.rv) = Len(rec.req.kvolumes) /\ Finishes(w, TRUE)
    \/ Len(rec.rv) \notin {0, Len(rec.req.kvolumes)} /\ Goes(w, [rec EXCEPT !.pc = "get"])

\* After the last remote_head: nothing real, nothing to do, or the move.
Decided(w, rec) ==
    \/ rec.rv = <<>> /\ Finishes(w, FALSE)
    \/ rec.rv # <<>> /\ ~needs_rebalance(rec.rv, rec.req.kvolumes) /\ Finishes(w, TRUE)
    \/ rec.rv # <<>> /\ needs_rebalance(rec.rv, rec.req.kvolumes)
          /\ Goes(w, [rec EXCEPT !.pc = "get"])

\* remote_head of the i-th recorded volume, with a timeout of a second.
RemoteHead(w) ==
    LET r == worker[w]
        v == r.req.volumes[r.i]
    IN  /\ r.pc = "head"
        /\ \E found \in Answers(Holds(v, r.req.key)) :
              LET rec == [r EXCEPT !.rv = IF found THEN Append(@, v) ELSE @]
              IN  \/ r.i < Len(r.req.volumes) /\ Goes(w, [rec EXCEPT !.i = @ + 1])
                  \/ r.i = Len(r.req.volumes) /\ Decided(w, rec)
        /\ UNCHANGED <<db, store, todo, reqs, closed, main>>

\* remote_get from the first real volume.
RemoteGet(w) ==
    LET r == worker[w] IN
    /\ r.pc = "get"
    /\ \E ok \in Answers(Holds(r.rv[1], r.req.key)) :
          \/ ok /\ ThenPut(w, r, 1)
          \/ ~ok /\ Finishes(w, FALSE)
    /\ UNCHANGED <<db, store, todo, reqs, closed, main>>

\* A plausible slip: the error of remote_put is printed and not returned.
RemotePutGoesOn(w) ==
    LET r == worker[w] IN
    /\ r.pc = "put"
    /\ store' \in {store, With(r.req.kvolumes[r.i], r.req.key)}
    /\ ThenPut(w, r, r.i + 1)
    /\ UNCHANGED <<db, todo, reqs, closed, main>>

\* remote_put to the i-th target volume.  A put that reports an error may
\* have written the object or not.
RemotePut(w) ==
    LET r == worker[w]
        v == r.req.kvolumes[r.i]
    IN  /\ r.pc = "put"
        /\ \/ store' = With(v, r.req.key) /\ ThenPut(w, r, r.i + 1)
           \/ store' \in {store, With(v, r.req.key)} /\ Finishes(w, FALSE)
        /\ UNCHANGED <<db, todo, reqs, closed, main>>

\* a.PutRecord of the target volumes.
PutRecord(w) ==
    LET r == worker[w] IN
    /\ r.pc = "record"
    /\ \/ /\ db' = [db EXCEPT ![r.req.key] = r.req.kvolumes]
          /\ ThenDelete(w, r, 1)
       \/ /\ Finishes(w, FALSE)
          /\ UNCHANGED db
    /\ UNCHANGED <<store, todo, reqs, closed, main>>

\* remote_delete from the i-th real volume.  An error is remembered and the
\* loop goes on; the object may be gone all the same.
RemoteDelete(w) ==
    LET r == worker[w]
        v == r.rv[r.i]
    IN  /\ r.pc = "delete"
        /\ \/ store' = Without(v, r.req.key) /\ ThenDelete(w, r, r.i + 1)
           \/ /\ store' \in {store, Without(v, r.req.key)}
              /\ ThenDelete(w, [r EXCEPT !.delErr = TRUE], r.i + 1)
        /\ UNCHANGED <<db, todo, reqs, closed, main>>

\* remote_get, remote_put and remote_delete are given no timeout: a volume
\* that takes the request and never answers holds the worker for good.
\* What the volume did with the request before it fell silent is open.
Hangs(w) ==
    LET r == worker[w] IN
    /\ \/ r.pc = "get" /\ UNCHANGED store
       \/ r.pc = "put" /\ store' \in {store, With(r.req.kvolumes[r.i], r.req.key)}
       \/ r.pc = "delete" /\ store' \in {store, Without(r.rv[r.i], r.req.key)}
    /\ Goes(w, [r EXCEPT !.pc = "hung"])
    /\ UNCHANGED <<db, todo, reqs, closed, main>>

rebalance(w) ==
    RemoteHead(w) \/ RemoteGet(w) \/ RemotePut(w) \/ PutRecord(w) \/ RemoteDelete(w)

-----------------------------------------------------------------------------
(* The specification *)

Init ==
    /\ db = Recorded
    /\ store \in [Volumes -> SUBSET Keys]
    /\ todo = SeqX!SetToSeq(Keys)
    /\ reqs = <<>>
    /\ closed = FALSE
    /\ wg = 0
    /\ main = "iterate"
    /\ worker = [w \in Workers |-> Resting]
    /\ outcome = [k \in Keys |-> None]

Next ==
    \/ Iterate \/ Close \/ Wait
    \/ \E w \in Workers : Receive(w) \/ Exit(w) \/ rebalance(w) \/ Hangs(w)

Spec == Init /\ [][Next]_vars

\* The Go scheduler runs every goroutine that can run, and a remote call
\* that does not hang comes back, with an answer or an error.
Fairness ==
    /\ WF_vars(Iterate \/ Close \/ Wait)
    /\ \A w \in Workers : WF_vars(Receive(w) \/ rebalance(w))

FairSpec == Spec /\ Fairness

-----------------------------------------------------------------------------
(* Properties *)

Truthful(key) == Members(db[key]) \subseteq Holders(key)

Requests == [key : Keys, volumes : Seq(Volumes), kvolumes : Seq(Volumes)]

\* Type invariant.  It holds the two bounds a step could break: the
\* WaitGroup's counter never falls below zero, where sync panics (a worker
\* may call wg.Done as soon as it has the request, so wg.Add has to come
\* before the send), and the channel is never over its capacity.
TypeOK ==
    /\ db \in [Keys -> Seq(Volumes)]
    /\ store \in [Volumes -> SUBSET Keys]
    /\ todo \in Seq(Keys)
    /\ reqs \in Seq(Requests) /\ Len(reqs) <= Capacity
    /\ closed \in BOOLEAN
    /\ wg \in 0 .. Cardinality(Keys)
    /\ main \in {"iterate", "send", "wait", "returned"}
    /\ \A w \in Workers :
          /\ worker[w].pc \in {"idle", "head", "get", "put", "record", "delete", "hung",
                             "exited"}
          /\ worker[w].req \in Requests \cup {None}
          /\ worker[w].rv \in Seq(Volumes)
          /\ worker[w].i \in 0 .. Cardinality(Volumes)
          /\ worker[w].delErr \in BOOLEAN
    /\ outcome \in [Keys -> BOOLEAN \cup {None}]

\* No object is lost: whatever fails and however the workers interleave, a
\* key that some volume holds is held by some volume after every step of
\* rebalance (the deletes come after the puts and the index update, and
\* only from volumes the key no longer maps to).
NeverLost ==
    [][\A key \in Keys : Holders(key) # {} => Holders(key)' # {}]_vars

\* The index is never made to lie: a.PutRecord writes only volumes that
\* hold the object at that moment, and a record that names only holders
\* keeps doing so through the deletes that follow.
IndexTruthful ==
    [][\A key \in Keys :
          Truthful(key) \/ db'[key] # db[key] => Truthful(key)']_vars

\* When rebalance returns true, every volume the key maps to holds the
\* object.
SuccessMeansPlaced ==
    \A key \in Keys :
        outcome[key] = TRUE => Members(Target[key]) \subseteq Holders(key)

\* Rebalance returns only when every key of the index has been through
\* rebalance and no worker is still at work: wg.Add precedes the send, and
\* wg.Done follows the return of rebalance.
AllHandled ==
    main = "returned" =>
        /\ \A key \in Keys : outcome[key] # None
        /\ \A w \in Workers : worker[w].pc \in {"idle", "exited"}

Hung == {w \in Workers : worker[w].pc = "hung"}

\* Rebalance returns unless a remote call hangs: the producer is never left
\* waiting on a full channel or on the WaitGroup by a call that failed, by
\* a worker that left its loop, or by a request nobody received.  Only a
\* volume that never answers remote_get, remote_put or remote_delete,
\* which wait without a timeout, holds it.
RebalanceReturns == <>(main = "returned" \/ Hung # {})

=============================================================================

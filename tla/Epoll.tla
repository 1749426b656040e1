------------------------------- MODULE Epoll -------------------------------
(***************************************************************************)
(* The echo server of src/epoll/simple_epoll_example.go.                   *)
(*                                                                         *)
(* main listens, registers every connection it accepts with epoll          *)
(* (readable, edge-triggered) and starts a goroutine echo(fd) for every    *)
(* event on a connection.  echo reads and writes the descriptor until a    *)
(* read fails, and closes it.  A goroutine holds the NUMBER of a           *)
(* descriptor: the kernel resolves it at every call, so the numbers and    *)
(* the connections behind them are kept apart here.                        *)
(*                                                                         *)
(* The kernel and the clients are modelled by what the system calls        *)
(* promise: accept gives the lowest free descriptor, a connection taken    *)
(* from a non-blocking listener is itself blocking (the SetNonblock after  *)
(* Accept is given the listener again), an edge-triggered descriptor is    *)
(* reported once per arrival, and close takes it out of the epoll set.     *)
(* The bytes of a connection are chunks <<connection, number>>.            *)
(***************************************************************************)
EXTENDS Integers, Sequences, FiniteSets, Bags

BX == INSTANCE BagsExt
FX == INSTANCE FiniteSetsExt

CONSTANTS
    Conns,      \* the connections clients open, over the server's life
    MaxFd,      \* bound: the descriptors a connection can get are 1 .. MaxFd
    MaxSends,   \* bound: the chunks a client sends, per connection
    None        \* no connection behind a descriptor

Listener == 0               \* fd, the listening socket
Fds      == 1 .. MaxFd
Chunks   == UNION {{c} \X (1 .. MaxSends[c]) : c \in Conns}

VARIABLES
    conn,       \* per connection: peer, sent, inbox (unread), got (echoed back)
    backlog,    \* the connections waiting in the listen queue
    fdtab,      \* the descriptor table: number -> connection or None
    ready,      \* the connection descriptors epoll has an edge to report
    mainPc,     \* main: "start", "wait" (in EpollWait), "events", "stopped"
    batch,      \* events[ev:nevents], the part the for loop has not handled
    echoes      \* the bag of running echo goroutines: fd, pc, buf[:nbytes]

vars == <<conn, backlog, fdtab, ready, mainPc, batch, echoes>>

kernel == <<conn, backlog, fdtab, ready>>

-----------------------------------------------------------------------------
(* The kernel's side *)

Running == mainPc \notin {"start", "stopped"}

Free    == {f \in Fds : fdtab[f] = None}
FdsOf(c) == {f \in Fds : fdtab[f] = c}

\* What EPOLLIN reports: bytes to read, the peer's end of data, an error.
Readable(c) == conn[c].inbox # <<>> \/ conn[c].peer \in {"fin", "rst"}

Connect(c) ==
    /\ conn[c].peer = "away"
    /\ conn' = [conn EXCEPT ![c].peer = "open"]
    /\ backlog' = Append(backlog, c)
    /\ UNCHANGED <<fdtab, ready, mainPc, batch, echoes>>

Send(c) ==
    /\ conn[c].peer = "open" /\ conn[c].sent < MaxSends[c]
    /\ conn' = [conn EXCEPT ![c].sent = @ + 1,
                            ![c].inbox = Append(@, <<c, conn[c].sent + 1>>)]
    /\ ready' = ready \cup FdsOf(c)
    /\ UNCHANGED <<backlog, fdtab, mainPc, batch, echoes>>

\* The client closes ("fin") or the connection is reset ("rst", which
\* discards what was not read).
Shut(c, how) ==
    /\ conn[c].peer = "open"
    /\ conn' = [conn EXCEPT ![c].peer = how,
                            ![c].inbox = IF how = "rst" THEN <<>> ELSE @]
    /\ ready' = ready \cup FdsOf(c)
    /\ UNCHANGED <<backlog, fdtab, mainPc, batch, echoes>>

-----------------------------------------------------------------------------
(* main *)

\* os.Exit(1), or main returns: the process is gone, and its goroutines,
\* its descriptors and the connections behind them with it.
Exit ==
    /\ mainPc' = "stopped"
    /\ batch' = {} /\ echoes' = EmptyBag
    /\ backlog' = <<>> /\ fdtab' = [f \in Fds |-> None] /\ ready' = {}
    /\ UNCHANGED conn

\* Socket, SetNonblock, Bind, Listen, EpollCreate1 and the listener's
\* EpollCtl: any of the checked ones failing is os.Exit(1).
Setup ==
    /\ mainPc = "start"
    /\ \/ mainPc' = "wait" /\ UNCHANGED <<kernel, batch, echoes>>
       \/ Exit

\* The listener is level-triggered: reported while the queue is not empty.
Pending == ready \cup (IF backlog # <<>> THEN {Listener} ELSE {})

EpollWait ==
    /\ mainPc = "wait" /\ Pending # {}
    /\ batch' = Pending /\ ready' = {} /\ mainPc' = "events"
    /\ UNCHANGED <<conn, backlog, fdtab, echoes>>

\* EpollWait returns an error (EINTR when a signal arrives): break, and
\* main returns.
EpollWaitFails == mainPc = "wait" /\ Exit

\* Mutation (TypeOK): the loop test written ev <= nevents.
HandledOnePast(e) ==
    /\ batch' = batch \ {e}
    /\ mainPc' = "events"

\* ev++, and back to EpollWait after the last event.
Handled(e) ==
    /\ batch' = batch \ {e}
    /\ mainPc' = IF batch' = {} THEN "wait" ELSE "events"

\* Mutation (EchoedBack): break for continue after a failed Accept.
AcceptBreaks ==
    /\ mainPc = "events" /\ Listener \in batch /\ Free = {}
    /\ batch' = {} /\ mainPc' = "wait"
    /\ UNCHANGED <<kernel, echoes>>

\* Accept fails (no descriptor is free): continue.
AcceptFails ==
    /\ mainPc = "events" /\ Listener \in batch /\ Free = {}
    /\ Handled(Listener)
    /\ UNCHANGED <<kernel, echoes>>

\* Accept, and EpollCtl(EPOLL_CTL_ADD) of the new descriptor, which reports
\* at once what is already there to read; its failure is os.Exit(1).
Accept ==
    /\ mainPc = "events" /\ Listener \in batch /\ Free # {}
    /\ LET connFd == FX!Min(Free)
           c      == Head(backlog)
       IN  \/ /\ fdtab' = [fdtab EXCEPT ![connFd] = c]
              /\ backlog' = Tail(backlog)
              /\ ready' = ready \cup (IF Readable(c) THEN {connFd} ELSE {})
              /\ Handled(Listener)
              /\ UNCHANGED <<conn, echoes>>
           \/ Exit

NewEcho(f) == [fd |-> f, pc |-> "read", buf |-> <<>>]

\* Mutation (NothingStranded): echo started on events[0].Fd.
SpawnFirst(f) ==
    /\ mainPc = "events" /\ f \in batch \ {Listener}
    /\ echoes' = BX!BagAdd(echoes, NewEcho(FX!Min(batch \ {Listener})))
    /\ Handled(f)
    /\ UNCHANGED kernel

\* go echo(int(events[ev].Fd))
Spawn(f) ==
    /\ mainPc = "events" /\ f \in batch \ {Listener}
    /\ echoes' = BX!BagAdd(echoes, NewEcho(f))
    /\ Handled(f)
    /\ UNCHANGED kernel

-----------------------------------------------------------------------------
(* echo: one step per system call *)

\* What the kernel finds behind a descriptor at the moment of a call.
State(f)  == IF fdtab[f] = None THEN "closed" ELSE conn[fdtab[f]].peer
Unread(f) == IF fdtab[f] = None THEN <<>> ELSE conn[fdtab[f]].inbox

Goes(e, next) == echoes' = BX!BagAdd(BX!BagRemove(echoes, e), next)

\* Mutation (ResetIsClosed): the error of Read not tested, as its 0 is not.
ReadFailsOn(e) ==
    /\ e.pc = "read" /\ State(e.fd) \in {"closed", "rst"}
    /\ UNCHANGED vars

\* Read returns an error: break, and the deferred Close is next.
ReadFails(e) ==
    /\ e.pc = "read" /\ State(e.fd) \in {"closed", "rst"}
    /\ Goes(e, [e EXCEPT !.pc = "close"])
    /\ UNCHANGED <<kernel, mainPc, batch>>

\* Read returns all that is there (the buffer has 32 KiB).
ReadData(e) ==
    /\ e.pc = "read" /\ Unread(e.fd) # <<>>
    /\ conn' = [conn EXCEPT ![fdtab[e.fd]].inbox = <<>>]
    /\ Goes(e, [e EXCEPT !.pc = "write", !.buf = Unread(e.fd)])
    /\ UNCHANGED <<backlog, fdtab, ready, mainPc, batch>>

\* At the end of the peer's data Read returns 0 and no error: the loop
\* goes round, and reads again.
ReadEnd(e) ==
    /\ e.pc = "read" /\ State(e.fd) = "fin" /\ Unread(e.fd) = <<>>
    /\ UNCHANGED vars

\* Write, its result dropped: the bytes reach whoever is behind the
\* descriptor now, if that peer is still there.
Write(e) ==
    /\ e.pc = "write"
    /\ conn' = IF State(e.fd) = "open"
               THEN [conn EXCEPT ![fdtab[e.fd]].got = @ \o e.buf]
               ELSE conn
    /\ Goes(e, NewEcho(e.fd))
    /\ UNCHANGED <<backlog, fdtab, ready, mainPc, batch>>

\* defer syscall.Close(fd): the number is free again and leaves the epoll
\* set; the connection behind it now, whichever that is, is reset from
\* its peer's side.  EBADF on a number already closed goes unseen.
Close(e) ==
    /\ e.pc = "close"
    /\ fdtab' = [fdtab EXCEPT ![e.fd] = None]
    /\ ready' = ready \ {e.fd}
    /\ conn' = IF fdtab[e.fd] = None THEN conn
               ELSE [conn EXCEPT ![fdtab[e.fd]].peer = "rst",
                                 ![fdtab[e.fd]].inbox = <<>>]
    /\ echoes' = BX!BagRemove(echoes, e)
    /\ UNCHANGED <<backlog, mainPc, batch>>

echo(e) == ReadFails(e) \/ ReadData(e) \/ ReadEnd(e) \/ Write(e) \/ Close(e)

-----------------------------------------------------------------------------
(* The process, its clients, and the kernel between them *)

Init ==
    /\ conn = [c \in Conns |->
                 [peer |-> "away", sent |-> 0, inbox |-> <<>>, got |-> <<>>]]
    /\ backlog = <<>>
    /\ fdtab = [f \in Fds |-> None]
    /\ ready = {}
    /\ mainPc = "start"
    /\ batch = {}
    /\ echoes = EmptyBag

Client(c) == Connect(c) \/ Send(c) \/ \E how \in {"fin", "rst"} : Shut(c, how)

Main == EpollWait \/ Accept \/ AcceptFails \/ \E f \in Fds : Spawn(f)

EchoOn(f) == \E e \in BagToSet(echoes) : e.fd = f /\ echo(e)

Next ==
    \/ Setup
    \/ EpollWaitFails
    \/ Running /\ \/ \E c \in Conns : Client(c)
                  \/ Main
                  \/ \E f \in Fds : EchoOn(f)

Spec == Init /\ [][Next]_vars

\* The Go scheduler runs every goroutine that can run: main when EpollWait
\* has something to report, an echo when its call can return.  Nothing is
\* assumed of the clients, nor that EpollWait does not fail.
Fairness == WF_vars(Main) /\ \A f \in Fds : WF_vars(Running /\ EchoOn(f))

FairSpec == Spec /\ Fairness

-----------------------------------------------------------------------------
(* Properties *)

Echoes == [fd : Fds, pc : {"read", "write", "close"}, buf : Seq(Chunks)]

TypeOK ==
    /\ conn \in [Conns -> [peer : {"away", "open", "fin", "rst"},
                           sent : Nat,
                           inbox : Seq(Chunks), got : Seq(Chunks)]]
    /\ backlog \in Seq(Conns)
    /\ fdtab \in [Fds -> Conns \cup {None}]
    /\ ready \subseteq Fds \ Free
    /\ mainPc \in {"start", "wait", "events", "stopped"}
    /\ batch \subseteq Fds \cup {Listener}
    /\ mainPc = "events" <=> batch # {}
    /\ IsABag(echoes) /\ BagToSet(echoes) \subseteq Echoes

\* Edge-triggered epoll reports an arrival once, so an event that is
\* dropped is gone.  While the server runs, every descriptor with
\* something to read (bytes, the end of the peer's data, a reset) has an
\* event on its way to main's loop or a goroutine that holds its number:
\* between Accept and EPOLL_CTL_ADD, EpollWait and the for loop, and the
\* goroutines that come and go, no arrival falls through.
Served(f) ==
    \/ f \in ready \cup batch
    \/ \E e \in BagToSet(echoes) : e.fd = f

NothingStranded ==
    Running => \A f \in Fds \ Free : Readable(fdtab[f]) => Served(f)

\* What a client sent on an accepted connection comes back to it, unless
\* the connection ends or the server stops first: also when Accept fails
\* beside it for want of a descriptor, and when several goroutines share
\* the descriptor.
EchoedBack ==
    \A c \in Conns : \A k \in 1 .. MaxSends[c] :
        (FdsOf(c) # {} /\ conn[c].sent >= k)
            ~> \/ \E i \in DOMAIN conn[c].got : conn[c].got[i] = <<c, k>>
               \/ conn[c].peer # "open"
               \/ ~Running

\* The descriptor of a connection that was reset is closed, unless the
\* server stops first: the event reaches main, main starts an echo, its
\* Read fails and the deferred Close runs.
ResetIsClosed ==
    \A c \in Conns :
        (conn[c].peer = "rst" /\ FdsOf(c) # {}) ~> (FdsOf(c) = {} \/ ~Running)

\* An echo server sends a client the bytes that client sent.  echo holds
\* the number of a descriptor across Read, Write and Close, while another
\* echo on the same number may close it and Accept give it out again.
EchoToSender ==
    \A c \in Conns : \A i \in DOMAIN conn[c].got : conn[c].got[i][1] = c

=============================================================================

------------------------------- MODULE ScpCopy -------------------------------
(***************************************************************************)
(* The SCP client of src/go-scp/client.go.  Copy starts two goroutines on  *)
(* one SSH session: the writer takes the session's pipes and speaks the    *)
(* SCP protocol (header, answer, data, a zero byte, answer); the runner    *)
(* calls Session.Run, which starts `scp -t` on the remote and waits for it *)
(* to exit.  Each sends its error, if any, to errCh.  Copy waits for both  *)
(* in waitTimeout, against a timer, and returns the first error of errCh.  *)
(* The Client is made by the ClientConfigurer of src/go-scp/configurer.go:  *)
(* defaults, setters that change one option each, and Create, which copies *)
(* the options into a Client.                                              *)
(*                                                                         *)
(* The session and the remote command are not code of the repository; they *)
(* are modelled by their contracts: a pipe can be taken only before the    *)
(* session has started, a session started without a stdin pipe gives the   *)
(* command an empty stdin, and `scp -t` answers once when it is ready,     *)
(* once to every header and once to every file, and exits with a status    *)
(* that tells whether anything failed.                                     *)
(***************************************************************************)
EXTENDS Integers, Sequences

VARIABLES
    conf,       \* the ClientConfigurer: [host, clientConfig, timeout, remoteBinary]
    cl,         \* the Client that Create returned: the same fields
    client,     \* what Connect left: "none", "failed", "conn", "session", "closed"
    main,       \* the caller: "idle", "select" (in waitTimeout), "returned", "crashed"
    result,     \* what Copy returned
    pc,         \* goroutine -> where it is
    pending,    \* goroutine -> the error it is about to send
    wg,         \* the WaitGroup's counter
    errCh,      \* the errors sent and not received
    errClosed,  \* close(errCh) has happened
    c,          \* the channel of waitTimeout is closed
    timer,      \* time.After(timeout) has fired
    session,    \* [started, alive, piped]
    stdin,      \* what the writer wrote and the remote has not read
    stdinEOF,   \* the remote's stdin is at its end
    stdout,     \* the answers of the remote the writer has not read
    remote,     \* [pc, errs]: the `scp -t` process
    hist        \* [fault, delivered]: what the environment did, for the properties

made   == <<conf, cl>>
caller == <<made, client, main, result>>
sync   == <<wg, errCh, errClosed, c, timer>>
ssh    == <<session, stdin, stdinEOF, stdout, remote>>
vars   == <<caller, pc, pending, sync, ssh, hist>>

Goroutines == {"writer", "runner", "waiter"}

\* make(chan error, 2).
ErrChCap == 2

\* What the options are told apart by: a host that answers or not, a
\* configuration it accepts or not, the default timeout or another, a binary
\* the remote has on its path or a path where there is none.
Options == [host : {"up", "down"}, clientConfig : {"accepted", "refused"},
            timeout : {"minute", "other"}, remoteBinary : {"scp", "absent"}]
None == [made |-> FALSE]

-----------------------------------------------------------------------------
(* Helpers *)

Moves(p, to) == pc' = [pc EXCEPT ![p] = to] /\ UNCHANGED pending

\* `errCh <- err` is what the goroutine does next.
Fails(p, err) ==
    /\ pc' = [pc EXCEPT ![p] = "send"]
    /\ pending' = [pending EXCEPT ![p] = err]

\* The remote can be written to and read from.
Up == session.alive /\ remote.pc # "exited"

Faulty == hist' = [hist EXCEPT !.fault = TRUE]

-----------------------------------------------------------------------------
(* The configurer.  It is followed until Create: the Client is a copy. *)

Configuring == conf # None /\ cl = None

Set(field, to) ==
    /\ Configuring
    /\ conf' = [conf EXCEPT ![field] = to]
    /\ UNCHANGED <<cl, client, main, result, pc, pending, sync, ssh, hist>>

\* The defaults: a minute, and "scp" wherever the remote's path has it.
NewConfigurer(host, config) ==
    /\ conf = None
    /\ conf' = [host |-> host, clientConfig |-> config,
                timeout |-> "minute", remoteBinary |-> "scp"]
    /\ UNCHANGED <<cl, client, main, result, pc, pending, sync, ssh, hist>>

RemoteBinary(path) == Set("remoteBinary", path)
Host(host) == Set("host", host)
Timeout(timeout) == Set("timeout", timeout)
ClientConfig(config) == Set("clientConfig", config)

Create ==
    /\ Configuring
    /\ cl' = conf
    /\ UNCHANGED <<conf, client, main, result, pc, pending, sync, ssh, hist>>

Configurer ==
    \/ \E o \in Options :
          \/ NewConfigurer(o.host, o.clientConfig)
          \/ RemoteBinary(o.remoteBinary) \/ Host(o.host)
          \/ Timeout(o.timeout) \/ ClientConfig(o.clientConfig)
    \/ Create

-----------------------------------------------------------------------------
(* The caller: Connect, Copy, Close *)

\* ssh.Dial(a.Host, a.ClientConfig) fails, NewSession fails, or both succeed.
Connect ==
    /\ main = "idle"
    /\ cl # None
    /\ client = "none"
    /\ \/ client' = "failed"
       \/ /\ cl.host = "up" /\ cl.clientConfig = "accepted"
          /\ client' \in {"conn", "session"}
    /\ UNCHANGED <<made, main, result, pc, pending, sync, ssh, hist>>

\* Copy up to the select of waitTimeout, with wg.Add(n): the two goroutines
\* and the one of waitTimeout are started.  Without a session the first call
\* on it panics.
Copies(n) ==
    /\ main = "idle"
    /\ \/ /\ client \in {"session", "closed"}
          /\ wg' = n
          /\ pc' = [pc EXCEPT !["writer"] = "StdinPipe", !["runner"] = "Run",
                              !["waiter"] = "Wait"]
          /\ main' = "select"
       \/ /\ client \in {"none", "failed", "conn"}
          /\ main' = "crashed"
          /\ UNCHANGED <<wg, pc>>
    /\ UNCHANGED <<made, client, result, pending, errCh, errClosed, c, timer, ssh, hist>>

\* A plausible slip: wg.Add(1) for two goroutines.
CopyAddsOne == Copies(1)

Copy == Copies(2)

\* close(c).
closes ==
    /\ pc["waiter"] = "Wait"
    /\ c' = TRUE
    /\ Moves("waiter", "done")
    /\ UNCHANGED <<caller, wg, errCh, errClosed, timer, ssh, hist>>

\* A plausible slip: c is closed before wg.Wait() instead of after it.
waiterClosesFirst == closes

\* The goroutine of waitTimeout: wg.Wait(), close(c).
waiter == wg = 0 /\ closes

\* time.After(a.Timeout): the remote was slower than the timeout.
After ==
    /\ main = "select"
    /\ ~timer
    /\ timer' = TRUE
    /\ Faulty
    /\ UNCHANGED <<caller, pc, pending, wg, errCh, errClosed, c, ssh>>

\* The rest of Copy after c: close(errCh), and the first error in it.
Collected ==
    /\ c
    /\ errClosed' = TRUE
    /\ result' = IF errCh = <<>> THEN "nil" ELSE Head(errCh)
    /\ errCh' = IF errCh = <<>> THEN <<>> ELSE Tail(errCh)

\* A plausible slip: wg.Wait() in place of waitTimeout.
waitNoTimeout ==
    /\ main = "select"
    /\ Collected
    /\ main' = "returned"
    /\ UNCHANGED <<made, client, pc, pending, wg, c, timer, ssh, hist>>

\* The select of waitTimeout and the rest of Copy.
waitTimeout ==
    /\ main = "select"
    /\ \/ Collected
       \/ timer /\ result' = "timeout" /\ UNCHANGED <<errCh, errClosed>>
    /\ main' = "returned"
    /\ UNCHANGED <<made, client, pc, pending, wg, c, timer, ssh, hist>>

\* Session.Close and Conn.Close: every call on the session fails from now
\* on, and the remote command loses its stdin.
Close ==
    /\ main \in {"idle", "returned"}
    /\ \/ /\ client = "session"
          /\ client' = "closed"
          /\ session' = [session EXCEPT !.alive = FALSE]
          /\ stdinEOF' = TRUE
          /\ UNCHANGED main
       \/ /\ client \in {"none", "failed", "conn"}
          /\ main' = "crashed"
          /\ UNCHANGED <<client, session, stdinEOF>>
    /\ UNCHANGED <<made, result, pc, pending, sync, stdin, stdout, remote, hist>>

-----------------------------------------------------------------------------
(* The goroutines of Copy *)

\* errCh <- err; return: the deferred wg.Done() (`done` times) and, in the
\* writer once it has the pipe, w.Close().
Sent(p, done) ==
    /\ pc[p] = "send"
    /\ Len(errCh) < ErrChCap
    /\ errCh' = Append(errCh, pending[p])
    /\ wg' = wg - done
    /\ Moves(p, "done")
    /\ stdinEOF' = (stdinEOF \/ (p = "writer" /\ session.piped))
    /\ UNCHANGED <<caller, errClosed, c, timer, session, stdin, stdout, remote, hist>>

\* A plausible slip: return without wg.Done().
SendsNotDone(p) == Sent(p, 0)

Sends(p) == Sent(p, 1)

\* a.Session.StdinPipe().
StdinPipe ==
    /\ pc["writer"] = "StdinPipe"
    /\ \/ /\ session.started
          /\ Fails("writer", "pipe")
          /\ UNCHANGED session
       \/ /\ ~session.started
          /\ session' = [session EXCEPT !.piped = TRUE]
          /\ Moves("writer", "StdoutPipe")
    /\ UNCHANGED <<caller, sync, stdin, stdinEOF, stdout, remote, hist>>

\* a.Session.StdoutPipe().
StdoutPipe ==
    /\ pc["writer"] = "StdoutPipe"
    /\ \/ session.started /\ Fails("writer", "pipe")
       \/ ~session.started /\ Moves("writer", "header")
    /\ UNCHANGED <<caller, sync, ssh, hist>>

\* A write to w: the header, the contents (which may fail at the caller's
\* reader), the zero byte.
Writes(at, what, then) ==
    /\ pc["writer"] = at
    /\ \/ Up /\ stdin' = Append(stdin, what) /\ Moves("writer", then) /\ UNCHANGED hist
       \/ ~Up /\ Fails("writer", "write") /\ UNCHANGED <<stdin, hist>>
       \/ at = "data" /\ Fails("writer", "read") /\ Faulty /\ UNCHANGED stdin
    /\ UNCHANGED <<caller, sync, session, stdinEOF, stdout, remote>>

\* checkResponse(stdout): the next answer of the remote, or the end of its
\* output.  After the second one the writer returns.
checkResponse(at, then) ==
    /\ pc["writer"] = at
    /\ \/ /\ stdout # <<>>
          /\ stdout' = Tail(stdout)
          /\ \/ Head(stdout) = "ok" /\ then # "done" /\ Moves("writer", then)
                   /\ UNCHANGED <<wg, stdinEOF>>
             \/ Head(stdout) = "ok" /\ then = "done" /\ Moves("writer", then)
                   /\ wg' = wg - 1 /\ stdinEOF' = TRUE
             \/ Head(stdout) = "fail" /\ Fails("writer", "response")
                   /\ UNCHANGED <<wg, stdinEOF>>
       \/ /\ stdout = <<>> /\ ~Up
          /\ Fails("writer", "response")
          /\ UNCHANGED <<stdout, wg, stdinEOF>>
    /\ UNCHANGED <<caller, errCh, errClosed, c, timer, session, stdin, remote, hist>>

writer ==
    \/ StdinPipe \/ StdoutPipe
    \/ Writes("header", "C", "answer1") \/ checkResponse("answer1", "data")
    \/ Writes("data", "contents", "zero") \/ Writes("zero", "0", "answer2")
    \/ checkResponse("answer2", "done")

\* Session.Run(a.RemoteBinary ...), its first half: the command is started,
\* or the request fails.  Without a stdin pipe the command's stdin is
\* empty; where the remote has no such binary its shell exits at once.
Start ==
    /\ pc["runner"] = "Run"
    /\ \/ /\ session.alive
          /\ session' = [session EXCEPT !.started = TRUE]
          /\ \/ /\ cl.remoteBinary = "scp"
                /\ remote' = [remote EXCEPT !.pc = "ready"]
                /\ UNCHANGED hist
             \/ /\ cl.remoteBinary = "absent"
                /\ remote' = [pc |-> "exited", errs |-> TRUE]
                /\ Faulty
          /\ stdinEOF' = (stdinEOF \/ ~session.piped)
          /\ Moves("runner", "Wait")
       \/ /\ Fails("runner", "run")
          /\ hist' = [hist EXCEPT !.fault = @ \/ session.alive]
          /\ UNCHANGED <<session, remote, stdinEOF>>
    /\ UNCHANGED <<caller, sync, stdin, stdout>>

\* A plausible slip: the error of Run is dropped.
RunsUnchecked ==
    /\ pc["runner"] = "Wait"
    /\ ~Up
    /\ wg' = wg - 1
    /\ Moves("runner", "done")
    /\ UNCHANGED <<caller, errCh, errClosed, c, timer, ssh, hist>>

\* Session.Run, its second half: the command has exited, with a status, or
\* the session is gone.
Runs ==
    /\ pc["runner"] = "Wait"
    /\ ~Up
    /\ \/ session.alive /\ ~remote.errs /\ wg' = wg - 1 /\ Moves("runner", "done")
       \/ ~(session.alive /\ ~remote.errs) /\ Fails("runner", "run") /\ UNCHANGED wg
    /\ UNCHANGED <<caller, errCh, errClosed, c, timer, ssh, hist>>

-----------------------------------------------------------------------------
(* The remote: `scp -t`, and the connection *)

Answer(a) == stdout' = Append(stdout, a)

\* It says that it is ready.
Ready ==
    /\ remote.pc = "ready"
    /\ Answer("ok")
    /\ remote' = [remote EXCEPT !.pc = "header"]
    /\ UNCHANGED <<caller, pc, pending, sync, session, stdin, stdinEOF, hist>>

\* It reads what the writer wrote: a header, which it accepts or refuses;
\* the contents; the zero byte, on which it has the file or failed to write
\* it; anything else where a header is due.
Reads ==
    /\ session.alive
    /\ stdin # <<>>
    /\ stdin' = Tail(stdin)
    /\ LET at == <<remote.pc, Head(stdin)>> IN
       \/ /\ at = <<"header", "C">>
          /\ \/ Answer("ok") /\ remote' = [remote EXCEPT !.pc = "contents"] /\ UNCHANGED hist
             \/ Answer("fail") /\ remote' = [remote EXCEPT !.errs = TRUE] /\ Faulty
       \/ /\ at = <<"contents", "contents">>
          /\ remote' = [remote EXCEPT !.pc = "zero"]
          /\ UNCHANGED <<stdout, hist>>
       \/ /\ at = <<"zero", "0">>
          /\ \/ /\ Answer("ok")
                /\ remote' = [remote EXCEPT !.pc = "header"]
                /\ hist' = [hist EXCEPT !.delivered = TRUE]
             \/ /\ Answer("fail")
                /\ remote' = [pc |-> "header", errs |-> TRUE]
                /\ Faulty
       \/ /\ remote.pc = "header" /\ Head(stdin) # "C"
          /\ Answer("fail")
          /\ remote' = [remote EXCEPT !.errs = TRUE]
          /\ UNCHANGED hist
    /\ UNCHANGED <<caller, pc, pending, sync, session, stdinEOF>>

\* Its stdin has ended: it exits, with an error when it was inside a file.
Exits ==
    /\ remote.pc \in {"header", "contents", "zero"}
    /\ stdinEOF
    /\ stdin = <<>> \/ ~session.alive
    /\ remote' = [pc |-> "exited", errs |-> remote.errs \/ remote.pc # "header"]
    /\ UNCHANGED <<caller, pc, pending, sync, session, stdin, stdinEOF, stdout, hist>>

\* The connection is lost.
Lost ==
    /\ main = "select"
    /\ session.alive
    /\ session' = [session EXCEPT !.alive = FALSE]
    /\ stdinEOF' = TRUE
    /\ Faulty
    /\ UNCHANGED <<caller, pc, pending, sync, stdin, stdout, remote>>

-----------------------------------------------------------------------------
(* The specification *)

Init ==
    /\ conf = None
    /\ cl = None
    /\ client = "none"
    /\ main = "idle"
    /\ result = "none"
    /\ pc = [p \in Goroutines |-> "off"]
    /\ pending = [p \in {"writer", "runner"} |-> "none"]
    /\ wg = 0
    /\ errCh = <<>>
    /\ errClosed = FALSE
    /\ c = FALSE
    /\ timer = FALSE
    /\ session = [started |-> FALSE, alive |-> TRUE, piped |-> FALSE]
    /\ stdin = <<>>
    /\ stdinEOF = FALSE
    /\ stdout = <<>>
    /\ remote = [pc |-> "off", errs |-> FALSE]
    /\ hist = [fault |-> FALSE, delivered |-> FALSE]

Goroutine ==
    \/ writer \/ Start \/ Runs \/ waiter
    \/ \E p \in {"writer", "runner"} : Sends(p)

Next ==
    \/ Configurer
    \/ Connect \/ Copy \/ Close
    \/ waitTimeout \/ After
    \/ Goroutine
    \/ Ready \/ Reads \/ Exits \/ Lost

Spec == Init /\ [][Next]_vars

\* The Go scheduler runs every goroutine that can run, and the timer of
\* waitTimeout fires.  Nothing is assumed of the remote and of the caller.
Fairness ==
    /\ WF_vars(waitTimeout)
    /\ WF_vars(After)
    /\ WF_vars(Goroutine)

FairSpec == Spec /\ Fairness

-----------------------------------------------------------------------------
(* Properties *)

Errors == {"pipe", "write", "read", "response", "run"}

\* Type invariant.
TypeOK ==
    /\ conf \in Options \cup {None}
    /\ cl \in Options \cup {None}
    /\ client \in {"none", "failed", "conn", "session", "closed"}
    /\ main \in {"idle", "select", "returned", "crashed"}
    /\ result \in Errors \cup {"none", "nil", "timeout"}
    /\ pc \in [Goroutines -> {"off", "StdinPipe", "StdoutPipe", "header", "answer1",
                              "data", "zero", "answer2", "Run", "Wait", "send", "done"}]
    /\ pending \in [{"writer", "runner"} -> Errors \cup {"none"}]
    /\ wg \in 0 .. 2
    /\ errCh \in Seq(Errors) /\ Len(errCh) <= ErrChCap
    /\ errClosed \in BOOLEAN /\ c \in BOOLEAN /\ timer \in BOOLEAN
    /\ session \in [started : BOOLEAN, alive : BOOLEAN, piped : BOOLEAN]
    /\ stdin \in Seq({"C", "contents", "0"})
    /\ stdinEOF \in BOOLEAN
    /\ stdout \in Seq({"ok", "fail"})
    /\ remote \in [pc : {"off", "ready", "header", "contents", "zero", "exited"},
                   errs : BOOLEAN]
    /\ hist \in [fault : BOOLEAN, delivered : BOOLEAN]

\* When Copy returns nil the remote has the file.  The writer reads two
\* answers, the remote's "ready" and its answer to the header; the answer to
\* the contents is never read, and only the exit status that Session.Run
\* returns tells that the file was written.
NilMeansDelivered == result = "nil" => hist.delivered

\* errCh is closed only when both goroutines have returned: a send on a
\* closed channel panics.  Copy closes it after waitTimeout saw c closed,
\* which the waiter does after wg.Wait().
ClosedAfterSenders ==
    errClosed => pc["writer"] = "done" /\ pc["runner"] = "done"

\* Copy returns, whatever the remote does or fails to do.
CopyReturns == main = "select" ~> main = "returned"

\* Once the client is closed no goroutine of Copy is left behind, the one
\* of waitTimeout included: every call on a closed session fails, every
\* error finds room in errCh, and every return passes wg.Done().
NoGoroutineLeft ==
    client = "closed" ~> \A p \in Goroutines : pc[p] \in {"off", "done"}

\* The comment on Copy says that it copies the contents of an io.Reader to
\* a remote location: with a remote that has the binary and accepts the
\* file, a connection that holds and no timeout, Copy returns nil.  (It need
\* not: Copy starts Session.Run beside the goroutine that takes the
\* session's pipes, with nothing between them.)
HealthyCopySucceeds ==
    main = "returned" /\ ~hist.fault /\ client = "session" => result = "nil"

=============================================================================

------------------------------- MODULE Server -------------------------------
(***************************************************************************)
(* internal/server/server.go (Start, the frame of handleConnection,        *)
(* Shutdown) and cmd/gopostgres/main.go: the accept loop, the connection   *)
(* limit, the goroutine of each connection and the end of the process.     *)
(*                                                                         *)
(* What a handler does with a query is module Session; here it is either   *)
(* reading the next message or busy with a statement.                      *)
(***************************************************************************)
EXTENDS Integers, FiniteSets

CONSTANTS
    Clients,          \* the TCP clients
    MaxConnections    \* Config.MaxConnections

ASSUME ServerAssumption ==
    /\ IsFiniteSet(Clients)
    /\ MaxConnections \in Nat \ {0}

VARIABLES
    main,        \* where the main goroutine is: in main or in Start
    sig,         \* where the signal goroutine is: in main or in Shutdown
    signalled,   \* a SIGINT or SIGTERM has been delivered
    cancelled,   \* s.ctx has been cancelled
    listener,    \* s.listener
    conn,        \* the client's connection, and its handler once there is one
    activeConn,  \* the atomic counter the limit is checked against
    wg           \* the counter of the WaitGroup

svars == <<main, sig, signalled, cancelled, listener, conn, activeConn, wg>>

\* "backlog" is the kernel's queue; "accepted" is in the accept loop's hands;
\* the others are stages of the handler goroutine: Counted ones between its
\* change of activeConn and the deferred undoing of it, Waited ones between
\* wg.Add and wg.Done; in "done" only the connection remains to be closed.
Counted  == {"handshake", "reading", "busy"}
Waited   == {"spawned", "uncounted"} \cup Counted
ConnStates == {"none", "backlog", "accepted", "done"} \cup Waited

Exited == main \in {"exit0", "exit1"}

In(states) == {c \in Clients : conn[c] \in states}

SInit ==
    /\ main = "listen"
    /\ sig = "wait"
    /\ signalled = FALSE
    /\ cancelled = FALSE
    /\ listener = "nil"
    /\ conn = [c \in Clients |-> "none"]
    /\ activeConn = 0
    /\ wg = 0

Move(c, s) == conn' = [conn EXCEPT ![c] = s]

-----------------------------------------------------------------------------
(***************************************************************************)
(* The clients and the operating system.                                   *)
(***************************************************************************)
Dial(c) ==
    /\ ~Exited
    /\ listener = "open"
    /\ conn[c] = "none"
    /\ Move(c, "backlog")
    /\ UNCHANGED <<main, sig, signalled, cancelled, listener, activeConn, wg>>

Signal ==
    /\ ~Exited
    /\ ~signalled
    /\ signalled' = TRUE
    /\ UNCHANGED <<main, sig, cancelled, listener, conn, activeConn, wg>>

-----------------------------------------------------------------------------
(***************************************************************************)
(* The main goroutine: Start, and main after Start has returned.           *)
(***************************************************************************)
Listen ==
    /\ main = "listen"
    /\ \/ listener' = "open" /\ main' = "accept"
       \/ UNCHANGED listener /\ main' = "exit1"
    /\ UNCHANGED <<sig, signalled, cancelled, conn, activeConn, wg>>

Accept(c) ==
    /\ main = "accept"
    /\ listener = "open"
    /\ conn[c] = "backlog"
    /\ Move(c, "accepted")
    /\ main' = "check"
    /\ UNCHANGED <<sig, signalled, cancelled, listener, activeConn, wg>>

\* Accept fails for good once the listener is closed; before, it may run out of
\* file descriptors, or pass on a pending ETIMEDOUT.  net.Error.Timeout() is
\* true of ETIMEDOUT only: EMFILE is a temporary error, not a timeout.
AcceptErrors == {"closed", "timedOut", "tooManyOpenFiles"}
CanFail(err) == err = "closed" <=> listener = "closed"
Timeout(err) == err = "timedOut"

\* Mutant: the context is not consulted, and every fatal error ends in nil.
AcceptErrorNil(err) ==
    /\ main = "accept"
    /\ CanFail(err)
    /\ main' = IF Timeout(err) THEN "accept" ELSE "exit0"
    /\ UNCHANGED <<sig, signalled, cancelled, listener, conn, activeConn, wg>>

\* An error after Shutdown has cancelled the context ends Start with nil, and
\* main returns: the process exits.  Otherwise a timeout is retried and any
\* other error is fatal.
AcceptError(err) ==
    /\ main = "accept"
    /\ CanFail(err)
    /\ main' = IF cancelled THEN "exit0"
               ELSE IF Timeout(err) THEN "accept" ELSE "exit1"
    /\ UNCHANGED <<sig, signalled, cancelled, listener, conn, activeConn, wg>>

\* The limit is compared with the handlers that have counted themselves, then
\* the WaitGroup is told and the handler's goroutine is created.
CheckLimit(c) ==
    /\ main = "check"
    /\ conn[c] = "accepted"
    /\ main' = "accept"
    /\ IF activeConn >= MaxConnections
       THEN Move(c, "none") /\ UNCHANGED wg
       ELSE Move(c, "spawned") /\ wg' = wg + 1
    /\ UNCHANGED <<sig, signalled, cancelled, listener, activeConn>>

-----------------------------------------------------------------------------
(***************************************************************************)
(* handleConnection.  The deferred calls run in reverse order: the counter *)
(* of active connections, the WaitGroup, then the connection is closed.    *)
(***************************************************************************)
CountIn(c) ==
    /\ ~Exited
    /\ conn[c] = "spawned"
    /\ Move(c, "handshake")
    /\ activeConn' = activeConn + 1
    /\ UNCHANGED <<main, sig, signalled, cancelled, listener, wg>>

\* The handshake succeeds, a query arrives, or a statement is answered.
Proceed(c) ==
    /\ ~Exited
    /\ \/ conn[c] = "handshake" /\ Move(c, "reading")
       \/ conn[c] = "reading" /\ Move(c, "busy")
       \/ conn[c] = "busy" /\ Move(c, "reading")
    /\ UNCHANGED <<main, sig, signalled, cancelled, listener, activeConn, wg>>

\* Mutant: the handler that gives up in the handshake is not uncounted.
ReturnLeaksCount(c) ==
    /\ ~Exited
    /\ conn[c] \in Counted
    /\ Move(c, "uncounted")
    /\ activeConn' = IF conn[c] = "handshake" THEN activeConn ELSE activeConn - 1
    /\ UNCHANGED <<main, sig, signalled, cancelled, listener, wg>>

\* Mutant: an error path of the handshake uncounts the handler, and so does the
\* deferred call.
ReturnUncountsTwice(c) ==
    /\ ~Exited
    /\ conn[c] \in Counted
    /\ Move(c, "uncounted")
    /\ activeConn' = IF conn[c] = "handshake" THEN activeConn - 2 ELSE activeConn - 1
    /\ UNCHANGED <<main, sig, signalled, cancelled, listener, wg>>

\* A failed handshake, Terminate, a read error or a panic: the handler leaves.
HandlerReturn(c) ==
    /\ ~Exited
    /\ conn[c] \in Counted
    /\ Move(c, "uncounted")
    /\ activeConn' = activeConn - 1
    /\ UNCHANGED <<main, sig, signalled, cancelled, listener, wg>>

WgDone(c) ==
    /\ ~Exited
    /\ conn[c] = "uncounted"
    /\ Move(c, "done")
    /\ wg' = wg - 1
    /\ UNCHANGED <<main, sig, signalled, cancelled, listener, activeConn>>

CloseConn(c) ==
    /\ ~Exited
    /\ conn[c] = "done"
    /\ Move(c, "none")
    /\ UNCHANGED <<main, sig, signalled, cancelled, listener, activeConn, wg>>

-----------------------------------------------------------------------------
(***************************************************************************)
(* The signal goroutine: Shutdown.                                         *)
(***************************************************************************)
Cancel ==
    /\ ~Exited
    /\ sig = "wait"
    /\ signalled
    /\ cancelled' = TRUE
    /\ sig' = "close"
    /\ UNCHANGED <<main, signalled, listener, conn, activeConn, wg>>

\* Mutant: Shutdown cancels the context and leaves the listener open.
ShutdownKeepsListener ==
    /\ ~Exited
    /\ sig = "close"
    /\ sig' = "waitGroup"
    /\ UNCHANGED <<main, signalled, cancelled, listener, conn, activeConn, wg>>

\* Connections in the backlog are reset.  A nil listener is left alone.
CloseListener ==
    /\ ~Exited
    /\ sig = "close"
    /\ sig' = "waitGroup"
    /\ listener' = IF listener = "nil" THEN "nil" ELSE "closed"
    /\ conn' = [c \in Clients |->
                   IF conn[c] = "backlog" /\ listener = "open" THEN "none" ELSE conn[c]]
    /\ UNCHANGED <<main, signalled, cancelled, activeConn, wg>>

WaitGroup ==
    /\ ~Exited
    /\ sig = "waitGroup"
    /\ wg = 0
    /\ sig' = "returned"
    /\ UNCHANGED <<main, signalled, cancelled, listener, conn, activeConn, wg>>

-----------------------------------------------------------------------------
MainStep ==
    \/ Listen
    \/ \E err \in AcceptErrors : AcceptError(err)
    \/ \E c \in Clients : Accept(c) \/ CheckLimit(c)

SigStep == Cancel \/ CloseListener \/ WaitGroup

HandlerStep(c) == CountIn(c) \/ WgDone(c) \/ CloseConn(c)

SNext ==
    \/ MainStep
    \/ SigStep
    \/ Signal
    \/ \E c \in Clients :
        Dial(c) \/ HandlerStep(c) \/ Proceed(c) \/ HandlerReturn(c)

SSpec == SInit /\ [][SNext]_svars

\* Goroutines that can run do run.  Accept is not fair: it waits for a client,
\* and may fail or not; only a closed listener makes it return.  Clients owe
\* nothing, so neither do the handlers that wait for them.
SFairness ==
    /\ WF_svars(Listen)
    /\ WF_svars(AcceptError("closed"))
    /\ WF_svars(\E c \in Clients : CheckLimit(c))
    /\ WF_svars(SigStep)
    /\ \A c \in Clients : WF_svars(HandlerStep(c))

-----------------------------------------------------------------------------
STypeOK ==
    /\ main \in {"listen", "accept", "check", "exit0", "exit1"}
    /\ sig \in {"wait", "close", "waitGroup", "returned"}
    /\ signalled \in BOOLEAN
    /\ cancelled \in BOOLEAN
    /\ listener \in {"nil", "open", "closed"}
    /\ conn \in [Clients -> ConnStates]
    /\ activeConn \in Nat
    /\ wg \in Nat

\* The two counters never drift: activeConn is the number of handlers between
\* their first and their last counted statement, wg the number of handlers
\* that Shutdown has to wait for, whichever way each of them ends.
CountersExact ==
    /\ activeConn = Cardinality(In(Counted))
    /\ wg = Cardinality(In(Waited))

\* A connection is refused only while MaxConnections handlers really run: no
\* earlier connection, however it ended, has used up a place for good.
NoSpuriousRefusal ==
    [][\A c \in Clients :
          conn[c] = "accepted" /\ conn'[c] = "none" =>
              Cardinality(In(Counted)) >= MaxConnections]_svars

\* Start returns nil, and so the process exits with success, only in a
\* shutdown that a signal asked for.
ExitOnlyWhenSignalled == main = "exit0" => signalled

\* A signal that arrives while the server is listening ends the process, in
\* whatever state the connections and the accept loop are.
SignalEndsServer == (signalled /\ listener = "open" /\ sig = "wait") ~> Exited

-----------------------------------------------------------------------------
(***************************************************************************)
(* What comments and the README say, and the code does not do.             *)
(***************************************************************************)

\* README 1.1, "Graceful shutdown": the process does not exit while a
\* connection is in the middle of a statement.
GracefulExit == main = "exit0" => In({"busy"}) = {}
=============================================================================

------------------------------ MODULE LoadTest ------------------------------
(***************************************************************************)
(* cmd/loadtest/main.go against the server: workers that connect, finish   *)
(* the handshake and leave, over and over, until the test's time is up.    *)
(* It composes with Server, whose other clients go on as they please.      *)
(*                                                                         *)
(* A worker has one connection at a time, but the server may still be busy *)
(* with one that the worker has given up, so connections have places of    *)
(* their own, Slots.  On the wire there are the startup message, the       *)
(* ReadyForQuery that ends the server's answer to it, and Terminate; what  *)
(* the server sends before ReadyForQuery is skipped by the worker.         *)
(***************************************************************************)
EXTENDS Server

CONSTANTS
    Workers,       \* the worker goroutines
    Slots,         \* the connections the load test makes
    NoSlot,        \* no connection
    MaxAttempts    \* bound: the number of connections attempted

ASSUME LoadTestAssumption ==
    /\ IsFiniteSet(Workers)
    /\ Slots \subseteq Clients
    /\ NoSlot \notin Clients
    /\ MaxAttempts \in Nat

VARIABLES
    worker,    \* where each worker is
    slot,      \* the connection it holds
    client,    \* the client's end of a connection: open, startup (sent),
               \* terminated (Terminate sent, then closed) or gone (just closed)
    readySent, \* the connections on which the server has sent ReadyForQuery
    done,      \* the test's time is up
    attempts,  \* the connections attempted so far
    total,     \* the successes counted
    failed,    \* the failures counted
    ready      \* history: how often the server has sent ReadyForQuery

lvars == <<worker, slot, client, readySent, done, attempts, total, failed, ready>>

LInit ==
    /\ SInit
    /\ worker = [w \in Workers |-> "loop"]
    /\ slot = [w \in Workers |-> NoSlot]
    /\ client = [s \in Slots |-> "gone"]
    /\ readySent = {}
    /\ done = FALSE
    /\ attempts = 0 /\ total = 0 /\ failed = 0 /\ ready = 0

-----------------------------------------------------------------------------
(***************************************************************************)
(* The load test.                                                          *)
(***************************************************************************)
\* time.AfterFunc
Timer ==
    /\ ~done
    /\ done' = TRUE
    /\ UNCHANGED <<svars, worker, slot, client, readySent, attempts, total, failed, ready>>

To(w, at) == worker' = [worker EXCEPT ![w] = at]

\* The loop's test; the connection that follows is made even if time is up by
\* then.
Loop(w) ==
    /\ worker[w] = "loop"
    /\ \/ done /\ To(w, "ended") /\ UNCHANGED attempts
       \/ ~done /\ attempts < MaxAttempts /\ To(w, "dial") /\ attempts' = attempts + 1
    /\ UNCHANGED <<svars, slot, client, readySent, done, total, failed, ready>>

DialSlot(w, s) ==
    /\ worker[w] = "dial"
    /\ \A v \in Workers : slot[v] # s
    /\ Dial(s)
    /\ To(w, "startup")
    /\ slot' = [slot EXCEPT ![w] = s]
    /\ client' = [client EXCEPT ![s] = "open"]
    /\ readySent' = readySent \ {s}
    /\ UNCHANGED <<done, attempts, total, failed, ready>>

\* doConnection has closed its end and returned; the loop counts the outcome.
Leave(w, how) ==
    /\ To(w, "loop")
    /\ slot' = [slot EXCEPT ![w] = NoSlot]
    /\ client' = IF slot[w] = NoSlot THEN client ELSE [client EXCEPT ![slot[w]] = how]
    /\ total' = IF how = "terminated" THEN total + 1 ELSE total
    /\ failed' = IF how = "gone" THEN failed + 1 ELSE failed
    /\ UNCHANGED <<svars, readySent, done, attempts, ready>>

\* Nobody listens, or nobody answers within two seconds.
DialFails(w) == worker[w] = "dial" /\ Leave(w, "gone")

\* The server has closed the connection, or is no more.
Dead(s) == conn[s] = "none" \/ Exited

sendStartup(w) ==
    /\ worker[w] = "startup"
    /\ \/ /\ To(w, "waiting")
          /\ client' = [client EXCEPT ![slot[w]] = "startup"]
          /\ UNCHANGED <<svars, slot, readySent, done, attempts, total, failed, ready>>
       \/ Dead(slot[w]) /\ Leave(w, "gone")

\* readUntilReady returns: ReadyForQuery has come, the connection is at its end,
\* or the read deadline has passed.
ReadReady(w) ==
    /\ worker[w] = "waiting"
    /\ slot[w] \in readySent
    /\ Leave(w, "terminated")

\* Mutant: the end of the stream is taken for the end of the answer.
ReadErrorIgnored(w) ==
    /\ worker[w] = "waiting"
    /\ Dead(slot[w])
    /\ Leave(w, "terminated")

ReadError(w) ==
    /\ worker[w] = "waiting"
    /\ Dead(slot[w])
    /\ Leave(w, "gone")

\* Mutant: reads have no deadline.
DeadlineNever(w) ==
    /\ worker[w] = "waiting"
    /\ Dead(slot[w])
    /\ Leave(w, "gone")

Deadline(w) ==
    /\ worker[w] = "waiting"
    /\ Leave(w, "gone")

WorkerStep(w) ==
    \/ Loop(w) \/ DialFails(w) \/ sendStartup(w)
    \/ ReadReady(w) \/ ReadError(w) \/ Deadline(w)
    \/ \E s \in Slots : DialSlot(w, s)

-----------------------------------------------------------------------------
(***************************************************************************)
(* The handler of a load test's connection.                                *)
(***************************************************************************)
\* The startup message is read and answered, up to ReadyForQuery.  It can still
\* be read when the client has gone, and the answer may seem to be sent.
Handshake(s) ==
    /\ conn[s] = "handshake"
    /\ client[s] \in {"startup", "gone"}
    /\ Proceed(s)
    /\ readySent' = readySent \cup {s}
    /\ ready' = ready + 1
    /\ UNCHANGED <<worker, slot, client, done, attempts, total, failed>>

\* One of the writes finds the client gone, or there is nothing to read.
HandshakeFails(s) ==
    /\ conn[s] = "handshake"
    /\ client[s] = "gone"
    /\ HandlerReturn(s)
    /\ UNCHANGED lvars

\* Mutant: a read error does not end the loop.
LastReadTerminateOnly(s) ==
    /\ conn[s] = "reading"
    /\ client[s] = "terminated"
    /\ HandlerReturn(s)
    /\ UNCHANGED lvars

\* The loop reads Terminate, or the end of the stream.
LastRead(s) ==
    /\ conn[s] = "reading"
    /\ client[s] \in {"terminated", "gone"}
    /\ HandlerReturn(s)
    /\ UNCHANGED lvars

Serve(s) == Handshake(s) \/ HandshakeFails(s) \/ LastRead(s)

LNext ==
    \/ Timer
    \/ \E w \in Workers : WorkerStep(w)
    \/ \E s \in Slots : Serve(s)
    \/ /\ MainStep \/ SigStep \/ Signal \/ \E c \in Clients : HandlerStep(c)
       /\ UNCHANGED lvars
    \/ \E c \in Clients \ Slots :
        (Dial(c) \/ Proceed(c) \/ HandlerReturn(c)) /\ UNCHANGED lvars

lsvars == <<svars, lvars>>

LSpec == LInit /\ [][LNext]_lsvars

\* The load test's goroutines and its clock go on; in the server, a handler that
\* has something to read reads it.
LFairSpec ==
    /\ LSpec
    /\ SFairness
    /\ WF_lsvars(Timer)
    /\ \A w \in Workers : WF_lsvars(WorkerStep(w))
    /\ \A s \in Slots : WF_lsvars(Serve(s))

-----------------------------------------------------------------------------
\* What the load test reports is backed by the server: it never counts more
\* successes than the server has completed handshakes, whatever connections were
\* refused, reset or given up.  (This is a comparison of the two numbers.  An
\* answer that comes after the worker's deadline raises the second one too.)
SuccessesServed == total <= ready

\* The load test ends once its time is up, even if the server never accepts, or
\* is gone.
LoadTestEnds == done ~> \A w \in Workers : worker[w] = "ended"

\* The server gets rid of every handler whose client has left, be it in the
\* handshake or while the handler waits for the next message, so a load test,
\* which sends no statements, leaves no handler behind.
HandlersDrain ==
    \A s \in Slots :
        (client[s] \in {"terminated", "gone"} /\ conn[s] \in Waited) ~> Dead(s)
=============================================================================

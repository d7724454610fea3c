---------------------------- MODULE ServerProofs ----------------------------
(***************************************************************************)
(* The counters of the accept loop, for any number of clients and any      *)
(* limit; that composing the server with the load test leaves it the same  *)
(* server; and that the load test counts only handshakes that took place.  *)
(***************************************************************************)
EXTENDS LoadTest, FiniteSetTheorems, TLAPS

-----------------------------------------------------------------------------
(***************************************************************************)
(* The server.                                                             *)
(***************************************************************************)

\* What a change of one connection's state does to the number of connections
\* in a set of states.
LEMMA MoveCount ==
    ASSUME conn \in [Clients -> ConnStates], NEW c \in Clients, NEW s, Move(c, s), NEW S
    PROVE  /\ Cardinality(In(S)) \in Nat
           /\ Cardinality(In(S)') \in Nat
           /\ (conn[c] \in S <=> s \in S) => Cardinality(In(S)') = Cardinality(In(S))
           /\ conn[c] \notin S /\ s \in S => Cardinality(In(S)') = Cardinality(In(S)) + 1
           /\ conn[c] \in S /\ s \notin S => Cardinality(In(S)') = Cardinality(In(S)) - 1
  <1>1. IsFiniteSet(In(S)) /\ IsFiniteSet(In(S)')
    <2>1. In(S) \in SUBSET Clients /\ In(S)' \in SUBSET Clients
      BY DEF In
    <2> QED
      BY <2>1, ServerAssumption, FS_Subset
  <1>2. Cardinality(In(S)) \in Nat /\ Cardinality(In(S)') \in Nat
    BY <1>1, FS_CardinalityType
  <1>3. c \in In(S) <=> conn[c] \in S
    BY DEF In
  <1>4. CASE s \in S
    <2>1. In(S)' = In(S) \cup {c}
      BY <1>4 DEF In, Move
    <2>2. Cardinality(In(S)') =
              IF c \in In(S) THEN Cardinality(In(S)) ELSE Cardinality(In(S)) + 1
      BY <2>1, <1>1, FS_AddElement
    <2> QED
      BY <1>2, <1>3, <1>4, <2>2
  <1>5. CASE s \notin S
    <2>1. In(S)' = In(S) \ {c}
      BY <1>5 DEF In, Move
    <2>2. Cardinality(In(S)') =
              IF c \in In(S) THEN Cardinality(In(S)) - 1 ELSE Cardinality(In(S))
      BY <2>1, <1>1, FS_RemoveElement
    <2> QED
      BY <1>2, <1>3, <1>5, <2>2
  <1> QED
    BY <1>4, <1>5

\* Only the signal goroutine cancels the context, and only a cancelled context
\* ends Start with nil.
CancelledBySignal ==
    /\ cancelled => signalled
    /\ main = "exit0" => cancelled

SInv == STypeOK /\ CountersExact /\ CancelledBySignal

\* The invariant of the server holds initially.
LEMMA SInitInv == SInit => SInv
  <1> SUFFICES ASSUME SInit PROVE SInv
    OBVIOUS
  <1>1. In(Counted) = {} /\ In(Waited) = {}
    BY DEF SInit, In, Counted, Waited
  <1>2. CountersExact
    BY <1>1, FS_EmptySet DEF SInit, CountersExact
  <1>3. STypeOK /\ CancelledBySignal
    BY DEF SInit, STypeOK, CancelledBySignal, ConnStates
  <1> QED
    BY <1>2, <1>3 DEF SInv

\* A step that moves one connection keeps the counters exact when it changes
\* them as the move demands.
LEMMA MoveKeepsCounters ==
    ASSUME STypeOK, CountersExact, NEW c \in Clients, NEW s \in ConnStates, Move(c, s),
           activeConn' = activeConn + (IF s \in Counted THEN 1 ELSE 0)
                                    - (IF conn[c] \in Counted THEN 1 ELSE 0),
           wg' = wg + (IF s \in Waited THEN 1 ELSE 0)
                    - (IF conn[c] \in Waited THEN 1 ELSE 0)
    PROVE  /\ conn' \in [Clients -> ConnStates]
           /\ activeConn' \in Nat /\ wg' \in Nat
           /\ CountersExact'
  <1>1. conn \in [Clients -> ConnStates] /\ activeConn \in Nat /\ wg \in Nat
    BY DEF STypeOK
  <1>2. /\ Cardinality(In(Counted)') \in Nat
        /\ Cardinality(In(Counted)') = activeConn'
    BY <1>1, MoveCount DEF CountersExact
  <1>3. /\ Cardinality(In(Waited)') \in Nat
        /\ Cardinality(In(Waited)') = wg'
    BY <1>1, MoveCount DEF CountersExact
  <1>4. conn' \in [Clients -> ConnStates]
    BY <1>1 DEF Move
  <1>5. Cardinality(In(Counted))' = activeConn' /\ Cardinality(In(Waited))' = wg'
    BY <1>2, <1>3
  <1> QED
    BY <1>2, <1>3, <1>4, <1>5 DEF CountersExact

\* CloseListener resets the backlog, in which nothing is counted.
LEMMA CloseListenerInv ==
    ASSUME SInv, CloseListener
    PROVE  SInv'
  <1>1. conn \in [Clients -> ConnStates]
    BY DEF SInv, STypeOK
  <1>2. In(Counted)' = In(Counted) /\ In(Waited)' = In(Waited)
    BY <1>1 DEF CloseListener, In, Counted, Waited
  <1>3. CountersExact'
    BY <1>2 DEF SInv, CountersExact, CloseListener
  <1>4. conn' \in [Clients -> ConnStates]
    BY <1>1 DEF CloseListener, ConnStates
  <1>5. STypeOK' /\ CancelledBySignal'
    BY <1>4 DEF SInv, STypeOK, CancelledBySignal, CloseListener
  <1> QED
    BY <1>3, <1>5 DEF SInv

\* The steps that leave every connection and both counters alone.
LEMMA QuietInv ==
    ASSUME SInv, UNCHANGED <<conn, activeConn, wg>>,
           Listen \/ Signal \/ Cancel \/ WaitGroup \/ UNCHANGED svars
               \/ \E err \in AcceptErrors : AcceptError(err)
    PROVE  SInv'
  <1>1. CountersExact'
    BY DEF SInv, CountersExact, In
  <1>2. STypeOK'
    BY DEF SInv, STypeOK, Listen, Signal, Cancel, WaitGroup, AcceptError, svars
  <1>3. CancelledBySignal'
    BY DEF SInv, STypeOK, CancelledBySignal, Listen, Signal, Cancel, WaitGroup,
           AcceptError, svars
  <1> QED
    BY <1>1, <1>2, <1>3 DEF SInv

\* The steps of the accept loop and of the clients that move one connection.
LEMMA MainInv ==
    ASSUME SInv, NEW c \in Clients, Accept(c) \/ CheckLimit(c) \/ Dial(c)
    PROVE  SInv'
  <1>1. PICK s \in ConnStates :
            /\ Move(c, s)
            /\ activeConn' = activeConn + (IF s \in Counted THEN 1 ELSE 0)
                                        - (IF conn[c] \in Counted THEN 1 ELSE 0)
            /\ wg' = wg + (IF s \in Waited THEN 1 ELSE 0)
                        - (IF conn[c] \in Waited THEN 1 ELSE 0)
    <2>1. activeConn \in Nat /\ wg \in Nat
      BY DEF SInv, STypeOK
    <2>2. CASE Accept(c)
      BY <2>1, <2>2 DEF Accept, Counted, Waited, ConnStates
    <2>3. CASE Dial(c)
      BY <2>1, <2>3 DEF Dial, Counted, Waited, ConnStates
    <2>4. CASE CheckLimit(c)
      BY <2>1, <2>4 DEF CheckLimit, Counted, Waited, ConnStates
    <2> QED
      BY <2>2, <2>3, <2>4
  <1>2. conn' \in [Clients -> ConnStates] /\ activeConn' \in Nat /\ wg' \in Nat /\ CountersExact'
    BY <1>1, MoveKeepsCounters DEF SInv
  <1>3. STypeOK' /\ CancelledBySignal'
    BY <1>2 DEF SInv, STypeOK, CancelledBySignal, Accept, CheckLimit, Dial
  <1> QED
    BY <1>2, <1>3 DEF SInv

\* The steps of a handler, among them the deferred calls it ends with.
LEMMA HandlerInv ==
    ASSUME SInv, NEW c \in Clients, HandlerStep(c) \/ Proceed(c) \/ HandlerReturn(c)
    PROVE  SInv'
  <1>1. PICK s \in ConnStates :
            /\ Move(c, s)
            /\ activeConn' = activeConn + (IF s \in Counted THEN 1 ELSE 0)
                                        - (IF conn[c] \in Counted THEN 1 ELSE 0)
            /\ wg' = wg + (IF s \in Waited THEN 1 ELSE 0)
                        - (IF conn[c] \in Waited THEN 1 ELSE 0)
    <2>1. activeConn \in Nat /\ wg \in Nat
      BY DEF SInv, STypeOK
    <2>2. CASE CountIn(c)
      BY <2>1, <2>2 DEF CountIn, Counted, Waited, ConnStates
    <2>3. CASE WgDone(c)
      BY <2>1, <2>3 DEF WgDone, Counted, Waited, ConnStates
    <2>4. CASE CloseConn(c)
      BY <2>1, <2>4 DEF CloseConn, Counted, Waited, ConnStates
    <2>5. CASE Proceed(c)
      BY <2>1, <2>5 DEF Proceed, Counted, Waited, ConnStates
    <2>6. CASE HandlerReturn(c)
      BY <2>1, <2>6 DEF HandlerReturn, Counted, Waited, ConnStates
    <2> QED
      BY <2>2, <2>3, <2>4, <2>5, <2>6 DEF HandlerStep
  <1>2. conn' \in [Clients -> ConnStates] /\ activeConn' \in Nat /\ wg' \in Nat /\ CountersExact'
    BY <1>1, MoveKeepsCounters DEF SInv
  <1>3. STypeOK' /\ CancelledBySignal'
    BY <1>2 DEF SInv, STypeOK, CancelledBySignal, HandlerStep, CountIn, WgDone,
                CloseConn, Proceed, HandlerReturn
  <1> QED
    BY <1>2, <1>3 DEF SInv

\* Every step of the server preserves it.
LEMMA SNextInv == SInv /\ [SNext]_svars => SInv'
  <1> SUFFICES ASSUME SInv, [SNext]_svars PROVE SInv'
    OBVIOUS
  <1>1. CASE Listen \/ Signal \/ Cancel \/ WaitGroup \/ UNCHANGED svars
                 \/ \E err \in AcceptErrors : AcceptError(err)
    <2>1. UNCHANGED <<conn, activeConn, wg>>
      BY <1>1 DEF Listen, Signal, Cancel, WaitGroup, AcceptError, svars
    <2> QED
      BY <1>1, <2>1, QuietInv
  <1>2. CASE CloseListener
    BY <1>2, CloseListenerInv
  <1>3. CASE \E c \in Clients :
                 \/ Accept(c) \/ CheckLimit(c) \/ Dial(c)
                 \/ HandlerStep(c) \/ Proceed(c) \/ HandlerReturn(c)
    BY <1>3, MainInv, HandlerInv
  <1> QED
    BY <1>1, <1>2, <1>3 DEF SNext, MainStep, SigStep

\* The server's state is well typed; in particular no counter goes below zero.
THEOREM ServerTypeCorrect == SSpec => []STypeOK
  <1>1. SInv => STypeOK
    BY DEF SInv
  <1> QED
    BY <1>1, SInitInv, SNextInv, PTL DEF SSpec

\* However handlers start and end, panics and failed handshakes included, both
\* counters are exact.
THEOREM CountersAreExact == SSpec => []CountersExact
  <1>1. SInv => CountersExact
    BY DEF SInv
  <1> QED
    BY <1>1, SInitInv, SNextInv, PTL DEF SSpec

\* The process exits with success only after a signal.
THEOREM ExitsOnlyWhenSignalled == SSpec => []ExitOnlyWhenSignalled
  <1>1. SInv => ExitOnlyWhenSignalled
    BY DEF SInv, CancelledBySignal, ExitOnlyWhenSignalled
  <1> QED
    BY <1>1, SInitInv, SNextInv, PTL DEF SSpec

\* An accepted connection goes away unserved only by the limit check, and
\* then MaxConnections handlers are running.
LEMMA RefusalStep ==
    ASSUME SInv, SNext, NEW c \in Clients, conn[c] = "accepted", conn'[c] = "none"
    PROVE  Cardinality(In(Counted)) >= MaxConnections
  <1>1. conn \in [Clients -> ConnStates]
    BY DEF SInv, STypeOK
  <1>2. ~(Listen \/ Signal \/ Cancel \/ WaitGroup \/ CloseListener
              \/ \E err \in AcceptErrors : AcceptError(err))
    BY DEF Listen, Signal, Cancel, WaitGroup, CloseListener, AcceptError
  <1>3. PICK d \in Clients :
            \/ Accept(d) \/ CheckLimit(d) \/ Dial(d)
            \/ HandlerStep(d) \/ Proceed(d) \/ HandlerReturn(d)
    BY <1>2 DEF SNext, MainStep, SigStep
  <1>4. CheckLimit(d) /\ d = c
    BY <1>1, <1>3 DEF Accept, CheckLimit, Dial, HandlerStep, CountIn, WgDone, CloseConn,
                      Proceed, HandlerReturn, Move, Counted
  <1>5. activeConn >= MaxConnections
    BY <1>1, <1>4 DEF CheckLimit, Move
  <1> QED
    BY <1>5 DEF SInv, CountersExact

\* No connection is refused while fewer than MaxConnections handlers run,
\* whatever happened to earlier ones.
THEOREM NoRefusalIsSpurious == SSpec => NoSpuriousRefusal
  <1> DEFINE Justified == \A c \in Clients :
                 conn[c] = "accepted" /\ conn'[c] = "none" =>
                     Cardinality(In(Counted)) >= MaxConnections
  <1>1. SInv /\ [SNext]_svars => [Justified]_svars
    BY RefusalStep
  <1> QED
    BY <1>1, SInitInv, SNextInv, PTL DEF SSpec, NoSpuriousRefusal

-----------------------------------------------------------------------------
(***************************************************************************)
(* The server together with the load test.                                 *)
(***************************************************************************)

\* Every step of the composition is a step of the server or leaves it alone.
LEMMA LStepIsServerStep == [LNext]_lsvars => [SNext]_svars
  <1> SUFFICES ASSUME LNext PROVE [SNext]_svars
    BY DEF lsvars
  <1>1. CASE Timer
    BY <1>1 DEF Timer
  <1>2. CASE \E w \in Workers : WorkerStep(w)
    <2>1. PICK w \in Workers : WorkerStep(w)
      BY <1>2
    <2>2. CASE \E s \in Slots : DialSlot(w, s)
      BY <2>2, LoadTestAssumption DEF DialSlot, SNext
    <2>3. CASE ~\E s \in Slots : DialSlot(w, s)
      BY <2>1, <2>3 DEF WorkerStep, Loop, DialFails, sendStartup, ReadReady, ReadError,
                        Deadline, Leave
    <2> QED
      BY <2>2, <2>3
  <1>3. CASE \E s \in Slots : Serve(s)
    BY <1>3, LoadTestAssumption
       DEF Serve, Handshake, HandshakeFails, LastRead, SNext
  <1>4. CASE MainStep \/ SigStep \/ Signal \/ \E c \in Clients : HandlerStep(c)
    BY <1>4 DEF SNext
  <1>5. CASE \E c \in Clients \ Slots : Dial(c) \/ Proceed(c) \/ HandlerReturn(c)
    BY <1>5 DEF SNext
  <1> QED
    BY <1>1, <1>2, <1>3, <1>4, <1>5 DEF LNext

\* The load test composed with the server is a restriction of the server: what
\* is proved of the server holds of the composition.
THEOREM CompositionIsServer == LSpec => SSpec
  <1>1. LInit => SInit
    BY DEF LInit
  <1> QED
    BY <1>1, LStepIsServerStep, PTL DEF LSpec, SSpec

\* The workers that have been answered and have not read the answer yet.
Answered == {w \in Workers : slot[w] \in readySent}

LTypes ==
    /\ slot \in [Workers -> Slots \cup {NoSlot}]
    /\ readySent \subseteq Slots
    /\ total \in Nat
    /\ ready \in Nat

\* Two workers never hold the same connection.
SlotsApart ==
    \A v, w \in Workers : v # w /\ slot[v] = slot[w] => slot[v] = NoSlot

\* What is inductive about SuccessesServed: an answer that waits for its worker
\* has not been counted, and backs at most one success.
AnswersBackSuccesses == total + Cardinality(Answered) <= ready

LTInv == LTypes /\ SlotsApart /\ AnswersBackSuccesses

\* There are finitely many answers to count.
LEMMA AnsweredFinite ==
    /\ IsFiniteSet(Answered) /\ Cardinality(Answered) \in Nat
    /\ IsFiniteSet(Answered') /\ Cardinality(Answered') \in Nat
  <1>1. Answered \in SUBSET Workers /\ Answered' \in SUBSET Workers
    BY DEF Answered
  <1> QED
    BY <1>1, LoadTestAssumption, FS_Subset, FS_CardinalityType

\* The invariant of the composition holds initially.
LEMMA LTInitInv == LInit => LTInv
  <1> SUFFICES ASSUME LInit PROVE LTInv
    OBVIOUS
  <1>1. Answered = {}
    BY DEF LInit, Answered
  <1> QED
    BY <1>1, FS_EmptySet DEF LInit, LTInv, LTypes, SlotsApart, AnswersBackSuccesses

\* A worker that leaves gives up its connection, and counts a success only if
\* an answer was waiting for it.
LEMMA LeaveInv ==
    ASSUME LTInv, NEW w \in Workers, NEW how, Leave(w, how),
           how = "terminated" => slot[w] \in readySent
    PROVE  LTInv'
  <1>1. LTypes'
    BY DEF LTInv, LTypes, Leave
  <1>2. SlotsApart'
    BY DEF LTInv, LTypes, SlotsApart, Leave
  <1>3. NoSlot \notin readySent
    BY LoadTestAssumption DEF LTInv, LTypes
  <1>4. Answered' = Answered \ {w}
    BY <1>3 DEF Answered, Leave, LTInv, LTypes
  <1>5. Cardinality(Answered') =
            IF w \in Answered THEN Cardinality(Answered) - 1 ELSE Cardinality(Answered)
    BY <1>4, AnsweredFinite, FS_RemoveElement
  <1>6. w \in Answered <=> slot[w] \in readySent
    BY DEF Answered
  <1>7. total' = (IF how = "terminated" THEN total + 1 ELSE total) /\ ready' = ready
    BY DEF Leave
  <1>8. total' + Cardinality(Answered') <= ready'
    BY <1>5, <1>6, <1>7, AnsweredFinite DEF LTInv, LTypes, AnswersBackSuccesses
  <1> QED
    BY <1>1, <1>2, <1>8 DEF LTInv, AnswersBackSuccesses

\* A new connection starts without an answer, and is nobody else's.
LEMMA DialSlotInv ==
    ASSUME LTInv, NEW w \in Workers, NEW s \in Slots, DialSlot(w, s)
    PROVE  LTInv'
  <1>1. LTypes'
    BY DEF LTInv, LTypes, DialSlot
  <1>2. SlotsApart'
    BY DEF LTInv, LTypes, SlotsApart, DialSlot
  <1>3. Answered' \in SUBSET Answered
    BY DEF LTInv, LTypes, Answered, DialSlot
  <1>4. Cardinality(Answered') <= Cardinality(Answered)
    BY <1>3, AnsweredFinite, FS_Subset
  <1>5. total' + Cardinality(Answered') <= ready'
    BY <1>4, AnsweredFinite DEF LTInv, LTypes, AnswersBackSuccesses, DialSlot
  <1> QED
    BY <1>1, <1>2, <1>5 DEF LTInv, AnswersBackSuccesses

\* One handshake answers at most one worker, since workers share no connection.
LEMMA HandshakeInv ==
    ASSUME LTInv, NEW s \in Slots, Handshake(s)
    PROVE  LTInv'
  <1>1. LTypes' /\ SlotsApart'
    BY DEF LTInv, LTypes, SlotsApart, Handshake
  <1>2. s # NoSlot
    BY LoadTestAssumption
  <1>3. Cardinality(Answered') <= Cardinality(Answered) + 1
    <2>1. CASE \E w \in Workers : slot[w] = s
      <3>1. PICK w \in Workers : slot[w] = s
        BY <2>1
      <3>2. Answered' = Answered \cup {w}
        BY <1>2, <3>1 DEF LTInv, SlotsApart, Answered, Handshake
      <3> QED
        BY <3>2, AnsweredFinite, FS_AddElement
    <2>2. CASE ~\E w \in Workers : slot[w] = s
      <3>1. Answered' = Answered
        BY <2>2 DEF Answered, Handshake
      <3> QED
        BY <3>1, AnsweredFinite
    <2> QED
      BY <2>1, <2>2
  <1>4. total' + Cardinality(Answered') <= ready'
    BY <1>3, AnsweredFinite DEF LTInv, LTypes, AnswersBackSuccesses, Handshake
  <1> QED
    BY <1>1, <1>4 DEF LTInv, AnswersBackSuccesses

\* All other steps leave the books alone.
LEMMA BooksUnchanged ==
    ASSUME LTInv, UNCHANGED <<slot, readySent, total, ready>>
    PROVE  LTInv'
  BY DEF LTInv, LTypes, SlotsApart, AnswersBackSuccesses, Answered

\* Every step of the composition preserves it.
LEMMA LTNextInv == LTInv /\ [LNext]_lsvars => LTInv'
  <1> SUFFICES ASSUME LTInv, [LNext]_lsvars PROVE LTInv'
    OBVIOUS
  <1>1. CASE UNCHANGED lvars
    BY <1>1, BooksUnchanged DEF lvars
  <1>2. CASE Timer
    BY <1>2, BooksUnchanged DEF Timer
  <1>3. ASSUME NEW w \in Workers, WorkerStep(w) PROVE LTInv'
    <2>1. CASE Loop(w)
      BY <2>1, BooksUnchanged DEF Loop
    <2>2. CASE DialFails(w)
      BY <2>2, LeaveInv DEF DialFails
    <2>3. CASE sendStartup(w)
      BY <2>3, LeaveInv, BooksUnchanged DEF sendStartup
    <2>4. CASE ReadReady(w)
      BY <2>4, LeaveInv DEF ReadReady
    <2>5. CASE ReadError(w)
      BY <2>5, LeaveInv DEF ReadError
    <2>6. CASE Deadline(w)
      BY <2>6, LeaveInv DEF Deadline
    <2>7. CASE \E s \in Slots : DialSlot(w, s)
      BY <2>7, DialSlotInv
    <2> QED
      BY <1>3, <2>1, <2>2, <2>3, <2>4, <2>5, <2>6, <2>7 DEF WorkerStep
  <1>4. ASSUME NEW s \in Slots, Serve(s) PROVE LTInv'
    <2>1. CASE Handshake(s)
      BY <2>1, HandshakeInv
    <2>2. CASE HandshakeFails(s) \/ LastRead(s)
      BY <2>2, <1>1 DEF HandshakeFails, LastRead
    <2> QED
      BY <1>4, <2>1, <2>2 DEF Serve
  <1> QED
    BY <1>1, <1>2, <1>3, <1>4 DEF LNext, lsvars

\* Every success the load test counts is a handshake the server completed, for
\* any number of workers, connections and attempts.
THEOREM SuccessesAreServed == LSpec => []SuccessesServed
  <1>1. LTInv => SuccessesServed
    BY AnsweredFinite DEF LTInv, LTypes, AnswersBackSuccesses, SuccessesServed
  <1> QED
    BY <1>1, LTInitInv, LTNextInv, PTL DEF LSpec
=============================================================================

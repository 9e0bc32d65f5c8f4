---------------------------- MODULE ClientProofs ----------------------------
(***************************************************************************)
(* Proofs about Client, for every set of ids, clients and sockets and      *)
(* every value of maxRetries: one lemma per action shows that it preserves *)
(* IInv, with one step per conjunct that the action can disturb.           *)
(***************************************************************************)
EXTENDS ClientRefinement, TLAPS

USE ClientAssumption DEF registryVars, retryVars, flagVars, socketVars, configVars

\* What connect() assigns keeps its type, also when it throws.
LEMMA AttemptTypes ==
    ASSUME TypeOK, NEW c \in Clients, OpenSocket(c) \/ Throw(c)
    PROVE  /\ gone' \in [Clients -> BOOLEAN]
           /\ threw' \in [Clients -> BOOLEAN]
           /\ sock' \in [Clients -> Sockets \cup {None}]
           /\ sstate' \in [Sockets -> SocketStates]
           /\ owner' \in [Sockets -> Clients \cup {None}]
           /\ ipcBuffer' \in [Sockets -> Buffers]
           /\ msgTimer' \in [Sockets -> Timers]
<1>1. CASE OpenSocket(c)
    BY <1>1 DEF TypeOK, OpenSocket, SocketStates, Buffers, Timers
<1>2. CASE Throw(c)
    BY <1>2 DEF TypeOK, Throw
<1>. QED
    BY <1>1, <1>2

\* clearTimeout() keeps the count of pending callbacks a natural number.
LEMMA CancelRetryTypes ==
    ASSUME TypeOK, RetryTimerIsTracked, NEW c \in Clients, CancelRetry(c)
    PROVE  /\ retryTimer' \in [Clients -> BOOLEAN]
           /\ scheduled' \in [Clients -> Nat]
BY DEF TypeOK, CancelRetry, RetryTimerIsTracked

\* Nor does the retirement of the old client in connectTo().
LEMMA RetireTypes ==
    ASSUME TypeOK, RetryTimerIsTracked, NEW id \in Ids, Retire(id)
    PROVE  /\ retryTimer' \in [Clients -> BOOLEAN]
           /\ scheduled' \in [Clients -> Nat]
           /\ explicitlyDisconnected' \in [Clients -> BOOLEAN]
<1>1. CASE of[id] = None
    BY <1>1 DEF Retire, TypeOK
<1>2. CASE of[id] # None
    <2>1. of[id] \in Clients
        BY <1>2 DEF TypeOK
    <2>2. CancelRetry(of[id])
        BY <1>2 DEF Retire
    <2>3. explicitlyDisconnected' = [explicitlyDisconnected EXCEPT ![of[id]] = TRUE]
        BY <1>2 DEF Retire
    <2>. QED
        BY <2>1, <2>2, <2>3, CancelRetryTypes DEF TypeOK
<1>. QED
    BY <1>1, <1>2

\* The suspended calls.
LEMMA FrameTypes ==
    /\ Idle \in Frames
    /\ \A s \in Sockets : Closing(s) \in Frames
    /\ \A s \in Sockets, n \in 0 .. MaxBatch, tail \in Tails : Reading(s, n, tail) \in Frames
BY DEF Frames, Idle, Closing, Reading

\* The fields of a suspended read loop.
LEMMA ReadingFrame ==
    ASSUME TypeOK, frame.call = "read"
    PROVE  /\ frame.s \in Sockets
           /\ frame.left \in 0 .. MaxBatch
           /\ frame.tail \in Tails
           /\ frame = Reading(frame.s, frame.left, frame.tail)
BY DEF TypeOK, Frames, Idle, Reading

\* What the end of a chunk assigns keeps its type.
LEMMA EndReadTypes ==
    ASSUME TypeOK, NEW s \in Sockets, NEW tail \in Tails,
           NEW place \in {"first", "behind"}, EndRead(s, tail, place)
    PROVE  /\ sstate' \in [Sockets -> SocketStates]
           /\ ipcBuffer' \in [Sockets -> Buffers]
           /\ msgTimer' \in [Sockets -> Timers]
           /\ protocolViolation' \in [Clients -> BOOLEAN]
<1>1. CASE ProtocolFailure(owner[s], s)
    BY <1>1 DEF TypeOK, ProtocolFailure, Destroyed, SocketStates, Buffers, Timers
<1>2. CASE UNCHANGED <<protocolViolation, sstate>>
    <2>1. Rest(s, tail, place) \in Buffers /\ Restarted(s, place) \in Timers
        BY DEF TypeOK, Rest, Restarted, Buffers, Timers
    <2>2. ipcBuffer' \in [Sockets -> Buffers]
        BY <2>1, <1>2 DEF TypeOK, EndRead, ProtocolFailure, Buffers
    <2>3. msgTimer' \in [Sockets -> Timers]
        BY <2>1, <1>2 DEF TypeOK, EndRead, ProtocolFailure, Timers
    <2>. QED
        BY <2>2, <2>3, <1>2 DEF TypeOK
<1>. QED
    BY <1>1, <1>2 DEF EndRead

\* The invariant survives connectTo() on a client that has a socket, or none yet.
LEMMA AlreadyConnectedStep ==
    ASSUME IInv, NEW id \in Ids, AlreadyConnected(id)
    PROVE  IInv'
<1>. USE DEF IInv, AlreadyConnected, SocketDestroyed, Live, vars
<1>1. TypeOK'
    BY DEF TypeOK
\* The variables of the others do not change.
<1>2. (Ownership /\ Registration /\ LiveSocketIsCurrent /\
       RetryTimerIsTracked /\ RetryBudget /\ BudgetForRetry /\ RetiredClientIsInert /\
       NotStranded /\ MessageClock /\ ClockOutsideRead)'
    BY DEF Ownership, Registration, LiveSocketIsCurrent,
           RetryTimerIsTracked, RetryBudget, BudgetForRetry, RetiredClientIsInert,
           NotStranded, MessageClock, ClockOutsideRead, HasLiveSocket, NoRetriesLeft
<1>. QED
    BY <1>1, <1>2 DEF IInv

\* The invariant survives connectTo() that retires the old client and opens a new one.
LEMMA ConnectToStep ==
    ASSUME IInv, NEW id \in Ids, ConnectTo(id)
    PROVE  IInv'
<1>1. TypeOK'
    <2>1. PICK c \in Clients :
            /\ idOf' = [idOf EXCEPT ![c] = id]
            /\ of' = [of EXCEPT ![id] = c]
            /\ Attempt(c, id)
        BY DEF ConnectTo
    <2>2. /\ retryTimer' \in [Clients -> BOOLEAN]
          /\ scheduled' \in [Clients -> Nat]
          /\ explicitlyDisconnected' \in [Clients -> BOOLEAN]
        BY RetireTypes DEF IInv, ConnectTo
    <2>3. /\ gone' \in [Clients -> BOOLEAN]
          /\ threw' \in [Clients -> BOOLEAN]
          /\ sock' \in [Clients -> Sockets \cup {None}]
          /\ sstate' \in [Sockets -> SocketStates]
          /\ owner' \in [Sockets -> Clients \cup {None}]
          /\ ipcBuffer' \in [Sockets -> Buffers]
          /\ msgTimer' \in [Sockets -> Timers]
        <3>1. OpenSocket(c) \/ Throw(c)
            BY <2>1 DEF Attempt
        <3>. QED
            BY <3>1, AttemptTypes DEF IInv
    <2>4. of' \in [Ids -> Clients \cup {None}] /\ idOf' \in [Clients -> Ids \cup {None}]
        BY <2>1 DEF IInv, TypeOK
    <2>. QED
        BY <2>2, <2>3, <2>4 DEF IInv, TypeOK, ConnectTo
<1>. USE DEF IInv, ConnectTo, Retire, CancelRetry, Attempt, Throw, OpenSocket, Unused,
       SocketDestroyed, Live
<1>2. Ownership'
    BY DEF TypeOK, Ownership
<1>3. Registration'
    BY DEF TypeOK, Registration
<1>5. LiveSocketIsCurrent'
    BY DEF TypeOK, LiveSocketIsCurrent, Ownership, Registration
<1>6. RetryTimerIsTracked'
    BY DEF TypeOK, RetryTimerIsTracked, Ownership, Registration, LiveSocketIsCurrent
<1>7. BudgetForRetry'
    BY DEF TypeOK, BudgetForRetry, RetryTimerIsTracked, NoRetriesLeft
<1>8. RetiredClientIsInert'
    BY DEF TypeOK, RetiredClientIsInert, Ownership, Registration, RetryTimerIsTracked,
           HasLiveSocket
<1>9. NotStranded'
    BY DEF TypeOK, NotStranded, Ownership, Registration, RetryTimerIsTracked, Closing
<1>10. MessageClock'
    BY DEF TypeOK, MessageClock, Ownership, ClockOutsideRead, Idle
<1>11. ClockOutsideRead'
    BY DEF TypeOK, ClockOutsideRead, Ownership, Frames, Idle
\* The variables of the others do not change.
<1>12. (RetryBudget)'
    BY DEF RetryBudget
<1>. QED
    BY <1>1, <1>2, <1>3, <1>5, <1>6, <1>7, <1>8, <1>9, <1>10, <1>11, <1>12 DEF IInv

\* The invariant survives connectTo() that retires the old client and throws.
LEMMA ConnectToThrowsStep ==
    ASSUME IInv, NEW id \in Ids, ConnectToThrows(id)
    PROVE  IInv'
<1>1. TypeOK'
    <2>1. of[id] \in Clients
        BY DEF IInv, TypeOK, ConnectToThrows
    <2>. QED
        BY <2>1, RetireTypes, AttemptTypes DEF IInv, TypeOK, ConnectToThrows
<1>. USE DEF IInv, ConnectToThrows, Retire, CancelRetry, Throw, SocketDestroyed, Live
<1>2. RetryTimerIsTracked'
    BY DEF TypeOK, RetryTimerIsTracked
<1>3. BudgetForRetry'
    BY DEF TypeOK, BudgetForRetry, NoRetriesLeft
<1>4. RetiredClientIsInert'
    BY DEF TypeOK, RetiredClientIsInert, RetryTimerIsTracked, HasLiveSocket
<1>5. NotStranded'
    BY DEF TypeOK, NotStranded
\* The variables of the others do not change.
<1>6. (Ownership /\ Registration /\ LiveSocketIsCurrent /\ RetryBudget /\ MessageClock /\
       ClockOutsideRead)'
    BY DEF Ownership, Registration, LiveSocketIsCurrent, RetryBudget, MessageClock,
           ClockOutsideRead
<1>. QED
    BY <1>1, <1>2, <1>3, <1>4, <1>5, <1>6 DEF IInv

\* The invariant survives ipc.disconnect().
LEMMA DisconnectStep ==
    ASSUME IInv, NEW id \in Ids, Disconnect(id)
    PROVE  IInv'
<1>. USE DEF IInv, Disconnect, CancelRetry, Destroyed, Live
<1>1. TypeOK'
    BY DEF TypeOK, RetryTimerIsTracked, SocketStates
<1>2. Ownership'
    BY DEF TypeOK, Ownership
<1>3. Registration'
    BY DEF TypeOK, Registration
<1>4. LiveSocketIsCurrent'
    BY DEF TypeOK, LiveSocketIsCurrent, Ownership
<1>5. RetryTimerIsTracked'
    BY DEF TypeOK, RetryTimerIsTracked, Ownership, Registration, LiveSocketIsCurrent
<1>6. BudgetForRetry'
    BY DEF TypeOK, BudgetForRetry, RetryTimerIsTracked, NoRetriesLeft
<1>7. RetiredClientIsInert'
    BY DEF TypeOK, RetiredClientIsInert, Ownership, Registration, RetryTimerIsTracked,
           HasLiveSocket
<1>8. NotStranded'
    BY DEF TypeOK, NotStranded, Ownership, Registration, RetryTimerIsTracked, Closing
<1>9. MessageClock'
    BY DEF TypeOK, MessageClock, Ownership, ClockOutsideRead, Idle
<1>10. ClockOutsideRead'
    BY DEF TypeOK, ClockOutsideRead, Ownership, Frames, Idle
\* The variables of the others do not change.
<1>11. RetryBudget'
    BY DEF RetryBudget
<1>. QED
    BY <1>1, <1>2, <1>3, <1>4, <1>5, <1>6, <1>7, <1>8, <1>9, <1>10, <1>11 DEF IInv

\* The invariant survives client.connect() called by the application.
LEMMA ReconnectStep ==
    ASSUME IInv, NEW id \in Ids, Reconnect(id)
    PROVE  IInv'
<1>1. TypeOK'
    <2>1. of[id] \in Clients
        BY DEF IInv, TypeOK, Reconnect
    <2>2. retryTimer' \in [Clients -> BOOLEAN] /\ scheduled' \in [Clients -> Nat]
        BY <2>1, CancelRetryTypes DEF IInv, Reconnect
    <2>3. OpenSocket(of[id]) \/ Throw(of[id])
        BY DEF Reconnect, Attempt
    <2>. QED
        BY <2>1, <2>2, <2>3, AttemptTypes DEF IInv, TypeOK, Reconnect
<1>. USE DEF IInv, Reconnect, CancelRetry, Attempt, Throw, OpenSocket, Unused, HasLiveSocket, Live
<1>2. Ownership'
    BY DEF TypeOK, Ownership
<1>3. Registration'
    BY DEF TypeOK, Registration
<1>5. LiveSocketIsCurrent'
    BY DEF TypeOK, LiveSocketIsCurrent, Ownership
<1>6. RetryTimerIsTracked'
    BY DEF TypeOK, RetryTimerIsTracked, Ownership, Registration, LiveSocketIsCurrent
<1>7. BudgetForRetry'
    BY DEF TypeOK, BudgetForRetry, RetryTimerIsTracked, NoRetriesLeft
<1>8. RetiredClientIsInert'
    BY DEF TypeOK, RetiredClientIsInert, Ownership, Registration, RetryTimerIsTracked
<1>9. NotStranded'
    <2>. SUFFICES ASSUME NEW i \in Ids, of'[i] # None
                  PROVE  \/ sock'[of'[i]] # None /\ sstate'[sock'[of'[i]]] # "closed"
                         \/ retryTimer'[of'[i]]
                         \/ gone'[of'[i]]
                         \/ sock'[of'[i]] # None /\ frame' = Closing(sock'[of'[i]])
                         \/ threw'[of'[i]]
        BY DEF NotStranded
    <2>1. of[i] \in Clients /\ (of[i] = of[id] => i = id)
        BY DEF TypeOK, Registration
    <2>2. CASE i = id
        BY <2>1, <2>2 DEF TypeOK, NotStranded, Registration
    <2>3. CASE i # id
        BY <2>1, <2>3 DEF TypeOK, NotStranded, Registration
    <2>. QED
        BY <2>2, <2>3
<1>10. MessageClock'
    BY DEF TypeOK, MessageClock, Ownership, ClockOutsideRead, Idle
<1>11. ClockOutsideRead'
    BY DEF TypeOK, ClockOutsideRead, Ownership, Frames, Idle
\* The variables of the others do not change.
<1>12. (RetryBudget)'
    BY DEF RetryBudget
<1>. QED
    BY <1>1, <1>2, <1>3, <1>5, <1>6, <1>7, <1>8, <1>9, <1>10, <1>11, <1>12 DEF IInv

\* The invariant survives socket.destroy() called by the application.
LEMMA DestroySocketStep ==
    ASSUME IInv, NEW id \in Ids, DestroySocket(id)
    PROVE  IInv'
<1>. USE DEF IInv, DestroySocket, Destroyed, HasLiveSocket, Live
<1>1. TypeOK'
    BY DEF TypeOK, SocketStates
<1>2. Ownership'
    BY DEF TypeOK, Ownership
<1>3. LiveSocketIsCurrent'
    BY DEF TypeOK, LiveSocketIsCurrent, Ownership
<1>4. RetryTimerIsTracked'
    BY DEF TypeOK, RetryTimerIsTracked, Ownership, Registration, LiveSocketIsCurrent
<1>5. RetiredClientIsInert'
    BY DEF TypeOK, RetiredClientIsInert, Ownership, Registration, RetryTimerIsTracked
<1>6. NotStranded'
    BY DEF TypeOK, NotStranded, Ownership, Registration, RetryTimerIsTracked, Closing
<1>7. MessageClock'
    BY DEF TypeOK, MessageClock, Ownership, ClockOutsideRead, Idle
<1>8. ClockOutsideRead'
    BY DEF TypeOK, ClockOutsideRead, Ownership, Frames, Idle
\* The variables of the others do not change.
<1>9. (Registration /\ RetryBudget /\ BudgetForRetry)'
    BY DEF Registration, RetryBudget, BudgetForRetry, NoRetriesLeft
<1>. QED
    BY <1>1, <1>2, <1>3, <1>4, <1>5, <1>6, <1>7, <1>8, <1>9 DEF IInv

\* The invariant survives emit() beyond maxPendingBytes.
LEMMA EmitOverflowStep ==
    ASSUME IInv, NEW id \in Ids, EmitOverflow(id)
    PROVE  IInv'
<1>. USE DEF IInv, EmitOverflow, ProtocolFailure, Destroyed, Live
<1>1. TypeOK'
    BY DEF TypeOK, SocketStates, Buffers, Timers
<1>2. Ownership'
    BY DEF TypeOK, Ownership
<1>3. LiveSocketIsCurrent'
    BY DEF TypeOK, LiveSocketIsCurrent, Ownership
<1>4. RetryTimerIsTracked'
    BY DEF TypeOK, RetryTimerIsTracked, Ownership, Registration, LiveSocketIsCurrent
<1>5. RetiredClientIsInert'
    BY DEF TypeOK, RetiredClientIsInert, Ownership, Registration, RetryTimerIsTracked,
           HasLiveSocket
<1>6. NotStranded'
    BY DEF TypeOK, NotStranded, Ownership, Registration, RetryTimerIsTracked, Closing
<1>7. MessageClock'
    BY DEF TypeOK, MessageClock, Ownership, ClockOutsideRead, Idle
<1>8. ClockOutsideRead'
    BY DEF TypeOK, ClockOutsideRead, Ownership, Frames, Idle
\* The variables of the others do not change.
<1>9. (Registration /\ RetryBudget /\ BudgetForRetry)'
    BY DEF Registration, RetryBudget, BudgetForRetry, NoRetriesLeft
<1>. QED
    BY <1>1, <1>2, <1>3, <1>4, <1>5, <1>6, <1>7, <1>8, <1>9 DEF IInv

\* The invariant survives a change of ipc.config.
LEMMA ConfigureStep ==
    ASSUME IInv, Configure
    PROVE  IInv'
<1>. USE DEF IInv, Configure, Live
<1>1. TypeOK'
    BY DEF TypeOK
\* The variables of the others do not change.
<1>2. (Ownership /\ Registration /\ LiveSocketIsCurrent /\ RetryTimerIsTracked /\
       RetryBudget /\ BudgetForRetry /\ RetiredClientIsInert /\ NotStranded /\
       MessageClock /\ ClockOutsideRead)'
    BY DEF Ownership, Registration, LiveSocketIsCurrent, RetryTimerIsTracked, RetryBudget,
           BudgetForRetry, RetiredClientIsInert, NotStranded, MessageClock,
           ClockOutsideRead, HasLiveSocket, NoRetriesLeft
<1>. QED
    BY <1>1, <1>2 DEF IInv

\* The invariant survives connected().
LEMMA ConnectedStep ==
    ASSUME IInv, NEW s \in Sockets, Connected(s)
    PROVE  IInv'
<1>. USE DEF IInv, Connected, Live
<1>1. TypeOK'
    BY DEF TypeOK, SocketStates
<1>2. Ownership'
    BY DEF TypeOK, Ownership
<1>3. LiveSocketIsCurrent'
    BY DEF TypeOK, LiveSocketIsCurrent, Ownership
<1>4. RetryTimerIsTracked'
    BY DEF TypeOK, RetryTimerIsTracked, Ownership, Registration, LiveSocketIsCurrent
<1>5. RetryBudget'
    BY DEF TypeOK, RetryBudget, RetryTimerIsTracked, BudgetForRetry, NoRetriesLeft
<1>6. BudgetForRetry'
    BY DEF TypeOK, BudgetForRetry, RetryTimerIsTracked, NoRetriesLeft
<1>7. RetiredClientIsInert'
    BY DEF TypeOK, RetiredClientIsInert, Ownership, Registration, RetryTimerIsTracked,
           HasLiveSocket
<1>8. NotStranded'
    BY DEF TypeOK, NotStranded, Ownership, Registration, RetryTimerIsTracked, Closing
<1>9. MessageClock'
    BY DEF TypeOK, MessageClock, Ownership, ClockOutsideRead, Idle
<1>10. ClockOutsideRead'
    BY DEF TypeOK, ClockOutsideRead, Ownership, Frames, Idle
\* The variables of the others do not change.
<1>11. Registration'
    BY DEF Registration
<1>. QED
    BY <1>1, <1>2, <1>3, <1>4, <1>5, <1>6, <1>7, <1>8, <1>9, <1>10, <1>11 DEF IInv

\* The invariant survives a connection that breaks.
LEMMA SocketDiesStep ==
    ASSUME IInv, NEW s \in Sockets, SocketDies(s)
    PROVE  IInv'
<1>. USE DEF IInv, SocketDies, Destroyed, Live
<1>1. TypeOK'
    BY DEF TypeOK, SocketStates
<1>2. Ownership'
    BY DEF TypeOK, Ownership
<1>3. LiveSocketIsCurrent'
    BY DEF TypeOK, LiveSocketIsCurrent, Ownership
<1>4. RetryTimerIsTracked'
    BY DEF TypeOK, RetryTimerIsTracked, Ownership, Registration, LiveSocketIsCurrent
<1>5. RetiredClientIsInert'
    BY DEF TypeOK, RetiredClientIsInert, Ownership, Registration, RetryTimerIsTracked,
           HasLiveSocket
<1>6. NotStranded'
    BY DEF TypeOK, NotStranded, Ownership, Registration, RetryTimerIsTracked, Closing
<1>7. MessageClock'
    BY DEF TypeOK, MessageClock, Ownership, ClockOutsideRead, Idle
<1>8. ClockOutsideRead'
    BY DEF TypeOK, ClockOutsideRead, Ownership, Frames, Idle
\* The variables of the others do not change.
<1>9. (Registration /\ RetryBudget /\ BudgetForRetry)'
    BY DEF Registration, RetryBudget, BudgetForRetry, NoRetriesLeft
<1>. QED
    BY <1>1, <1>2, <1>3, <1>4, <1>5, <1>6, <1>7, <1>8, <1>9 DEF IInv

\* The invariant survives closed().
LEMMA ClosedStep ==
    ASSUME IInv, NEW s \in Sockets, Closed(s)
    PROVE  IInv'
<1>1. TypeOK'
    <2>1. frame' \in Frames
        BY FrameTypes DEF IInv, TypeOK, Closed
    <2>2. retryTimer' \in [Clients -> BOOLEAN]
        BY DEF IInv, TypeOK, Closed
    <2>3. scheduled' \in [Clients -> Nat]
        <3>1. \A c \in Clients : scheduled[c] + 1 \in Nat
            BY DEF IInv, TypeOK
        <3>. QED
            BY <3>1 DEF IInv, TypeOK, Closed
    <2>. QED
        BY <2>1, <2>2, <2>3 DEF IInv, TypeOK, Closed, SocketStates, Timers
<1>. USE DEF IInv, Closed, GivesUp, Closing, Idle, Live
<1>2. Ownership'
    BY DEF TypeOK, Ownership
<1>3. LiveSocketIsCurrent'
    BY DEF TypeOK, LiveSocketIsCurrent, Ownership
<1>4. RetryTimerIsTracked'
    BY DEF TypeOK, RetryTimerIsTracked, Ownership, Registration, LiveSocketIsCurrent
<1>5. BudgetForRetry'
    BY DEF TypeOK, BudgetForRetry, RetryTimerIsTracked, NoRetriesLeft
<1>6. RetiredClientIsInert'
    BY DEF TypeOK, RetiredClientIsInert, Ownership, Registration, RetryTimerIsTracked,
           HasLiveSocket
<1>7. NotStranded'
    <2>. SUFFICES ASSUME NEW i \in Ids, of'[i] # None
                  PROVE  \/ sock'[of'[i]] # None /\ sstate'[sock'[of'[i]]] # "closed"
                         \/ retryTimer'[of'[i]]
                         \/ gone'[of'[i]]
                         \/ sock'[of'[i]] # None /\ frame' = Closing(sock'[of'[i]])
                         \/ threw'[of'[i]]
        BY DEF NotStranded
    <2>1. of[i] \in Clients
        BY DEF TypeOK
    <2>2. CASE sock[of[i]] = s
        BY <2>1, <2>2 DEF TypeOK, NotStranded, Ownership
    <2>3. CASE sock[of[i]] # s
        BY <2>1, <2>3 DEF TypeOK, NotStranded
    <2>. QED
        BY <2>2, <2>3
<1>8. MessageClock'
    BY DEF TypeOK, MessageClock, Ownership, ClockOutsideRead
<1>9. ClockOutsideRead'
    BY DEF TypeOK, ClockOutsideRead, Ownership, Frames
\* The variables of the others do not change.
<1>10. (Registration /\ RetryBudget)'
    BY DEF Registration, RetryBudget
<1>. QED
    BY <1>1, <1>2, <1>3, <1>4, <1>5, <1>6, <1>7, <1>8, <1>9, <1>10 DEF IInv

\* The invariant survives the first message of a chunk.
LEMMA ReceiveStep ==
    ASSUME IInv, NEW s \in Sockets, Receive(s)
    PROVE  IInv'
<1>1. TypeOK'
    <2>1. PICK n \in 0 .. MaxBatch, tail \in Tails :
            \/ n = 0 /\ EndRead(s, tail, "first") /\ UNCHANGED frame
            \/ /\ n > 0
               /\ frame' = Reading(s, n - 1, tail)
               /\ UNCHANGED <<protocolViolation, sstate, ipcBuffer, msgTimer>>
        BY DEF Receive
    <2>2. CASE EndRead(s, tail, "first") /\ UNCHANGED frame
        BY <2>2, EndReadTypes DEF IInv, TypeOK, Receive
    <2>3. CASE n > 0 /\ frame' = Reading(s, n - 1, tail)
                     /\ UNCHANGED <<protocolViolation, sstate, ipcBuffer, msgTimer>>
        <3>1. n - 1 \in 0 .. MaxBatch
            BY <2>3
        <3>2. frame' \in Frames
            BY <2>3, <3>1, FrameTypes
        <3>. QED
            BY <2>3, <3>2 DEF IInv, TypeOK, Receive
    <2>. QED
        BY <2>1, <2>2, <2>3
<1>. USE DEF IInv, Receive, EndRead, Rest, Restarted, ProtocolFailure, Destroyed, Reading,
       Idle, Tails, Live
<1>2. Ownership'
    BY DEF TypeOK, Ownership
<1>3. LiveSocketIsCurrent'
    BY DEF TypeOK, LiveSocketIsCurrent, Ownership
<1>4. RetryTimerIsTracked'
    BY DEF TypeOK, RetryTimerIsTracked, Ownership, Registration, LiveSocketIsCurrent
<1>5. RetiredClientIsInert'
    BY DEF TypeOK, RetiredClientIsInert, Ownership, Registration, RetryTimerIsTracked,
           HasLiveSocket
<1>6. NotStranded'
    <2>. SUFFICES ASSUME NEW i \in Ids, of'[i] # None
                  PROVE  \/ sock'[of'[i]] # None /\ sstate'[sock'[of'[i]]] # "closed"
                         \/ retryTimer'[of'[i]]
                         \/ gone'[of'[i]]
                         \/ sock'[of'[i]] # None /\ frame' = Closing(sock'[of'[i]])
                         \/ threw'[of'[i]]
        BY DEF NotStranded
    <2>1. of[i] \in Clients
        BY DEF TypeOK
    <2>2. frame # Closing(sock[of[i]])
        BY DEF Closing
    <2>3. \A x \in Sockets : sstate'[x] = "closed" => sstate[x] = "closed"
        BY DEF TypeOK
    <2>. QED
        BY <2>1, <2>2, <2>3 DEF TypeOK, NotStranded
<1>7. MessageClock'
    BY DEF TypeOK, MessageClock, Ownership, ClockOutsideRead
<1>8. ClockOutsideRead'
    BY DEF TypeOK, ClockOutsideRead, Ownership, Frames
\* The variables of the others do not change.
<1>9. (Registration /\ RetryBudget /\ BudgetForRetry)'
    BY DEF Registration, RetryBudget, BudgetForRetry, NoRetriesLeft
<1>. QED
    BY <1>1, <1>2, <1>3, <1>4, <1>5, <1>6, <1>7, <1>8, <1>9 DEF IInv

\* The invariant survives the message timer.
LEMMA MessageTimeoutStep ==
    ASSUME IInv, NEW s \in Sockets, MessageTimeout(s)
    PROVE  IInv'
<1>. USE DEF IInv, MessageTimeout, ProtocolFailure, Destroyed, Live
<1>1. TypeOK'
    BY DEF TypeOK, SocketStates, Buffers, Timers
<1>2. Ownership'
    BY DEF TypeOK, Ownership
<1>3. LiveSocketIsCurrent'
    BY DEF TypeOK, LiveSocketIsCurrent, Ownership
<1>4. RetryTimerIsTracked'
    BY DEF TypeOK, RetryTimerIsTracked, Ownership, Registration, LiveSocketIsCurrent
<1>5. RetiredClientIsInert'
    BY DEF TypeOK, RetiredClientIsInert, Ownership, Registration, RetryTimerIsTracked,
           HasLiveSocket
<1>6. NotStranded'
    BY DEF TypeOK, NotStranded, Ownership, Registration, RetryTimerIsTracked, Closing
<1>7. MessageClock'
    BY DEF TypeOK, MessageClock, Ownership, ClockOutsideRead, Idle
<1>8. ClockOutsideRead'
    BY DEF TypeOK, ClockOutsideRead, Ownership, Frames, Idle
\* The variables of the others do not change.
<1>9. (Registration /\ RetryBudget /\ BudgetForRetry)'
    BY DEF Registration, RetryBudget, BudgetForRetry, NoRetriesLeft
<1>. QED
    BY <1>1, <1>2, <1>3, <1>4, <1>5, <1>6, <1>7, <1>8, <1>9 DEF IInv

\* The invariant survives the retry timer.
LEMMA RetryStep ==
    ASSUME IInv, NEW c \in Clients, Retry(c)
    PROVE  IInv'
<1>1. TypeOK'
    <2>1. retryTimer' \in [Clients -> BOOLEAN] /\ scheduled' \in [Clients -> Nat]
        <3>1. scheduled[c] - 1 \in Nat
            BY DEF IInv, TypeOK, Retry
        <3>. QED
            BY <3>1 DEF IInv, TypeOK, Retry
    <2>2. retriesRemaining' \in [Clients -> Nat \cup {Infinity}]
        <3>1. Decrement(retriesRemaining[c]) \in Nat \cup {Infinity}
            BY DEF IInv, TypeOK, RetryTimerIsTracked, BudgetForRetry, NoRetriesLeft,
                   Retry, Decrement
        <3>. QED
            BY <3>1 DEF IInv, TypeOK, Retry
    <2>3. attempts' \in [Clients -> Nat]
        <3>1. attempts[c] + 1 \in Nat
            BY DEF IInv, TypeOK
        <3>. QED
            BY <3>1 DEF IInv, TypeOK, Retry
    <2>4. /\ gone' \in [Clients -> BOOLEAN]
          /\ threw' \in [Clients -> BOOLEAN]
          /\ sock' \in [Clients -> Sockets \cup {None}]
          /\ sstate' \in [Sockets -> SocketStates]
          /\ owner' \in [Sockets -> Clients \cup {None}]
          /\ ipcBuffer' \in [Sockets -> Buffers]
          /\ msgTimer' \in [Sockets -> Timers]
        <3>1. CASE OpenSocket(c) \/ Throw(c)
            BY <3>1, AttemptTypes DEF IInv
        <3>2. CASE UNCHANGED <<sock, socketVars, threw>>
            BY <3>2 DEF IInv, TypeOK, Retry, Attempt, OpenSocket, Throw
        <3>. QED
            BY <3>1, <3>2 DEF Retry, Attempt
    <2>. QED
        BY <2>1, <2>2, <2>3, <2>4 DEF IInv, TypeOK, Retry
<1>. USE DEF IInv, Retry, Decrement, Attempt, Throw, OpenSocket, Unused, HasLiveSocket, Live
<1>2. Ownership'
    BY DEF TypeOK, Ownership
<1>3. Registration'
    BY DEF TypeOK, Registration, RetryTimerIsTracked
<1>5. LiveSocketIsCurrent'
    BY DEF TypeOK, LiveSocketIsCurrent, Ownership
<1>6. RetryTimerIsTracked'
    BY DEF TypeOK, RetryTimerIsTracked, Ownership, Registration, LiveSocketIsCurrent
<1>7. RetryBudget'
    BY DEF TypeOK, RetryBudget, RetryTimerIsTracked, BudgetForRetry, NoRetriesLeft
<1>8. BudgetForRetry'
    BY DEF TypeOK, BudgetForRetry, RetryTimerIsTracked, NoRetriesLeft
<1>9. RetiredClientIsInert'
    BY DEF TypeOK, RetiredClientIsInert, Ownership, Registration, RetryTimerIsTracked
<1>10. NotStranded'
    <2>. SUFFICES ASSUME NEW i \in Ids, of'[i] # None
                  PROVE  \/ sock'[of'[i]] # None /\ sstate'[sock'[of'[i]]] # "closed"
                         \/ retryTimer'[of'[i]]
                         \/ gone'[of'[i]]
                         \/ sock'[of'[i]] # None /\ frame' = Closing(sock'[of'[i]])
                         \/ threw'[of'[i]]
        BY DEF NotStranded
    <2>1. of[i] \in Clients
        BY DEF TypeOK
    <2>2. CASE of[i] = c
        <3>1. ~HasLiveSocket(c)
            BY DEF TypeOK, RetryTimerIsTracked
        <3>2. ~explicitlyDisconnected[c]
            BY DEF TypeOK, RetryTimerIsTracked
        <3>. QED
            BY <2>1, <2>2, <3>1, <3>2 DEF TypeOK, NotStranded
    <2>3. CASE of[i] # c
        BY <2>1, <2>3 DEF TypeOK, NotStranded
    <2>. QED
        BY <2>2, <2>3
<1>11. MessageClock'
    BY DEF TypeOK, MessageClock, Ownership, ClockOutsideRead, Idle
<1>12. ClockOutsideRead'
    BY DEF TypeOK, ClockOutsideRead, Ownership, Frames, Idle
<1>. QED
    BY <1>1, <1>2, <1>3, <1>5, <1>6, <1>7, <1>8, <1>9, <1>10, <1>11, <1>12 DEF IInv

\* The invariant survives the end of closed().
LEMMA PublishDestroyStep ==
    ASSUME IInv, PublishDestroy
    PROVE  IInv'
<1>. USE DEF IInv, PublishDestroy, Closing, Idle, Live
<1>1. TypeOK'
    BY DEF TypeOK, Frames
<1>2. NotStranded'
    BY DEF TypeOK, NotStranded, Ownership, Registration, RetryTimerIsTracked
<1>3. MessageClock'
    BY DEF TypeOK, MessageClock, Ownership, ClockOutsideRead
<1>4. ClockOutsideRead'
    BY DEF TypeOK, ClockOutsideRead, Ownership, Frames
\* The variables of the others do not change.
<1>5. (Ownership /\ Registration /\ LiveSocketIsCurrent /\
       RetryTimerIsTracked /\ RetryBudget /\ BudgetForRetry /\ RetiredClientIsInert)'
    BY DEF Ownership, Registration, LiveSocketIsCurrent,
           RetryTimerIsTracked, RetryBudget, BudgetForRetry, RetiredClientIsInert,
           HasLiveSocket, NoRetriesLeft
<1>. QED
    BY <1>1, <1>2, <1>3, <1>4, <1>5 DEF IInv

\* The invariant survives the rest of a chunk.
LEMMA ContinueReadStep ==
    ASSUME IInv, ContinueRead
    PROVE  IInv'
<1>1. TypeOK'
    <2>. USE ReadingFrame DEF IInv, ContinueRead
    <2>1. CASE frame.left > 0
        <3>1. frame' = Reading(frame.s, frame.left - 1, frame.tail)
            BY <2>1 DEF Reading
        <3>2. frame' \in Frames
            BY <2>1, <3>1, FrameTypes
        <3>. QED
            BY <2>1, <3>2 DEF TypeOK
    <2>2. CASE frame.left = 0
        <3>1. EndRead(frame.s, frame.tail, "behind") /\ frame' = Idle
            BY <2>2
        <3>. QED
            BY <3>1, EndReadTypes, FrameTypes DEF TypeOK
    <2>. QED
        BY <2>1, <2>2
<1>. USE DEF IInv, ContinueRead, EndRead, Rest, Restarted, ProtocolFailure, Destroyed,
       Closing, Idle, Tails, Live
<1>2. Ownership'
    BY DEF TypeOK, Ownership
<1>3. LiveSocketIsCurrent'
    BY DEF TypeOK, LiveSocketIsCurrent, Ownership
<1>4. RetryTimerIsTracked'
    BY DEF TypeOK, RetryTimerIsTracked, Ownership, Registration, LiveSocketIsCurrent
<1>5. RetiredClientIsInert'
    BY DEF TypeOK, RetiredClientIsInert, Ownership, Registration, RetryTimerIsTracked,
           HasLiveSocket
<1>6. NotStranded'
    BY DEF TypeOK, NotStranded, Ownership, Registration, RetryTimerIsTracked
<1>7. MessageClock'
    <2>1. CASE frame.left > 0
        <3>1. frame' # Idle
            BY <2>1, ReadingFrame DEF Reading
        <3>. QED
            BY <2>1, <3>1 DEF MessageClock
    <2>2. CASE frame.left = 0
        <3>1. frame.s \in Sockets
            BY ReadingFrame
        <3>2. ASSUME NEW x \in Sockets, x # frame.s
              PROVE  /\ sstate'[x] = sstate[x] /\ msgTimer'[x] = msgTimer[x]
                     /\ ipcBuffer'[x] = ipcBuffer[x]
            BY <2>2, <3>1, <3>2 DEF TypeOK
        <3>3. ASSUME NEW x \in Sockets, x # frame.s
              PROVE  /\ Guarded /\ sstate'[x] \in {"connecting", "open"} =>
                            /\ msgTimer'[x] = "off" <=> ipcBuffer'[x] = "empty"
                            /\ ipcBuffer'[x] = "first" => msgTimer'[x] = "own"
                     /\ sstate'[x] = "closed" => msgTimer'[x] = "off"
            BY <3>2, <3>3 DEF MessageClock, ClockOutsideRead
        <3>4. /\ Guarded /\ sstate'[frame.s] \in {"connecting", "open"} =>
                     /\ msgTimer'[frame.s] = "off" <=> ipcBuffer'[frame.s] = "empty"
                     /\ ipcBuffer'[frame.s] = "first" => msgTimer'[frame.s] = "own"
              /\ sstate'[frame.s] = "closed" => msgTimer'[frame.s] = "off"
            <4>1. frame.tail = "bad" => ipcBuffer'[frame.s] = "empty" /\ msgTimer'[frame.s] = "off"
                BY <2>2, <3>1 DEF TypeOK
            <4>2. ASSUME frame.tail # "bad"
                  PROVE  /\ sstate' = sstate
                         /\ ipcBuffer'[frame.s] = Rest(frame.s, frame.tail, "behind")
                         /\ Guarded /\ Live(frame.s) =>
                                msgTimer'[frame.s] = IF frame.tail = "partial"
                                                     THEN Restarted(frame.s, "behind") ELSE "off"
                         /\ ~(Guarded /\ Live(frame.s)) => msgTimer' = msgTimer
                BY <2>2, <3>1, <4>2 DEF TypeOK
            <4>3. frame.tail # "bad" => frame.tail \in {"empty", "partial"}
                BY ReadingFrame
            <4>4. CASE frame.tail = "bad"
                BY <4>1, <4>4
            <4>5. CASE frame.tail # "bad"
                BY <3>1, <4>2, <4>3, <4>5 DEF MessageClock
            <4>. QED
                BY <4>4, <4>5
        <3>. QED
            BY <3>3, <3>4 DEF MessageClock
    <2>. QED
        BY <2>1, <2>2
<1>8. ClockOutsideRead'
    BY DEF TypeOK, ClockOutsideRead, Ownership, Frames
\* The variables of the others do not change.
<1>9. (Registration /\ RetryBudget /\ BudgetForRetry)'
    BY DEF Registration, RetryBudget, BudgetForRetry, NoRetriesLeft
<1>. QED
    BY <1>1, <1>2, <1>3, <1>4, <1>5, <1>6, <1>7, <1>8, <1>9 DEF IInv

-----------------------------------------------------------------------------

\* A fresh ipc object satisfies the invariant.
LEMMA Initially == Init => IInv
<1>. SUFFICES ASSUME Init PROVE IInv
    OBVIOUS
<1>. USE DEF Init, Idle
<1>1. TypeOK
    BY DEF TypeOK, Frames, SocketStates, Buffers, Timers
<1>2. Ownership /\ Registration /\ LiveSocketIsCurrent
    BY DEF Ownership, Registration, LiveSocketIsCurrent, Live
<1>3. RetryTimerIsTracked /\ RetryBudget /\ BudgetForRetry
    BY DEF RetryTimerIsTracked, RetryBudget, BudgetForRetry
<1>4. RetiredClientIsInert /\ NotStranded /\ MessageClock /\ ClockOutsideRead
    BY DEF RetiredClientIsInert, NotStranded, MessageClock, ClockOutsideRead, Live
<1>. QED
    BY <1>1, <1>2, <1>3, <1>4 DEF IInv

\* Every step preserves the invariant.
LEMMA Inductive == IInv /\ [Next]_vars => IInv'
<1>. SUFFICES ASSUME IInv, [Next]_vars PROVE IInv'
    OBVIOUS
<1>1. CASE App
    BY <1>1, AlreadyConnectedStep, ConnectToStep, ConnectToThrowsStep, DisconnectStep,
       ReconnectStep, DestroySocketStep, EmitOverflowStep, ConfigureStep DEF App
<1>2. CASE Callback
    BY <1>2, ConnectedStep, SocketDiesStep, ClosedStep, ReceiveStep, MessageTimeoutStep,
       RetryStep, PublishDestroyStep, ContinueReadStep DEF Callback
<1>3. CASE UNCHANGED vars
    BY <1>3 DEF vars, IInv, TypeOK, Ownership, Registration,
       LiveSocketIsCurrent, RetryTimerIsTracked, RetryBudget, BudgetForRetry,
       NoRetriesLeft, RetiredClientIsInert, NotStranded, MessageClock, ClockOutsideRead,
       Live, HasLiveSocket
<1>. QED
    BY <1>1, <1>2, <1>3 DEF Next

\* Every reachable state of the client satisfies the inductive invariant.
THEOREM ClientInvariant == Spec => []IInv
<1>. QED
    BY Initially, Inductive, PTL DEF Spec

\* Types, and with them: the counters of retries and of pending callbacks
\* never go below zero.
THEOREM TypeCorrect == Spec => []TypeOK
<1>1. IInv => TypeOK
    BY DEF IInv
<1>. QED
    BY <1>1, ClientInvariant, PTL

\* No sequence of connect(), disconnect(), connectTo() and socket events makes
\* a client hold two live sockets, or act on the events of a replaced one.
THEOREM OneLiveSocket == Spec => []LiveSocketIsCurrent
<1>1. IInv => LiveSocketIsCurrent
    BY DEF IInv
<1>. QED
    BY <1>1, ClientInvariant, PTL

\* A client removed from ipc.of never connects or retries again.
THEOREM RetiredClients == Spec => []RetiredClientIsInert
<1>1. IInv => RetiredClientIsInert
    BY DEF IInv
<1>. QED
    BY <1>1, ClientInvariant, PTL

\* The event loop never holds a retry callback that client.retryTimer cannot
\* cancel.
THEOREM RetryTimers == Spec => []RetryTimerIsTracked
<1>1. IInv => RetryTimerIsTracked
    BY DEF IInv
<1>. QED
    BY <1>1, ClientInvariant, PTL

\* maxRetries bounds the automatic attempts between two 'connect' events.
THEOREM RetriesAreBounded == Spec => []RetryBudget
<1>1. IInv => RetryBudget
    BY DEF IInv
<1>. QED
    BY <1>1, ClientInvariant, PTL

\* A registered client always has a connection, an event to come, a retry
\* pending, or has published 'destroy', unless the last call that should have
\* connected it threw: connect() because of config.tls, or new Client().
THEOREM NeverStranded == Spec => []NotStranded
<1>1. IInv => NotStranded
    BY DEF IInv
<1>. QED
    BY <1>1, ClientInvariant, PTL

\* The message timer of a live connection runs exactly while a message is
\* incomplete, and a message that did not begin behind another one has all of
\* messageTimeout.
THEOREM MessageTimers == Spec => []MessageClock
<1>1. IInv => MessageClock
    BY DEF IInv
<1>. QED
    BY <1>1, ClientInvariant, PTL

-----------------------------------------------------------------------------
(***************************************************************************)
(* The clients keep the promise of ClientPromise.                          *)
(***************************************************************************)

\* A client that was never connected is as its constructor left it; one that
\* waits for a retry has not published 'destroy', and is not about to.
Fresh ==
    /\ \A s \in Sockets : owner[s] # None => sock[owner[s]] # None
    /\ \A c \in Clients :
           idOf[c] = None => retriesRemaining[c] = MaxRetries /\ ~protocolViolation[c]
    /\ \A c \in Clients : retryTimer[c] => ~gone[c]
    /\ frame.call = "closed" =>
           LET c == owner[frame.s] IN
           c \in Clients => \/ sock[c] = frame.s /\ ~retryTimer[c]
                            \/ sock[c] # None /\ sstate[sock[c]] # "closed"

\* Every step keeps Fresh.
LEMMA FreshInductive == IInv /\ Fresh /\ [Next]_vars => Fresh'
<1>. SUFFICES ASSUME IInv, Fresh, [Next]_vars PROVE Fresh'
    OBVIOUS
<1>. USE DEF IInv, TypeOK, Registration, Fresh
<1>1. ASSUME NEW id \in Ids, AlreadyConnected(id) PROVE Fresh'
    BY <1>1 DEF AlreadyConnected, vars
<1>2. ASSUME NEW id \in Ids, ConnectTo(id) PROVE Fresh'
  <2>. USE <1>2 DEF ConnectTo, Retire, CancelRetry, Attempt, Throw, OpenSocket, Unused
  <2>1. \A s \in Sockets : owner'[s] # None => sock'[owner'[s]] # None
    OBVIOUS
  <2>2. \A c \in Clients :
            /\ idOf'[c] = None => retriesRemaining'[c] = MaxRetries /\ ~protocolViolation'[c]
            /\ retryTimer'[c] => ~gone'[c]
    OBVIOUS
  <2>3. ASSUME frame'.call = "closed", owner'[frame'.s] \in Clients
        PROVE  LET c == owner'[frame'.s] IN
               \/ sock'[c] = frame'.s /\ ~retryTimer'[c]
               \/ sock'[c] # None /\ sstate'[sock'[c]] # "closed"
    <3>1. frame.s \in Sockets /\ frame # Idle /\ frame' = frame
      BY <2>3 DEF Frames, Idle
    <3>2. owner'[frame.s] = owner[frame.s]
      BY <3>1
    <3>. QED
      BY <2>3, <3>1, <3>2
  <2>. QED
    BY <2>1, <2>2, <2>3
<1>2a. ASSUME NEW id \in Ids, ConnectToThrows(id) PROVE Fresh'
    BY <1>2a DEF ConnectToThrows, Retire, CancelRetry, Throw
<1>3. ASSUME NEW id \in Ids, Disconnect(id) PROVE Fresh'
    BY <1>3 DEF Disconnect, CancelRetry, Destroyed, Live
<1>4. ASSUME NEW id \in Ids, Reconnect(id) PROVE Fresh'
  <2>. USE <1>4 DEF Reconnect, CancelRetry, Attempt, Throw, OpenSocket, Unused
  <2>1. \A s \in Sockets : owner'[s] # None => sock'[owner'[s]] # None
    OBVIOUS
  <2>2. \A c \in Clients :
            /\ idOf'[c] = None => retriesRemaining'[c] = MaxRetries /\ ~protocolViolation'[c]
            /\ retryTimer'[c] => ~gone'[c]
    OBVIOUS
  <2>3. ASSUME frame'.call = "closed", owner'[frame'.s] \in Clients
        PROVE  LET c == owner'[frame'.s] IN
               \/ sock'[c] = frame'.s /\ ~retryTimer'[c]
               \/ sock'[c] # None /\ sstate'[sock'[c]] # "closed"
    <3>1. frame.s \in Sockets /\ frame # Idle /\ frame' = frame
      BY <2>3 DEF Frames, Idle
    <3>2. owner'[frame.s] = owner[frame.s]
      BY <3>1
    <3>. QED
      BY <2>3, <3>1, <3>2
  <2>. QED
    BY <2>1, <2>2, <2>3
<1>5. ASSUME NEW id \in Ids, DestroySocket(id) PROVE Fresh'
    BY <1>5 DEF DestroySocket, Destroyed, Live
<1>6. ASSUME NEW id \in Ids, EmitOverflow(id) PROVE Fresh'
    BY <1>6 DEF EmitOverflow, ProtocolFailure, Destroyed, Live
<1>7. CASE Configure
    BY <1>7 DEF Configure
<1>8. ASSUME NEW s \in Sockets, Connected(s) PROVE Fresh'
    BY <1>8 DEF Connected, Idle
<1>9. ASSUME NEW s \in Sockets, SocketDies(s) PROVE Fresh'
    BY <1>9 DEF SocketDies, Idle
<1>10. ASSUME NEW s \in Sockets, Closed(s) PROVE Fresh'
    BY <1>10 DEF Closed, Closing, Idle, RetryTimerIsTracked, Frames
<1>11. ASSUME NEW s \in Sockets, Receive(s) PROVE Fresh'
    BY <1>11 DEF Receive, EndRead, ProtocolFailure, Reading, Idle
<1>12. ASSUME NEW s \in Sockets, MessageTimeout(s) PROVE Fresh'
    BY <1>12 DEF MessageTimeout, ProtocolFailure, Idle
<1>13. ASSUME NEW c \in Clients, Retry(c) PROVE Fresh'
    BY <1>13 DEF Retry, Attempt, Throw, OpenSocket, RetryTimerIsTracked, Idle
<1>14. CASE PublishDestroy
    BY <1>14 DEF PublishDestroy, Idle, RetryTimerIsTracked, Frames
<1>15. CASE ContinueRead
  <2>1. UNCHANGED <<owner, sock, idOf, retriesRemaining, retryTimer, gone>>
    BY <1>15 DEF ContinueRead
  <2>2. \A c \in Clients : idOf[c] = None => ~protocolViolation'[c]
    BY <1>15, ReadingFrame DEF ContinueRead, EndRead, ProtocolFailure
  <2>3. frame'.call # "closed"
    BY <1>15, ReadingFrame DEF ContinueRead, Idle, Reading
  <2>. QED
    BY <2>1, <2>2, <2>3
<1>16. CASE UNCHANGED vars
    BY <1>16 DEF vars
<1>. QED
    BY <1>1, <1>2, <1>3, <1>4, <1>5, <1>6, <1>7, <1>8, <1>9, <1>10, <1>11, <1>12, <1>13, <1>14,
       <1>15, <1>16, <1>2a DEF Next, App, Callback

\* What the application sees of an id, by the state of its client.
Shows ==
    \A id \in Ids :
        LET c == of[id] IN
        /\ c = None => Statuses[id] = "none"
        /\ c # None /\ sock[c] = None => Statuses[id] = "refused"
        /\ c # None /\ sock[c] # None =>
               /\ sstate[sock[c]] = "connecting" => Statuses[id] = "trying"
               /\ sstate[sock[c]] = "open" => Statuses[id] = "up"
               /\ sstate[sock[c]] = "dying" => Statuses[id] = "lost"
               /\ sstate[sock[c]] = "closed" =>
                      /\ retryTimer[c] => Statuses[id] = "waiting"
                      /\ ~retryTimer[c] /\ frame = Closing(sock[c]) => Statuses[id] = "lost"
                      /\ ~retryTimer[c] /\ frame # Closing(sock[c]) =>
                             Statuses[id] = IF gone[c] THEN "over" ELSE "refused"

\* Status() in this state and in the next.
LEMMA StatusIs == Shows
BY DEF Shows, Statuses, Status

\* The same for the next state.
LEMMA StatusWillBe == Shows'
BY StatusIs, PTL

\* A client whose part of the state does not change shows no change.
LEMMA Unaffected ==
    ASSUME NEW id \in Ids, TypeOK, TypeOK', of'[id] = of[id],
           LET c == of[id] IN
           c # None =>
               /\ sock'[c] = sock[c]
               /\ retryTimer'[c] = retryTimer[c]
               /\ gone'[c] = gone[c]
               /\ retriesRemaining'[c] = retriesRemaining[c]
               /\ protocolViolation'[c] = protocolViolation[c]
               /\ sock[c] # None =>
                      /\ sstate'[sock[c]] = sstate[sock[c]]
                      /\ (frame' = Closing(sock[c])) <=> (frame = Closing(sock[c]))
    PROVE  /\ Statuses'[id] = Statuses[id]
           /\ Attempts'[id] = Attempts[id]
           /\ Violations'[id] = Violations[id]
<1>1. Statuses'[id] = Statuses[id]
    BY StatusIs, StatusWillBe DEF Shows, TypeOK, SocketStates
<1>2. Attempts'[id] = Attempts[id] /\ Violations'[id] = Violations[id]
    BY DEF Attempts, Violations
<1>. QED
    BY <1>1, <1>2

\* Two ids never share a client or a socket.
LEMMA Separate ==
    ASSUME IInv, NEW i \in Ids, NEW j \in Ids, i # j, of[i] # None, of[j] # None
    PROVE  /\ of[i] \in Clients /\ of[j] \in Clients /\ of[i] # of[j]
           /\ sock[of[i]] # None => sock[of[i]] # sock[of[j]]
BY DEF IInv, TypeOK, Registration, Ownership

\* No id shows a change: a stuttering step.
NothingShows == \A i \in Ids : /\ Statuses'[i] = Statuses[i]
                               /\ Attempts'[i] = Attempts[i]
                               /\ Violations'[i] = Violations[i]

\* Only one id shows a change.
OnlyShows(id) == \A i \in Ids : i # id => /\ Statuses'[i] = Statuses[i]
                                         /\ Attempts'[i] = Attempts[i]
                                         /\ Violations'[i] = Violations[i]

\* A step that changes nothing keeps the invariant.
LEMMA Stutters ==
    ASSUME NothingShows
    PROVE  UNCHANGED Promise!vars
BY DEF NothingShows, Promise!vars, Statuses, Attempts, Violations

\* The functions of the promised life cycle, when one id changes.
LEMMA OneChanges ==
    ASSUME NEW id \in Ids, OnlyShows(id)
    PROVE  /\ Statuses' = [Statuses EXCEPT ![id] = Statuses'[id]]
           /\ Attempts' = [Attempts EXCEPT ![id] = Attempts'[id]]
           /\ Violations' = [Violations EXCEPT ![id] = Violations'[id]]
           /\ Statuses'[id] = Statuses[id] => Statuses' = Statuses
           /\ Attempts'[id] = Attempts[id] => Attempts' = Attempts
           /\ Violations'[id] = Violations[id] => Violations' = Violations
<1>1. /\ Statuses = [i \in Ids |-> Statuses[i]]
      /\ Attempts = [i \in Ids |-> Attempts[i]]
      /\ Violations = [i \in Ids |-> Violations[i]]
    BY DEF Statuses, Attempts, Violations
<1>2. /\ Statuses' = [i \in Ids |-> Statuses'[i]]
      /\ Attempts' = [i \in Ids |-> Attempts'[i]]
      /\ Violations' = [i \in Ids |-> Violations'[i]]
    BY DEF Statuses, Attempts, Violations
<1>3. /\ Statuses' = [Statuses EXCEPT ![id] = Statuses'[id]]
      /\ Statuses'[id] = Statuses[id] => Statuses' = Statuses
    BY <1>1, <1>2 DEF OnlyShows
<1>4. /\ Attempts' = [Attempts EXCEPT ![id] = Attempts'[id]]
      /\ Attempts'[id] = Attempts[id] => Attempts' = Attempts
    BY <1>1, <1>2 DEF OnlyShows
<1>5. /\ Violations' = [Violations EXCEPT ![id] = Violations'[id]]
      /\ Violations'[id] = Violations[id] => Violations' = Violations
    BY <1>1, <1>2 DEF OnlyShows
<1>. QED
    BY <1>3, <1>4, <1>5

\* A step of the clients is a step of the promise, or none.
Promised == Promise!Next \/ UNCHANGED Promise!vars

\* connectTo() obtains a new client.
LEMMA ConnectToPromised ==
    ASSUME IInv, IInv', Fresh, NEW id \in Ids, ConnectTo(id)
    PROVE  Promised
<1>1. PICK c \in Clients :
        /\ idOf[c] = None
        /\ of' = [of EXCEPT ![id] = c]
        /\ Retire(id)
        /\ Attempt(c, id)
    BY DEF ConnectTo
<1>2. UNCHANGED <<retriesRemaining, protocolViolation, frame>>
    BY DEF ConnectTo
<1>3. OnlyShows(id)
  <2>. SUFFICES ASSUME NEW i \in Ids, i # id
                PROVE  /\ Statuses'[i] = Statuses[i]
                       /\ Attempts'[i] = Attempts[i]
                       /\ Violations'[i] = Violations[i]
    BY DEF OnlyShows
  <2>1. of'[i] = of[i]
    BY <1>1 DEF IInv, TypeOK
  <2>2. ASSUME of[i] # None
        PROVE  /\ sock'[of[i]] = sock[of[i]] /\ retryTimer'[of[i]] = retryTimer[of[i]]
               /\ gone'[of[i]] = gone[of[i]]
               /\ sock[of[i]] # None => sstate'[sock[of[i]]] = sstate[sock[of[i]]]
    <3>1. of[i] \in Clients /\ of[i] # c
      BY <2>2, <1>1 DEF IInv, TypeOK, Registration
    <3>2. of[id] # None => of[id] \in Clients /\ of[i] # of[id]
      BY <2>2, Separate
    <3>3. retryTimer'[of[i]] = retryTimer[of[i]]
      BY <3>1, <3>2, <1>1 DEF Retire, CancelRetry, IInv, TypeOK
    <3>. QED
      BY <3>1, <3>3, <1>1 DEF Attempt, Throw, OpenSocket, Unused, IInv, TypeOK
  <2>. QED
    BY <2>1, <2>2, <1>2, Unaffected DEF IInv
<1>4. Statuses[id] \in {"none", "refused", "lost", "waiting", "over"}
    BY StatusIs DEF Shows, ConnectTo, SocketDestroyed, Live, IInv, TypeOK, SocketStates
<1>5. Statuses'[id] \in {"trying", "refused"}
  <2>1. of'[id] = c /\ c # None /\ sock[c] = None
    BY <1>1 DEF IInv, TypeOK, Registration
  <2>2. CASE Refuses(id)
    BY <2>1, <2>2, <1>1, StatusWillBe DEF Shows, Attempt, Throw
  <2>3. CASE ~Refuses(id)
    <3>1. sock'[c] # None /\ sstate'[sock'[c]] = "connecting"
      BY <2>3, <1>1 DEF Attempt, OpenSocket, IInv, TypeOK
    <3>. QED
      BY <3>1, <2>1, StatusWillBe DEF Shows
  <2>. QED
    BY <2>2, <2>3
<1>6. Attempts'[id] = MaxRetries /\ Violations'[id] = FALSE
  <2>1. of'[id] = c /\ c # None
    BY <1>1 DEF IInv, TypeOK
  <2>. QED
    BY <2>1, <1>1, <1>2 DEF Fresh, Attempts, Violations
<1>7. Promise!Obtain(id)
    BY <1>3, <1>4, <1>5, <1>6, OneChanges DEF Promise!Obtain, Promise!Becomes, Promise!Anew
<1>. QED
    BY <1>7 DEF Promised, Promise!Next

\* disconnect() releases the client.
LEMMA DisconnectPromised ==
    ASSUME IInv, IInv', NEW id \in Ids, Disconnect(id)
    PROVE  Promised
<1>1. /\ of[id] \in Clients /\ of' = [of EXCEPT ![id] = None]
      /\ CancelRetry(of[id])
      /\ sstate' = IF sock[of[id]] = None THEN sstate ELSE Destroyed(sock[of[id]])
      /\ UNCHANGED <<sock, gone, retriesRemaining, protocolViolation, frame>>
    BY DEF Disconnect, IInv, TypeOK
<1>2. OnlyShows(id)
  <2>. SUFFICES ASSUME NEW i \in Ids, i # id
                PROVE  /\ Statuses'[i] = Statuses[i]
                       /\ Attempts'[i] = Attempts[i]
                       /\ Violations'[i] = Violations[i]
    BY DEF OnlyShows
  <2>1. of'[i] = of[i]
    BY <1>1 DEF IInv, TypeOK
  <2>2. ASSUME of[i] # None
        PROVE  /\ retryTimer'[of[i]] = retryTimer[of[i]]
               /\ sock[of[i]] # None => sstate'[sock[of[i]]] = sstate[sock[of[i]]]
    <3>1. /\ of[i] \in Clients /\ of[i] # of[id]
          /\ sock[of[i]] # None => sock[of[i]] # sock[of[id]]
      BY <2>2, <1>1, Separate
    <3>. QED
      BY <3>1, <1>1 DEF CancelRetry, Destroyed, IInv, TypeOK
  <2>. QED
    BY <2>1, <2>2, <1>1, Unaffected DEF IInv
<1>3. of'[id] = None
    BY <1>1 DEF IInv, TypeOK
<1>4. Statuses'[id] = "none" /\ Attempts'[id] = MaxRetries /\ Violations'[id] = FALSE
    BY <1>3, StatusWillBe DEF Shows, Attempts, Violations
<1>5. Statuses[id] # "none"
    BY <1>1, StatusIs DEF Shows, IInv, TypeOK, SocketStates
<1>6. Promise!Release(id)
    BY <1>2, <1>4, <1>5, OneChanges DEF Promise!Release, Promise!Becomes, Promise!Anew
<1>. QED
    BY <1>6 DEF Promised, Promise!Next

\* connect() opens a socket for a client without a live one: for the client of
\* id, which shows that it tries again, and for nobody else.
LEMMA OpenSocketShows ==
    ASSUME IInv, IInv', NEW id \in Ids, of[id] # None, OpenSocket(of[id]),
           UNCHANGED <<of, protocolViolation, frame>>,
           \A c \in Clients : c # of[id] => /\ retryTimer'[c] = retryTimer[c]
                                            /\ retriesRemaining'[c] = retriesRemaining[c]
    PROVE  OnlyShows(id) /\ Statuses'[id] = "trying"
<1>1. OnlyShows(id)
  <2>. SUFFICES ASSUME NEW i \in Ids, i # id
                PROVE  /\ Statuses'[i] = Statuses[i]
                       /\ Attempts'[i] = Attempts[i]
                       /\ Violations'[i] = Violations[i]
    BY DEF OnlyShows
  <2>1. ASSUME of[i] # None
        PROVE  /\ sock'[of[i]] = sock[of[i]]
               /\ retryTimer'[of[i]] = retryTimer[of[i]]
               /\ gone'[of[i]] = gone[of[i]]
               /\ retriesRemaining'[of[i]] = retriesRemaining[of[i]]
               /\ sock[of[i]] # None => sstate'[sock[of[i]]] = sstate[sock[of[i]]]
    <3>1. of[i] \in Clients /\ of[i] # of[id]
      BY <2>1, Separate
    <3>. QED
      BY <3>1 DEF OpenSocket, Unused, IInv, TypeOK
  <2>. QED
    BY <2>1, Unaffected DEF IInv
<1>2. sock'[of[id]] # None /\ sstate'[sock'[of[id]]] = "connecting"
    BY DEF OpenSocket, IInv, TypeOK
<1>. QED
    BY <1>1, <1>2, StatusWillBe DEF Shows

\* An attempt throws: the client of id does not wait for a retry any more, and
\* has nothing else to wait for.
LEMMA ThrowShows ==
    ASSUME IInv, IInv', Fresh, NEW id \in Ids, of[id] # None, Throw(of[id]),
           UNCHANGED <<of, protocolViolation, frame>>, ~retryTimer'[of[id]],
           \A c \in Clients : c # of[id] => /\ retryTimer'[c] = retryTimer[c]
                                            /\ retriesRemaining'[c] = retriesRemaining[c]
    PROVE  /\ OnlyShows(id)
           /\ Statuses[id] = "waiting" /\ frame # Closing(sock[of[id]]) => Statuses'[id] = "refused"
           /\ Statuses[id] # "waiting" => Statuses'[id] = Statuses[id]
<1>1. of[id] \in Clients /\ UNCHANGED <<sock, sstate, gone>>
    BY DEF Throw, IInv, TypeOK
<1>2. OnlyShows(id)
  <2>. SUFFICES ASSUME NEW i \in Ids, i # id
                PROVE  /\ Statuses'[i] = Statuses[i]
                       /\ Attempts'[i] = Attempts[i]
                       /\ Violations'[i] = Violations[i]
    BY DEF OnlyShows
  <2>1. of[i] # None => of[i] \in Clients /\ of[i] # of[id]
    BY Separate
  <2>. QED
    BY <2>1, <1>1, Unaffected DEF IInv
<1>3. CASE retryTimer[of[id]]
  <2>1. sock[of[id]] # None /\ sstate[sock[of[id]]] = "closed" /\ ~gone[of[id]]
    BY <1>1, <1>3 DEF IInv, RetryTimerIsTracked, Fresh
  <2>2. Statuses[id] = "waiting"
    BY <2>1, <1>3, StatusIs DEF Shows
  <2>3. frame # Closing(sock[of[id]]) => Statuses'[id] = "refused"
    BY <2>1, <1>1, StatusWillBe DEF Shows
  <2>. QED
    BY <1>2, <2>2, <2>3
<1>4. CASE ~retryTimer[of[id]]
  <2>1. Statuses'[id] = Statuses[id]
    BY <1>1, <1>4, StatusIs, StatusWillBe DEF Shows, IInv, TypeOK, SocketStates
  <2>2. Statuses[id] # "waiting"
    BY <1>1, <1>4, StatusIs DEF Shows, IInv, TypeOK, SocketStates
  <2>. QED
    BY <1>2, <2>1, <2>2
<1>. QED
    BY <1>3, <1>4

\* A call of the application throws: the wait is over, or nothing shows.
LEMMA RefusePromised ==
    ASSUME IInv, IInv', Fresh, NEW id \in Ids, of[id] # None, Throw(of[id]),
           CancelRetry(of[id]), UNCHANGED <<of, retriesRemaining, protocolViolation, frame>>
    PROVE  Promised
<1>1. /\ of[id] \in Clients /\ ~retryTimer'[of[id]]
      /\ \A c \in Clients : c # of[id] => retryTimer'[c] = retryTimer[c]
    BY DEF CancelRetry, IInv, TypeOK
<1>2. /\ OnlyShows(id)
      /\ Statuses[id] = "waiting" /\ frame # Closing(sock[of[id]]) => Statuses'[id] = "refused"
      /\ Statuses[id] # "waiting" => Statuses'[id] = Statuses[id]
    BY <1>1, ThrowShows
<1>3. Attempts' = Attempts /\ Violations' = Violations
    BY DEF Attempts, Violations
<1>4. CASE Statuses[id] = "waiting"
  <2>1. retryTimer[of[id]] /\ sock[of[id]] \in Sockets
    BY <1>1, <1>4, StatusIs DEF Shows, IInv, TypeOK, SocketStates
  <2>2. frame # Closing(sock[of[id]])
    BY <2>1, <1>1 DEF Fresh, Closing, IInv, Ownership, RetryTimerIsTracked
  <2>3. Promise!Refuse(id)
    BY <2>2, <1>2, <1>3, <1>4, OneChanges DEF Promise!Refuse, Promise!Becomes
  <2>. QED
    BY <2>3 DEF Promised, Promise!Next
<1>5. CASE Statuses[id] # "waiting"
  <2>1. Statuses' = Statuses
    BY <1>2, <1>5, OneChanges
  <2>. QED
    BY <2>1, <1>3 DEF Promised, Promise!vars
<1>. QED
    BY <1>4, <1>5

\* connectTo() when new Client() throws.
LEMMA ConnectToThrowsPromised ==
    ASSUME IInv, IInv', Fresh, NEW id \in Ids, ConnectToThrows(id)
    PROVE  Promised
BY RefusePromised DEF ConnectToThrows, Retire

\* connect() by the application.
LEMMA ReconnectPromised ==
    ASSUME IInv, IInv', Fresh, NEW id \in Ids, Reconnect(id)
    PROVE  Promised
<1>1. /\ of[id] \in Clients /\ ~HasLiveSocket(of[id]) /\ CancelRetry(of[id])
      /\ UNCHANGED <<of, retriesRemaining, protocolViolation, frame>>
    BY DEF Reconnect, IInv, TypeOK
<1>2. CASE Refuses(id)
  <2>1. Throw(of[id])
    BY <1>2 DEF Reconnect, Attempt
  <2>. QED
    BY <2>1, <1>1, RefusePromised DEF IInv, TypeOK
<1>3. CASE ~Refuses(id)
  <2>1. OpenSocket(of[id])
    BY <1>3 DEF Reconnect, Attempt
  <2>2. \A c \in Clients : c # of[id] => retryTimer'[c] = retryTimer[c]
    BY <1>1 DEF CancelRetry, IInv, TypeOK
  <2>3. OnlyShows(id) /\ Statuses'[id] = "trying"
    BY <2>1, <2>2, <1>1, OpenSocketShows
  <2>4. Statuses[id] \in {"refused", "lost", "waiting", "over"}
    BY <1>1, StatusIs DEF Shows, HasLiveSocket, Live, IInv, TypeOK, SocketStates
  <2>5. Attempts' = Attempts /\ Violations' = Violations
    BY <1>1 DEF Attempts, Violations
  <2>6. Promise!Connect(id)
    BY <2>3, <2>4, <2>5, OneChanges DEF Promise!Connect, Promise!Becomes
  <2>. QED
    BY <2>6 DEF Promised, Promise!Next
<1>. QED
    BY <1>2, <1>3

\* A live socket belongs to a client the application has.
LEMMA LiveIsRegistered ==
    ASSUME IInv, NEW s \in Sockets, Live(s)
    PROVE  \E id \in Ids : of[id] = owner[s] /\ of[id] \in Clients /\ sock[of[id]] = s
<1>1. owner[s] \in Clients /\ sock[owner[s]] = s
    BY DEF IInv, LiveSocketIsCurrent
<1>2. HasLiveSocket(owner[s]) /\ idOf[owner[s]] \in Ids
    BY <1>1 DEF HasLiveSocket, IInv, TypeOK, Registration
<1>3. of[idOf[owner[s]]] = owner[s]
    BY <1>1, <1>2 DEF IInv, RetiredClientIsInert
<1>. QED
    BY <1>1, <1>2, <1>3

\* A socket changes its state, which only its client shows.
LEMMA SocketShows ==
    ASSUME IInv, IInv', NEW id \in Ids, of[id] # None, NEW s \in Sockets, sock[of[id]] = s,
           \A x \in Sockets : x # s => sstate'[x] = sstate[x],
           UNCHANGED <<of, sock, retryTimer, gone, frame>>,
           \A c \in Clients : c # of[id] => /\ retriesRemaining'[c] = retriesRemaining[c]
                                            /\ protocolViolation'[c] = protocolViolation[c]
    PROVE  OnlyShows(id)
<1>. SUFFICES ASSUME NEW i \in Ids, i # id
              PROVE  /\ Statuses'[i] = Statuses[i]
                     /\ Attempts'[i] = Attempts[i]
                     /\ Violations'[i] = Violations[i]
    BY DEF OnlyShows
<1>1. ASSUME of[i] # None
      PROVE  /\ retriesRemaining'[of[i]] = retriesRemaining[of[i]]
             /\ protocolViolation'[of[i]] = protocolViolation[of[i]]
             /\ sock[of[i]] # None => sstate'[sock[of[i]]] = sstate[sock[of[i]]]
  <2>1. /\ of[i] \in Clients /\ of[i] # of[id]
        /\ sock[of[i]] # None => sock[of[i]] # s
    BY <1>1, Separate
  <2>. QED
    BY <2>1 DEF IInv, TypeOK
<1>. QED
    BY <1>1, Unaffected DEF IInv

\* A live socket is destroyed.
LEMMA LossPromised ==
    ASSUME IInv, IInv', NEW s \in Sockets, Live(s), sstate' = Destroyed(s),
           UNCHANGED <<of, sock, retryTimer, gone, retriesRemaining, protocolViolation, frame>>
    PROVE  Promised
<1>1. PICK id \in Ids : of[id] \in Clients /\ sock[of[id]] = s
    BY LiveIsRegistered
<1>2. sstate'[s] = "dying" /\ \A x \in Sockets : x # s => sstate'[x] = sstate[x]
    BY DEF Destroyed, IInv, TypeOK
<1>3. OnlyShows(id)
    BY <1>1, <1>2, SocketShows
<1>4. Statuses[id] \in {"trying", "up"}
    BY <1>1, StatusIs DEF Shows, Live
<1>5. Statuses'[id] = "lost"
    BY <1>1, <1>2, StatusWillBe DEF Shows
<1>6. Attempts' = Attempts /\ Violations' = Violations
    BY DEF Attempts, Violations
<1>7. Promise!Lose(id)
    BY <1>3, <1>4, <1>5, <1>6, OneChanges DEF Promise!Lose, Promise!Becomes
<1>. QED
    BY <1>7 DEF Promised, Promise!Next

\* connected()
LEMMA ConnectedPromised ==
    ASSUME IInv, IInv', NEW s \in Sockets, Connected(s)
    PROVE  Promised
<1>1. PICK id \in Ids : of[id] = owner[s] /\ of[id] \in Clients /\ sock[of[id]] = s
    BY LiveIsRegistered DEF Connected, Live
<1>2. /\ sstate[s] = "connecting" /\ sstate'[s] = "open"
      /\ \A x \in Sockets : x # s => sstate'[x] = sstate[x]
      /\ retriesRemaining' = [retriesRemaining EXCEPT ![of[id]] = MaxRetries]
      /\ UNCHANGED <<of, sock, retryTimer, gone, protocolViolation, frame>>
    BY <1>1 DEF Connected, IInv, TypeOK
<1>3. OnlyShows(id)
    BY <1>1, <1>2, SocketShows DEF IInv, TypeOK
<1>4. Statuses[id] = "trying" /\ Statuses'[id] = "up"
    BY <1>1, <1>2, StatusIs, StatusWillBe DEF Shows
<1>5. Attempts'[id] = MaxRetries /\ Violations' = Violations
    BY <1>1, <1>2 DEF Attempts, Violations, IInv, TypeOK
<1>6. Promise!Open(id)
    BY <1>3, <1>4, <1>5, OneChanges DEF Promise!Open, Promise!Becomes
<1>. QED
    BY <1>6 DEF Promised, Promise!Next

\* protocolFailure(), on the socket of a client or on one it had before.
LEMMA FailurePromised ==
    ASSUME IInv, IInv', Fresh, NEW s \in Sockets, ProtocolFailure(owner[s], s),
           UNCHANGED <<of, sock, retryTimer, gone, retriesRemaining>>,
           \A x \in Sockets : (frame' = Closing(x)) <=> (frame = Closing(x))
    PROVE  Promised
<1>1. /\ protocolViolation' = [protocolViolation EXCEPT ![owner[s]] = TRUE]
      /\ sstate'[s] = IF Live(s) THEN "dying" ELSE sstate[s]
      /\ \A x \in Sockets : x # s => sstate'[x] = sstate[x]
    BY DEF ProtocolFailure, Destroyed, IInv, TypeOK
<1>2. CASE \E id \in Ids : of[id] # None /\ of[id] = owner[s]
  <2>1. PICK id \in Ids : of[id] # None /\ of[id] = owner[s]
    BY <1>2
  <2>2. of[id] \in Clients /\ sock[of[id]] \in Sockets /\ sock[of[id]] # None
    BY <2>1 DEF IInv, TypeOK, Fresh
  <2>3. OnlyShows(id)
    <3>. SUFFICES ASSUME NEW i \in Ids, i # id
                  PROVE  /\ Statuses'[i] = Statuses[i]
                         /\ Attempts'[i] = Attempts[i]
                         /\ Violations'[i] = Violations[i]
      BY DEF OnlyShows
    <3>1. ASSUME of[i] # None
          PROVE  /\ protocolViolation'[of[i]] = protocolViolation[of[i]]
                 /\ sock[of[i]] # None =>
                        /\ sock[of[i]] \in Sockets
                        /\ sstate'[sock[of[i]]] = sstate[sock[of[i]]]
      <4>1. of[i] \in Clients /\ of[i] # of[id]
        BY <3>1, <2>1, Separate
      <4>2. sock[of[i]] # None => sock[of[i]] \in Sockets /\ sock[of[i]] # s
        BY <4>1, <2>1 DEF IInv, TypeOK, Ownership
      <4>. QED
        BY <4>1, <4>2, <2>1, <1>1 DEF IInv, TypeOK
    <3>. QED
      BY <3>1, Unaffected DEF IInv
  <2>4. Statuses[id] # "none"
    BY <2>1, <2>2, StatusIs DEF Shows, IInv, TypeOK, SocketStates
  <2>5. \/ Statuses[id] \in {"trying", "up"} /\ Statuses'[id] = "lost"
        \/ Statuses'[id] = Statuses[id]
    <3>1. CASE Live(s)
      <4>1. sock[of[id]] = s
        BY <3>1, <2>1 DEF IInv, LiveSocketIsCurrent
      <4>2. Statuses[id] \in {"trying", "up"}
        BY <4>1, <3>1, <2>2, StatusIs DEF Shows, Live
      <4>3. Statuses'[id] = "lost"
        BY <4>1, <3>1, <2>2, <1>1, StatusWillBe DEF Shows
      <4>. QED
        BY <4>2, <4>3
    <3>2. CASE ~Live(s)
      <4>1. sstate'[sock[of[id]]] = sstate[sock[of[id]]]
        BY <3>2, <2>2, <1>1
      <4>. QED
        BY <4>1, <2>2, StatusIs, StatusWillBe DEF Shows, IInv, TypeOK, SocketStates
    <3>. QED
      BY <3>1, <3>2
  <2>6. Violations'[id] = TRUE
    BY <2>1, <2>2, <1>1 DEF Violations, IInv, TypeOK
  <2>7. Attempts' = Attempts
    BY DEF Attempts
  <2>8. Promise!Violate(id)
    BY <2>3, <2>4, <2>5, <2>6, <2>7, OneChanges DEF Promise!Violate, Promise!Becomes
  <2>. QED
    BY <2>8 DEF Promised, Promise!Next
<1>3. CASE ~\E id \in Ids : of[id] # None /\ of[id] = owner[s]
  <2>1. ~Live(s)
    BY <1>3, LiveIsRegistered
  <2>2. \A x \in Sockets : sstate'[x] = sstate[x]
    BY <2>1, <1>1
  <2>3. NothingShows
    <3>. SUFFICES ASSUME NEW i \in Ids
                  PROVE  /\ Statuses'[i] = Statuses[i]
                         /\ Attempts'[i] = Attempts[i]
                         /\ Violations'[i] = Violations[i]
      BY DEF NothingShows
    <3>1. ASSUME of[i] # None
          PROVE  /\ protocolViolation'[of[i]] = protocolViolation[of[i]]
                 /\ sock[of[i]] # None => sock[of[i]] \in Sockets
      <4>1. of[i] \in Clients /\ (sock[of[i]] # None => sock[of[i]] \in Sockets)
        BY <3>1 DEF IInv, TypeOK
      <4>2. of[i] # owner[s]
        BY <3>1, <1>3
      <4>3. protocolViolation \in [Clients -> BOOLEAN]
        BY DEF IInv, TypeOK
      <4>4. protocolViolation'[of[i]] = protocolViolation[of[i]]
        BY <4>1, <4>2, <4>3, <1>1
      <4>. QED
        BY <4>1, <4>4
    <3>. QED
      BY <3>1, <2>2, Unaffected DEF IInv
  <2>. QED
    BY <2>3, Stutters DEF Promised
<1>. QED
    BY <1>2, <1>3

\* The end of a chunk.
LEMMA EndReadPromised ==
    ASSUME IInv, IInv', Fresh, NEW s \in Sockets, NEW tail \in Tails,
           NEW place \in {"first", "behind"}, EndRead(s, tail, place),
           UNCHANGED <<of, sock, retryTimer, gone, retriesRemaining>>,
           \A x \in Sockets : (frame' = Closing(x)) <=> (frame = Closing(x))
    PROVE  Promised
<1>1. CASE ProtocolFailure(owner[s], s)
    BY <1>1, FailurePromised
<1>2. CASE UNCHANGED <<protocolViolation, sstate>>
  <2>1. \A i \in Ids : of[i] # None /\ sock[of[i]] # None => sock[of[i]] \in Sockets
    BY DEF IInv, TypeOK
  <2>2. NothingShows
    BY <2>1, <1>2, Unaffected DEF NothingShows, IInv
  <2>. QED
    BY <2>2, Stutters DEF Promised
<1>. QED
    BY <1>1, <1>2 DEF EndRead

\* closed()
LEMMA ClosedPromised ==
    ASSUME IInv, IInv', NEW s \in Sockets, Closed(s)
    PROVE  Promised
<1>1. /\ frame = Idle /\ sstate[s] = "dying" /\ sstate'[s] = "closed"
      /\ \A x \in Sockets : x # s => sstate'[x] = sstate[x]
      /\ UNCHANGED <<of, sock, retriesRemaining, protocolViolation>>
    BY DEF Closed, IInv, TypeOK
<1>2. frame' \in {Idle, Closing(s)} /\ \A x \in Sockets : Closing(x) = Closing(s) => x = s
    BY DEF Closed, Closing
<1>3. \A x \in Sockets : Closing(x) # Idle
    BY DEF Closing, Idle
<1>4. \A c \in Clients : c # owner[s] => retryTimer'[c] = retryTimer[c] /\ gone'[c] = gone[c]
    BY DEF Closed, IInv, TypeOK
\* Nobody but the client of s shows a change.
<1>5. ASSUME NEW i \in Ids, of[i] # None => of[i] # owner[s]
      PROVE  /\ Statuses'[i] = Statuses[i]
             /\ Attempts'[i] = Attempts[i]
             /\ Violations'[i] = Violations[i]
  <2>1. ASSUME of[i] # None
        PROVE  /\ retryTimer'[of[i]] = retryTimer[of[i]] /\ gone'[of[i]] = gone[of[i]]
               /\ sock[of[i]] # None =>
                      /\ sock[of[i]] \in Sockets /\ sock[of[i]] # s
                      /\ sstate'[sock[of[i]]] = sstate[sock[of[i]]]
    BY <2>1, <1>5, <1>1, <1>4 DEF IInv, TypeOK, Ownership
  <2>2. ASSUME of[i] # None, sock[of[i]] # None
        PROVE  frame # Closing(sock[of[i]]) /\ frame' # Closing(sock[of[i]])
    BY <2>1, <2>2, <1>1, <1>2, <1>3
  <2>. QED
    BY <2>1, <2>2, <1>1, Unaffected DEF IInv
<1>6. CASE \E id \in Ids : of[id] # None /\ of[id] = owner[s] /\ sock[of[id]] = s
  <2>1. PICK id \in Ids : of[id] # None /\ of[id] = owner[s] /\ sock[of[id]] = s
    BY <1>6
  <2>2. of[id] \in Clients /\ s # None /\ ~retryTimer[of[id]]
    BY <2>1, <1>1 DEF IInv, TypeOK, RetryTimerIsTracked
  <2>3. OnlyShows(id)
    <3>1. \A i \in Ids : i # id /\ of[i] # None => of[i] # owner[s]
      BY <2>1, Separate
    <3>. QED
      BY <3>1, <1>5 DEF OnlyShows
  <2>4. Statuses[id] = "lost" /\ Attempts' = Attempts /\ Violations' = Violations
    BY <2>1, <2>2, <1>1, StatusIs DEF Shows, Attempts, Violations
  <2>5. CASE GivesUp(owner[s])
    <3>1. frame' = Closing(s) /\ retryTimer' = retryTimer
      BY <2>1, <2>5 DEF Closed
    <3>2. Statuses'[id] = "lost"
      BY <3>1, <2>1, <2>2, <1>1, StatusWillBe DEF Shows
    <3>3. Statuses' = Statuses
      BY <3>2, <2>3, <2>4, OneChanges
    <3>. QED
      BY <3>3, <2>4 DEF Promised, Promise!vars
  <2>6. CASE ~GivesUp(owner[s])
    <3>1. retryTimer'[of[id]]
      BY <2>1, <2>2, <2>6 DEF Closed, IInv, TypeOK
    <3>2. Statuses'[id] = "waiting"
      BY <3>1, <2>1, <2>2, <1>1, StatusWillBe DEF Shows
    <3>3. ~NoRetriesLeft(retriesRemaining[of[id]]) /\ ~protocolViolation[of[id]]
      BY <2>1, <2>6 DEF GivesUp
    <3>4. Attempts[id] # 0 /\ ~Violations[id]
      <4>1. retriesRemaining[of[id]] # 0
        BY <3>3, 0 # Infinity DEF NoRetriesLeft
      <4>2. Attempts[id] = retriesRemaining[of[id]]
        BY <2>1 DEF Attempts
      <4>3. Violations[id] = protocolViolation[of[id]]
        BY <2>1, <2>2 DEF Violations, IInv, TypeOK
      <4>. QED
        BY <4>1, <4>2, <4>3, <3>3
    <3>5. Promise!Wait(id)
      BY <3>2, <3>4, <2>3, <2>4, OneChanges DEF Promise!Wait, Promise!Becomes
    <3>. QED
      BY <3>5 DEF Promised, Promise!Next
  <2>. QED
    BY <2>5, <2>6
<1>7. CASE ~\E id \in Ids : of[id] # None /\ of[id] = owner[s] /\ sock[of[id]] = s
  <2>1. CASE sock[owner[s]] = s
    BY <2>1, <1>5, <1>7, Stutters DEF NothingShows, Promised
  <2>2. CASE sock[owner[s]] # s
    <3>1. retryTimer' = retryTimer /\ gone' = gone /\ frame' = frame
      BY <2>2 DEF Closed
    <3>2. \A i \in Ids : of[i] # None /\ sock[of[i]] # None =>
              sock[of[i]] \in Sockets /\ sock[of[i]] # s
      BY <1>7 DEF IInv, TypeOK, Ownership
    <3>3. NothingShows
      BY <3>1, <3>2, <1>1, Unaffected DEF NothingShows, IInv
    <3>. QED
      BY <3>3, Stutters DEF Promised
  <2>. QED
    BY <2>1, <2>2
<1>. QED
    BY <1>6, <1>7

\* The retry timer.
LEMMA RetryPromised ==
    ASSUME IInv, IInv', Fresh, NEW c \in Clients, Retry(c)
    PROVE  Promised
<1>1. /\ retryTimer[c] /\ sock[c] # None /\ sstate[sock[c]] = "closed"
      /\ ~explicitlyDisconnected[c] /\ scheduled[c] > 0
    BY DEF Retry, IInv, TypeOK, RetryTimerIsTracked
<1>2. PICK id \in Ids : of[id] = c /\ idOf[c] = id
    BY <1>1 DEF IInv, TypeOK, Registration, RetiredClientIsInert
<1>3. /\ frame = Idle /\ retryTimer' = [retryTimer EXCEPT ![c] = FALSE]
      /\ UNCHANGED <<of, protocolViolation, frame>>
    BY DEF Retry
<1>4. c # None /\ Statuses[id] = "waiting" /\ Violations' = Violations
    BY <1>1, <1>2, <1>3, StatusIs DEF Shows, Violations
<1>5. CASE stopRetrying
  <2>1. /\ UNCHANGED <<sock, sstate, retriesRemaining>>
        /\ gone' = [gone EXCEPT ![c] = TRUE]
    BY <1>1, <1>5 DEF Retry
  <2>2. OnlyShows(id)
    <3>. SUFFICES ASSUME NEW i \in Ids, i # id
                  PROVE  /\ Statuses'[i] = Statuses[i]
                         /\ Attempts'[i] = Attempts[i]
                         /\ Violations'[i] = Violations[i]
      BY DEF OnlyShows
    <3>1. of[i] # None => /\ retryTimer'[of[i]] = retryTimer[of[i]]
                          /\ gone'[of[i]] = gone[of[i]]
      BY <2>1, <1>2, <1>3, <1>4, Separate DEF IInv, TypeOK
    <3>. QED
      BY <3>1, <2>1, <1>3, Unaffected DEF IInv
  <2>3. frame' # Closing(sock[c])
    BY <1>3 DEF Idle, Closing
  <2>4. Statuses'[id] = "over"
    <3>1. ~retryTimer'[c] /\ gone'[c]
      BY <2>1, <1>3 DEF IInv, TypeOK
    <3>. QED
      BY <3>1, <2>1, <2>3, <1>1, <1>2, <1>3, <1>4, StatusWillBe DEF Shows
  <2>5. Attempts' = Attempts
    BY <2>1, <1>3 DEF Attempts
  <2>6. Promise!GiveUp(id)
    BY <2>2, <2>4, <2>5, <1>4, OneChanges DEF Promise!GiveUp, Promise!Becomes
  <2>. QED
    BY <2>6 DEF Promised, Promise!Next
<1>6. CASE ~stopRetrying
  <2>1. ~HasLiveSocket(c)
    BY <1>1 DEF HasLiveSocket, Live
  <2>2. /\ Attempt(c, id)
        /\ retriesRemaining' = [retriesRemaining EXCEPT ![c] = Decrement(@)]
    BY <1>1, <1>2, <1>6, <2>1 DEF Retry
  <2>3. OnlyShows(id) /\ Statuses'[id] \in {"trying", "refused"}
    <3>1. \A d \in Clients : d # c => /\ retryTimer'[d] = retryTimer[d]
                                      /\ retriesRemaining'[d] = retriesRemaining[d]
      BY <2>2, <1>3 DEF IInv, TypeOK
    <3>2. CASE Throw(c)
      <4>1. ~retryTimer'[c] /\ frame # Closing(sock[c])
        BY <1>3 DEF Idle, Closing, IInv, TypeOK
      <4>. QED
        BY <4>1, <3>1, <3>2, <1>2, <1>3, <1>4, ThrowShows
    <3>3. CASE OpenSocket(c)
      BY <3>1, <3>3, <1>2, <1>3, <1>4, OpenSocketShows
    <3>. QED
      BY <3>2, <3>3, <2>2 DEF Attempt
  <2>4. Attempts'[id] = IF Attempts[id] = Infinity THEN Attempts[id] ELSE Attempts[id] - 1
    BY <2>2, <1>2, <1>3, <1>4 DEF Attempts, Decrement, IInv, TypeOK
  <2>5. Promise!Retry(id)
    <3>1. Attempts' = [Attempts EXCEPT ![id] = IF @ = Infinity THEN @ ELSE @ - 1]
      BY <2>3, <2>4, OneChanges DEF Attempts
    <3>. QED
      BY <3>1, <2>3, <1>4, OneChanges DEF Promise!Retry, Promise!Becomes
  <2>. QED
    BY <2>5 DEF Promised, Promise!Next
<1>. QED
    BY <1>5, <1>6

\* A step that no client shows.
LEMMA QuietPromised ==
    ASSUME IInv, IInv', UNCHANGED <<of, sock, sstate, retryTimer, gone>>,
           UNCHANGED <<retriesRemaining, protocolViolation>>,
           \A x \in Sockets : (frame' = Closing(x)) <=> (frame = Closing(x))
    PROVE  Promised
<1>1. \A i \in Ids : of[i] # None /\ sock[of[i]] # None => sock[of[i]] \in Sockets
    BY DEF IInv, TypeOK
<1>2. NothingShows
    BY <1>1, Unaffected DEF NothingShows, IInv
<1>. QED
    BY <1>2, Stutters DEF Promised

\* The rest of closed(): the client that gives up is over.
LEMMA PublishDestroyPromised ==
    ASSUME IInv, IInv', Fresh, PublishDestroy
    PROVE  Promised
<1>1. /\ frame.s \in Sockets /\ frame = Closing(frame.s) /\ frame' = Idle
      /\ UNCHANGED <<of, sock, sstate, retryTimer, retriesRemaining, protocolViolation>>
      /\ frame.call = "closed" /\ gone' = [gone EXCEPT ![owner[frame.s]] = TRUE]
    BY DEF PublishDestroy, IInv, TypeOK, Frames, Idle, Closing
<1>2. \A x \in Sockets : frame' # Closing(x) /\ (frame = Closing(x) <=> x = frame.s)
    BY <1>1 DEF Closing, Idle
<1>3. ASSUME NEW i \in Ids,
             of[i] # None /\ sock[of[i]] # None /\ sstate[sock[of[i]]] = "closed"
                 /\ ~retryTimer[of[i]] => sock[of[i]] # frame.s
      PROVE  /\ Statuses'[i] = Statuses[i]
             /\ Attempts'[i] = Attempts[i]
             /\ Violations'[i] = Violations[i]
  <2>1. of[i] # None /\ sock[of[i]] # None => of[i] \in Clients /\ sock[of[i]] \in Sockets
    BY DEF IInv, TypeOK
  <2>2. Attempts'[i] = Attempts[i] /\ Violations'[i] = Violations[i]
    BY <1>1 DEF Attempts, Violations
  <2>3. of[i] # None /\ sock[of[i]] # None /\ sstate[sock[of[i]]] = "closed"
            /\ ~retryTimer[of[i]] => gone'[of[i]] = gone[of[i]]
    BY <2>1, <1>1, <1>3 DEF Fresh, IInv, TypeOK
  <2>4. Statuses'[i] = Statuses[i]
    <3>1. CASE of[i] # None /\ sock[of[i]] # None /\ sstate[sock[of[i]]] = "closed"
                            /\ ~retryTimer[of[i]]
      <4>1. frame # Closing(sock[of[i]]) /\ frame' # Closing(sock[of[i]])
        BY <3>1, <2>1, <1>2, <1>3
      <4>. QED
        BY <4>1, <3>1, <2>3, <1>1, StatusIs, StatusWillBe DEF Shows
    <3>2. CASE ~(of[i] # None /\ sock[of[i]] # None /\ sstate[sock[of[i]]] = "closed"
                             /\ ~retryTimer[of[i]])
      BY <3>2, <2>1, <1>1, StatusIs, StatusWillBe DEF Shows, IInv, TypeOK, SocketStates
    <3>. QED
      BY <3>1, <3>2
  <2>. QED
    BY <2>2, <2>4
<1>4. CASE \E id \in Ids : /\ of[id] # None /\ sock[of[id]] = frame.s
                           /\ sstate[frame.s] = "closed" /\ ~retryTimer[of[id]]
  <2>1. PICK id \in Ids : /\ of[id] # None /\ sock[of[id]] = frame.s
                          /\ sstate[frame.s] = "closed" /\ ~retryTimer[of[id]]
    BY <1>4
  <2>2. OnlyShows(id)
    <3>1. \A i \in Ids : i # id /\ of[i] # None /\ sock[of[i]] # None => sock[of[i]] # frame.s
      BY <2>1, Separate
    <3>. QED
      BY <3>1, <1>3 DEF OnlyShows
  <2>3. Statuses[id] = "lost" /\ Statuses'[id] = "over"
    <3>1. of[id] = owner[frame.s] /\ gone'[of[id]]
      BY <2>1, <1>1 DEF IInv, TypeOK, Ownership
    <3>. QED
      BY <3>1, <2>1, <1>1, <1>2, StatusIs, StatusWillBe DEF Shows
  <2>4. Attempts' = Attempts /\ Violations' = Violations
    BY <1>1 DEF Attempts, Violations
  <2>5. Promise!GiveUp(id)
    BY <2>2, <2>3, <2>4, OneChanges DEF Promise!GiveUp, Promise!Becomes
  <2>. QED
    BY <2>5 DEF Promised, Promise!Next
<1>5. CASE ~\E id \in Ids : /\ of[id] # None /\ sock[of[id]] = frame.s
                            /\ sstate[frame.s] = "closed" /\ ~retryTimer[of[id]]
  <2>1. NothingShows
    BY <1>3, <1>5 DEF NothingShows
  <2>. QED
    BY <2>1, Stutters DEF Promised
<1>. QED
    BY <1>4, <1>5

\* Every step of the clients is a step of the promise, or none.
LEMMA EveryStepPromised == IInv /\ IInv' /\ Fresh /\ [Next]_vars => Promised
<1>. SUFFICES ASSUME IInv, IInv', Fresh, [Next]_vars PROVE Promised
    OBVIOUS
<1>1. ASSUME NEW id \in Ids, AlreadyConnected(id) PROVE Promised
    BY <1>1, QuietPromised DEF AlreadyConnected, vars
<1>2. ASSUME NEW id \in Ids, ConnectTo(id) PROVE Promised
    BY <1>2, ConnectToPromised
<1>2a. ASSUME NEW id \in Ids, ConnectToThrows(id) PROVE Promised
    BY <1>2a, ConnectToThrowsPromised
<1>3. ASSUME NEW id \in Ids, Disconnect(id) PROVE Promised
    BY <1>3, DisconnectPromised
<1>4. ASSUME NEW id \in Ids, Reconnect(id) PROVE Promised
    BY <1>4, ReconnectPromised
<1>5. ASSUME NEW id \in Ids, DestroySocket(id) PROVE Promised
  <2>1. sock[of[id]] \in Sockets /\ Live(sock[of[id]])
    BY <1>5 DEF DestroySocket, HasLiveSocket, IInv, TypeOK
  <2>. QED
    BY <2>1, <1>5, LossPromised DEF DestroySocket
<1>6. ASSUME NEW id \in Ids, EmitOverflow(id) PROVE Promised
  <2>1. sock[of[id]] \in Sockets /\ owner[sock[of[id]]] = of[id]
    BY <1>6 DEF EmitOverflow, IInv, TypeOK, Ownership
  <2>. QED
    BY <2>1, <1>6, FailurePromised DEF EmitOverflow
<1>7. CASE Configure
    BY <1>7, QuietPromised DEF Configure
<1>8. ASSUME NEW s \in Sockets, Connected(s) PROVE Promised
    BY <1>8, ConnectedPromised
<1>9. ASSUME NEW s \in Sockets, SocketDies(s) PROVE Promised
    BY <1>9, LossPromised DEF SocketDies
<1>10. ASSUME NEW s \in Sockets, Closed(s) PROVE Promised
    BY <1>10, ClosedPromised
<1>11. ASSUME NEW s \in Sockets, Receive(s) PROVE Promised
  <2>1. PICK n \in 0 .. MaxBatch, tail \in Tails :
            \/ EndRead(s, tail, "first") /\ UNCHANGED frame
            \/ /\ frame' = Reading(s, n - 1, tail)
               /\ UNCHANGED <<protocolViolation, sstate>>
    BY <1>11 DEF Receive
  <2>2. UNCHANGED <<of, sock, retryTimer, gone, retriesRemaining>> /\ frame = Idle
    BY <1>11 DEF Receive
  <2>3. \A x \in Sockets : Reading(s, n - 1, tail) # Closing(x) /\ Idle # Closing(x)
    BY DEF Reading, Closing, Idle
  <2>4. CASE EndRead(s, tail, "first") /\ UNCHANGED frame
    BY <2>4, <2>2, EndReadPromised
  <2>5. CASE frame' = Reading(s, n - 1, tail) /\ UNCHANGED <<protocolViolation, sstate>>
    BY <2>5, <2>2, <2>3, QuietPromised
  <2>. QED
    BY <2>1, <2>4, <2>5
<1>12. ASSUME NEW s \in Sockets, MessageTimeout(s) PROVE Promised
    BY <1>12, FailurePromised DEF MessageTimeout
<1>13. ASSUME NEW c \in Clients, Retry(c) PROVE Promised
    BY <1>13, RetryPromised
<1>14. CASE PublishDestroy
    BY <1>14, PublishDestroyPromised
<1>15. CASE ContinueRead
  <2>1. frame.s \in Sockets /\ frame.tail \in Tails /\ frame.call = "read"
    BY <1>15, ReadingFrame DEF ContinueRead, IInv
  <2>2. UNCHANGED <<of, sock, retryTimer, gone, retriesRemaining>>
    BY <1>15 DEF ContinueRead
  <2>3. \A x \in Sockets : frame # Closing(x) /\ Idle # Closing(x)
    BY <2>1 DEF Closing, Idle
  <2>4. CASE frame.left > 0 /\ frame' = [frame EXCEPT !.left = @ - 1]
                            /\ UNCHANGED <<protocolViolation, sstate>>
    <3>1. frame' = Reading(frame.s, frame.left - 1, frame.tail)
      BY <2>1, <2>4, ReadingFrame DEF Reading, IInv
    <3>2. \A x \in Sockets : frame' # Closing(x)
      BY <3>1 DEF Reading, Closing
    <3>. QED
      BY <3>2, <2>2, <2>3, <2>4, QuietPromised
  <2>5. CASE EndRead(frame.s, frame.tail, "behind") /\ frame' = Idle
    BY <2>1, <2>2, <2>3, <2>5, EndReadPromised
  <2>. QED
    BY <2>4, <2>5, <1>15 DEF ContinueRead
<1>16. CASE UNCHANGED vars
    BY <1>16, QuietPromised DEF vars
<1>. QED
    BY <1>1, <1>2, <1>3, <1>4, <1>5, <1>6, <1>7, <1>8, <1>9, <1>10, <1>11, <1>12, <1>13, <1>14,
       <1>15, <1>16, <1>2a DEF Next, App, Callback

\* KeepsPromise: whatever sockets, timers and Client objects do, an application
\* that knows only the events sees the promised life cycle for every id.
THEOREM PromiseIsKept == Spec => KeepsPromise
<1>1. Init => Fresh
    BY DEF Init, Fresh, Idle
<1>2. Init => Promise!Init
    BY DEF Init, Promise!Init, Statuses, Status, Attempts, Violations
<1>3. IInv /\ IInv' /\ Fresh /\ [Next]_vars => [Promise!Next]_(Promise!vars)
    BY EveryStepPromised DEF Promised
<1>. QED
    BY <1>1, <1>2, <1>3, FreshInductive, ClientInvariant, PTL DEF Spec, KeepsPromise, Promise!Spec
=============================================================================

------------------------------- MODULE Client -------------------------------
(***************************************************************************)
(* The life cycle of node-ipc's stream clients: class Client of            *)
(* dao/client.js and the registry ipc.of that services/IPC.js keeps.       *)
(*                                                                         *)
(* JavaScript runs one callback at a time, so every event-loop callback    *)
(* (a socket event, a timer) is one action, with two exceptions: closed()  *)
(* publishes 'disconnect' and goes on, and the read loop publishes one     *)
(* message after another.  Application handlers run inside those calls and *)
(* may call the library again; frame holds the call that is suspended, and *)
(* no other callback starts before it has returned.                        *)
(*                                                                         *)
(* Sockets are Node's net.Socket objects (external).  destroy() marks a    *)
(* socket destroyed at once and its 'close' event comes later, so a socket *)
(* is connecting, open, dying (destroyed, 'close' still to come) or        *)
(* closed.  A closed socket that nothing refers to is garbage and its      *)
(* identity is used again.                                                 *)
(***************************************************************************)
EXTENDS Integers

CONSTANTS
    Ids,         \* service ids, the keys of ipc.of
    Clients,     \* Client objects that can be created
    Sockets,     \* socket identities
    None,        \* JavaScript's false / undefined
    Network,     \* the ids reached through connectToNet (they have a port)
    Guarded,     \* parser.messageTimeout is set (guarded and assured parsers)
    Infinity,    \* the default of config.maxRetries
    MaxRetries,  \* config.maxRetries
    MaxBatch     \* bound: messages completed by one chunk of data

ASSUME ClientAssumption ==
    /\ None \notin Clients \cup Sockets \cup Ids
    /\ Network \subseteq Ids
    /\ Guarded \in BOOLEAN
    /\ Infinity \notin Int
    /\ MaxRetries \in Nat \cup {Infinity}
    /\ MaxBatch \in Nat

VARIABLES
    of,                      \* ipc.of: id -> Client
    idOf,                    \* client.id, None before construction
    sock,                    \* client.socket
    retriesRemaining,
    retryTimer,              \* client.retryTimer holds a handle
    scheduled,               \* retry callbacks the event loop still owes
    explicitlyDisconnected,
    protocolViolation,
    attempts,                \* history: automatic attempts since the last 'connect'
    gone,                    \* history: 'destroy' published after the last loss
    threw,                   \* history: an exception has ended the last attempt to connect
    sstate,                  \* life cycle of each socket
    owner,                   \* the Client whose connect() created the socket
    ipcBuffer,               \* the incomplete message in socket.ipcBuffer
    msgTimer,                \* socket.ipcMessageTimer, and what it was started for
    stopRetrying,            \* config.stopRetrying
    tls,                     \* config.tls lets connect() open a network connection
    parser,                  \* createParser(config) does not throw
    appQuiet,                \* the application makes no more calls
    frame                    \* the suspended library call

registryVars == <<of, idOf>>
retryVars    == <<retriesRemaining, retryTimer, scheduled, attempts, gone, threw>>
flagVars     == <<explicitlyDisconnected, protocolViolation>>
socketVars   == <<sstate, owner, ipcBuffer, msgTimer>>
configVars   == <<stopRetrying, tls, parser, appQuiet>>

vars == <<registryVars, sock, retryVars, flagVars, socketVars, configVars, frame>>

-----------------------------------------------------------------------------
Idle     == [call |-> "idle"]
Closing(s) == [call |-> "closed", s |-> s]
Reading(s, left, tail) == [call |-> "read", s |-> s, left |-> left, tail |-> tail]

Tails == {"empty", "partial", "bad"}

Frames == {Idle} \cup [call : {"closed"}, s : Sockets]
                 \cup [call : {"read"}, s : Sockets, left : 0 .. MaxBatch, tail : Tails]

SocketStates == {"connecting", "open", "dying", "closed"}

\* The incomplete message began where a chunk began, or behind another message.
Buffers == {"empty", "first", "behind"}

\* The timer was started for the incomplete message, or for an earlier one and
\* carried over to it.
Timers == {"off", "own", "carried"}

Live(s) == sstate[s] \in {"connecting", "open"}

\* Faulty variant: a socket that is still connecting does not count.
HasOpenSocket(c) == sock[c] # None /\ sstate[sock[c]] = "open"

\* client.socket && !client.socket.destroyed
HasLiveSocket(c) == sock[c] # None /\ Live(sock[c])

\* client.socket.destroyed; the property of false is undefined
SocketDestroyed(c) == sock[c] # None /\ ~Live(sock[c])

\* A socket identity that nothing refers to any more.
Unused(s) ==
    /\ sstate[s] = "closed"
    /\ \A c \in Clients : sock[c] # s
    /\ frame # Idle => frame.s # s

NoRetriesLeft(n) == n # Infinity /\ n < 1

Decrement(n) == IF n = Infinity THEN n ELSE n - 1

TypeOK ==
    /\ of \in [Ids -> Clients \cup {None}]
    /\ idOf \in [Clients -> Ids \cup {None}]
    /\ sock \in [Clients -> Sockets \cup {None}]
    /\ retriesRemaining \in [Clients -> Nat \cup {Infinity}]
    /\ retryTimer \in [Clients -> BOOLEAN]
    /\ scheduled \in [Clients -> Nat]
    /\ attempts \in [Clients -> Nat]
    /\ gone \in [Clients -> BOOLEAN]
    /\ threw \in [Clients -> BOOLEAN]
    /\ explicitlyDisconnected \in [Clients -> BOOLEAN]
    /\ protocolViolation \in [Clients -> BOOLEAN]
    /\ sstate \in [Sockets -> SocketStates]
    /\ owner \in [Sockets -> Clients \cup {None}]
    /\ ipcBuffer \in [Sockets -> Buffers]
    /\ msgTimer \in [Sockets -> Timers]
    /\ stopRetrying \in BOOLEAN
    /\ tls \in BOOLEAN
    /\ parser \in BOOLEAN
    /\ appQuiet \in BOOLEAN
    /\ frame \in Frames

Init ==
    /\ of = [id \in Ids |-> None]
    /\ idOf = [c \in Clients |-> None]
    /\ sock = [c \in Clients |-> None]
    /\ retriesRemaining = [c \in Clients |-> MaxRetries]
    /\ retryTimer = [c \in Clients |-> FALSE]
    /\ scheduled = [c \in Clients |-> 0]
    /\ attempts = [c \in Clients |-> 0]
    /\ gone = [c \in Clients |-> FALSE]
    /\ threw = [c \in Clients |-> FALSE]
    /\ explicitlyDisconnected = [c \in Clients |-> FALSE]
    /\ protocolViolation = [c \in Clients |-> FALSE]
    /\ sstate = [s \in Sockets |-> "closed"]
    /\ owner = [s \in Sockets |-> None]
    /\ ipcBuffer = [s \in Sockets |-> "empty"]
    /\ msgTimer = [s \in Sockets |-> "off"]
    /\ stopRetrying \in BOOLEAN
    /\ tls \in BOOLEAN
    /\ parser \in BOOLEAN
    /\ appQuiet = FALSE
    /\ frame = Idle

-----------------------------------------------------------------------------
(***************************************************************************)
(* Pieces that several calls share.                                        *)
(***************************************************************************)

\* Faulty variant: the handle is dropped but the timer is not cancelled.
ForgetRetry(c) ==
    /\ retryTimer' = [retryTimer EXCEPT ![c] = FALSE]
    /\ UNCHANGED scheduled

\* clearTimeout(retryTimer); retryTimer = false.  Only the callback the
\* handle names is cancelled.
CancelRetry(c) ==
    /\ retryTimer' = [retryTimer EXCEPT ![c] = FALSE]
    /\ scheduled' = [scheduled EXCEPT ![c] = IF retryTimer[c] THEN @ - 1 ELSE @]

\* socket.destroy(): no effect on a socket that is destroyed already.
Destroyed(s) == [sstate EXCEPT ![s] = IF Live(s) THEN "dying" ELSE @]

\* connect() throws before it creates a socket: the assured profile finds no
\* config.tls, or the TLS options cannot be made of what it holds.
Refuses(id) == id \in Network /\ ~tls

\* The part of connect() that makes a new socket client.socket, whatever it
\* was before.
OpenSocket(c) ==
    /\ \E s \in Sockets :
        /\ Unused(s)
        /\ sock' = [sock EXCEPT ![c] = s]
        /\ sstate' = [sstate EXCEPT ![s] = "connecting"]
        /\ owner' = [owner EXCEPT ![s] = c]
        /\ ipcBuffer' = [ipcBuffer EXCEPT ![s] = "empty"]
        /\ msgTimer' = [msgTimer EXCEPT ![s] = "off"]
    /\ gone' = [gone EXCEPT ![c] = FALSE]
    /\ threw' = [threw EXCEPT ![c] = FALSE]

\* An exception out of connect(), or out of new Client() in connectTo, leaves
\* the client with the socket it had.
Throw(c) ==
    /\ threw' = [threw EXCEPT ![c] = TRUE]
    /\ UNCHANGED <<sock, socketVars, gone>>

\* connect() after its early return and clearTimeout.
Attempt(c, id) == IF Refuses(id) THEN Throw(c) ELSE OpenSocket(c)

\* protocolFailure(socket, error), also on a socket that was replaced.
ProtocolFailure(c, s) ==
    /\ msgTimer' = [msgTimer EXCEPT ![s] = "off"]
    /\ ipcBuffer' = [ipcBuffer EXCEPT ![s] = "empty"]
    /\ protocolViolation' = [protocolViolation EXCEPT ![c] = TRUE]
    /\ sstate' = Destroyed(s)

-----------------------------------------------------------------------------
(***************************************************************************)
(* Calls of the application.  They come from the main program or from a    *)
(* handler that runs inside the suspended call.  The application reaches a *)
(* Client through ipc.of, as the documentation shows it.                   *)
(***************************************************************************)

\* connectTo / connectToNet while ipc.of[id].socket.destroyed is not true:
\* 'Already Connected', only the callback runs.
AlreadyConnected(id) ==
    /\ ~appQuiet
    /\ of[id] # None
    /\ ~SocketDestroyed(of[id])
    /\ UNCHANGED vars

\* connectTo / connectToNet otherwise: the old Client is retired.
Retire(id) ==
    IF of[id] = None
    THEN UNCHANGED <<explicitlyDisconnected, retryTimer, scheduled>>
    ELSE /\ explicitlyDisconnected' = [explicitlyDisconnected EXCEPT ![of[id]] = TRUE]
         /\ CancelRetry(of[id])

\* Then a new one is registered and its connect() is called.
ConnectTo(id) ==
    /\ ~appQuiet
    /\ of[id] # None => SocketDestroyed(of[id])
    /\ parser
    /\ Retire(id)
    /\ \E c \in Clients :
        /\ idOf[c] = None
        /\ idOf' = [idOf EXCEPT ![c] = id]
        /\ of' = [of EXCEPT ![id] = c]
        /\ Attempt(c, id)
    /\ UNCHANGED <<retriesRemaining, attempts, protocolViolation, configVars, frame>>

\* Or new Client() throws, and the retired client stays registered.
ConnectToThrows(id) ==
    /\ ~appQuiet
    /\ of[id] # None
    /\ SocketDestroyed(of[id])
    /\ ~parser
    /\ Retire(id)
    /\ Throw(of[id])
    /\ UNCHANGED <<registryVars, retriesRemaining, attempts, protocolViolation, configVars, frame>>

\* ipc.disconnect(id)
Disconnect(id) ==
    /\ ~appQuiet
    /\ of[id] # None
    /\ explicitlyDisconnected' = [explicitlyDisconnected EXCEPT ![of[id]] = TRUE]
    /\ CancelRetry(of[id])
    /\ sstate' = IF sock[of[id]] = None THEN sstate ELSE Destroyed(sock[of[id]])
    /\ of' = [of EXCEPT ![id] = None]
    /\ UNCHANGED <<idOf, sock, retriesRemaining, attempts, gone, threw, protocolViolation,
                   owner, ipcBuffer, msgTimer, configVars, frame>>

\* ipc.of[id].connect(): returns at once while the socket is alive.
Reconnect(id) ==
    /\ ~appQuiet
    /\ of[id] # None
    /\ ~HasLiveSocket(of[id])
    /\ CancelRetry(of[id])
    /\ Attempt(of[id], id)
    /\ UNCHANGED <<registryVars, retriesRemaining, attempts, flagVars, configVars, frame>>

\* ipc.of[id].socket.destroy()
DestroySocket(id) ==
    /\ ~appQuiet
    /\ of[id] # None
    /\ HasLiveSocket(of[id])
    /\ sstate' = Destroyed(sock[of[id]])
    /\ UNCHANGED <<registryVars, sock, retryVars, flagVars, owner, ipcBuffer, msgTimer,
                   configVars, frame>>

\* ipc.of[id].emit(): writeGuarded finds more than maxPendingBytes pending.
EmitOverflow(id) ==
    /\ ~appQuiet
    /\ Guarded
    /\ of[id] # None
    /\ sock[of[id]] # None
    /\ ProtocolFailure(of[id], sock[of[id]])
    /\ UNCHANGED <<registryVars, sock, retryVars, explicitlyDisconnected, owner,
                   configVars, frame>>

\* ipc.config is shared by all clients and may change at any time.
Configure ==
    /\ ~appQuiet
    /\ \/ stopRetrying' = ~stopRetrying /\ UNCHANGED <<tls, parser, appQuiet>>
       \/ tls' = ~tls /\ UNCHANGED <<stopRetrying, parser, appQuiet>>
       \/ parser' = ~parser /\ UNCHANGED <<stopRetrying, tls, appQuiet>>
       \/ appQuiet' = TRUE /\ UNCHANGED <<stopRetrying, tls, parser>>
    /\ UNCHANGED <<registryVars, sock, retryVars, flagVars, socketVars, frame>>

App ==
    \/ \E id \in Ids :
        \/ AlreadyConnected(id)
        \/ ConnectTo(id)
        \/ ConnectToThrows(id)
        \/ Disconnect(id)
        \/ Reconnect(id)
        \/ DestroySocket(id)
        \/ EmitOverflow(id)
    \/ Configure

-----------------------------------------------------------------------------
(***************************************************************************)
(* Callbacks of the event loop.                                            *)
(***************************************************************************)

\* connected(socket): the retry budget is full again, 'connect' is published.
Connected(s) ==
    /\ frame = Idle
    /\ sstate[s] = "connecting"
    /\ sstate' = [sstate EXCEPT ![s] = "open"]
    /\ IF sock[owner[s]] = s
       THEN /\ retriesRemaining' = [retriesRemaining EXCEPT ![owner[s]] = MaxRetries]
            /\ attempts' = [attempts EXCEPT ![owner[s]] = 0]
       ELSE UNCHANGED <<retriesRemaining, attempts>>
    /\ UNCHANGED <<registryVars, sock, retryTimer, scheduled, gone, threw, flagVars, owner,
                   ipcBuffer, msgTimer, configVars, frame>>

\* The attempt fails, the connection breaks or the peer closes it.  Node
\* destroys the socket; its 'error' listener publishes 'error' at most.
SocketDies(s) ==
    /\ frame = Idle
    /\ Live(s)
    /\ sstate' = Destroyed(s)
    /\ UNCHANGED <<registryVars, sock, retryVars, flagVars, owner, ipcBuffer, msgTimer,
                   configVars, frame>>

\* Faulty variant: a client that saw a violation tries again.
GivesUpUnlessViolated(c) ==
    \/ stopRetrying
    \/ NoRetriesLeft(retriesRemaining[c])
    \/ explicitlyDisconnected[c]

GivesUp(c) ==
    \/ stopRetrying
    \/ NoRetriesLeft(retriesRemaining[c])
    \/ explicitlyDisconnected[c]
    \/ protocolViolation[c]

\* closed(socket): clears the message timer, ignores a replaced socket, then
\* either starts to give up (publishes 'disconnect', 'destroy' to follow) or
\* arms the retry timer and publishes 'disconnect'.
Closed(s) ==
    /\ frame = Idle
    /\ sstate[s] = "dying"
    /\ sstate' = [sstate EXCEPT ![s] = "closed"]
    /\ msgTimer' = [msgTimer EXCEPT ![s] = "off"]
    /\ \/ /\ sock[owner[s]] # s
          /\ UNCHANGED <<retryTimer, scheduled, gone, threw, frame>>
       \/ /\ sock[owner[s]] = s
          /\ gone' = [gone EXCEPT ![owner[s]] = FALSE]
          /\ threw' = [threw EXCEPT ![owner[s]] = FALSE]
          /\ \/ /\ GivesUp(owner[s])
                /\ frame' = Closing(s)
                /\ UNCHANGED <<retryTimer, scheduled>>
             \/ /\ ~GivesUp(owner[s])
                /\ retryTimer' = [retryTimer EXCEPT ![owner[s]] = TRUE]
                /\ scheduled' = [scheduled EXCEPT ![owner[s]] = @ + 1]
                /\ UNCHANGED frame
    /\ UNCHANGED <<registryVars, sock, retriesRemaining, attempts, flagVars, owner,
                   ipcBuffer, configVars>>

\* Faulty variant: closed() returns after 'disconnect'.
SkipDestroy ==
    /\ frame.call = "closed"
    /\ frame' = Idle
    /\ UNCHANGED <<registryVars, sock, retryVars, flagVars, socketVars, configVars>>

\* The rest of closed() when it gives up.  The handlers of 'disconnect' have
\* returned; socket.destroy() does nothing on a closed socket.
PublishDestroy ==
    /\ frame.call = "closed"
    /\ gone' = [gone EXCEPT ![owner[frame.s]] = TRUE]
    /\ frame' = Idle
    /\ UNCHANGED <<registryVars, sock, retriesRemaining, retryTimer, scheduled, attempts, threw,
                   flagVars, socketVars, configVars>>

\* The retry timer's callback.  The history of attempts is not kept when
\* the budget is infinite.
Retry(c) ==
    /\ frame = Idle
    /\ scheduled[c] > 0
    /\ scheduled' = [scheduled EXCEPT ![c] = @ - 1]
    /\ retryTimer' = [retryTimer EXCEPT ![c] = FALSE]
    /\ \/ /\ explicitlyDisconnected[c]
          /\ UNCHANGED <<retriesRemaining, attempts, gone, threw, sock, socketVars>>
       \/ /\ ~explicitlyDisconnected[c]
          /\ stopRetrying
          /\ gone' = [gone EXCEPT ![c] = TRUE]
          /\ UNCHANGED <<retriesRemaining, attempts, threw, sock, socketVars>>
       \/ /\ ~explicitlyDisconnected[c]
          /\ ~stopRetrying
          /\ retriesRemaining' = [retriesRemaining EXCEPT ![c] = Decrement(@)]
          /\ attempts' = [attempts EXCEPT ![c] = IF MaxRetries = Infinity THEN @ ELSE @ + 1]
          /\ IF HasLiveSocket(c)
             THEN UNCHANGED <<sock, socketVars, gone, threw>>
             ELSE Attempt(c, idOf[c])
    /\ UNCHANGED <<registryVars, flagVars, configVars, frame>>

\* What is left of a chunk: the beginning or the continuation of a message.  The
\* chunk has completed another one before it (place = "behind") or not ("first").
Rest(s, tail, place) ==
    IF tail = "empty" THEN "empty"
    ELSE IF place = "behind" \/ ipcBuffer[s] = "empty" THEN place
    ELSE ipcBuffer[s]

\* startMessageTimer leaves a running timer alone.
Restarted(s, place) ==
    IF msgTimer[s] = "off" THEN "own" ELSE IF place = "behind" THEN "carried" ELSE msgTimer[s]

\* Faulty variant: the timer goes on after the message is complete.
EndReadKeepsTimer(s, tail, place) ==
    \/ /\ tail = "bad"
       /\ ProtocolFailure(owner[s], s)
    \/ /\ tail # "bad"
       /\ ipcBuffer' = [ipcBuffer EXCEPT ![s] = Rest(s, tail, place)]
       /\ msgTimer' = IF Guarded /\ Live(s) /\ tail = "partial"
                      THEN [msgTimer EXCEPT ![s] = Restarted(s, place)]
                      ELSE msgTimer
       /\ UNCHANGED <<protocolViolation, sstate>>

\* receiveFramed / receiveGuarded after the last message of a chunk: what is
\* left over is kept, or the parser has thrown.
EndRead(s, tail, place) ==
    \/ /\ tail = "bad"
       /\ ProtocolFailure(owner[s], s)
    \/ /\ tail # "bad"
       /\ ipcBuffer' = [ipcBuffer EXCEPT ![s] = Rest(s, tail, place)]
       /\ msgTimer' = IF Guarded /\ Live(s)
                      THEN [msgTimer EXCEPT ![s] =
                               IF tail = "partial" THEN Restarted(s, place) ELSE "off"]
                      ELSE msgTimer
       /\ UNCHANGED <<protocolViolation, sstate>>

\* A chunk of data that completes n messages; the first one is published.
Receive(s) ==
    /\ frame = Idle
    /\ sstate[s] = "open"
    /\ sock[owner[s]] = s
    /\ \E n \in 0 .. MaxBatch, tail \in Tails :
        \/ /\ n = 0
           /\ tail # "empty"
           /\ EndRead(s, tail, "first")
           /\ UNCHANGED frame
        \/ /\ n > 0
           /\ frame' = Reading(s, n - 1, tail)
           /\ UNCHANGED <<protocolViolation, sstate, ipcBuffer, msgTimer>>
    /\ UNCHANGED <<registryVars, sock, retryVars, explicitlyDisconnected, owner, configVars>>

\* The handlers have returned: the read loop publishes the next message,
\* even when they destroyed or replaced the socket, or it ends.
ContinueRead ==
    /\ frame.call = "read"
    /\ \/ /\ frame.left > 0
          /\ frame' = [frame EXCEPT !.left = @ - 1]
          /\ UNCHANGED <<protocolViolation, sstate, ipcBuffer, msgTimer>>
       \/ /\ frame.left = 0
          /\ EndRead(frame.s, frame.tail, "behind")
          /\ frame' = Idle
    /\ UNCHANGED <<registryVars, sock, retryVars, explicitlyDisconnected, owner, configVars>>

\* startMessageTimer's callback: it does not ask whether the socket is still
\* the client's socket.
MessageTimeout(s) ==
    /\ frame = Idle
    /\ msgTimer[s] # "off"
    /\ ProtocolFailure(owner[s], s)
    /\ UNCHANGED <<registryVars, sock, retryVars, explicitlyDisconnected, owner, configVars,
                   frame>>

Callback ==
    \/ \E s \in Sockets :
        \/ Connected(s)
        \/ SocketDies(s)
        \/ Closed(s)
        \/ Receive(s)
        \/ MessageTimeout(s)
    \/ \E c \in Clients : Retry(c)
    \/ PublishDestroy
    \/ ContinueRead

Next == App \/ Callback

Spec == Init /\ [][Next]_vars

\* A callback that is due runs; a connection attempt ends one way or the
\* other.  Nothing is assumed of the application or of open connections.
Fairness ==
    /\ \A s \in Sockets :
        /\ WF_vars(Closed(s))
        /\ WF_vars(sstate[s] = "connecting" /\ (Connected(s) \/ SocketDies(s)))
    /\ \A c \in Clients : WF_vars(Retry(c))
    /\ WF_vars(PublishDestroy)
    /\ WF_vars(ContinueRead)

FairSpec == Spec /\ Fairness

-----------------------------------------------------------------------------
(***************************************************************************)
(* Properties.                                                             *)
(***************************************************************************)

\* A socket that is not destroyed is the current socket of the client that
\* created it, so a client never has two connections and the 'connect' and
\* 'data' events it acts on are never those of a replaced socket (connect()
\* of dao/client.js replaces this.socket, ipc.disconnect and connectTo only
\* drop clients whose socket is destroyed).
LiveSocketIsCurrent ==
    \A s \in Sockets : Live(s) => owner[s] \in Clients /\ sock[owner[s]] = s

\* A client that is no longer in ipc.of is dead for good: it is marked as
\* disconnected, owes no retry and holds no connection the application could
\* not reach any more, whatever was in flight when disconnect() or connectTo()
\* removed it.
RetiredClientIsInert ==
    \A c \in Clients :
        idOf[c] # None /\ of[idOf[c]] # c =>
            /\ explicitlyDisconnected[c]
            /\ scheduled[c] = 0
            /\ ~HasLiveSocket(c)

\* client.retryTimer tells the truth: the event loop owes the client exactly
\* the one callback that the handle can cancel, and only while its socket is
\* closed and nobody has disconnected it.
RetryTimerIsTracked ==
    \A c \in Clients :
        /\ scheduled[c] = IF retryTimer[c] THEN 1 ELSE 0
        /\ retryTimer[c] => /\ sock[c] # None
                            /\ sstate[sock[c]] = "closed"
                            /\ ~explicitlyDisconnected[c]

\* Between two 'connect' events a client makes at most maxRetries automatic
\* attempts, whatever manual connect() calls come in between.
RetryBudget ==
    MaxRetries # Infinity =>
        \A c \in Clients :
            /\ retriesRemaining[c] \in Nat
            /\ retriesRemaining[c] + attempts[c] = MaxRetries

\* A registered client is never forgotten in silence: its socket is alive, or
\* 'close' is still to come, or a retry is pending, or it has published 'destroy'
\* for its last loss (or is about to), or the last attempt to connect, after which
\* nothing is pending, has ended with an exception.
NotStranded ==
    \A id \in Ids :
        of[id] # None =>
            \/ sock[of[id]] # None /\ sstate[sock[of[id]]] # "closed"
            \/ retryTimer[of[id]]
            \/ gone[of[id]]
            \/ sock[of[id]] # None /\ frame = Closing(sock[of[id]])
            \/ threw[of[id]]

\* Between two callbacks the message timer of a connection runs exactly while
\* an incomplete message is buffered, and a message that began where a chunk
\* began has a timer of its own: all of messageTimeout.  Only a message that
\* began behind another one may be timed by a timer started for that one, since
\* startMessageTimer keeps a timer that runs and only an empty buffer clears it.
MessageClock ==
    \A s \in Sockets :
        /\ Guarded /\ Live(s) /\ frame = Idle =>
            /\ msgTimer[s] = "off" <=> ipcBuffer[s] = "empty"
            /\ ipcBuffer[s] = "first" => msgTimer[s] = "own"
        /\ sstate[s] = "closed" => msgTimer[s] = "off"

Settled(id) ==
    \/ of[id] = None
    \/ threw[of[id]]
    \/ sock[of[id]] # None /\ sstate[sock[of[id]]] = "open"
    \/ /\ sock[of[id]] # None /\ sstate[sock[of[id]]] = "closed"
       /\ gone[of[id]] /\ ~retryTimer[of[id]]

\* Once the application leaves it alone, a client whose connection dropped is
\* connected again or publishes 'destroy', or its attempt to connect throws.
Settles ==
    \A id \in Ids : (appQuiet /\ ~Settled(id)) ~> Settled(id)

-----------------------------------------------------------------------------
(***************************************************************************)
(* The inductive invariant: the safety invariants above and what ties the  *)
(* references between clients, sockets and the registry together.          *)
(***************************************************************************)

\* client.socket is a socket this client created, and a socket that can
\* still deliver an event has a client to deliver it to.
Ownership ==
    /\ \A c \in Clients : sock[c] # None => owner[sock[c]] = c
    /\ \A s \in Sockets : sstate[s] # "closed" => owner[s] \in Clients

\* ipc.of[id] was created for id, and before construction a client has
\* nothing.
Registration ==
    /\ \A id \in Ids : of[id] # None => idOf[of[id]] = id
    /\ \A c \in Clients : idOf[c] = None => sock[c] = None

\* A pending retry still has budget.
BudgetForRetry ==
    /\ MaxRetries = Infinity => \A c \in Clients : retriesRemaining[c] = Infinity
    /\ \A c \in Clients : retryTimer[c] => ~NoRetriesLeft(retriesRemaining[c])

\* MessageClock also between the messages of a chunk, for every socket but
\* the one that is being read.
ClockOutsideRead ==
    \A s \in Sockets :
        Guarded /\ Live(s) /\ ~(frame.call = "read" /\ frame.s = s) =>
            /\ msgTimer[s] = "off" <=> ipcBuffer[s] = "empty"
            /\ ipcBuffer[s] = "first" => msgTimer[s] = "own"

IInv ==
    /\ TypeOK
    /\ Ownership
    /\ Registration
    /\ LiveSocketIsCurrent
    /\ RetryTimerIsTracked
    /\ RetryBudget
    /\ BudgetForRetry
    /\ RetiredClientIsInert
    /\ NotStranded
    /\ MessageClock
    /\ ClockOutsideRead

=============================================================================

---------------------------- MODULE StreamServer ----------------------------
(***************************************************************************)
(* A stream server: class Server of dao/socketServer.js on a Unix socket,  *)
(* a Windows pipe, TCP or TLS.                                             *)
(*                                                                         *)
(* As in Client, one callback of the event loop is one action.  calls is   *)
(* the stack of library calls that wait for application handlers; the      *)
(* handlers may call the library again, and no callback starts before the  *)
(* stack is empty.                                                         *)
(*                                                                         *)
(* Node's listeners and sockets are external.  destroy() marks a socket at *)
(* once, its 'close' event comes later (conn is then "dying").  A TLS      *)
(* listener hands a socket over only after the handshake.                  *)
(***************************************************************************)
EXTENDS Integers, FiniteSets, Sequences, SequencesExt

CONSTANTS
    Peers,           \* identities of accepted sockets
    Transports,      \* the transports a server can be configured with
    Guarded,         \* parser.messageTimeout and maxPendingBytes are set
    MaxConnections,  \* config.maxConnections
    MaxStarts,       \* bound: calls of start()
    MaxBatch,        \* bound: messages completed by one chunk of data
    MaxDepth         \* bound: nested library calls

ASSUME StreamServerAssumption ==
    /\ Transports \subseteq {"local", "tcp", "tls"}
    /\ Guarded \in BOOLEAN
    /\ MaxConnections \in Nat \ {0}
    /\ MaxStarts \in Nat
    /\ MaxBatch \in Nat
    /\ MaxDepth \in Nat \ {0}

VARIABLES
    transport,   \* local (with config.unlink), TCP, or TCP with config.tls
    server,      \* this.server: the number of the last start(), 0 for false
    listening,   \* listeners that are open
    sockets,     \* this.sockets
    conn,        \* life cycle of each socket
    via,         \* the listener that accepted it
    ipcBuffer,   \* socket.ipcBuffer holds an incomplete message
    msgTimer,    \* socket.ipcMessageTimer is set
    calls,       \* suspended library calls, the innermost first
    told,        \* history: the last life-cycle event published for the socket
    dropped,     \* history: stop() took the socket off the list
    stopped,     \* history: stop() was called and start() was not called since
    overlapped   \* history: start() was called while a listener was open

serverVars  == <<transport, server, listening, stopped, overlapped>>
socketVars  == <<conn, ipcBuffer, msgTimer>>
historyVars == <<told, dropped>>

vars == <<serverVars, sockets, socketVars, via, calls, historyVars>>

-----------------------------------------------------------------------------
Tails     == {"empty", "partial", "bad"}
Listeners == 1 .. MaxStarts
ConnStates == {"none", "handshake", "open", "dying"}
Events    == {"nothing", "connect", "socket.disconnected", "close"}

Reading(p, left, tail) == [call |-> "read", p |-> p, left |-> left, tail |-> tail]
Removing(p)            == [call |-> "remove", p |-> p]
\* due: the sockets on the list when broadcast() was called; done: the ones
\* it has written to or failed.
Broadcasting(next, due, done) ==
    [call |-> "broadcast", next |-> next, due |-> due, done |-> done]

Frames ==
    [call : {"read"}, p : Peers, left : 0 .. MaxBatch, tail : Tails] \cup
    [call : {"remove"}, p : Peers] \cup
    [call : {"broadcast"}, next : Nat \ {0}, due : SUBSET Peers, done : SUBSET Peers]

Members == ToSet(sockets)

TypeOK ==
    /\ transport \in Transports
    /\ server \in 0 .. MaxStarts
    /\ listening \subseteq Listeners
    /\ sockets \in Seq(Peers)
    /\ conn \in [Peers -> ConnStates]
    /\ via \in [Peers -> 0 .. MaxStarts]
    /\ ipcBuffer \in [Peers -> BOOLEAN]
    /\ msgTimer \in [Peers -> BOOLEAN]
    /\ calls \in Seq(Frames) /\ Len(calls) <= MaxDepth
    /\ told \in [Peers -> Events]
    /\ dropped \in [Peers -> BOOLEAN]
    /\ stopped \in BOOLEAN
    /\ overlapped \in BOOLEAN

Init ==
    /\ transport \in Transports
    /\ server = 0
    /\ listening = {}
    /\ sockets = <<>>
    /\ conn = [p \in Peers |-> "none"]
    /\ via = [p \in Peers |-> 0]
    /\ ipcBuffer = [p \in Peers |-> FALSE]
    /\ msgTimer = [p \in Peers |-> FALSE]
    /\ calls = <<>>
    /\ told = [p \in Peers |-> "nothing"]
    /\ dropped = [p \in Peers |-> FALSE]
    /\ stopped = FALSE
    /\ overlapped = FALSE

Tls == transport = "tls"

\* start() unlinks the path of an older listener.
Unlinks == transport = "local"

Idle == calls = <<>>

Push(f) == calls' = <<f>> \o calls

\* socket.destroy(): no effect on a socket that is destroyed already.
Destroyed(P) == [p \in Peers |-> IF p \in P /\ conn[p] = "open" THEN "dying" ELSE conn[p]]

\* protocolFailure(socket, error), up to publish('error').
ProtocolFailure(p) ==
    /\ msgTimer' = [msgTimer EXCEPT ![p] = FALSE]
    /\ ipcBuffer' = [ipcBuffer EXCEPT ![p] = FALSE]
    /\ conn' = Destroyed({p})

-----------------------------------------------------------------------------
(***************************************************************************)
(* Calls of the application, from the main program or from a handler.  The *)
(* configuration is one that start() accepts.                              *)
(***************************************************************************)

\* start(): a new listener replaces this.server, whatever it was.  An address
\* in use is refused (the listener's 'error' event is published later).
Start ==
    /\ server < MaxStarts
    /\ server' = server + 1
    /\ listening' = IF listening # {} /\ ~Unlinks THEN listening ELSE listening \cup {server + 1}
    /\ stopped' = FALSE
    /\ overlapped' = (overlapped \/ listening # {})
    /\ UNCHANGED <<transport, sockets, socketVars, via, calls, historyVars>>

\* Faulty variant: the list is cleared before the sockets are destroyed.
StopForgets ==
    /\ sockets' = <<>>
    /\ dropped' = [p \in Peers |-> dropped[p] \/ p \in Members]
    /\ listening' = listening \ {server}
    /\ stopped' = TRUE
    /\ UNCHANGED <<transport, socketVars, server, overlapped, via, calls, told>>

\* Faulty variant: the listener stays open.
StopKeepsListening ==
    /\ msgTimer' = [p \in Peers |-> p \notin Members /\ msgTimer[p]]
    /\ conn' = Destroyed(Members)
    /\ sockets' = <<>>
    /\ dropped' = [p \in Peers |-> dropped[p] \/ p \in Members]
    /\ stopped' = TRUE
    /\ UNCHANGED <<transport, server, listening, ipcBuffer, overlapped, via, calls, told>>

\* stop()
Stop ==
    /\ msgTimer' = [p \in Peers |-> p \notin Members /\ msgTimer[p]]
    /\ conn' = Destroyed(Members)
    /\ sockets' = <<>>
    /\ dropped' = [p \in Peers |-> dropped[p] \/ p \in Members]
    /\ listening' = listening \ {server}
    /\ stopped' = TRUE
    /\ UNCHANGED <<transport, server, ipcBuffer, overlapped, via, calls, told>>

\* emit(socket, ...) with more than maxPendingBytes pending.  Any other
\* write leaves the server's state alone.
EmitOverflow(p) ==
    /\ Guarded
    /\ told[p] = "connect"
    /\ ProtocolFailure(p)
    /\ UNCHANGED <<serverVars, sockets, via, calls, historyVars>>

\* socket.destroy() on a socket that a handler was given.
DestroySocket(p) ==
    /\ told[p] = "connect"
    /\ conn' = Destroyed({p})
    /\ UNCHANGED <<serverVars, sockets, ipcBuffer, msgTimer, via, calls, historyVars>>

\* Faulty variant: writeAllStreams drops a socket that fails while the loop
\* goes on over the same list.
WriteAllDropsFailed(next, due, done, below) ==
    \/ /\ \E j \in next .. Len(sockets) :
            /\ Guarded
            /\ ProtocolFailure(sockets[j])
            /\ calls' = <<Broadcasting(j + 1, due, done \cup {sockets[i] : i \in next .. j})>> \o below
            /\ sockets' = RemoveAt(sockets, j)
       /\ UNCHANGED <<serverVars, via, historyVars>>
    \/ /\ calls' = below
       /\ UNCHANGED <<serverVars, sockets, socketVars, via, historyVars>>

\* writeAllStreams from index next on: the sockets before the next one with
\* too much pending are written to; that one fails and the handlers of
\* 'error' run, or the loop ends.  below is the rest of the stack.
WriteAllStreams(next, due, done, below) ==
    \/ /\ \E j \in next .. Len(sockets) :
            /\ Guarded
            /\ ProtocolFailure(sockets[j])
            /\ calls' = <<Broadcasting(j + 1, due, done \cup {sockets[i] : i \in next .. j})>> \o below
       /\ UNCHANGED <<serverVars, sockets, via, historyVars>>
    \/ /\ calls' = below
       /\ UNCHANGED <<serverVars, sockets, socketVars, via, historyVars>>

\* broadcast()
Broadcast ==
    /\ Len(calls) < MaxDepth
    /\ WriteAllStreams(1, Members, {}, calls)

App ==
    \/ Start
    \/ Stop
    \/ \E p \in Peers : EmitOverflow(p) \/ DestroySocket(p)
    \/ Broadcast

-----------------------------------------------------------------------------
(***************************************************************************)
(* Callbacks of the event loop.                                            *)
(***************************************************************************)

\* The latest listener owns the path of a local socket.
Reachable(l) == l \in listening /\ (Unlinks => l = server)

\* Node counts the sockets of a listener that are not destroyed.
HasRoom(l) ==
    Cardinality({p \in Peers : via[p] = l /\ conn[p] \in {"handshake", "open"}}) < MaxConnections

\* A socket identity that nothing refers to any more.
Unused(p) ==
    /\ conn[p] = "none"
    /\ p \notin Members
    /\ \A i \in DOMAIN calls : calls[i].call # "broadcast" => calls[i].p # p

\* addSocket(socket): 'connect' is published.
AddSocket(p) ==
    /\ sockets' = Append(sockets, p)
    /\ conn' = [conn EXCEPT ![p] = "open"]
    /\ ipcBuffer' = [ipcBuffer EXCEPT ![p] = FALSE]
    /\ msgTimer' = [msgTimer EXCEPT ![p] = FALSE]
    /\ told' = [told EXCEPT ![p] = "connect"]
    /\ dropped' = [dropped EXCEPT ![p] = FALSE]

\* A listener accepts a connection.
Accept(p) ==
    /\ Idle
    /\ Unused(p)
    /\ \E l \in Listeners :
        /\ Reachable(l)
        /\ HasRoom(l)
        /\ via' = [via EXCEPT ![p] = l]
    /\ \/ /\ ~Tls
          /\ AddSocket(p)
       \/ /\ Tls
          /\ conn' = [conn EXCEPT ![p] = "handshake"]
          /\ told' = [told EXCEPT ![p] = "nothing"]
          /\ UNCHANGED <<sockets, ipcBuffer, msgTimer, dropped>>
    /\ UNCHANGED <<serverVars, calls>>

\* The TLS handshake ends: the socket is handed over, or it is dropped.
Handshake(p) ==
    /\ Idle
    /\ conn[p] = "handshake"
    /\ \/ AddSocket(p)
       \/ /\ conn' = [conn EXCEPT ![p] = "none"]
          /\ UNCHANGED <<sockets, ipcBuffer, msgTimer, historyVars>>
    /\ UNCHANGED <<serverVars, via, calls>>

\* The connection breaks or the peer closes it.
SocketDies(p) ==
    /\ Idle
    /\ conn[p] = "open"
    /\ conn' = Destroyed({p})
    /\ UNCHANGED <<serverVars, sockets, ipcBuffer, msgTimer, via, calls, historyVars>>

\* removeSocket(socket) for a socket on the list: 'socket.disconnected' is
\* published.
RemoveSocket(p) ==
    /\ sockets' = RemoveFirst(sockets, p)
    /\ msgTimer' = [msgTimer EXCEPT ![p] = FALSE]
    /\ told' = [told EXCEPT ![p] = "socket.disconnected"]
    /\ Push(Removing(p))

\* Faulty variant: the listener returns when the socket is not on the list.
ClosedReturns(p) ==
    /\ Idle
    /\ conn[p] = "dying"
    /\ conn' = [conn EXCEPT ![p] = "none"]
    /\ \/ /\ p \in Members
          /\ RemoveSocket(p)
       \/ /\ p \notin Members
          /\ UNCHANGED <<sockets, msgTimer, calls, told>>
    /\ UNCHANGED <<serverVars, ipcBuffer, via, dropped>>

\* The 'close' event.  removeSocket returns at once when stop() has taken the
\* socket off the list.
Closed(p) ==
    /\ Idle
    /\ conn[p] = "dying"
    /\ conn' = [conn EXCEPT ![p] = "none"]
    /\ \/ /\ p \in Members
          /\ RemoveSocket(p)
       \/ /\ p \notin Members
          /\ told' = [told EXCEPT ![p] = "close"]
          /\ UNCHANGED <<sockets, msgTimer, calls>>
    /\ UNCHANGED <<serverVars, ipcBuffer, via, dropped>>

\* The handlers of 'socket.disconnected' have returned: 'close' is published.
PublishClose ==
    /\ ~Idle
    /\ Head(calls).call = "remove"
    /\ told' = [told EXCEPT ![Head(calls).p] = "close"]
    /\ calls' = Tail(calls)
    /\ UNCHANGED <<serverVars, sockets, socketVars, via, dropped>>

\* Faulty variant: receiveGuarded does not ask whether the socket was destroyed.
EndReadBlind(p, tail) ==
    \/ /\ tail = "bad"
       /\ ProtocolFailure(p)
    \/ /\ tail # "bad"
       /\ ipcBuffer' = [ipcBuffer EXCEPT ![p] = (tail = "partial")]
       /\ msgTimer' = [msgTimer EXCEPT ![p] = Guarded /\ tail = "partial"]
       /\ UNCHANGED conn

\* receiveFramed / receiveGuarded after the last message of a chunk.
EndRead(p, tail) ==
    \/ /\ tail = "bad"
       /\ ProtocolFailure(p)
    \/ /\ tail # "bad"
       /\ ipcBuffer' = [ipcBuffer EXCEPT ![p] = (tail = "partial")]
       /\ msgTimer' = IF Guarded /\ conn[p] = "open"
                      THEN [msgTimer EXCEPT ![p] = (tail = "partial")]
                      ELSE msgTimer
       /\ UNCHANGED conn

\* A chunk of data that completes n messages; the first one is published.
Receive(p) ==
    /\ Idle
    /\ conn[p] = "open"
    /\ \E n \in 0 .. MaxBatch, tail \in Tails :
        \/ /\ n = 0
           /\ tail # "empty"
           /\ EndRead(p, tail)
           /\ UNCHANGED calls
        \/ /\ n > 0
           /\ Push(Reading(p, n - 1, tail))
           /\ UNCHANGED socketVars
    /\ UNCHANGED <<serverVars, sockets, via, historyVars>>

\* The handlers have returned: the next message is published, even when they
\* destroyed the socket or stopped the server, or the read ends.
ContinueRead ==
    /\ ~Idle
    /\ Head(calls).call = "read"
    /\ \/ /\ Head(calls).left > 0
          /\ calls' = [calls EXCEPT ![1].left = @ - 1]
          /\ UNCHANGED socketVars
       \/ /\ Head(calls).left = 0
          /\ EndRead(Head(calls).p, Head(calls).tail)
          /\ calls' = Tail(calls)
    /\ UNCHANGED <<serverVars, sockets, via, historyVars>>

\* The handlers of 'error' have returned: the broadcast goes on.
ContinueBroadcast ==
    /\ ~Idle
    /\ Head(calls).call = "broadcast"
    /\ WriteAllStreams(Head(calls).next, Head(calls).due, Head(calls).done, Tail(calls))

\* startMessageTimer's callback.
MessageTimeout(p) ==
    /\ Idle
    /\ msgTimer[p]
    /\ ProtocolFailure(p)
    /\ UNCHANGED <<serverVars, sockets, via, calls, historyVars>>

Callback ==
    \/ \E p \in Peers :
        \/ Accept(p)
        \/ Handshake(p)
        \/ SocketDies(p)
        \/ Closed(p)
        \/ Receive(p)
        \/ MessageTimeout(p)
    \/ PublishClose
    \/ ContinueRead
    \/ ContinueBroadcast

Next == App \/ Callback

Spec == Init /\ [][Next]_vars

-----------------------------------------------------------------------------
(***************************************************************************)
(* Properties.                                                             *)
(***************************************************************************)

\* this.sockets is what broadcast() and stop() need it to be: every open
\* connection that was announced is on it, once, and nothing that is gone.
MembersAreConnected ==
    /\ TypeOK
    /\ \A i, j \in DOMAIN sockets : sockets[i] = sockets[j] => i = j
    /\ \A p \in Peers : conn[p] = "open" => p \in Members
    /\ \A p \in Members : conn[p] \in {"open", "dying"} /\ told[p] = "connect"

\* A loop over this.sockets that runs application handlers skips nobody and
\* serves nobody twice: a socket it still owes a write is still ahead of it.
BroadcastMissesNobody ==
    \A k \in DOMAIN calls :
        calls[k].call = "broadcast" =>
            \A i \in DOMAIN sockets :
                sockets[i] \in calls[k].due =>
                    (i >= calls[k].next <=> sockets[i] \notin calls[k].done)

\* config.maxConnections holds across restarts of the server, and after stop()
\* nothing is served any more, in any order of stop(), handlers and events;
\* except where this.server does not know a connection or a listener: TLS
\* handshakes under way, and a start() that replaced a listener.
ConnectionLimit ==
    ~Tls /\ ~overlapped =>
        /\ Cardinality({p \in Peers : conn[p] = "open"}) <= IF stopped THEN 0 ELSE MaxConnections
        /\ stopped => listening = {}

\* Between two callbacks the message timer of an open connection runs exactly
\* while an incomplete message is buffered, and only connections on the list
\* have one.  As in Client, it may have been started for the message before,
\* when the chunk that ended it began this one.
MessageClock ==
    /\ \A p \in Peers : msgTimer[p] => p \in Members
    /\ Guarded /\ Idle => \A p \in Peers : conn[p] = "open" => (msgTimer[p] <=> ipcBuffer[p])

\* A connection that was announced and is gone has had its 'close', or gets it
\* as soon as the handlers of 'socket.disconnected' have returned; and 'close'
\* follows 'socket.disconnected', unless stop() took the socket off the list.
LossIsAnnounced ==
    [][\A p \in Peers :
        /\ conn'[p] = "none" /\ told'[p] \notin {"nothing", "close"} =>
              \E k \in DOMAIN calls' : calls'[k].call = "remove" /\ calls'[k].p = p
        /\ told'[p] = "close" /\ told[p] # "close" =>
              told[p] = "socket.disconnected" \/ dropped[p]]_vars

-----------------------------------------------------------------------------
(***************************************************************************)
(* What the repository says and the code does not do.                      *)
(***************************************************************************)

\* README: stop() is to "close the server and stop serving".
StopsServing ==
    [][\A p \in Peers : stopped /\ told'[p] = "connect" => told[p] = "connect"]_vars
=============================================================================

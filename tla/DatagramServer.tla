--------------------------- MODULE DatagramServer ---------------------------
(***************************************************************************)
(* A UDP server: class Server of dao/socketServer.js with udp4 or udp6     *)
(* set.  There are no connections: peer() keeps one object per remote      *)
(* address, finds it again through the lastPeer cache or by a scan of      *)
(* this.sockets, and a message may be spread over datagrams, whose tail    *)
(* and timer the object holds.                                             *)
(*                                                                         *)
(* As in StreamServer one callback of the event loop is one action; while  *)
(* reading # None a datagram is being read and application handlers run.   *)
(* The parser is guarded (it has a messageTimeout); with the other parsers *)
(* there are no timers.  The dgram sockets of Node are external.           *)
(***************************************************************************)
EXTENDS Integers, FiniteSets, Sequences, SequencesExt

CONSTANTS
    Objects,    \* identities of peer objects
    Addresses,  \* remote address and port
    None,       \* JavaScript's false / undefined
    MaxStarts,  \* bound: calls of start()
    MaxBatch    \* bound: messages completed by one datagram

ASSUME DatagramServerAssumption ==
    /\ None \notin Objects \cup Addresses
    /\ MaxStarts \in Nat
    /\ MaxBatch \in Nat

VARIABLES
    server,     \* this.server: the number of the last start(), 0 for false
    bound,      \* dgram sockets that are bound
    sockets,    \* this.sockets
    lastPeer,   \* this.lastPeer
    addr,       \* peer.address and peer.port
    ipcBuffer,  \* peer.ipcBuffer holds an incomplete message
    msgTimer,   \* peer.ipcMessageTimer is set
    reading,    \* the datagram whose messages are being published, or None
    closed,     \* stop() has closed this.server
    twice,      \* history: start() was called while a socket was bound
    wrote,      \* what the write of this step did: whom it was for, whom a
                \* datagram was sent to, and how it ended
    heard       \* history: addresses that sent something since start() or stop()

serverVars == <<server, bound, closed, twice>>
vars == <<serverVars, sockets, lastPeer, addr, ipcBuffer, msgTimer, reading, wrote, heard>>

Tails == {"empty", "partial", "bad"}

\* A datagram whose messages are being published: its peer, the messages left
\* and what follows the last one.
Reads == [o : Objects, left : 0 .. MaxBatch, tail : Tails]

ASSUME NoneIsNoRead == None \notin Reads

Members == ToSet(sockets)

Writes == [call : {"none", "emit", "broadcast"}, to : SUBSET Addresses,
           reached : SUBSET Addresses, how : {"nothing", "sent", "thrown", "elsewhere"}]

NoWrite == [call |-> "none", to |-> {}, reached |-> {}, how |-> "nothing"]

TypeOK ==
    /\ server \in 0 .. MaxStarts
    /\ bound \subseteq 1 .. MaxStarts
    /\ sockets \in Seq(Objects)
    /\ lastPeer \in Objects \cup {None}
    /\ addr \in [Objects -> Addresses \cup {None}]
    /\ ipcBuffer \in [Objects -> BOOLEAN]
    /\ msgTimer \in [Objects -> BOOLEAN]
    /\ reading \in Reads \cup {None}
    /\ closed \in BOOLEAN /\ twice \in BOOLEAN
    /\ wrote \in Writes
    /\ heard \subseteq Addresses

Init ==
    /\ server = 0
    /\ bound = {}
    /\ sockets = <<>>
    /\ lastPeer = None
    /\ addr = [o \in Objects |-> None]
    /\ ipcBuffer = [o \in Objects |-> FALSE]
    /\ msgTimer = [o \in Objects |-> FALSE]
    /\ reading = None
    /\ closed = FALSE /\ twice = FALSE
    /\ wrote = NoWrite
    /\ heard = {}

-----------------------------------------------------------------------------
\* start() -> startDatagramServer(): an address in use is refused and the
\* earlier socket goes on receiving, but this.server is the new one.
Start ==
    /\ server < MaxStarts
    /\ server' = server + 1
    /\ bound' = IF bound = {} THEN {server + 1} ELSE bound
    /\ closed' = FALSE
    /\ twice' = (twice \/ bound # {})
    /\ wrote' = NoWrite
    /\ UNCHANGED <<sockets, lastPeer, addr, ipcBuffer, msgTimer, reading, heard>>

\* Faulty variant: the cache survives stop().
StopKeepsCache ==
    /\ server > 0
    /\ msgTimer' = [o \in Objects |-> o \notin Members /\ msgTimer[o]]
    /\ sockets' = <<>>
    /\ bound' = bound \ {server}
    /\ closed' = TRUE
    /\ wrote' = NoWrite
    /\ heard' = {}
    /\ UNCHANGED <<server, twice, lastPeer, addr, ipcBuffer, reading>>

\* stop(): peer objects have no destroy().
Stop ==
    /\ server > 0
    /\ msgTimer' = [o \in Objects |-> o \notin Members /\ msgTimer[o]]
    /\ sockets' = <<>>
    /\ lastPeer' = None
    /\ bound' = bound \ {server}
    /\ closed' = TRUE
    /\ wrote' = NoWrite
    /\ heard' = {}
    /\ UNCHANGED <<server, twice, addr, ipcBuffer, reading>>

\* An object that nothing refers to any more.
Unused(o) ==
    /\ o \notin Members
    /\ lastPeer # o
    /\ ~msgTimer[o]
    /\ reading # None => reading.o # o

\* The peers a scan of this.sockets finds first for address a.
Scanned(a) ==
    {sockets[i] : i \in {j \in DOMAIN sockets :
        /\ addr[sockets[j]] = a
        /\ \A k \in DOMAIN sockets : addr[sockets[k]] = a => j <= k}}

\* Faulty variant: the new peer is cached but not kept.
PeerNotKept(a, o) ==
    IF lastPeer # None /\ addr[lastPeer] = a
    THEN o = lastPeer /\ UNCHANGED <<sockets, lastPeer, addr>>
    ELSE /\ lastPeer' = o
         /\ IF Scanned(a) # {}
            THEN o \in Scanned(a) /\ UNCHANGED <<sockets, addr>>
            ELSE /\ Unused(o)
                 /\ UNCHANGED sockets
                 /\ addr' = [addr EXCEPT ![o] = a]

\* peer(rinfo) returns o: the cached peer, the first match, or a new one.
Peer(a, o) ==
    IF lastPeer # None /\ addr[lastPeer] = a
    THEN o = lastPeer /\ UNCHANGED <<sockets, lastPeer, addr>>
    ELSE /\ lastPeer' = o
         /\ IF Scanned(a) # {}
            THEN o \in Scanned(a) /\ UNCHANGED <<sockets, addr>>
            ELSE /\ Unused(o)
                 /\ sockets' = Append(sockets, o)
                 /\ addr' = [addr EXCEPT ![o] = a]

\* Faulty variant: a bad message leaves its timer behind.
EndReadKeepsTimer(o, tail) ==
    /\ ipcBuffer' = [ipcBuffer EXCEPT ![o] = (tail = "partial")]
    /\ msgTimer' = [msgTimer EXCEPT ![o] = (@ /\ tail # "empty") \/ tail = "partial"]

\* receiveGuarded after the last message: a bad one goes through
\* protocolFailure, which only clears the peer; then the timer follows the
\* buffer, also for a peer that stop() has removed.
EndRead(o, tail) ==
    /\ ipcBuffer' = [ipcBuffer EXCEPT ![o] = (tail = "partial")]
    /\ msgTimer' = [msgTimer EXCEPT ![o] = (tail = "partial")]

\* A datagram of address a arrives: receiveDatagram() looks up the peer and
\* publishes the first of the n messages it completes, if any.  A datagram
\* alone does not make an incomplete message vanish.
ReceiveDatagram(a) ==
    /\ reading = None
    /\ bound # {}
    /\ \E o \in Objects, n \in 0 .. MaxBatch, tail \in Tails :
        /\ Peer(a, o)
        /\ \/ /\ n = 0
              /\ tail = "empty" => ~(o \in Members /\ ipcBuffer[o])
              /\ EndRead(o, tail)
              /\ UNCHANGED reading
           \/ /\ n > 0
              /\ reading' = [o |-> o, left |-> n - 1, tail |-> tail]
              /\ ipcBuffer' = [ipcBuffer EXCEPT ![o] = @ /\ o \in Members]
              /\ UNCHANGED msgTimer
    /\ heard' = heard \cup {a}
    /\ wrote' = NoWrite
    /\ UNCHANGED serverVars

\* The handlers have returned: the next message is published, or the read
\* ends.
ContinueRead ==
    /\ reading # None
    /\ \/ /\ reading.left > 0
          /\ reading' = [reading EXCEPT !.left = @ - 1]
          /\ UNCHANGED <<ipcBuffer, msgTimer>>
       \/ /\ reading.left = 0
          /\ EndRead(reading.o, reading.tail)
          /\ reading' = None
    /\ wrote' = NoWrite
    /\ UNCHANGED <<serverVars, sockets, lastPeer, addr, heard>>

\* Faulty variant: the failure of one peer closes the socket all of them share.
MessageTimeoutCloses(o) ==
    /\ reading = None
    /\ msgTimer[o]
    /\ msgTimer' = [msgTimer EXCEPT ![o] = FALSE]
    /\ ipcBuffer' = [ipcBuffer EXCEPT ![o] = FALSE]
    /\ bound' = bound \ {server}
    /\ closed' = TRUE
    /\ wrote' = NoWrite
    /\ UNCHANGED <<server, twice, sockets, lastPeer, addr, reading, heard>>

\* startMessageTimer's callback -> protocolFailure().
MessageTimeout(o) ==
    /\ reading = None
    /\ msgTimer[o]
    /\ msgTimer' = [msgTimer EXCEPT ![o] = FALSE]
    /\ ipcBuffer' = [ipcBuffer EXCEPT ![o] = FALSE]
    /\ wrote' = NoWrite
    /\ UNCHANGED <<serverVars, sockets, lastPeer, addr, reading, heard>>

-----------------------------------------------------------------------------
(***************************************************************************)
(* Writes of the application, also from handlers.  Only the result is new: *)
(* a datagram that cannot be delivered ends in an 'error' event later      *)
(* (handleDatagramError, serverError).                                     *)
(***************************************************************************)

\* this.server.send() for each of the addresses: when the socket is closed the
\* first call throws and nobody is reached; a socket whose bind() failed takes a
\* port of its own.
Send(call, to) ==
    [call |-> call, to |-> to,
     reached |-> IF closed THEN {} ELSE to,
     how |-> CASE to = {} -> "nothing"
               [] to # {} /\ closed -> "thrown"
               [] to # {} /\ ~closed /\ server \in bound -> "sent"
               [] OTHER -> "elsewhere"]

\* writeAllDatagrams()
WriteAllDatagrams(call) == Send(call, {addr[o] : o \in Members})

\* emit() to a peer the application got with a message or finds in sockets.
Emit(o) ==
    /\ o \in Members \/ (reading # None /\ reading.o = o)
    /\ wrote' = Send("emit", {addr[o]})
    /\ UNCHANGED <<serverVars, sockets, lastPeer, addr, ipcBuffer, msgTimer, reading, heard>>

\* broadcast(), and emit() to something without an address.
Broadcast ==
    /\ server > 0
    /\ wrote' = WriteAllDatagrams("broadcast")
    /\ UNCHANGED <<serverVars, sockets, lastPeer, addr, ipcBuffer, msgTimer, reading, heard>>

Next ==
    \/ Start
    \/ Stop
    \/ \E a \in Addresses : ReceiveDatagram(a)
    \/ ContinueRead
    \/ \E o \in Objects : MessageTimeout(o) \/ Emit(o)
    \/ Broadcast

Spec == Init /\ [][Next]_vars

-----------------------------------------------------------------------------
\* The cache and the scan agree on the one object of an address, across
\* stop() and start(): the fragments of a message always meet in one buffer.
OnePeerPerAddress ==
    /\ TypeOK
    /\ \A i, j \in DOMAIN sockets : addr[sockets[i]] = addr[sockets[j]] => i = j
    /\ lastPeer # None => lastPeer \in Members

\* A datagram of broadcast() is sent to everybody who has sent something since
\* the server was started or stopped, whatever was cached, timed out or refused
\* meanwhile.  It throws and reaches nobody only when stop() has closed a second
\* socket, which start() could not bind, and left the first one receiving.
BroadcastReachesPeers ==
    wrote.call = "broadcast" =>
        \/ heard \subseteq wrote.reached
        \/ wrote.how = "thrown" /\ closed /\ bound # {} /\ twice

\* An answer to somebody who was heard leaves from the server's own port and
\* does not throw, as long as start() is not called on a running server: then
\* this.server is a socket that could not be bound.
AnswersGoOut ==
    ~twice /\ wrote.to \cap heard # {} => wrote.how = "sent"

\* Between two callbacks the message timer of a peer runs exactly while an
\* incomplete message is buffered.  As in Client, it may have been started for
\* the message before, when the datagram that ended it began this one.
MessageClock ==
    reading = None => \A o \in Members : msgTimer[o] <=> ipcBuffer[o]
=============================================================================

------------------------ MODULE DatagramServerProofs ------------------------
(***************************************************************************)
(* Proofs about DatagramServer, for every set of addresses and peer        *)
(* objects and any number of starts.                                       *)
(***************************************************************************)
EXTENDS DatagramServer, WellFoundedInduction, TLAPS

USE DatagramServerAssumption DEF serverVars

-----------------------------------------------------------------------------
(* Facts about lists *)

\* A non-empty set of numbers has a least one.
LEMMA LeastNumber ==
    ASSUME NEW T \in SUBSET Nat, T # {}
    PROVE  \E n \in T : \A m \in T : n <= m
<1>1. PICK n \in T : \A m \in T : ~(<<m, n>> \in OpToRel(<, Nat))
    BY NatLessThanWellFounded, WFMin
<1>2. ASSUME NEW m \in T
      PROVE  ~(m < n)
    <2>1. m < n => <<m, n>> \in {ss \in Nat \X Nat : ss[1] < ss[2]}
        OBVIOUS
    <2>. QED
        BY <1>1, <2>1 DEF OpToRel
<1>. QED
    BY <1>2

\* What is on a list after push().
LEMMA ToSetAppend ==
    ASSUME NEW S, NEW s \in Seq(S), NEW e \in S
    PROVE  ToSet(Append(s, e)) = ToSet(s) \cup {e}
<1>1. Len(Append(s, e)) = Len(s) + 1 /\ \A i \in 1 .. Len(s) : Append(s, e)[i] = s[i]
    OBVIOUS
<1>2. Append(s, e)[Len(s) + 1] = e
    OBVIOUS
<1>3. ASSUME NEW x \in ToSet(Append(s, e))
      PROVE  x \in ToSet(s) \cup {e}
    BY <1>1, <1>2 DEF ToSet
<1>4. ASSUME NEW x \in ToSet(s) \cup {e}
      PROVE  x \in ToSet(Append(s, e))
    BY <1>1, <1>2 DEF ToSet
<1>. QED
    BY <1>3, <1>4

-----------------------------------------------------------------------------
(* The inductive invariant *)

\* No two peers on the list have the same address.
Distinct == \A i, j \in DOMAIN sockets : addr[sockets[i]] = addr[sockets[j]] => i = j

\* Everybody on the list, and the peer whose datagram is being read, has an
\* address; everybody who was heard is on the list.
Addressed ==
    /\ lastPeer # None => lastPeer \in Members
    /\ \A o \in Members : addr[o] \in Addresses
    /\ reading # None => addr[reading.o] \in Addresses
    /\ \A a \in heard : \E o \in Members : addr[o] = a

\* With one socket at a time, this.server is the one that receives.
OneSocket ==
    /\ ~twice /\ bound # {} => bound = {server} /\ ~closed
    /\ heard # {} => bound # {}

\* The timer follows the buffer, except for a peer whose datagram is being read.
ClockOutsideRead ==
    \A o \in Members : (reading # None => reading.o # o) => (msgTimer[o] <=> ipcBuffer[o])

IInv ==
    /\ TypeOK /\ Distinct /\ Addressed /\ OneSocket /\ ClockOutsideRead
    /\ BroadcastReachesPeers /\ AnswersGoOut

-----------------------------------------------------------------------------
\* The list has only peers on it.
LEMMA MembersAreObjects ==
    ASSUME TypeOK
    PROVE  Members \subseteq Objects
BY DEF TypeOK, Members, ToSet

\* A scan that finds nobody means that nobody has the address; a peer that it
\* finds is on the list and has the address.
LEMMA ScanIsComplete ==
    ASSUME TypeOK, NEW a
    PROVE  /\ Scanned(a) = {} => \A o \in Members : addr[o] # a
           /\ \A o \in Scanned(a) : o \in Members /\ addr[o] = a
<1>1. ASSUME NEW i \in DOMAIN sockets, addr[sockets[i]] = a
      PROVE  Scanned(a) # {}
    <2>. DEFINE T == {j \in DOMAIN sockets : addr[sockets[j]] = a}
    <2>1. T \in SUBSET Nat /\ T # {}
        BY <1>1 DEF TypeOK
    <2>2. PICK n \in T : \A m \in T : n <= m
        BY <2>1, LeastNumber
    <2>3. sockets[n] \in Scanned(a)
        BY <2>2 DEF Scanned
    <2>. QED
        BY <2>3
<1>. QED
    BY <1>1 DEF Scanned, Members, ToSet

\* What peer(rinfo) leaves behind: one list, in which the address has exactly
\* one object, the one it returns.
LEMMA PeerFacts ==
    ASSUME TypeOK, Distinct, Addressed, NEW a \in Addresses, NEW o \in Objects, Peer(a, o)
    PROVE  /\ sockets' \in Seq(Objects) /\ lastPeer' \in Objects
           /\ addr' \in [Objects -> Addresses \cup {None}]
           /\ Distinct'
           /\ Members' = Members \cup {o}
           /\ lastPeer' = o /\ addr'[o] = a
           /\ o \notin Members => Unused(o)
           /\ \A q \in Members : addr'[q] = addr[q]
<1>1. CASE lastPeer # None /\ addr[lastPeer] = a
    <2>1. o = lastPeer /\ UNCHANGED <<sockets, lastPeer, addr>> /\ o \in Members
        BY <1>1 DEF Peer, Addressed
    <2>. QED
        BY <2>1, <1>1 DEF TypeOK, Distinct, Members
<1>2. CASE ~(lastPeer # None /\ addr[lastPeer] = a) /\ Scanned(a) # {}
    <2>1. lastPeer' = o /\ o \in Scanned(a) /\ UNCHANGED <<sockets, addr>>
        BY <1>2 DEF Peer
    <2>2. o \in Members /\ addr[o] = a
        BY <2>1, ScanIsComplete
    <2>. QED
        BY <2>1, <2>2 DEF TypeOK, Distinct, Members
<1>3. CASE ~(lastPeer # None /\ addr[lastPeer] = a) /\ Scanned(a) = {}
    <2>1. /\ lastPeer' = o /\ Unused(o)
          /\ sockets' = Append(sockets, o)
          /\ addr' = [addr EXCEPT ![o] = a]
        BY <1>3 DEF Peer
    <2>2. Members' = Members \cup {o}
        BY <2>1, ToSetAppend DEF Members, TypeOK
    <2>3. /\ sockets' \in Seq(Objects)
          /\ addr' \in [Objects -> Addresses \cup {None}]
          /\ addr'[o] = a
        BY <2>1 DEF TypeOK
    <2>4. o \notin Members /\ \A q \in Members : addr'[q] = addr[q]
        BY <2>1, MembersAreObjects DEF Unused, TypeOK
    <2>5. \A q \in Members : addr[q] # a
        BY <1>3, ScanIsComplete
    <2>6. Distinct'
        <3>1. /\ DOMAIN sockets' = 1 .. Len(sockets) + 1 /\ DOMAIN sockets = 1 .. Len(sockets)
              /\ \A i \in DOMAIN sockets : sockets'[i] = sockets[i]
              /\ sockets'[Len(sockets) + 1] = o
            BY <2>1 DEF TypeOK
        <3>2. \A i \in DOMAIN sockets : sockets[i] \in Members
            BY DEF Members, ToSet
        <3>3. \A i \in DOMAIN sockets : addr'[sockets'[i]] = addr[sockets[i]] /\ addr'[sockets'[i]] # a
            BY <3>1, <3>2, <2>4, <2>5
        <3>. QED
            BY <3>1, <3>3, <2>3 DEF Distinct, TypeOK
    <2>. QED
        BY <2>1, <2>2, <2>3, <2>4, <2>6
<1>. QED
    BY <1>1, <1>2, <1>3

-----------------------------------------------------------------------------
\* Before the first start() there are no peers.
LEMMA InitIInv == Init => IInv
<1>. SUFFICES ASSUME Init PROVE IInv
    OBVIOUS
<1>1. Members = {}
    BY DEF Init, Members, ToSet
<1>2. TypeOK
    <2>1. /\ server \in 0 .. MaxStarts /\ bound \subseteq 1 .. MaxStarts
          /\ sockets \in Seq(Objects) /\ heard \subseteq Addresses
        BY DEF Init
    <2>2. wrote \in Writes
        BY DEF Init, NoWrite, Writes
    <2>. QED
        BY <2>1, <2>2 DEF Init, TypeOK
<1>. QED
    BY <1>1, <1>2 DEF Init, IInv, Distinct, Addressed, OneSocket, ClockOutsideRead,
                      BroadcastReachesPeers, AnswersGoOut, NoWrite

\* What a write of the application reports has its type.
LEMMA SendType ==
    ASSUME NEW call \in {"emit", "broadcast"}, NEW to \in SUBSET Addresses
    PROVE  Send(call, to) \in Writes
BY DEF Send, Writes

\* A write to somebody who was heard goes out through the bound socket.
LEMMA SendGoesOut ==
    ASSUME OneSocket, ~twice, NEW call, NEW to, to \cap heard # {}
    PROVE  Send(call, to).how = "sent"
BY DEF OneSocket, Send

\* A step that writes nothing keeps what is said of writes.
LEMMA NoWriteFacts ==
    ASSUME wrote' = NoWrite
    PROVE  /\ BroadcastReachesPeers' /\ AnswersGoOut'
           /\ wrote' \in Writes
BY DEF NoWrite, Writes, BroadcastReachesPeers, AnswersGoOut

\* start()
LEMMA StartStep ==
    ASSUME IInv, Start
    PROVE  IInv'
<1>. USE DEF IInv, Start
<1>1. Members' = Members
    BY DEF Members
<1>2. TypeOK'
    <2>1. server' \in 0 .. MaxStarts /\ bound' \subseteq 1 .. MaxStarts
        BY DEF TypeOK
    <2>2. twice' \in BOOLEAN
        BY DEF TypeOK
    <2>. QED
        BY <2>1, <2>2, NoWriteFacts DEF TypeOK
<1>3. Distinct' /\ Addressed' /\ ClockOutsideRead'
    BY <1>1 DEF Distinct, Addressed, ClockOutsideRead
<1>4. OneSocket'
    BY DEF OneSocket, TypeOK
<1>. QED
    BY <1>2, <1>3, <1>4, NoWriteFacts

\* stop()
LEMMA StopStep ==
    ASSUME IInv, Stop
    PROVE  IInv'
<1>. USE DEF IInv, Stop
<1>1. Members' = {}
    BY DEF Members, ToSet
<1>2. TypeOK'
    BY NoWriteFacts DEF TypeOK
<1>3. Distinct' /\ Addressed' /\ ClockOutsideRead'
    BY <1>1 DEF Distinct, Addressed, ClockOutsideRead
<1>4. OneSocket'
    BY DEF OneSocket, TypeOK
<1>. QED
    BY <1>2, <1>3, <1>4, NoWriteFacts

\* receiveDatagram(), to the first message or to the end of the datagram.
LEMMA ReceiveDatagramStep ==
    ASSUME IInv, NEW a \in Addresses, ReceiveDatagram(a)
    PROVE  IInv'
<1>1. PICK o \in Objects, n \in 0 .. MaxBatch, tail \in Tails :
        /\ Peer(a, o)
        /\ \/ EndRead(o, tail) /\ UNCHANGED reading
           \/ /\ n > 0
              /\ reading' = [o |-> o, left |-> n - 1, tail |-> tail]
              /\ ipcBuffer' = [ipcBuffer EXCEPT ![o] = @ /\ o \in Members]
              /\ UNCHANGED msgTimer
    BY DEF ReceiveDatagram
<1>2. /\ sockets' \in Seq(Objects) /\ lastPeer' \in Objects
      /\ addr' \in [Objects -> Addresses \cup {None}]
      /\ Distinct'
      /\ Members' = Members \cup {o}
      /\ lastPeer' = o /\ addr'[o] = a
      /\ o \notin Members => Unused(o)
      /\ \A q \in Members : addr'[q] = addr[q]
    BY <1>1, PeerFacts DEF IInv
<1>3. /\ reading = None /\ bound # {} /\ heard' = heard \cup {a}
      /\ wrote' = NoWrite /\ UNCHANGED serverVars
    BY DEF ReceiveDatagram
<1>4. /\ ipcBuffer' \in [Objects -> BOOLEAN] /\ msgTimer' \in [Objects -> BOOLEAN]
      /\ reading' \in Reads \cup {None}
    <2>. USE DEF IInv, TypeOK
    <2>1. CASE EndRead(o, tail) /\ UNCHANGED reading
        BY <2>1 DEF EndRead
    <2>2. CASE /\ n > 0
               /\ reading' = [o |-> o, left |-> n - 1, tail |-> tail]
               /\ ipcBuffer' = [ipcBuffer EXCEPT ![o] = @ /\ o \in Members]
               /\ UNCHANGED msgTimer
        <3>1. reading' \in Reads
            BY <2>2 DEF Reads
        <3>2. (ipcBuffer[o] /\ o \in Members) \in BOOLEAN
            OBVIOUS
        <3>. QED
            BY <2>2, <3>1, <3>2
    <2>. QED
        BY <1>1, <2>1, <2>2
<1>5. TypeOK'
    BY <1>2, <1>3, <1>4, NoWriteFacts DEF IInv, TypeOK
<1>6. reading' # None => reading'.o = o
    BY <1>1, <1>3
<1>7. Addressed'
    BY <1>2, <1>3, <1>6 DEF IInv, Addressed
<1>8. OneSocket'
    BY <1>3 DEF IInv, OneSocket
<1>9. ClockOutsideRead'
    <2>1. CASE EndRead(o, tail)
        BY <2>1, <1>2, <1>3, MembersAreObjects DEF EndRead, IInv, ClockOutsideRead, TypeOK
    <2>2. CASE /\ n > 0
               /\ reading' = [o |-> o, left |-> n - 1, tail |-> tail]
               /\ ipcBuffer' = [ipcBuffer EXCEPT ![o] = @ /\ o \in Members]
               /\ UNCHANGED msgTimer
        <3>1. ASSUME NEW q \in Members, q # o
              PROVE  msgTimer'[q] <=> ipcBuffer'[q]
            <4>1. q \in Objects /\ ipcBuffer'[q] = ipcBuffer[q] /\ msgTimer'[q] = msgTimer[q]
                BY <2>2, <3>1, MembersAreObjects DEF IInv, TypeOK
            <4>. QED
                BY <4>1, <3>1, <1>3 DEF IInv, ClockOutsideRead
        <3>2. reading'.o = o
            BY <2>2
        <3>3. reading' # None
            <4>1. reading' \in Reads
                BY <2>2 DEF Reads
            <4>. QED
                BY <4>1, NoneIsNoRead
        <3>. QED
            BY <1>2, <2>2, <3>1, <3>2, <3>3 DEF ClockOutsideRead
    <2>. QED
        BY <1>1, <2>1, <2>2
<1>. QED
    BY <1>2, <1>3, <1>5, <1>7, <1>8, <1>9, NoWriteFacts DEF IInv

\* The next message of a datagram, or its end.
LEMMA ContinueReadStep ==
    ASSUME IInv, ContinueRead
    PROVE  IInv'
<1>. USE DEF IInv, ContinueRead
<1>1. Members' = Members /\ Members \subseteq Objects
    BY MembersAreObjects DEF Members
<1>2. reading \in Reads /\ reading.o \in Objects /\ reading.left \in 0 .. MaxBatch
    BY DEF TypeOK, Reads
<1>3. CASE reading' = None /\ EndRead(reading.o, reading.tail)
    <2>1. TypeOK'
        BY <1>3, NoWriteFacts DEF TypeOK, EndRead
    <2>2. Distinct' /\ Addressed' /\ OneSocket'
        BY <1>1, <1>3 DEF Distinct, Addressed, OneSocket
    <2>3. ClockOutsideRead'
        BY <1>1, <1>2, <1>3 DEF ClockOutsideRead, EndRead, TypeOK
    <2>. QED
        BY <2>1, <2>2, <2>3, NoWriteFacts
<1>4. CASE reading.left > 0 /\ reading' = [reading EXCEPT !.left = @ - 1] /\ UNCHANGED <<ipcBuffer, msgTimer>>
    <2>1. reading' \in Reads /\ reading'.o = reading.o
        BY <1>2, <1>4 DEF Reads
    <2>2. TypeOK'
        BY <2>1, <1>4, NoWriteFacts DEF TypeOK
    <2>3. Distinct' /\ Addressed' /\ OneSocket' /\ ClockOutsideRead'
        BY <1>1, <1>4, <2>1, NoneIsNoRead DEF Distinct, Addressed, OneSocket, ClockOutsideRead
    <2>. QED
        BY <2>2, <2>3, NoWriteFacts
<1>. QED
    BY <1>3, <1>4

\* The message timer of a peer.
LEMMA MessageTimeoutStep ==
    ASSUME IInv, NEW o \in Objects, MessageTimeout(o)
    PROVE  IInv'
<1>. USE DEF IInv, MessageTimeout
<1>1. Members' = Members /\ Members \subseteq Objects
    BY MembersAreObjects DEF Members
<1>2. TypeOK'
    BY NoWriteFacts DEF TypeOK
<1>3. Distinct' /\ Addressed' /\ OneSocket'
    BY <1>1 DEF Distinct, Addressed, OneSocket
<1>4. ClockOutsideRead'
    BY <1>1 DEF ClockOutsideRead, TypeOK
<1>. QED
    BY <1>2, <1>3, <1>4, NoWriteFacts

\* emit() and broadcast() change nothing but what they report.
LEMMA WriteStep ==
    ASSUME IInv, (\E o \in Objects : Emit(o)) \/ Broadcast
    PROVE  IInv'
<1>1. UNCHANGED <<serverVars, sockets, lastPeer, addr, ipcBuffer, msgTimer, reading, heard>>
    BY DEF Emit, Broadcast
<1>2. PICK call \in {"emit", "broadcast"}, to \in SUBSET Addresses :
        wrote' = Send(call, to) /\ (call = "broadcast" => to = {addr[o] : o \in Members})
    <2>1. CASE Broadcast
        BY <2>1 DEF Broadcast, WriteAllDatagrams, IInv, Addressed
    <2>2. ASSUME NEW o \in Objects, Emit(o)
          PROVE  addr[o] \in Addresses /\ wrote' = Send("emit", {addr[o]})
        BY <2>2 DEF Emit, IInv, Addressed
    <2>. QED
        BY <2>1, <2>2
<1>3. Members' = Members
    BY <1>1 DEF Members
<1>4. TypeOK'
    BY <1>1, <1>2, SendType DEF IInv, TypeOK
<1>5. Distinct' /\ Addressed' /\ OneSocket' /\ ClockOutsideRead'
    BY <1>1, <1>3 DEF IInv, Distinct, Addressed, OneSocket, ClockOutsideRead
<1>6. BroadcastReachesPeers'
    <2>. SUFFICES ASSUME wrote'.call = "broadcast", ~(heard \subseteq wrote'.reached)
                  PROVE  wrote'.how = "thrown" /\ closed /\ bound # {} /\ twice
        BY <1>1 DEF BroadcastReachesPeers
    <2>1. call = "broadcast" /\ to = {addr[o] : o \in Members}
        BY <1>2 DEF Send
    <2>2. heard \subseteq to
        BY <2>1 DEF IInv, Addressed
    <2>3. wrote'.reached = IF closed THEN {} ELSE to
        BY <1>2 DEF Send
    <2>4. closed /\ heard # {} /\ to # {}
        BY <2>2, <2>3
    <2>5. bound # {} /\ twice
        BY <2>4 DEF IInv, OneSocket
    <2>. QED
        BY <1>2, <2>4, <2>5 DEF Send
<1>7. AnswersGoOut'
    <2>1. wrote'.to = to
        BY <1>2 DEF Send
    <2>2. SUFFICES ASSUME ~twice', to \cap heard # {}
                   PROVE  wrote'.how = "sent"
        BY <1>1, <2>1 DEF AnswersGoOut
    <2>. QED
        BY <1>1, <1>2, <2>2, SendGoesOut DEF IInv
<1>. QED
    BY <1>4, <1>5, <1>6, <1>7 DEF IInv

\* A step that changes nothing.
LEMMA StutterStep ==
    ASSUME IInv, UNCHANGED vars
    PROVE  IInv'
<1>1. Members' = Members
    BY DEF vars, Members
<1>. QED
    BY <1>1 DEF vars, IInv, TypeOK, Distinct, Addressed, OneSocket, ClockOutsideRead,
                BroadcastReachesPeers, AnswersGoOut

\* The invariant holds in every reachable state.
THEOREM Invariance == Spec => []IInv
<1>1. IInv /\ [Next]_vars => IInv'
    BY StartStep, StopStep, ReceiveDatagramStep, ContinueReadStep, MessageTimeoutStep,
       WriteStep, StutterStep DEF Next
<1>. QED
    BY <1>1, InitIInv, PTL DEF Spec

\* peer() never makes a second object for an address it knows, whatever was
\* cached, stopped or restarted: the fragments of a message meet in one buffer.
THEOREM PeersAreUnique == Spec => []OnePeerPerAddress
<1>1. IInv => OnePeerPerAddress
    BY DEF IInv, OnePeerPerAddress, Distinct, Addressed
<1>. QED
    BY <1>1, Invariance, PTL

\* broadcast() sends a datagram to everybody who was heard since the last stop(),
\* unless it throws because stop() has closed a second socket instead of the one
\* that receives.
THEOREM BroadcastIsComplete == Spec => []BroadcastReachesPeers
<1>1. IInv => BroadcastReachesPeers
    BY DEF IInv
<1>. QED
    BY <1>1, Invariance, PTL

\* emit() to somebody who was heard leaves from the server's port, as long as
\* start() is not called on a running server.
THEOREM AnswersAreSent == Spec => []AnswersGoOut
<1>1. IInv => AnswersGoOut
    BY DEF IInv
<1>. QED
    BY <1>1, Invariance, PTL

\* Between two callbacks the message timer of a peer runs exactly while it has
\* an incomplete message.
THEOREM ClockIsRight == Spec => []MessageClock
<1>1. IInv => MessageClock
    BY DEF IInv, MessageClock, ClockOutsideRead
<1>. QED
    BY <1>1, Invariance, PTL
=============================================================================

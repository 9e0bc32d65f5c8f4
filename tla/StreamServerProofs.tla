------------------------- MODULE StreamServerProofs -------------------------
(***************************************************************************)
(* Proofs about StreamServer, for every set of sockets, every limit and    *)
(* any depth of nested calls; and about SocketFile, the file of a server   *)
(* on a Unix socket, for every set of processes.                           *)
(***************************************************************************)
EXTENDS StreamServer, SocketFile, FiniteSetTheorems, TLAPS

USE StreamServerAssumption DEF serverVars, socketVars, historyVars

-----------------------------------------------------------------------------
(* Facts about lists *)

\* No element is on the list twice.
Unrepeated(s) == \A i, j \in DOMAIN s : s[i] = s[j] => i = j

\* push()
LEMMA AppendFacts ==
    ASSUME NEW S, NEW s \in Seq(S), NEW e \in S
    PROVE  /\ Append(s, e) \in Seq(S)
           /\ ToSet(Append(s, e)) = ToSet(s) \cup {e}
           /\ Unrepeated(s) /\ e \notin ToSet(s) => Unrepeated(Append(s, e))
<1>1. /\ Append(s, e) \in Seq(S) /\ DOMAIN s = 1 .. Len(s)
      /\ DOMAIN Append(s, e) = 1 .. Len(s) + 1
      /\ \A i \in 1 .. Len(s) : Append(s, e)[i] = s[i]
      /\ Append(s, e)[Len(s) + 1] = e
    OBVIOUS
<1>2. ASSUME NEW x \in ToSet(Append(s, e))
      PROVE  x \in ToSet(s) \cup {e}
    BY <1>1 DEF ToSet
<1>3. ASSUME NEW x \in ToSet(s) \cup {e}
      PROVE  x \in ToSet(Append(s, e))
    BY <1>1 DEF ToSet
<1>4. ASSUME Unrepeated(s), e \notin ToSet(s)
      PROVE  Unrepeated(Append(s, e))
    BY <1>1, <1>4 DEF Unrepeated, ToSet
<1>. QED
    BY <1>1, <1>2, <1>3, <1>4

\* Two lists, one after the other.
LEMMA Concatenation ==
    ASSUME NEW S, NEW u \in Seq(S), NEW v \in Seq(S)
    PROVE  /\ u \o v \in Seq(S) /\ Len(u \o v) = Len(u) + Len(v)
           /\ \A i \in 1 .. Len(u) + Len(v) : (u \o v)[i] = IF i <= Len(u) THEN u[i] ELSE v[i - Len(u)]
OBVIOUS

\* indexOf() and splice() on a list without repetitions.
LEMMA RemoveFirstFacts ==
    ASSUME NEW S, NEW s \in Seq(S), Unrepeated(s), NEW e \in ToSet(s)
    PROVE  /\ RemoveFirst(s, e) \in Seq(S)
           /\ ToSet(RemoveFirst(s, e)) = ToSet(s) \ {e}
           /\ Unrepeated(RemoveFirst(s, e))
<1>1. PICK n \in 1 .. Len(s) : s[n] = e
    BY DEF ToSet
<1>2. RemoveFirst(s, e) = RemoveAt(s, n)
    <2>1. {i \in 1 .. Len(s) : s[i] = e} = {n}
        BY <1>1 DEF Unrepeated
    <2>2. Min({n}) = n
        BY DEF Min
    <2>3. SelectInSeq(s, LAMBDA v : v = e) = n
        BY <2>1, <2>2 DEF SelectInSeq
    <2>. QED
        BY <1>1, <2>3 DEF RemoveFirst
<1>. DEFINE t == RemoveAt(s, n)
<1>3. /\ t \in Seq(S) /\ DOMAIN t = 1 .. Len(s) - 1 /\ DOMAIN s = 1 .. Len(s)
      /\ \A i \in 1 .. Len(s) - 1 : t[i] = IF i < n THEN s[i] ELSE s[i + 1]
    <2>. DEFINE u == SubSeq(s, 1, n - 1)
                v == SubSeq(s, n + 1, Len(s))
    <2>1. u \in Seq(S) /\ Len(u) = n - 1 /\ \A i \in 1 .. n - 1 : u[i] = s[i]
        OBVIOUS
    <2>2. v \in Seq(S) /\ Len(v) = Len(s) - n /\ \A i \in 1 .. Len(s) - n : v[i] = s[n + i]
        OBVIOUS
    <2>3. t = u \o v
        BY DEF RemoveAt
    <2>. HIDE DEF u, v
    <2>4. /\ t \in Seq(S) /\ Len(t) = Len(s) - 1
          /\ \A i \in 1 .. Len(s) - 1 : t[i] = IF i <= n - 1 THEN u[i] ELSE v[i - (n - 1)]
        <3>1. u \o v \in Seq(S) /\ Len(u \o v) = Len(u) + Len(v)
            BY <2>1, <2>2, Concatenation
        <3>2. \A i \in 1 .. Len(u) + Len(v) : (u \o v)[i] = IF i <= Len(u) THEN u[i] ELSE v[i - Len(u)]
            BY <2>1, <2>2, Concatenation
        <3>3. Len(u) = n - 1 /\ Len(u) + Len(v) = Len(s) - 1
            BY <2>1, <2>2
        <3>. HIDE DEF t
        <3>4. Len(t) = Len(s) - 1 /\ t \in Seq(S)
            BY <2>3, <3>1, <3>3
        <3>5. \A i \in 1 .. Len(s) - 1 : t[i] = IF i <= n - 1 THEN u[i] ELSE v[i - (n - 1)]
            BY <2>3, <3>2, <3>3
        <3>. QED
            BY <3>4, <3>5
    <2>5. ASSUME NEW i \in 1 .. Len(s) - 1
          PROVE  t[i] = IF i < n THEN s[i] ELSE s[i + 1]
        <3>1. CASE i < n
            BY <2>1, <2>4, <3>1
        <3>2. CASE ~(i < n)
            <4>1. i - (n - 1) \in 1 .. Len(s) - n /\ n + (i - (n - 1)) = i + 1
                BY <3>2
            <4>. QED
                BY <2>2, <2>4, <3>2, <4>1
        <3>. QED
            BY <3>1, <3>2
    <2>. QED
        BY <2>4, <2>5
<1>. HIDE DEF t
<1>4. ASSUME NEW x \in ToSet(t)
      PROVE  x \in ToSet(s) \ {e}
    <2>1. PICK i \in 1 .. Len(s) - 1 : x = t[i]
        BY <1>3 DEF ToSet
    <2>2. PICK k \in 1 .. Len(s) : k # n /\ x = s[k]
        BY <1>3, <2>1
    <2>. QED
        BY <1>1, <1>3, <2>2 DEF Unrepeated, ToSet
<1>5. ASSUME NEW x \in ToSet(s) \ {e}
      PROVE  x \in ToSet(t)
    <2>1. PICK k \in 1 .. Len(s) : x = s[k] /\ k # n
        BY <1>1 DEF ToSet
    <2>2. PICK i \in 1 .. Len(s) - 1 : t[i] = x
        <3>1. CASE k < n
            BY <1>3, <2>1, <3>1
        <3>2. CASE k > n
            <4>1. k - 1 \in 1 .. Len(s) - 1 /\ ~(k - 1 < n) /\ (k - 1) + 1 = k
                BY <3>2
            <4>2. t[k - 1] = s[k]
                BY <1>3, <4>1
            <4>. QED
                BY <2>1, <4>1, <4>2
        <3>. QED
            BY <2>1, <3>1, <3>2
    <2>. QED
        BY <1>3, <2>2 DEF ToSet
<1>6. Unrepeated(t)
    <2>. SUFFICES ASSUME NEW i \in 1 .. Len(s) - 1, NEW j \in 1 .. Len(s) - 1, t[i] = t[j]
                  PROVE  i = j
        BY <1>3 DEF Unrepeated
    <2>. DEFINE k(m) == IF m < n THEN m ELSE m + 1
    <2>1. t[i] = s[k(i)] /\ t[j] = s[k(j)] /\ k(i) \in DOMAIN s /\ k(j) \in DOMAIN s
        BY <1>3
    <2>2. k(i) = k(j)
        BY <2>1 DEF Unrepeated
    <2>. QED
        BY <2>2
<1>. QED
    BY <1>2, <1>3, <1>4, <1>5, <1>6 DEF t

\* The stack of calls: a new call on top of it...
LEMMA PushFacts ==
    ASSUME NEW S, NEW s \in Seq(S), NEW f \in S
    PROVE  /\ <<f>> \o s \in Seq(S) /\ Len(<<f>> \o s) = Len(s) + 1
           /\ ToSet(<<f>> \o s) = ToSet(s) \cup {f}
<1>. DEFINE t == <<f>> \o s
<1>1. /\ t \in Seq(S) /\ Len(t) = Len(s) + 1 /\ DOMAIN t = 1 .. Len(s) + 1
      /\ DOMAIN s = 1 .. Len(s)
      /\ t[1] = f /\ \A i \in 1 .. Len(s) : t[i + 1] = s[i]
    OBVIOUS
<1>. HIDE DEF t
<1>2. ASSUME NEW x \in ToSet(t)
      PROVE  x \in ToSet(s) \cup {f}
    <2>1. PICK i \in 1 .. Len(s) + 1 : x = t[i]
        BY <1>1 DEF ToSet
    <2>2. CASE i = 1
        BY <1>1, <2>1, <2>2
    <2>3. CASE i # 1
        <3>1. i - 1 \in 1 .. Len(s) /\ t[(i - 1) + 1] = s[i - 1]
            BY <1>1, <2>3
        <3>. QED
            BY <1>1, <2>1, <3>1 DEF ToSet
    <2>. QED
        BY <2>2, <2>3
<1>3. ASSUME NEW x \in ToSet(s) \cup {f}
      PROVE  x \in ToSet(t)
    BY <1>1 DEF ToSet
<1>. QED
    BY <1>1, <1>2, <1>3 DEF t

\* ...and the stack without its top.
LEMMA PopFacts ==
    ASSUME NEW S, NEW s \in Seq(S), s # <<>>
    PROVE  /\ Tail(s) \in Seq(S) /\ Len(Tail(s)) = Len(s) - 1 /\ Len(s) > 0
           /\ Head(s) \in S /\ Head(s) \in ToSet(s)
           /\ ToSet(s) = ToSet(Tail(s)) \cup {Head(s)}
<1>1. /\ Tail(s) \in Seq(S) /\ Len(Tail(s)) = Len(s) - 1 /\ Head(s) \in S /\ Len(s) > 0
      /\ DOMAIN Tail(s) = 1 .. Len(s) - 1 /\ DOMAIN s = 1 .. Len(s)
      /\ Head(s) = s[1] /\ \A i \in 1 .. Len(s) - 1 : Tail(s)[i] = s[i + 1]
    OBVIOUS
<1>2. ASSUME NEW x \in ToSet(s)
      PROVE  x \in ToSet(Tail(s)) \cup {Head(s)}
    <2>1. PICK i \in 1 .. Len(s) : x = s[i]
        BY <1>1 DEF ToSet
    <2>2. CASE i = 1
        BY <1>1, <2>1, <2>2
    <2>3. CASE i # 1
        <3>1. i - 1 \in 1 .. Len(s) - 1 /\ (i - 1) + 1 = i
            BY <2>3
        <3>2. Tail(s)[i - 1] = s[i]
            BY <1>1, <3>1
        <3>. QED
            BY <1>1, <2>1, <3>1, <3>2 DEF ToSet
    <2>. QED
        BY <2>2, <2>3
<1>3. ASSUME NEW x \in ToSet(Tail(s)) \cup {Head(s)}
      PROVE  x \in ToSet(s)
    BY <1>1 DEF ToSet
<1>. QED
    BY <1>1, <1>2, <1>3

-----------------------------------------------------------------------------
(* The inductive invariant *)

Calls == ToSet(calls)

OpenPeers == {p \in Peers : conn[p] = "open"}

\* this.sockets.
Listed ==
    /\ Unrepeated(sockets)
    /\ \A p \in Peers : conn[p] = "open" => p \in Members
    /\ \A p \in Members : conn[p] \in {"open", "dying"} /\ told[p] = "connect"

\* The broadcasts that wait for a handler.
Served ==
    \A f \in Calls : f.call = "broadcast" =>
        \A i \in DOMAIN sockets :
            sockets[i] \in f.due => (i >= f.next <=> sockets[i] \notin f.done)

\* A connection is open only while the listener that accepted it is, if
\* this.server knows all listeners and connections.
Limited ==
    /\ ~Tls => \A p \in Peers : conn[p] # "handshake"
    /\ ~Tls /\ ~overlapped =>
          /\ listening \subseteq {server}
          /\ stopped => listening = {}
          /\ \A p \in Peers : conn[p] = "open" => via[p] = server /\ server \in listening
          /\ Cardinality(OpenPeers) <= MaxConnections

\* The timer follows the buffer, except for a socket that is being read.
Clocked ==
    /\ \A p \in Peers : msgTimer[p] => p \in Members
    /\ Guarded => \A p \in Peers :
          conn[p] = "open" /\ (\A f \in Calls : f.call = "read" => f.p # p) =>
              (msgTimer[p] <=> ipcBuffer[p])

\* A connection that is gone was announced as such, or its removal waits for the
\* handlers of 'socket.disconnected'; what stop() took off the list is marked.
Announced ==
    /\ \A p \in Peers : conn[p] = "none" /\ told[p] \notin {"nothing", "close"} => Removing(p) \in Calls
    /\ \A f \in Calls : f.call = "remove" => told[f.p] \in {"socket.disconnected", "close"}
    /\ \A p \in Peers : conn[p] = "handshake" => told[p] = "nothing"
    /\ \A p \in Peers : conn[p] = "dying" /\ p \notin Members => dropped[p]

IInv == TypeOK /\ Listed /\ Served /\ Limited /\ Clocked /\ Announced

-----------------------------------------------------------------------------
\* The list and the open connections are finite.
LEMMA OpenIsFinite ==
    ASSUME TypeOK, Listed
    PROVE  /\ Members \subseteq Peers
           /\ IsFiniteSet(OpenPeers) /\ Cardinality(OpenPeers) \in Nat
<1>1. Members \subseteq Peers
    BY DEF TypeOK, Members, ToSet
<1>2. IsFiniteSet(Members)
    <2>1. sockets \in Seq(Members)
        BY DEF TypeOK, Members, ToSet
    <2>2. \A x \in Members : \E n \in 1 .. Len(sockets) : sockets[n] = x
        BY DEF TypeOK, Members, ToSet
    <2>. QED
        BY <2>1, <2>2 DEF IsFiniteSet
<1>3. OpenPeers \subseteq Members
    BY DEF OpenPeers, Listed
<1>. QED
    BY <1>1, <1>2, <1>3, FS_Subset, FS_CardinalityType

\* Fewer open connections keep the limit.
LEMMA FewerOpen ==
    ASSUME TypeOK, Listed, OpenPeers' \subseteq OpenPeers
    PROVE  Cardinality(OpenPeers') <= Cardinality(OpenPeers) /\ Cardinality(OpenPeers') \in Nat
BY OpenIsFinite, FS_Subset, FS_CardinalityType

\* Destroying sockets keeps what is said of the list and the listeners.
LEMMA DestroyedFacts ==
    ASSUME IInv, NEW P \in SUBSET Peers, conn' = Destroyed(P),
           UNCHANGED <<serverVars, sockets, via, historyVars>>
    PROVE  /\ conn' \in [Peers -> ConnStates]
           /\ Members' = Members /\ Listed' /\ Limited'
           /\ \A p \in Peers : conn'[p] = "open" => conn[p] = "open"
           /\ \A p \in Peers : conn'[p] \in {"none", "handshake"} => conn'[p] = conn[p]
           /\ \A p \in Peers : conn'[p] = "dying" /\ p \notin Members' => dropped'[p]
<1>1. conn' \in [Peers -> ConnStates]
    BY DEF IInv, TypeOK, Destroyed, ConnStates
<1>2. Members' = Members /\ Members \subseteq Peers
    BY OpenIsFinite DEF IInv, Members
<1>3. \A p \in Peers : conn'[p] = conn[p] \/ (conn[p] = "open" /\ conn'[p] = "dying")
    BY DEF Destroyed, IInv, TypeOK
<1>4. Listed'
    BY <1>2, <1>3 DEF IInv, Listed
<1>5. OpenPeers' \subseteq OpenPeers
    BY <1>3 DEF OpenPeers
<1>6. Limited'
    BY <1>3, <1>5, FewerOpen, OpenIsFinite DEF IInv, Limited, Tls
<1>7. \A p \in Peers : conn'[p] = "dying" /\ p \notin Members' => dropped'[p]
    BY <1>2, <1>3 DEF IInv, Announced, Listed
<1>. QED
    BY <1>1, <1>2, <1>3, <1>4, <1>6, <1>7

\* A step that leaves the list and the calls alone, or takes calls off the stack,
\* keeps what is owed to the sockets.
LEMMA ServedFacts ==
    ASSUME Served, sockets' = sockets, Calls' \subseteq Calls
    PROVE  Served'
BY DEF Served

\* protocolFailure() with the calls that remain on the stack.
LEMMA ProtocolFailureFacts ==
    ASSUME IInv, NEW p \in Peers, ProtocolFailure(p),
           UNCHANGED <<serverVars, sockets, via, historyVars>>,
           \A f \in Calls : f.call # "broadcast" => f \in Calls' \/ (f.call = "read" /\ f.p = p),
           \A f \in Calls' : f.call # "broadcast" => f \in Calls
    PROVE  /\ conn' \in [Peers -> ConnStates]
           /\ ipcBuffer' \in [Peers -> BOOLEAN] /\ msgTimer' \in [Peers -> BOOLEAN]
           /\ Listed' /\ Limited' /\ Clocked' /\ Announced'
<1>1. conn' = Destroyed({p}) /\ {p} \in SUBSET Peers
    BY DEF ProtocolFailure
<1>2. /\ conn' \in [Peers -> ConnStates]
      /\ Members' = Members /\ Listed' /\ Limited'
      /\ \A q \in Peers : conn'[q] = "open" => conn[q] = "open"
      /\ \A q \in Peers : conn'[q] \in {"none", "handshake"} => conn'[q] = conn[q]
      /\ \A q \in Peers : conn'[q] = "dying" /\ q \notin Members' => dropped'[q]
    BY <1>1, DestroyedFacts
<1>3. /\ ipcBuffer' \in [Peers -> BOOLEAN] /\ msgTimer' \in [Peers -> BOOLEAN]
      /\ ~ipcBuffer'[p] /\ ~msgTimer'[p]
      /\ \A q \in Peers : q # p => ipcBuffer'[q] = ipcBuffer[q] /\ msgTimer'[q] = msgTimer[q]
    BY DEF ProtocolFailure, IInv, TypeOK
<1>4. Clocked'
    <2>1. \A q \in Peers : msgTimer'[q] => q \in Members'
        BY <1>2, <1>3 DEF IInv, Clocked
    <2>2. ASSUME Guarded, NEW q \in Peers, conn'[q] = "open",
                 \A f \in Calls' : f.call = "read" => f.p # q
          PROVE  msgTimer'[q] <=> ipcBuffer'[q]
        <3>1. CASE q = p
            BY <1>3, <3>1
        <3>2. CASE q # p
            <4>1. \A f \in Calls : f.call = "read" => f.p # q
                BY <2>2, <3>2
            <4>2. msgTimer[q] <=> ipcBuffer[q]
                BY <1>2, <2>2, <4>1 DEF IInv, Clocked
            <4>. QED
                BY <1>3, <3>2, <4>2
        <3>. QED
            BY <3>1, <3>2
    <2>. QED
        BY <2>1, <2>2 DEF Clocked
<1>5. Announced'
    BY <1>2 DEF IInv, Announced, Removing
<1>. QED
    BY <1>2, <1>3, <1>4, <1>5

-----------------------------------------------------------------------------
(* One lemma per action *)

\* Before the first start() nothing is open.
LEMMA InitIInv == Init => IInv
<1>. SUFFICES ASSUME Init PROVE IInv
    OBVIOUS
<1>1. Members = {} /\ Calls = {} /\ OpenPeers = {}
    BY DEF Init, Members, Calls, OpenPeers, ToSet
<1>2. TypeOK
    <2>1. sockets \in Seq(Peers) /\ calls \in Seq(Frames) /\ Len(calls) <= MaxDepth
        BY DEF Init
    <2>2. server \in 0 .. MaxStarts /\ via \in [Peers -> 0 .. MaxStarts]
        BY DEF Init
    <2>. QED
        BY <2>1, <2>2 DEF Init, TypeOK, ConnStates, Events
<1>. QED
    BY <1>1, <1>2, FS_EmptySet DEF Init, IInv, Listed, Unrepeated, Served, Limited, Clocked, Announced

\* start()
LEMMA StartStep ==
    ASSUME IInv, Start
    PROVE  IInv'
<1>. USE DEF IInv, Start
<1>1. Members' = Members /\ Calls' = Calls /\ OpenPeers' = OpenPeers
    BY DEF Members, Calls, OpenPeers
<1>2. TypeOK'
    <2>1. server' \in 0 .. MaxStarts /\ listening' \subseteq Listeners
        BY DEF TypeOK, Listeners
    <2>2. overlapped' \in BOOLEAN
        BY DEF TypeOK
    <2>. QED
        BY <2>1, <2>2 DEF TypeOK
<1>3. Listed' /\ Served' /\ Clocked' /\ Announced'
    BY <1>1 DEF Listed, Served, Clocked, Announced
<1>4. Limited'
    BY <1>1 DEF Limited, Tls
<1>. QED
    BY <1>2, <1>3, <1>4

\* stop()
LEMMA StopStep ==
    ASSUME IInv, Stop
    PROVE  IInv'
<1>. USE DEF IInv, Stop
<1>1. Members' = {} /\ Calls' = Calls /\ Members \subseteq Peers
    BY OpenIsFinite DEF Members, Calls, ToSet
<1>2. /\ conn' \in [Peers -> ConnStates]
      /\ \A p \in Peers : /\ conn'[p] # "open"
                          /\ conn'[p] = conn[p] \/ (conn'[p] = "dying" /\ p \in Members)
    BY DEF Destroyed, TypeOK, Listed, ConnStates
<1>3. TypeOK'
    BY <1>2 DEF TypeOK
<1>4. Listed' /\ Served'
    BY <1>1, <1>2 DEF Listed, Served, Unrepeated
<1>5. Limited'
    <2>1. OpenPeers' = {}
        BY <1>2 DEF OpenPeers
    <2>. QED
        BY <1>2, <2>1, FS_EmptySet DEF Limited, Tls
<1>6. Clocked'
    <2>1. ASSUME NEW p \in Peers, msgTimer'[p]
          PROVE  FALSE
        BY <2>1 DEF Clocked
    <2>. QED
        BY <1>2, <2>1 DEF Clocked
<1>7. Announced'
    BY <1>1, <1>2 DEF Announced
<1>. QED
    BY <1>3, <1>4, <1>5, <1>6, <1>7

\* emit() beyond maxPendingBytes, and the message timer.
LEMMA FailureStep ==
    ASSUME IInv, NEW p \in Peers, EmitOverflow(p) \/ MessageTimeout(p)
    PROVE  IInv'
<1>1. ProtocolFailure(p) /\ UNCHANGED <<serverVars, sockets, via, calls, historyVars>>
    BY DEF EmitOverflow, MessageTimeout
<1>2. Calls' = Calls
    BY <1>1 DEF Calls
<1>3. /\ conn' \in [Peers -> ConnStates]
      /\ ipcBuffer' \in [Peers -> BOOLEAN] /\ msgTimer' \in [Peers -> BOOLEAN]
      /\ Listed' /\ Limited' /\ Clocked' /\ Announced'
    BY <1>1, <1>2, ProtocolFailureFacts
<1>4. Served'
    BY <1>1, <1>2, ServedFacts DEF IInv
<1>. QED
    BY <1>1, <1>3, <1>4 DEF IInv, TypeOK

\* A socket is destroyed, by the application or by its peer.
LEMMA DestroyStep ==
    ASSUME IInv, NEW p \in Peers, DestroySocket(p) \/ SocketDies(p)
    PROVE  IInv'
<1>1. /\ conn' = Destroyed({p}) /\ {p} \in SUBSET Peers
      /\ UNCHANGED <<serverVars, sockets, ipcBuffer, msgTimer, via, calls, historyVars>>
    BY DEF DestroySocket, SocketDies
<1>2. /\ conn' \in [Peers -> ConnStates]
      /\ Members' = Members /\ Listed' /\ Limited'
      /\ \A q \in Peers : conn'[q] = "open" => conn[q] = "open"
      /\ \A q \in Peers : conn'[q] \in {"none", "handshake"} => conn'[q] = conn[q]
      /\ \A q \in Peers : conn'[q] = "dying" /\ q \notin Members' => dropped'[q]
    BY <1>1, DestroyedFacts
<1>3. Calls' = Calls
    BY <1>1 DEF Calls
<1>4. Served'
    BY <1>1, <1>3, ServedFacts DEF IInv
<1>5. Clocked' /\ Announced'
    BY <1>1, <1>2, <1>3 DEF IInv, Clocked, Announced
<1>. QED
    BY <1>1, <1>2, <1>4, <1>5 DEF IInv, TypeOK

\* The frame of a broadcast.
LEMMA BroadcastFrame ==
    ASSUME NEW f \in Frames, f.call = "broadcast"
    PROVE  f.next \in Nat \ {0} /\ f.due \in SUBSET Peers /\ f.done \in SUBSET Peers
BY DEF Frames

\* writeAllStreams() from any position on, if the loop has served exactly the
\* sockets before it.
LEMMA WriteAllStreamsStep ==
    ASSUME IInv,
           NEW next \in Nat \ {0}, NEW due \in SUBSET Peers, NEW done \in SUBSET Peers,
           NEW below \in Seq(Frames), Len(below) < MaxDepth,
           ToSet(below) \subseteq Calls,
           \A f \in Calls : f.call # "broadcast" => f \in ToSet(below),
           \A i \in DOMAIN sockets :
               sockets[i] \in due => (i >= next <=> sockets[i] \notin done),
           WriteAllStreams(next, due, done, below)
    PROVE  IInv'
<1>1. UNCHANGED <<serverVars, sockets, via, historyVars>>
    BY DEF WriteAllStreams
<1>2. CASE calls' = below /\ UNCHANGED socketVars
    <2>1. Calls' = ToSet(below) /\ Members' = Members /\ OpenPeers' = OpenPeers
        BY <1>1, <1>2 DEF Calls, Members, OpenPeers
    <2>2. TypeOK'
        BY <1>1, <1>2 DEF IInv, TypeOK
    <2>3. Listed' /\ Served' /\ Limited'
        BY <1>1, <1>2, <2>1 DEF IInv, Listed, Served, Limited, Tls
    <2>4. Clocked' /\ Announced'
        BY <1>1, <1>2, <2>1 DEF IInv, Clocked, Announced, Removing
    <2>. QED
        BY <2>2, <2>3, <2>4 DEF IInv
<1>3. ASSUME NEW j \in next .. Len(sockets), ProtocolFailure(sockets[j]),
             calls' = <<Broadcasting(j + 1, due, done \cup {sockets[i] : i \in next .. j})>> \o below
      PROVE  IInv'
    <2>. DEFINE f == Broadcasting(j + 1, due, done \cup {sockets[i] : i \in next .. j})
    <2>1. sockets \in Seq(Peers) /\ j \in 1 .. Len(sockets) /\ DOMAIN sockets = 1 .. Len(sockets)
        BY DEF IInv, TypeOK
    <2>2. {sockets[i] : i \in next .. j} \in SUBSET Peers /\ sockets[j] \in Peers
        BY <2>1
    <2>3. f \in Frames /\ f.call = "broadcast" /\ f.next = j + 1 /\ f.due = due
          /\ f.done = done \cup {sockets[i] : i \in next .. j}
        BY <2>1, <2>2 DEF Frames, Broadcasting
    <2>4. calls' = <<f>> \o below
        BY <1>3
    <2>. HIDE DEF f
    <2>5. calls' \in Seq(Frames) /\ Len(calls') <= MaxDepth /\ Calls' = ToSet(below) \cup {f}
        <3>1. /\ <<f>> \o below \in Seq(Frames) /\ Len(<<f>> \o below) = Len(below) + 1
              /\ ToSet(<<f>> \o below) = ToSet(below) \cup {f}
            BY <2>3, PushFacts
        <3>. QED
            BY <2>4, <3>1 DEF Calls
    <2>6. /\ conn' \in [Peers -> ConnStates]
          /\ ipcBuffer' \in [Peers -> BOOLEAN] /\ msgTimer' \in [Peers -> BOOLEAN]
          /\ Listed' /\ Limited' /\ Clocked' /\ Announced'
        BY <1>1, <1>3, <2>2, <2>3, <2>5, ProtocolFailureFacts
    <2>7. TypeOK'
        BY <1>1, <2>5, <2>6 DEF IInv, TypeOK
    <2>8. ASSUME NEW i \in DOMAIN sockets, sockets[i] \in due
          PROVE  i >= f.next <=> sockets[i] \notin f.done
        <3>1. sockets[i] \in {sockets[k] : k \in next .. j} <=> i \in next .. j
            BY <2>1 DEF IInv, Listed, Unrepeated
        <3>2. i >= next <=> sockets[i] \notin done
            BY <2>8
        <3>3. i \in Nat /\ next \in Nat /\ j \in Nat /\ j >= next
            BY <2>1
        <3>. QED
            BY <2>3, <3>1, <3>2, <3>3
    <2>9. Served'
        <3>1. SUFFICES ASSUME NEW g \in Calls', g.call = "broadcast", NEW i \in DOMAIN sockets,
                              sockets[i] \in g.due
                       PROVE  i >= g.next <=> sockets[i] \notin g.done
            BY <1>1 DEF Served
        <3>2. CASE g = f
            BY <2>3, <2>8, <3>1, <3>2
        <3>3. CASE g \in Calls
            BY <3>1, <3>3 DEF IInv, Served
        <3>. QED
            BY <2>5, <3>1, <3>2, <3>3
    <2>. QED
        BY <2>6, <2>7, <2>9 DEF IInv
<1>. QED
    BY <1>2, <1>3 DEF WriteAllStreams

\* broadcast()
LEMMA BroadcastStep ==
    ASSUME IInv, Broadcast
    PROVE  IInv'
<1>1. Members \in SUBSET Peers /\ calls \in Seq(Frames) /\ Len(calls) < MaxDepth
    BY OpenIsFinite DEF IInv, TypeOK, Broadcast
<1>2. \A i \in DOMAIN sockets : sockets[i] \in Members => (i >= 1 <=> sockets[i] \notin {})
    BY DEF IInv, TypeOK
<1>3. WriteAllStreams(1, Members, {}, calls)
    BY DEF Broadcast
<1>. QED
    BY <1>1, <1>2, <1>3, WriteAllStreamsStep DEF Calls

\* The handlers of 'error' have returned to a broadcast.
LEMMA ContinueBroadcastStep ==
    ASSUME IInv, ContinueBroadcast
    PROVE  IInv'
<1>. DEFINE f == Head(calls)
<1>1. /\ calls \in Seq(Frames) /\ calls # <<>> /\ Len(calls) <= MaxDepth
      /\ f.call = "broadcast"
    BY DEF IInv, TypeOK, ContinueBroadcast, Idle
<1>2. /\ Tail(calls) \in Seq(Frames) /\ Len(Tail(calls)) = Len(calls) - 1 /\ Len(calls) > 0
      /\ f \in Frames /\ f \in Calls
      /\ Calls = ToSet(Tail(calls)) \cup {f}
    BY <1>1, PopFacts DEF Calls
<1>3. f.next \in Nat \ {0} /\ f.due \in SUBSET Peers /\ f.done \in SUBSET Peers
    BY <1>1, <1>2, BroadcastFrame
<1>4. \A i \in DOMAIN sockets : sockets[i] \in f.due => (i >= f.next <=> sockets[i] \notin f.done)
    BY <1>1, <1>2 DEF IInv, Served
<1>5. WriteAllStreams(f.next, f.due, f.done, Tail(calls))
    BY DEF ContinueBroadcast
<1>6. Len(Tail(calls)) < MaxDepth
    BY <1>1, <1>2
<1>7. ToSet(Tail(calls)) \subseteq Calls /\ \A g \in Calls : g.call # "broadcast" => g \in ToSet(Tail(calls))
    BY <1>1, <1>2
<1>. HIDE DEF f
<1>. QED
    BY <1>2, <1>3, <1>4, <1>5, <1>6, <1>7, WriteAllStreamsStep

\* addSocket(), between two callbacks.
LEMMA AddSocketFacts ==
    ASSUME IInv, NEW p \in Peers, conn[p] \in {"none", "handshake"}, Idle, AddSocket(p),
           calls' = calls
    PROVE  /\ sockets' \in Seq(Peers) /\ conn' \in [Peers -> ConnStates]
           /\ ipcBuffer' \in [Peers -> BOOLEAN] /\ msgTimer' \in [Peers -> BOOLEAN]
           /\ told' \in [Peers -> Events] /\ dropped' \in [Peers -> BOOLEAN]
           /\ Listed' /\ Served' /\ Clocked' /\ Announced'
           /\ OpenPeers' = OpenPeers \cup {p} /\ p \notin OpenPeers
<1>. USE DEF IInv, AddSocket
<1>1. Calls = {} /\ Calls' = {}
    BY DEF Idle, Calls, ToSet
<1>2. p \notin Members /\ Members \subseteq Peers
    BY OpenIsFinite DEF Listed
<1>3. sockets' \in Seq(Peers) /\ Members' = Members \cup {p} /\ Unrepeated(sockets')
    <2>1. sockets \in Seq(Peers) /\ Unrepeated(sockets) /\ sockets' = Append(sockets, p)
        BY DEF TypeOK, Listed
    <2>. QED
        BY <1>2, <2>1, AppendFacts DEF Members
<1>4. /\ conn' \in [Peers -> ConnStates]
      /\ ipcBuffer' \in [Peers -> BOOLEAN] /\ msgTimer' \in [Peers -> BOOLEAN]
      /\ told' \in [Peers -> Events] /\ dropped' \in [Peers -> BOOLEAN]
      /\ conn'[p] = "open" /\ told'[p] = "connect" /\ ~ipcBuffer'[p] /\ ~msgTimer'[p]
      /\ \A q \in Peers : q # p =>
            /\ conn'[q] = conn[q] /\ told'[q] = told[q] /\ ipcBuffer'[q] = ipcBuffer[q]
            /\ msgTimer'[q] = msgTimer[q] /\ dropped'[q] = dropped[q]
    BY DEF TypeOK, ConnStates, Events
<1>5. Listed'
    BY <1>2, <1>3, <1>4 DEF Listed
<1>6. Served' /\ Clocked' /\ Announced'
    BY <1>1, <1>3, <1>4 DEF Served, Clocked, Announced
<1>7. OpenPeers' = OpenPeers \cup {p} /\ p \notin OpenPeers
    BY <1>4 DEF OpenPeers
<1>. QED
    BY <1>3, <1>4, <1>5, <1>6, <1>7

\* A listener accepts a connection.
LEMMA AcceptStep ==
    ASSUME IInv, NEW p \in Peers, Accept(p)
    PROVE  IInv'
<1>1. PICK l \in Listeners : Reachable(l) /\ HasRoom(l) /\ via' = [via EXCEPT ![p] = l]
    BY DEF Accept
<1>2. Idle /\ conn[p] = "none" /\ UNCHANGED <<serverVars, calls>>
    BY DEF Accept, Unused
<1>3. via' \in [Peers -> 0 .. MaxStarts] /\ via'[p] = l /\ \A q \in Peers : q # p => via'[q] = via[q]
    BY <1>1 DEF IInv, TypeOK, Listeners
<1>4. CASE ~Tls /\ AddSocket(p)
    <2>1. /\ sockets' \in Seq(Peers) /\ conn' \in [Peers -> ConnStates]
          /\ ipcBuffer' \in [Peers -> BOOLEAN] /\ msgTimer' \in [Peers -> BOOLEAN]
          /\ told' \in [Peers -> Events] /\ dropped' \in [Peers -> BOOLEAN]
          /\ Listed' /\ Served' /\ Clocked' /\ Announced'
          /\ OpenPeers' = OpenPeers \cup {p} /\ p \notin OpenPeers
        BY <1>2, <1>4, AddSocketFacts
    <2>2. TypeOK'
        BY <1>2, <1>3, <2>1 DEF IInv, TypeOK
    <2>3. conn'[p] = "open" /\ \A q \in Peers : q # p => conn'[q] = conn[q]
        BY <1>4 DEF AddSocket, IInv, TypeOK
    <2>4. ASSUME ~overlapped
          PROVE  /\ listening' \subseteq {server'}
                 /\ stopped' => listening' = {}
                 /\ \A q \in Peers : conn'[q] = "open" => via'[q] = server' /\ server' \in listening'
                 /\ Cardinality(OpenPeers') <= MaxConnections
        <3>1. /\ listening \subseteq {server} /\ l \in listening /\ l = server
              /\ \A q \in Peers : conn[q] = "open" => via[q] = server
            BY <1>1, <1>4, <2>4 DEF IInv, Limited, Reachable
        <3>2. {q \in Peers : via[q] = l /\ conn[q] \in {"handshake", "open"}} = OpenPeers
            BY <1>4, <3>1 DEF IInv, Limited, OpenPeers
        <3>3. Cardinality(OpenPeers) < MaxConnections
            BY <1>1, <3>2 DEF HasRoom
        <3>4. Cardinality(OpenPeers') = Cardinality(OpenPeers) + 1 /\ Cardinality(OpenPeers) \in Nat
            BY <2>1, OpenIsFinite, FS_AddElement DEF IInv
        <3>5. Cardinality(OpenPeers') <= MaxConnections
            BY <3>3, <3>4
        <3>6. stopped => listening = {}
            BY <1>4, <2>4 DEF IInv, Limited
        <3>. QED
            BY <1>2, <1>3, <2>3, <3>1, <3>5, <3>6
    <2>5. Limited'
        BY <1>2, <1>4, <2>3, <2>4 DEF IInv, Limited, Tls
    <2>. QED
        BY <2>1, <2>2, <2>5 DEF IInv
<1>5. CASE /\ Tls
           /\ conn' = [conn EXCEPT ![p] = "handshake"]
           /\ told' = [told EXCEPT ![p] = "nothing"]
           /\ UNCHANGED <<sockets, ipcBuffer, msgTimer, dropped>>
    <2>1. Calls = {} /\ Calls' = {} /\ Members' = Members /\ Members \subseteq Peers
        BY <1>2, <1>5, OpenIsFinite DEF IInv, Idle, Calls, Members, ToSet
    <2>2. /\ conn' \in [Peers -> ConnStates] /\ told' \in [Peers -> Events]
          /\ conn'[p] = "handshake" /\ told'[p] = "nothing"
          /\ \A q \in Peers : q # p => conn'[q] = conn[q] /\ told'[q] = told[q]
        BY <1>5 DEF IInv, TypeOK, ConnStates, Events
    <2>3. TypeOK'
        BY <1>2, <1>3, <1>5, <2>2 DEF IInv, TypeOK
    <2>4. Listed'
        BY <1>2, <1>5, <2>1, <2>2 DEF IInv, Listed
    <2>5. Served' /\ Clocked' /\ Announced'
        BY <1>5, <2>1, <2>2 DEF IInv, Served, Clocked, Announced
    <2>6. Limited'
        BY <1>2, <1>5 DEF Limited, Tls
    <2>. QED
        BY <2>3, <2>4, <2>5, <2>6 DEF IInv
<1>. QED
    BY <1>4, <1>5 DEF Accept

\* The end of a TLS handshake.
LEMMA HandshakeStep ==
    ASSUME IInv, NEW p \in Peers, Handshake(p)
    PROVE  IInv'
<1>1. Idle /\ conn[p] = "handshake" /\ UNCHANGED <<serverVars, via, calls>> /\ Tls
    BY DEF Handshake, IInv, Limited
<1>2. Limited'
    BY <1>1 DEF Limited, Tls
<1>3. CASE AddSocket(p)
    BY <1>1, <1>2, <1>3, AddSocketFacts DEF IInv, TypeOK
<1>4. CASE conn' = [conn EXCEPT ![p] = "none"] /\ UNCHANGED <<sockets, ipcBuffer, msgTimer, historyVars>>
    <2>1. Calls = {} /\ Calls' = {} /\ Members' = Members /\ Members \subseteq Peers
        BY <1>1, <1>4, OpenIsFinite DEF IInv, Idle, Calls, Members, ToSet
    <2>2. /\ conn' \in [Peers -> ConnStates] /\ conn'[p] = "none"
          /\ \A q \in Peers : q # p => conn'[q] = conn[q]
        BY <1>4 DEF IInv, TypeOK, ConnStates
    <2>3. TypeOK'
        BY <1>1, <1>4, <2>2 DEF IInv, TypeOK
    <2>4. Listed' /\ Served' /\ Clocked' /\ Announced'
        BY <1>1, <1>4, <2>1, <2>2 DEF IInv, Listed, Served, Clocked, Announced
    <2>. QED
        BY <1>2, <2>3, <2>4 DEF IInv
<1>. QED
    BY <1>3, <1>4 DEF Handshake

\* The 'close' event.
LEMMA ClosedStep ==
    ASSUME IInv, NEW p \in Peers, Closed(p)
    PROVE  IInv'
<1>1. /\ Idle /\ conn[p] = "dying" /\ conn' = [conn EXCEPT ![p] = "none"]
      /\ UNCHANGED <<serverVars, ipcBuffer, via, dropped>>
    BY DEF Closed
<1>2. Calls = {} /\ calls = <<>> /\ Members \subseteq Peers
    BY <1>1, OpenIsFinite DEF IInv, Idle, Calls, ToSet
<1>3. /\ conn' \in [Peers -> ConnStates] /\ conn'[p] = "none"
      /\ \A q \in Peers : q # p => conn'[q] = conn[q]
    BY <1>1 DEF IInv, TypeOK, ConnStates
<1>4. Limited'
    <2>1. OpenPeers' = OpenPeers
        BY <1>1, <1>3 DEF OpenPeers
    <2>. QED
        BY <1>1, <1>3, <2>1 DEF IInv, Limited, Tls
<1>5. CASE p \in Members /\ RemoveSocket(p)
    <2>1. sockets' \in Seq(Peers) /\ Members' = Members \ {p} /\ Unrepeated(sockets')
        BY <1>5, RemoveFirstFacts DEF RemoveSocket, Members, IInv, TypeOK, Listed
    <2>2. /\ msgTimer' \in [Peers -> BOOLEAN] /\ told' \in [Peers -> Events]
          /\ told'[p] = "socket.disconnected" /\ ~msgTimer'[p]
          /\ \A q \in Peers : q # p => told'[q] = told[q] /\ msgTimer'[q] = msgTimer[q]
        BY <1>5 DEF RemoveSocket, IInv, TypeOK, Events
    <2>3. Removing(p) \in Frames /\ Removing(p).call = "remove" /\ Removing(p).p = p
        BY DEF Removing, Frames
    <2>4. calls' \in Seq(Frames) /\ Len(calls') = 1 /\ Calls' = {Removing(p)}
        <3>. DEFINE R == Removing(p)
        <3>1. calls' = <<R>> \o calls /\ calls \in Seq(Frames) /\ Len(calls) = 0
            BY <1>2, <1>5 DEF RemoveSocket, Push
        <3>2. R \in Frames
            BY <2>3
        <3>. HIDE DEF R
        <3>3. /\ <<R>> \o calls \in Seq(Frames) /\ Len(<<R>> \o calls) = Len(calls) + 1
              /\ ToSet(<<R>> \o calls) = ToSet(calls) \cup {R}
            BY <3>1, <3>2, PushFacts
        <3>4. calls' \in Seq(Frames) /\ Len(calls') = 1 /\ Calls' = {R}
            BY <1>2, <3>1, <3>3 DEF Calls
        <3>. QED
            BY <3>4 DEF R
    <2>5. TypeOK'
        BY <1>1, <1>3, <2>1, <2>2, <2>4 DEF IInv, TypeOK
    <2>6. Listed'
        BY <1>3, <1>2, <2>1, <2>2 DEF IInv, Listed
    <2>7. Served'
        BY <2>3, <2>4 DEF Served
    <2>8. Clocked'
        BY <1>1, <1>2, <1>3, <2>1, <2>2, <2>3, <2>4 DEF IInv, Clocked
    <2>9. Announced'
        BY <1>1, <1>2, <1>3, <2>1, <2>2, <2>3, <2>4 DEF IInv, Announced
    <2>. QED
        BY <1>4, <2>5, <2>6, <2>7, <2>8, <2>9 DEF IInv
<1>6. CASE p \notin Members /\ told' = [told EXCEPT ![p] = "close"] /\ UNCHANGED <<sockets, msgTimer, calls>>
    <2>1. Members' = Members /\ Calls' = {}
        BY <1>2, <1>6 DEF Members, Calls
    <2>2. /\ told' \in [Peers -> Events] /\ told'[p] = "close"
          /\ \A q \in Peers : q # p => told'[q] = told[q]
        BY <1>6 DEF IInv, TypeOK, Events
    <2>3. TypeOK'
        BY <1>1, <1>3, <1>6, <2>2 DEF IInv, TypeOK
    <2>4. Listed'
        BY <1>2, <1>3, <1>6, <2>1, <2>2 DEF IInv, Listed
    <2>5. Served' /\ Clocked' /\ Announced'
        BY <1>1, <1>2, <1>3, <1>6, <2>1, <2>2 DEF IInv, Served, Clocked, Announced
    <2>. QED
        BY <1>4, <2>3, <2>4, <2>5 DEF IInv
<1>. QED
    BY <1>5, <1>6 DEF Closed

\* The handlers of 'socket.disconnected' have returned.
LEMMA PublishCloseStep ==
    ASSUME IInv, PublishClose
    PROVE  IInv'
<1>. DEFINE f == Head(calls)
<1>1. /\ calls \in Seq(Frames) /\ calls # <<>> /\ Len(calls) <= MaxDepth
      /\ f.call = "remove" /\ calls' = Tail(calls)
      /\ told' = [told EXCEPT ![f.p] = "close"]
      /\ UNCHANGED <<serverVars, sockets, socketVars, via, dropped>>
    BY DEF IInv, TypeOK, PublishClose, Idle
<1>2. /\ Tail(calls) \in Seq(Frames) /\ Len(Tail(calls)) = Len(calls) - 1 /\ Len(calls) > 0
      /\ f \in Frames /\ f \in Calls
      /\ Calls = ToSet(Tail(calls)) \cup {f}
    BY <1>1, PopFacts DEF Calls
<1>3. f.p \in Peers /\ f = Removing(f.p)
    BY <1>1, <1>2 DEF Frames, Removing
<1>. HIDE DEF f
<1>4. Calls = Calls' \cup {f} /\ Members' = Members /\ Members \subseteq Peers /\ OpenPeers' = OpenPeers
    BY <1>1, <1>2, OpenIsFinite DEF IInv, Calls, Members, OpenPeers
<1>5. /\ told' \in [Peers -> Events] /\ told'[f.p] = "close"
      /\ \A q \in Peers : q # f.p => told'[q] = told[q]
    BY <1>1, <1>3 DEF IInv, TypeOK, Events
<1>6. told[f.p] \in {"socket.disconnected", "close"}
    BY <1>1, <1>2 DEF IInv, Announced
<1>7. TypeOK'
    BY <1>1, <1>2, <1>5 DEF IInv, TypeOK
<1>8. Listed'
    BY <1>1, <1>3, <1>4, <1>5, <1>6 DEF IInv, Listed
<1>9. Served' /\ Limited' /\ Clocked'
    BY <1>1, <1>4 DEF IInv, Served, Limited, Clocked, Tls
<1>10. Announced'
    <2>1. \A p \in Peers : conn'[p] = "none" /\ told'[p] \notin {"nothing", "close"} => Removing(p) \in Calls'
        <3>1. SUFFICES ASSUME NEW p \in Peers, conn[p] = "none", told'[p] \notin {"nothing", "close"}
                       PROVE  Removing(p) \in Calls'
            BY <1>1
        <3>2. p # f.p /\ told'[p] = told[p] /\ Removing(p) \in Calls
            BY <1>5, <3>1 DEF IInv, Announced
        <3>3. Removing(p) # f
            BY <3>2 DEF Removing
        <3>. QED
            BY <1>4, <3>2, <3>3
    <2>2. ASSUME NEW g \in Calls', g.call = "remove"
          PROVE  told'[g.p] \in {"socket.disconnected", "close"}
        <3>1. g \in Calls /\ g \in Frames /\ g.p \in Peers
            BY <1>1, <1>2, <1>4, <2>2 DEF Calls, ToSet, Frames
        <3>. QED
            BY <1>5, <2>2, <3>1 DEF IInv, Announced
    <2>. QED
        BY <1>1, <1>4, <1>5, <1>6, <2>1, <2>2 DEF IInv, Announced
<1>. QED
    BY <1>7, <1>8, <1>9, <1>10 DEF IInv

\* The end of a chunk for socket p, whose read is no longer on the stack: the
\* calls before are those that remain, with or without that read.
LEMMA EndReadStep ==
    ASSUME IInv, NEW p \in Peers, NEW tail \in Tails, EndRead(p, tail),
           UNCHANGED <<serverVars, sockets, via, historyVars>>,
           calls' \in Seq(Frames), Len(calls') <= MaxDepth,
           Calls' \subseteq Calls,
           \A f \in Calls : f \in Calls' \/ (f.call = "read" /\ f.p = p)
    PROVE  IInv'
<1>1. Served'
    BY ServedFacts DEF IInv
<1>2. CASE ProtocolFailure(p)
    BY <1>1, <1>2, ProtocolFailureFacts DEF IInv, TypeOK
<1>3. CASE /\ tail # "bad"
           /\ ipcBuffer' = [ipcBuffer EXCEPT ![p] = (tail = "partial")]
           /\ msgTimer' = IF Guarded /\ conn[p] = "open"
                          THEN [msgTimer EXCEPT ![p] = (tail = "partial")]
                          ELSE msgTimer
           /\ UNCHANGED conn
    <2>1. /\ ipcBuffer' \in [Peers -> BOOLEAN] /\ msgTimer' \in [Peers -> BOOLEAN]
          /\ ipcBuffer'[p] = (tail = "partial")
          /\ Guarded /\ conn[p] = "open" => msgTimer'[p] = (tail = "partial")
          /\ ~(Guarded /\ conn[p] = "open") => msgTimer'[p] = msgTimer[p]
          /\ \A q \in Peers : q # p => ipcBuffer'[q] = ipcBuffer[q] /\ msgTimer'[q] = msgTimer[q]
        BY <1>3 DEF IInv, TypeOK
    <2>2. Members' = Members /\ OpenPeers' = OpenPeers
        BY <1>3 DEF Members, OpenPeers
    <2>3. TypeOK'
        BY <1>3, <2>1 DEF IInv, TypeOK
    <2>4. Listed' /\ Limited'
        BY <1>3, <2>2 DEF IInv, Listed, Limited, Tls
    <2>5. Clocked'
        <3>1. ASSUME NEW q \in Peers, msgTimer'[q]
              PROVE  q \in Members'
            BY <2>1, <2>2, <3>1 DEF IInv, Clocked, Listed
        <3>2. ASSUME Guarded, NEW q \in Peers, conn'[q] = "open",
                     \A f \in Calls' : f.call = "read" => f.p # q
              PROVE  msgTimer'[q] <=> ipcBuffer'[q]
            <4>1. CASE q = p
                BY <1>3, <2>1, <3>2, <4>1
            <4>2. CASE q # p
                <5>1. \A f \in Calls : f.call = "read" => f.p # q
                    BY <3>2, <4>2
                <5>2. msgTimer[q] <=> ipcBuffer[q]
                    BY <1>3, <3>2, <5>1 DEF IInv, Clocked
                <5>. QED
                    BY <2>1, <4>2, <5>2
            <4>. QED
                BY <4>1, <4>2
        <3>. QED
            BY <3>1, <3>2 DEF Clocked
    <2>6. Announced'
        BY <1>3, <2>2 DEF IInv, Announced, Removing
    <2>. QED
        BY <1>1, <2>3, <2>4, <2>5, <2>6 DEF IInv
<1>. QED
    BY <1>2, <1>3 DEF EndRead

\* A chunk of data.
LEMMA ReceiveStep ==
    ASSUME IInv, NEW p \in Peers, Receive(p)
    PROVE  IInv'
<1>1. Idle /\ conn[p] = "open" /\ UNCHANGED <<serverVars, sockets, via, historyVars>>
    BY DEF Receive
<1>2. PICK n \in 0 .. MaxBatch, tail \in Tails :
        \/ EndRead(p, tail) /\ UNCHANGED calls
        \/ n > 0 /\ Push(Reading(p, n - 1, tail)) /\ UNCHANGED socketVars
    BY DEF Receive
<1>3. calls = <<>> /\ Calls = {} /\ calls \in Seq(Frames) /\ Len(calls) = 0
    BY <1>1 DEF Idle, Calls, ToSet
<1>4. CASE EndRead(p, tail) /\ UNCHANGED calls
    BY <1>1, <1>3, <1>4, EndReadStep DEF Calls
<1>5. CASE n > 0 /\ Push(Reading(p, n - 1, tail)) /\ UNCHANGED socketVars
    <2>. DEFINE f == Reading(p, n - 1, tail)
    <2>1. f \in Frames /\ f.call = "read" /\ f.p = p /\ calls' = <<f>> \o calls
        BY <1>5 DEF Reading, Frames, Push
    <2>. HIDE DEF f
    <2>2. /\ <<f>> \o calls \in Seq(Frames) /\ Len(<<f>> \o calls) = Len(calls) + 1
          /\ ToSet(<<f>> \o calls) = ToSet(calls) \cup {f}
        BY <1>3, <2>1, PushFacts
    <2>3. calls' \in Seq(Frames) /\ Len(calls') = 1 /\ Calls' = {f}
        BY <1>3, <2>1, <2>2 DEF Calls
    <2>4. Members' = Members /\ OpenPeers' = OpenPeers
        BY <1>1, <1>5 DEF Members, OpenPeers
    <2>5. TypeOK'
        BY <1>1, <1>5, <2>3 DEF IInv, TypeOK
    <2>6. Listed' /\ Served' /\ Limited'
        BY <1>1, <1>5, <2>1, <2>3, <2>4 DEF IInv, Listed, Served, Limited, Tls
    <2>7. Clocked' /\ Announced'
        BY <1>1, <1>3, <1>5, <2>1, <2>3, <2>4 DEF IInv, Clocked, Announced
    <2>. QED
        BY <2>5, <2>6, <2>7 DEF IInv
<1>. QED
    BY <1>2, <1>4, <1>5

\* The next message of a chunk, or its end.
LEMMA ContinueReadStep ==
    ASSUME IInv, ContinueRead
    PROVE  IInv'
<1>. DEFINE f == Head(calls)
<1>1. /\ calls \in Seq(Frames) /\ calls # <<>> /\ Len(calls) <= MaxDepth
      /\ f.call = "read"
      /\ UNCHANGED <<serverVars, sockets, via, historyVars>>
    BY DEF IInv, TypeOK, ContinueRead, Idle
<1>2. /\ Tail(calls) \in Seq(Frames) /\ Len(Tail(calls)) = Len(calls) - 1 /\ Len(calls) > 0
      /\ f \in Frames /\ f \in Calls
      /\ Calls = ToSet(Tail(calls)) \cup {f}
    BY <1>1, PopFacts DEF Calls
<1>3. f.p \in Peers /\ f.left \in 0 .. MaxBatch /\ f.tail \in Tails
    BY <1>1, <1>2 DEF Frames
<1>4. CASE EndRead(f.p, f.tail) /\ calls' = Tail(calls)
    <2>1. Calls' = ToSet(Tail(calls))
        BY <1>4 DEF Calls
    <2>. HIDE DEF f
    <2>. QED
        BY <1>1, <1>2, <1>3, <1>4, <2>1, EndReadStep
<1>5. CASE f.left > 0 /\ calls' = [calls EXCEPT ![1].left = @ - 1] /\ UNCHANGED socketVars
    <2>. DEFINE g == [f EXCEPT !.left = @ - 1]
    <2>1. g \in Frames /\ g.call = "read" /\ g.p = f.p
        <3>. HIDE DEF f
        <3>1. f \in [call : {"read"}, p : Peers, left : 0 .. MaxBatch, tail : Tails]
            BY <1>1, <1>2 DEF Frames
        <3>2. f.left - 1 \in 0 .. MaxBatch
            BY <1>3, <1>5, StreamServerAssumption
        <3>3. g \in [call : {"read"}, p : Peers, left : 0 .. MaxBatch, tail : Tails] /\ g.p = f.p
            BY <3>1, <3>2
        <3>4. g.call = "read"
            BY <3>1
        <3>. HIDE DEF g
        <3>. QED
            BY <3>3, <3>4 DEF Frames
    <2>2. f = calls[1] /\ 1 \in DOMAIN calls
        BY <1>1, <1>2
    <2>3. calls' = [calls EXCEPT ![1] = g]
        BY <1>5, <2>2
    <2>. HIDE DEF g, f
    <2>4. calls' \in Seq(Frames) /\ Len(calls') = Len(calls) /\ DOMAIN calls' = DOMAIN calls
          /\ \A i \in DOMAIN calls : calls'[i] = IF i = 1 THEN g ELSE calls[i]
        BY <1>1, <2>1, <2>2, <2>3
    <2>5. /\ \A h \in Calls' : h = g \/ h \in Calls
          /\ \A h \in Calls : h # f => h \in Calls'
          /\ g \in Calls'
        BY <2>2, <2>4 DEF Calls, ToSet
    <2>6. Members' = Members /\ OpenPeers' = OpenPeers
        BY <1>1, <1>5 DEF Members, OpenPeers
    <2>7. TypeOK'
        BY <1>1, <1>5, <2>4 DEF IInv, TypeOK
    <2>8. Listed' /\ Served' /\ Limited'
        BY <1>1, <1>5, <2>1, <2>5, <2>6 DEF IInv, Listed, Served, Limited, Tls
    <2>9. Clocked'
        <3>1. ASSUME NEW q \in Peers, \A h \in Calls' : h.call = "read" => h.p # q
              PROVE  \A h \in Calls : h.call = "read" => h.p # q
            BY <1>1, <2>1, <2>5, <3>1
        <3>. QED
            BY <1>1, <1>5, <2>6, <3>1 DEF IInv, Clocked
    <2>10. Announced'
        <3>1. \A p \in Peers : Removing(p) \in Calls => Removing(p) \in Calls'
            BY <1>1, <2>5 DEF Removing
        <3>. QED
            BY <1>1, <1>5, <2>1, <2>5, <2>6, <3>1 DEF IInv, Announced
    <2>. QED
        BY <2>7, <2>8, <2>9, <2>10 DEF IInv
<1>. QED
    BY <1>4, <1>5 DEF ContinueRead

\* A step that changes nothing.
LEMMA StutterStep ==
    ASSUME IInv, UNCHANGED vars
    PROVE  IInv'
<1>1. Members' = Members /\ Calls' = Calls /\ OpenPeers' = OpenPeers
    BY DEF vars, Members, Calls, OpenPeers
<1>. QED
    BY <1>1 DEF vars, IInv, TypeOK, Listed, Served, Limited, Clocked, Announced, Tls

-----------------------------------------------------------------------------
(* The theorems *)

\* Every step keeps the invariant.
LEMMA NextIInv == IInv /\ [Next]_vars => IInv'
<1>. SUFFICES ASSUME IInv, [Next]_vars
              PROVE  IInv'
    OBVIOUS
<1>1. CASE App
    BY <1>1, StartStep, StopStep, FailureStep, DestroyStep, BroadcastStep DEF App
<1>2. CASE Callback
    BY <1>2, AcceptStep, HandshakeStep, DestroyStep, ClosedStep, ReceiveStep, FailureStep,
       PublishCloseStep, ContinueReadStep, ContinueBroadcastStep DEF Callback
<1>. QED
    BY <1>1, <1>2, StutterStep DEF Next

\* The invariant holds in every reachable state.
THEOREM Invariance == Spec => []IInv
BY InitIInv, NextIInv, PTL DEF Spec

\* this.sockets has every open connection on it once, and nothing that is gone,
\* through nested calls, stop(), restarts and late 'close' events.
THEOREM ListIsExact == Spec => []MembersAreConnected
<1>1. IInv => MembersAreConnected
    BY DEF IInv, MembersAreConnected, Listed, Unrepeated
<1>. QED
    BY <1>1, Invariance, PTL

\* writeAllStreams() skips nobody and writes to nobody twice, whatever the
\* handlers of 'error' do.
THEOREM BroadcastIsComplete == Spec => []BroadcastMissesNobody
<1>1. IInv => BroadcastMissesNobody
    BY DEF IInv, TypeOK, BroadcastMissesNobody, Served, Calls, ToSet
<1>. QED
    BY <1>1, Invariance, PTL

\* maxConnections holds, and nothing is open after stop(), outside TLS and as
\* long as start() does not replace a listener.
THEOREM LimitHolds == Spec => []ConnectionLimit
<1>1. ASSUME IInv
      PROVE  ConnectionLimit
    <2>. SUFFICES ASSUME ~Tls, ~overlapped
                  PROVE  /\ Cardinality(OpenPeers) <= IF stopped THEN 0 ELSE MaxConnections
                         /\ stopped => listening = {}
        BY DEF ConnectionLimit, OpenPeers
    <2>1. CASE stopped
        <3>1. listening = {} /\ OpenPeers = {}
            BY <1>1, <2>1 DEF IInv, Limited, OpenPeers
        <3>. QED
            BY <2>1, <3>1, FS_EmptySet
    <2>2. CASE ~stopped
        BY <1>1, <2>2 DEF IInv, Limited
    <2>. QED
        BY <2>1, <2>2
<1>. QED
    BY <1>1, Invariance, PTL

\* Between two callbacks the message timer of an open connection runs exactly
\* while it has an incomplete message, and nothing else has a timer.
THEOREM ClockIsRight == Spec => []MessageClock
<1>1. ASSUME IInv
      PROVE  MessageClock
    <2>1. Idle => Calls = {}
        BY DEF Idle, Calls, ToSet
    <2>. QED
        BY <1>1, <2>1 DEF IInv, Clocked, MessageClock
<1>. QED
    BY <1>1, Invariance, PTL

\* A step that publishes 'close' for a socket follows 'socket.disconnected', or
\* stop() had taken the socket off the list.
LEMMA CloseIsLast ==
    ASSUME IInv, Next, NEW p \in Peers, told'[p] = "close", told[p] # "close"
    PROVE  told[p] = "socket.disconnected" \/ dropped[p]
<1>. USE DEF IInv, TypeOK
<1>1. ASSUME told' = told
      PROVE  FALSE
    BY <1>1
<1>2. CASE App
    BY <1>1, <1>2 DEF App, Start, Stop, EmitOverflow, DestroySocket, Broadcast, WriteAllStreams
<1>3. ASSUME NEW q \in Peers, Accept(q) \/ Handshake(q)
      PROVE  FALSE
    BY <1>1, <1>3 DEF Accept, Handshake, AddSocket
<1>4. ASSUME NEW q \in Peers, Closed(q)
      PROVE  told[p] = "socket.disconnected" \/ dropped[p]
    BY <1>4 DEF Closed, RemoveSocket, Announced
<1>5. CASE PublishClose
    <2>1. /\ calls \in Seq(Frames) /\ calls # <<>> /\ Head(calls).call = "remove"
          /\ told' = [told EXCEPT ![Head(calls).p] = "close"]
        BY <1>5 DEF PublishClose, Idle
    <2>2. Head(calls) \in Calls
        BY <2>1, PopFacts DEF Calls
    <2>3. told[Head(calls).p] \in {"socket.disconnected", "close"} /\ p = Head(calls).p
        BY <2>1, <2>2 DEF Announced
    <2>. QED
        BY <2>3
<1>6. ASSUME NEW q \in Peers, SocketDies(q) \/ Receive(q) \/ MessageTimeout(q)
      PROVE  FALSE
    BY <1>1, <1>6 DEF SocketDies, Receive, MessageTimeout
<1>7. CASE ContinueRead \/ ContinueBroadcast
    BY <1>1, <1>7 DEF ContinueRead, ContinueBroadcast, WriteAllStreams
<1>. QED
    BY <1>2, <1>3, <1>4, <1>5, <1>6, <1>7 DEF Next, Callback

\* Every loss of a connection is announced, and in order: removeSocket() and
\* the handler of the 'close' event, with stop() and other calls in between.
THEOREM LossesAreAnnounced == Spec => LossIsAnnounced
<1>1. ASSUME IInv, [Next]_vars
      PROVE  [\A p \in Peers :
                /\ conn'[p] = "none" /\ told'[p] \notin {"nothing", "close"} =>
                      \E k \in DOMAIN calls' : calls'[k].call = "remove" /\ calls'[k].p = p
                /\ told'[p] = "close" /\ told[p] # "close" =>
                      told[p] = "socket.disconnected" \/ dropped[p]]_vars
    <2>. SUFFICES ASSUME Next, NEW p \in Peers
                  PROVE  /\ conn'[p] = "none" /\ told'[p] \notin {"nothing", "close"} =>
                               \E k \in DOMAIN calls' : calls'[k].call = "remove" /\ calls'[k].p = p
                         /\ told'[p] = "close" /\ told[p] # "close" =>
                               told[p] = "socket.disconnected" \/ dropped[p]
        BY <1>1
    <2>1. IInv'
        BY <1>1, NextIInv
    <2>2. Removing(p) \in Calls' =>
            \E k \in DOMAIN calls' : calls'[k].call = "remove" /\ calls'[k].p = p
        BY DEF Calls, ToSet, Removing
    <2>3. conn'[p] = "none" /\ told'[p] \notin {"nothing", "close"} => Removing(p) \in Calls'
        BY <2>1 DEF IInv, Announced
    <2>. QED
        BY <1>1, <2>2, <2>3, CloseIsLast
<1>. QED
    BY <1>1, Invariance, PTL DEF Spec, LossIsAnnounced

-----------------------------------------------------------------------------
(* The file of a Unix socket.  start() and stop() of a local server are the  *)
(* steps of a process of SocketFile.                                         *)

USE ProcsAssumption

\* Independent servers: there is no primary, and while a file that is not a socket
\* is in the way only those get beyond lstat who were there when it came.
Independent ==
    ~cluster =>
        /\ ~primary /\ sharing = {} /\ file # "primary"
        /\ file = "regular" =>
               \A p \in Procs : pc[p] \in {"unlink", "bind", "listening"} => p \in looked

\* A process that nobody interfered with knows what is at the path.
AloneKnows ==
    ~cluster => \A p \in alone :
        /\ pc[p] = "unlink" => file \notin {"absent", "regular"}
        /\ pc[p] = "bind" => file = "absent"
        /\ pc[p] = "listening" => file = p
        /\ pc[p] = "failed" => file = "regular"

\* Workers: the file is there exactly while one of them shares the handle, and
\* nothing else is ever found at the path while the primary runs, unless another
\* program has put it there.
Workers ==
    cluster =>
        /\ \A p \in Procs : pc[p] \in {"down", "bind", "listening", "failed"}
        /\ \A p \in Procs : pc[p] = "listening" <=> p \in sharing
        /\ primary /\ ~touched =>
               /\ file = IF sharing = {} THEN "absent" ELSE "primary"
               /\ \A p \in Procs : pc[p] # "failed"
        /\ ~primary => file # "primary" /\ \A p \in Procs : pc[p] = "down"

FileInv == FileTypeOK /\ Independent /\ AloneKnows /\ Workers

\* Before the first start() nothing listens.
LEMMA InitFileInv == FileInit => FileInv
BY DEF FileInit, FileInv, FileTypeOK, Files, Independent, AloneKnows, Workers

\* Every step of a process and of the primary keeps the invariant.
LEMMA NextFileInv == FileInv /\ [FileNext]_fileVars => FileInv'
<1>. SUFFICES ASSUME FileInv, [FileNext]_fileVars
              PROVE  FileInv'
    OBVIOUS
<1>. USE DEF FileInv, FileTypeOK, Files, Independent, AloneKnows, Workers, Goes, Disturbs
<1>1. ASSUME NEW p \in Procs, ProcessStarts(p)
      PROVE  FileInv'
    BY <1>1 DEF ProcessStarts, UnlinksFirst
<1>2. ASSUME NEW p \in Procs, Lstat(p)
      PROVE  FileInv'
    BY <1>2 DEF Lstat
<1>3. ASSUME NEW p \in Procs, Unlink(p)
      PROVE  FileInv'
    BY <1>3 DEF Unlink
<1>4. ASSUME NEW p \in Procs, Listen(p)
      PROVE  FileInv'
    BY <1>4 DEF Listen, ServerError
<1>5. ASSUME NEW p \in Procs, ProcessStops(p)
      PROVE  FileInv'
    BY <1>5 DEF ProcessStops
<1>6. ASSUME NEW p \in Procs, Crash(p)
      PROVE  FileInv'
    BY <1>6 DEF Crash
<1>7. CASE PrimaryStarts
    BY <1>7 DEF PrimaryStarts
<1>8. CASE PrimaryCrashes
    BY <1>8 DEF PrimaryCrashes
<1>9. CASE OtherProgram
    BY <1>9 DEF OtherProgram
<1>10. CASE UNCHANGED fileVars
    BY <1>10 DEF fileVars
<1>. QED
    BY <1>1, <1>2, <1>3, <1>4, <1>5, <1>6, <1>7, <1>8, <1>9, <1>10 DEF FileNext

\* The invariant holds in every reachable state.
THEOREM FileInvariance == FileSpec => []FileInv
<1>1. FileInit => FileInv
    BY InitFileInv
<1>2. FileInv /\ [FileNext]_fileVars => FileInv'
    BY NextFileInv
<1>. QED
    BY <1>1, <1>2, PTL DEF FileSpec

\* Whoever listens can be reached and whoever may listen does, for any number of
\* processes: start() with its three system calls, stop() and crashes.
THEOREM Reachability == FileSpec => []ListenersAreReachable
<1>1. FileInv => ListenersAreReachable
    BY DEF FileInv, ListenersAreReachable, OneOwnerSucceeds, WorkersAreReachable,
           FileTypeOK, AloneKnows, Workers
<1>. QED
    BY <1>1, FileInvariance, PTL

\* unlinkSocket() and the end of a listener remove a file that is not a socket
\* only if it was put there after the server's lstat.
THEOREM FilesAreKept == FileSpec => RegularFilesAreKept
<1>. DEFINE Kept ==
        ~cluster /\ file = "regular" /\ file' # "regular" =>
            \/ OtherProgram
            \/ \E p \in looked : Unlink(p) \/ ProcessStops(p)
<1>1. ASSUME FileInv, [FileNext]_fileVars
      PROVE  [Kept]_fileVars
    <2>. SUFFICES ASSUME FileNext, ~cluster, file = "regular", file' # "regular", ~OtherProgram
                  PROVE  \E p \in looked : Unlink(p) \/ ProcessStops(p)
        BY <1>1
    <2>. USE DEF FileInv, FileTypeOK, Independent
    <2>1. ASSUME NEW p \in Procs, ProcessStarts(p) \/ Lstat(p) \/ Listen(p) \/ Crash(p)
          PROVE  FALSE
        BY <1>1, <2>1 DEF ProcessStarts, Lstat, Listen, Crash
    <2>2. ASSUME NEW p \in Procs, Unlink(p) \/ ProcessStops(p)
          PROVE  p \in looked
        BY <1>1, <2>2 DEF Unlink, ProcessStops
    <2>3. ~PrimaryStarts /\ ~PrimaryCrashes
        BY <1>1 DEF PrimaryStarts, PrimaryCrashes
    <2>. QED
        BY <2>1, <2>2, <2>3 DEF FileNext
<1>. QED
    BY <1>1, FileInvariance, PTL DEF FileSpec, RegularFilesAreKept
=============================================================================

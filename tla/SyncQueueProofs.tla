-------------------------- MODULE SyncQueueProofs --------------------------
(***************************************************************************)
(* Proofs about SyncQueue, for any number of requests, pushes and          *)
(* connection losses.                                                      *)
(***************************************************************************)
EXTENDS SyncQueue, SequenceTheorems, TLAPS

USE SyncAssumption DEF queueVars, Requests

\* The numbers 1 .. n in order.
Numbers(n) == [i \in 1 .. n |-> i]

\* Taking the head of the queue and writing it keeps the order.
LEMMA MoveHead ==
    ASSUME NEW S, NEW w \in Seq(S), NEW q \in Seq(S), q # <<>>
    PROVE  /\ Append(w, Head(q)) \o Tail(q) = w \o q
           /\ Head(q) \in S
           /\ Tail(q) \in Seq(S)
           /\ Append(w, Head(q)) \in Seq(S)
<1>1. /\ Head(q) \in S /\ Tail(q) \in Seq(S) /\ Append(w, Head(q)) \in Seq(S)
    OBVIOUS
<1>2. Len(Append(w, Head(q)) \o Tail(q)) = Len(w \o q)
    OBVIOUS
<1>3. \A i \in 1 .. Len(w \o q) : (Append(w, Head(q)) \o Tail(q))[i] = (w \o q)[i]
    OBVIOUS
<1>. QED
    BY <1>1, <1>2, <1>3

\* An element more.
LEMMA AppendNotEmpty ==
    ASSUME NEW S, NEW q \in Seq(S), NEW e \in S
    PROVE  /\ Append(q, e) \in Seq(S)
           /\ Len(Append(q, e)) = Len(q) + 1
           /\ Append(q, e) # <<>>
<1>1. Append(q, e) \in Seq(S) /\ Len(Append(q, e)) = Len(q) + 1
    OBVIOUS
<1>2. Len(Append(q, e)) # Len(<<>>)
    BY <1>1
<1>. QED
    BY <1>1, <1>2

\* Appending to the second part appends to the whole.
LEMMA AppendLast ==
    ASSUME NEW S, NEW w \in Seq(S), NEW q \in Seq(S), NEW e \in S
    PROVE  w \o Append(q, e) = Append(w \o q, e)
<1>1. w \o q \in Seq(S) /\ Append(q, e) \in Seq(S)
    OBVIOUS
<1>2. w \o Append(q, e) \in Seq(S) /\ Append(w \o q, e) \in Seq(S)
    BY <1>1
<1>3. Len(w \o Append(q, e)) = Len(Append(w \o q, e))
    BY <1>1
<1>4. \A i \in 1 .. Len(w \o Append(q, e)) : (w \o Append(q, e))[i] = Append(w \o q, e)[i]
    BY <1>1
<1>. QED
    BY <1>2, <1>3, <1>4, SeqEqual

\* A new request at the end of the queue is the next number.
LEMMA AppendNext ==
    ASSUME NEW w \in Seq(Requests), NEW q \in Seq(Requests), NEW n \in Nat,
           n + 1 \in Requests, w \o q = Numbers(n)
    PROVE  /\ Append(q, n + 1) \in Seq(Requests)
           /\ Append(q, n + 1) # <<>>
           /\ w \o Append(q, n + 1) = Numbers(n + 1)
<1>. HIDE DEF Requests
<1>1. Append(q, n + 1) \in Seq(Requests) /\ Append(q, n + 1) # <<>>
    BY AppendNotEmpty
<1>2. Len(w \o q) = n
    BY DEF Numbers
<1>3. w \o Append(q, n + 1) = Append(w \o q, n + 1)
    <2>1. \A e \in Requests : w \o Append(q, e) = Append(w \o q, e)
        BY AppendLast
    <2>. QED
        BY <2>1
<1>4. Append(Numbers(n), n + 1) = Numbers(n + 1)
    BY DEF Numbers
<1>. QED
    BY <1>1, <1>3, <1>4

\* queue.next() hands at most the first request to the socket, and the queue
\* is idle afterwards exactly when there was none.
LEMMA RunNextFacts ==
    ASSUME TypeOK, NEW q \in Seq(Requests), RunNext(q)
    PROVE  /\ contents' \in Seq(Requests)
           /\ written' \in Seq(Requests)
           /\ wire' \in Seq(Requests)
           /\ written' \o contents' = written \o q
           /\ q = <<>> => ~running' /\ running' \in BOOLEAN /\ contents' = <<>> /\ wire' = wire
           /\ q # <<>> => running' /\ running' \in BOOLEAN /\ Len(wire') <= Len(wire) + 1
           /\ q # <<>> /\ up => wire' # <<>>
<1>. USE DEF TypeOK
<1>1. CASE q = <<>>
    <2>1. running' = FALSE /\ contents' = q /\ written' = written /\ wire' = wire
        BY <1>1 DEF RunNext
    <2>. QED
        BY <1>1, <2>1
<1>2. CASE q # <<>>
    <2>1. /\ running' = TRUE
          /\ contents' = Tail(q)
          /\ written' = Append(written, Head(q))
          /\ wire' = IF up THEN Append(wire, Head(q)) ELSE wire
        BY <1>2 DEF RunNext, Write
    <2>2. /\ Head(q) \in Requests
          /\ Tail(q) \in Seq(Requests)
          /\ Append(written, Head(q)) \in Seq(Requests)
          /\ Append(written, Head(q)) \o Tail(q) = written \o q
        BY <1>2, MoveHead
    <2>3. /\ Append(wire, Head(q)) \in Seq(Requests)
          /\ Len(Append(wire, Head(q))) = Len(wire) + 1
          /\ Append(wire, Head(q)) # <<>>
        BY <2>2, AppendNotEmpty
    <2>4. /\ wire' \in Seq(Requests)
          /\ Len(wire') <= Len(wire) + 1
          /\ up => wire' # <<>>
        <3>1. CASE up
            BY <3>1, <2>1, <2>3
        <3>2. CASE ~up
            BY <3>2, <2>1
        <3>. QED
            BY <3>1, <3>2
    <2>. QED
        BY <1>2, <2>1, <2>2, <2>4
<1>. QED
    BY <1>1, <1>2

\* emit(), from the program or from a handler.
LEMMA EmitStep == ASSUME IInv, Emit PROVE IInv'
<1>. USE DEF IInv, Emit
<1>. DEFINE q == Append(contents, emitted + 1)
<1>1. emitted + 1 \in Requests /\ emitted \in Nat
    BY DEF TypeOK
<1>2. q \in Seq(Requests) /\ q # <<>> /\ written \o q = Numbers(emitted + 1)
    <2>1. written \o contents = Numbers(emitted)
        BY DEF InOrder, Numbers
    <2>2. written \in Seq(Requests) /\ contents \in Seq(Requests)
        BY DEF TypeOK
    <2>3. /\ Append(contents, emitted + 1) \in Seq(Requests)
          /\ Append(contents, emitted + 1) # <<>>
          /\ written \o Append(contents, emitted + 1) = Numbers(emitted + 1)
        <3>. HIDE DEF Numbers, Requests, IInv, Emit
        <3>. QED
            BY <1>1, <2>1, <2>2, AppendNext
    <2>. QED
        BY <2>3
<1>3. CASE running
    <2>1. /\ contents' = q
          /\ UNCHANGED <<running, written, wire, up, inbound, dispatching, pushes, drops>>
        BY <1>3
    <2>2. TypeOK'
        BY <1>1, <1>2, <2>1 DEF TypeOK
    <2>3. InOrder'
        BY <1>2, <2>1 DEF InOrder, Numbers
    <2>4. NoLostWakeup'
        BY <1>3, <2>1 DEF NoLostWakeup
    <2>5. Credit' /\ Waiting' /\ DeadSocket'
        BY <2>1 DEF Credit, Waiting, DeadSocket
    <2>. QED
        BY <2>2, <2>3, <2>4, <2>5
<1>4. CASE ~running
    <2>1. RunNext(q)
        BY <1>4
    <2>2. /\ contents' \in Seq(Requests) /\ written' \in Seq(Requests) /\ wire' \in Seq(Requests)
          /\ running' /\ running' \in BOOLEAN
          /\ written' \o contents' = written \o q
          /\ up => wire' # <<>>
          /\ Len(wire') <= Len(wire) + 1
        BY <1>2, <2>1, RunNextFacts
    <2>3. TypeOK'
        BY <1>1, <2>2 DEF TypeOK
    <2>4. InOrder'
        BY <1>2, <2>2 DEF InOrder, Numbers
    <2>5. Credit'
        BY <1>4, <2>2 DEF Credit, TypeOK
    <2>6. NoLostWakeup' /\ Waiting' /\ DeadSocket'
        BY <2>2 DEF NoLostWakeup, Waiting, DeadSocket
    <2>. QED
        BY <2>3, <2>4, <2>5, <2>6
<1>. QED
    BY <1>3, <1>4

\* queue.next() after the handlers have returned.
LEMMA DispatchNextStep == ASSUME IInv, DispatchNext PROVE IInv'
<1>. USE DEF IInv, DispatchNext
<1>1. contents \in Seq(Requests) /\ RunNext(contents)
    BY DEF TypeOK
<1>2. /\ contents' \in Seq(Requests) /\ written' \in Seq(Requests) /\ wire' \in Seq(Requests)
      /\ written' \o contents' = written \o contents
      /\ contents = <<>> => ~running' /\ running' \in BOOLEAN /\ contents' = <<>> /\ wire' = wire
      /\ contents # <<>> => running' /\ running' \in BOOLEAN /\ Len(wire') <= Len(wire) + 1
      /\ contents # <<>> /\ up => wire' # <<>>
    BY <1>1, RunNextFacts
<1>3. TypeOK'
    BY <1>2 DEF TypeOK
<1>4. InOrder' /\ NoLostWakeup'
    BY <1>2 DEF InOrder, NoLostWakeup
<1>5. Credit'
    <2>1. CASE contents = <<>>
        BY <1>2, <2>1 DEF Credit, TypeOK
    <2>2. CASE contents # <<>>
        <3>1. running
            BY <2>2 DEF NoLostWakeup
        <3>. QED
            BY <1>2, <2>2, <3>1 DEF Credit, TypeOK
    <2>. QED
        BY <2>1, <2>2
<1>6. Waiting' /\ DeadSocket'
    BY <1>2 DEF Waiting, DeadSocket
<1>. QED
    BY <1>3, <1>4, <1>5, <1>6

\* A message is published.
LEMMA DispatchStep == ASSUME IInv, Dispatch PROVE IInv'
<1>. USE DEF IInv, Dispatch
<1>1. Tail(inbound) \in Seq({"answer", "push"}) /\ Len(Tail(inbound)) = Len(inbound) - 1
    BY DEF TypeOK
<1>2. TypeOK' /\ InOrder' /\ NoLostWakeup'
    BY <1>1 DEF TypeOK, InOrder, NoLostWakeup
<1>3. Credit'
    BY <1>1 DEF Credit, TypeOK
<1>4. Waiting' /\ DeadSocket'
    BY DEF Waiting, DeadSocket
<1>. QED
    BY <1>2, <1>3, <1>4

\* What is left of a sequence after its first n elements.
LEMMA DropFirst ==
    ASSUME NEW S, NEW q \in Seq(S), NEW n \in 1 .. Len(q)
    PROVE  /\ SubSeq(q, n + 1, Len(q)) \in Seq(S)
           /\ Len(SubSeq(q, n + 1, Len(q))) \in Nat
           /\ Len(SubSeq(q, n + 1, Len(q))) < Len(q)
<1>1. n + 1 \in Int /\ Len(q) \in Int /\ \A i \in n + 1 .. Len(q) : q[i] \in S
    OBVIOUS
<1>2. /\ SubSeq(q, n + 1, Len(q)) \in Seq(S)
      /\ Len(SubSeq(q, n + 1, Len(q))) =
            IF n + 1 <= Len(q) THEN Len(q) - (n + 1) + 1 ELSE 0
    BY <1>1, SubSeqProperties, Zenon
<1>. QED
    BY <1>2

\* A chunk of raw data is published.
LEMMA DispatchRawStep == ASSUME IInv, DispatchRaw PROVE IInv'
<1>. USE DEF IInv, DispatchRaw
<1>1. /\ inbound' \in Seq({"answer", "push"})
      /\ Len(inbound') \in Nat /\ Len(inbound') < Len(inbound)
    <2>1. PICK n \in 1 .. Len(inbound) : inbound' = SubSeq(inbound, n + 1, Len(inbound))
        OBVIOUS
    <2>2. inbound \in Seq({"answer", "push"})
        BY DEF TypeOK
    <2>. QED
        BY <2>1, <2>2, DropFirst, Zenon
<1>2. dispatching = FALSE /\ dispatching' = TRUE
    BY DEF TypeOK
<1>3. TypeOK' /\ InOrder' /\ NoLostWakeup'
    BY <1>1, <1>2 DEF TypeOK, InOrder, NoLostWakeup
<1>4. Credit'
    <2>. HIDE DEF IInv, DispatchRaw
    <2>1. wire' = wire /\ running' = running /\ pushes' = pushes
        BY DEF DispatchRaw
    <2>2. Len(wire) \in Nat /\ Len(inbound) \in Nat /\ pushes \in Nat
        BY DEF IInv, TypeOK
    <2>3. Len(wire) + Len(inbound) + (IF running THEN 0 ELSE 1) <= 1 + pushes
        BY <1>2, <2>2 DEF IInv, Credit
    <2>. QED
        BY <1>1, <1>2, <2>1, <2>2, <2>3 DEF Credit
<1>5. Waiting' /\ DeadSocket'
    BY <1>1 DEF Waiting, DeadSocket, TypeOK
<1>. QED
    BY <1>3, <1>4, <1>5

\* The server answers or pushes; the connection breaks or comes back.
LEMMA EnvironmentStep ==
    ASSUME IInv, Answer \/ Push \/ Drop \/ Reconnect
    PROVE  IInv'
<1>1. CASE Answer
    <2>. USE <1>1 DEF IInv, Answer
    <2>1. /\ Tail(wire) \in Seq(Requests) /\ Len(Tail(wire)) = Len(wire) - 1
          /\ Append(inbound, "answer") \in Seq({"answer", "push"})
          /\ Len(Append(inbound, "answer")) = Len(inbound) + 1
          /\ Append(inbound, "answer") # <<>>
        <3>1. inbound \in Seq({"answer", "push"}) /\ wire \in Seq(Requests)
            BY DEF TypeOK
        <3>2. Tail(wire) \in Seq(Requests) /\ Len(Tail(wire)) = Len(wire) - 1
            BY <3>1
        <3>3. "answer" \in {"answer", "push"}
            OBVIOUS
        <3>. QED
            BY <3>1, <3>2, <3>3, AppendNotEmpty
    <2>2. TypeOK' /\ InOrder' /\ NoLostWakeup'
        BY <2>1 DEF TypeOK, InOrder, NoLostWakeup
    <2>3. Credit'
        BY <2>1 DEF Credit, TypeOK
    <2>4. Waiting' /\ DeadSocket'
        BY <2>1 DEF Waiting, DeadSocket
    <2>. QED
        BY <2>2, <2>3, <2>4
<1>2. CASE Push
    <2>. USE <1>2 DEF IInv, Push
    <2>1. /\ Append(inbound, "push") \in Seq({"answer", "push"})
          /\ Len(Append(inbound, "push")) = Len(inbound) + 1
          /\ Append(inbound, "push") # <<>>
        <3>1. inbound \in Seq({"answer", "push"})
            BY DEF TypeOK
        <3>. QED
            BY <3>1, AppendNotEmpty
    <2>2. TypeOK' /\ InOrder' /\ NoLostWakeup'
        BY <2>1 DEF TypeOK, InOrder, NoLostWakeup
    <2>3. Credit'
        BY <2>1 DEF Credit, TypeOK
    <2>4. Waiting' /\ DeadSocket'
        BY <2>1 DEF Waiting, DeadSocket
    <2>. QED
        BY <2>2, <2>3, <2>4
<1>3. CASE Drop
    <2>. USE <1>3 DEF IInv, Drop
    <2>1. Len(<<>>) = 0 /\ Len(wire) >= 0 /\ Len(inbound) >= 0
        BY DEF TypeOK
    <2>2. wire' = <<>> /\ inbound' = <<>> /\ up' = FALSE /\ drops' = drops + 1
        OBVIOUS
    <2>3. TypeOK'
        <3>1. wire' \in Seq(Requests) /\ inbound' \in Seq({"answer", "push"})
            BY <2>2
        <3>2. drops' \in 0 .. MaxDrops
            BY DEF TypeOK
        <3>. QED
            BY <2>2, <3>1, <3>2 DEF TypeOK
    <2>4. InOrder' /\ NoLostWakeup'
        BY DEF InOrder, NoLostWakeup
    <2>5. Credit'
        BY <2>1, <2>2 DEF Credit, TypeOK
    <2>6. Waiting' /\ DeadSocket'
        BY <2>2 DEF Waiting, DeadSocket, TypeOK
    <2>. QED
        BY <2>3, <2>4, <2>5, <2>6
<1>4. CASE Reconnect
    BY <1>4 DEF IInv, Reconnect, TypeOK, InOrder, NoLostWakeup, Credit, Waiting, DeadSocket
<1>. QED
    BY <1>1, <1>2, <1>3, <1>4

\* Every reachable state of the queue satisfies the inductive invariant.
THEOREM QueueInvariant == Spec => []IInv
<1>1. Init => IInv
    <2>. SUFFICES ASSUME Init PROVE IInv
        OBVIOUS
    <2>. USE DEF Init
    <2>1. TypeOK
        <3>1. contents \in Seq(Requests) /\ written \in Seq(Requests) /\ wire \in Seq(Requests)
            OBVIOUS
        <3>2. inbound \in Seq({"answer", "push"})
            OBVIOUS
        <3>3. emitted \in 0 .. MaxRequests /\ pushes \in 0 .. MaxPushes /\ drops \in 0 .. MaxDrops
            OBVIOUS
        <3>. QED
            BY <3>1, <3>2, <3>3 DEF TypeOK
    <2>2. InOrder
        BY DEF InOrder
    <2>3. NoLostWakeup /\ Waiting /\ DeadSocket
        BY DEF NoLostWakeup, Waiting, DeadSocket
    <2>4. Credit
        BY DEF Credit
    <2>. QED
        BY <2>1, <2>2, <2>3, <2>4 DEF IInv
<1>2. IInv /\ [Next]_vars => IInv'
    <2>. SUFFICES ASSUME IInv, [Next]_vars PROVE IInv'
        OBVIOUS
    <2>1. CASE UNCHANGED vars
        BY <2>1 DEF vars, IInv, TypeOK, InOrder, NoLostWakeup, Credit, Waiting, DeadSocket
    <2>. QED
        BY <2>1, EmitStep, DispatchStep, DispatchRawStep, DispatchNextStep, EnvironmentStep DEF Next
<1>. QED
    BY <1>1, <1>2, PTL DEF Spec

\* Requests are written in the order of emit(), each exactly once.
THEOREM RequestsInOrder == Spec => []InOrder
<1>1. IInv => InOrder
    BY DEF IInv
<1>. QED
    BY <1>1, QueueInvariant, PTL

\* No interleaving of emit() and answers leaves a request in an idle queue.
THEOREM QueueNeverSleeps == Spec => []NoLostWakeup
<1>1. IInv => NoLostWakeup
    BY DEF IInv
<1>. QED
    BY <1>1, QueueInvariant, PTL

\* At most one request is in flight, plus one per message the client did not
\* ask for.
THEOREM WindowIsPaid == Spec => []SyncWindow
<1>1. IInv => SyncWindow
    BY DEF IInv, Credit, SyncWindow, TypeOK
<1>. QED
    BY <1>1, QueueInvariant, PTL

\* Without a connection loss a waiting request is never stalled.
THEOREM StallNeedsLoss == Spec => []StallsOnlyAfterLoss
<1>1. IInv => StallsOnlyAfterLoss
    BY DEF IInv, Waiting, NoLostWakeup, StallsOnlyAfterLoss, TypeOK
<1>. QED
    BY <1>1, QueueInvariant, PTL
=============================================================================

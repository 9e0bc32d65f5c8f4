----------------------------- MODULE SyncQueue -----------------------------
(***************************************************************************)
(* config.sync: emit() puts the write into a js-queue (external) and every *)
(* inbound message lets the queue run its next entry (dispatchSync and     *)
(* receiveRawSync of dao/client.js).                                       *)
(*                                                                         *)
(* Requests are numbered in the order of emit().  The server answers each  *)
(* request it holds and may also push messages nobody asked for (a         *)
(* broadcast); the client cannot tell the two apart.  With the raw parser  *)
(* a chunk of the stream counts as one message: it may hold several, or a  *)
(* piece of one.  A dropped connection loses what is on it, and a write on *)
(* a dead socket is lost.                                                  *)
(***************************************************************************)
EXTENDS Integers, Sequences

CONSTANTS
    MaxRequests,  \* bound: emit() calls
    MaxPushes,    \* bound: messages the server sends on its own
    MaxDrops      \* bound: connection losses

ASSUME SyncAssumption ==
    MaxRequests \in Nat /\ MaxPushes \in Nat /\ MaxDrops \in Nat

VARIABLES
    raw,          \* the parser is raw: receiveRawSync, not dispatchSync
    emitted,      \* number of emit() calls so far
    contents,     \* queue.contents: requests that wait
    running,      \* queue.running
    written,      \* history: requests handed to socket.write, in order
    up,           \* the socket is connected
    wire,         \* requests the server has yet to answer
    inbound,      \* messages on their way to the client
    dispatching,  \* a handler runs inside dispatchSync, before queue.next()
    pushes,       \* history: messages pushed by the server
    drops         \* history: connection losses

queueVars == <<contents, running, written>>
vars == <<raw, emitted, queueVars, up, wire, inbound, dispatching, pushes, drops>>

Requests == 1 .. MaxRequests

TypeOK ==
    /\ raw \in BOOLEAN
    /\ emitted \in 0 .. MaxRequests
    /\ contents \in Seq(Requests)
    /\ running \in BOOLEAN
    /\ written \in Seq(Requests)
    /\ up \in BOOLEAN
    /\ wire \in Seq(Requests)
    /\ inbound \in Seq({"answer", "push"})
    /\ dispatching \in BOOLEAN
    /\ pushes \in 0 .. MaxPushes
    /\ drops \in 0 .. MaxDrops

Init ==
    /\ raw \in BOOLEAN
    /\ emitted = 0
    /\ contents = <<>>
    /\ running = FALSE
    /\ written = <<>>
    /\ up = TRUE
    /\ wire = <<>>
    /\ inbound = <<>>
    /\ dispatching = FALSE
    /\ pushes = 0
    /\ drops = 0

-----------------------------------------------------------------------------
\* writeSocket(message) of the request at the head of the queue.
Write(r) ==
    /\ written' = Append(written, r)
    /\ wire' = IF up THEN Append(wire, r) ELSE wire

\* Faulty variant: an empty queue is left marked as running.
RunNextKeepsRunning(q) ==
    IF q = <<>>
    THEN UNCHANGED <<queueVars, wire>>
    ELSE /\ running' = TRUE
         /\ contents' = Tail(q)
         /\ Write(Head(q))

\* queue.next(): stop when the queue is empty, else run the first entry.
RunNext(q) ==
    IF q = <<>>
    THEN /\ running' = FALSE
         /\ contents' = q
         /\ UNCHANGED <<written, wire>>
    ELSE /\ running' = TRUE
         /\ contents' = Tail(q)
         /\ Write(Head(q))

\* Faulty variant: a request is written although the queue waits.
EmitAtOnce ==
    /\ emitted < MaxRequests
    /\ emitted' = emitted + 1
    /\ RunNext(Append(contents, emitted + 1))
    /\ UNCHANGED <<raw, up, inbound, dispatching, pushes, drops>>

\* Faulty variant: the newest request goes to the front.
EmitInFront ==
    /\ emitted < MaxRequests
    /\ emitted' = emitted + 1
    /\ IF running
       THEN /\ contents' = <<emitted + 1>> \o contents
            /\ UNCHANGED <<running, written, wire>>
       ELSE RunNext(Append(contents, emitted + 1))
    /\ UNCHANGED <<raw, up, inbound, dispatching, pushes, drops>>

\* emit() -> sendQueued -> queue.add(): runs at once when the queue is idle,
\* also from a handler.
Emit ==
    /\ emitted < MaxRequests
    /\ emitted' = emitted + 1
    /\ IF running
       THEN /\ contents' = Append(contents, emitted + 1)
            /\ UNCHANGED <<running, written, wire>>
       ELSE RunNext(Append(contents, emitted + 1))
    /\ UNCHANGED <<raw, up, inbound, dispatching, pushes, drops>>

\* The first half of dispatchSync: the message is published.
Dispatch ==
    /\ ~dispatching /\ ~raw
    /\ up
    /\ inbound # <<>>
    /\ inbound' = Tail(inbound)
    /\ dispatching' = TRUE
    /\ UNCHANGED <<raw, emitted, queueVars, up, wire, pushes, drops>>

\* The first half of receiveRawSync: whatever has arrived is published at once,
\* and will count as one answer.
DispatchRaw ==
    /\ ~dispatching /\ raw
    /\ up
    /\ \E n \in 1 .. Len(inbound) : inbound' = SubSeq(inbound, n + 1, Len(inbound))
    /\ dispatching' = TRUE
    /\ UNCHANGED <<raw, emitted, queueVars, up, wire, pushes, drops>>

\* Faulty variant: the queue is not told about the answer.
NoNext ==
    /\ dispatching
    /\ dispatching' = FALSE
    /\ UNCHANGED <<raw, emitted, queueVars, up, wire, inbound, pushes, drops>>

\* The second half: the handlers have returned, queue.next().
DispatchNext ==
    /\ dispatching
    /\ RunNext(contents)
    /\ dispatching' = FALSE
    /\ UNCHANGED <<raw, emitted, up, inbound, pushes, drops>>

-----------------------------------------------------------------------------
\* The server answers the oldest request.
Answer ==
    /\ up
    /\ wire # <<>>
    /\ wire' = Tail(wire)
    /\ inbound' = Append(inbound, "answer")
    /\ UNCHANGED <<raw, emitted, queueVars, up, dispatching, pushes, drops>>

\* The server sends a message nobody asked for, or an answer arrives in one
\* more piece.
Push ==
    /\ up
    /\ pushes < MaxPushes
    /\ pushes' = pushes + 1
    /\ inbound' = Append(inbound, "push")
    /\ UNCHANGED <<raw, emitted, queueVars, up, wire, dispatching, drops>>

\* The connection breaks; requests and answers on it are gone.
Drop ==
    /\ ~dispatching
    /\ up
    /\ drops < MaxDrops
    /\ drops' = drops + 1
    /\ up' = FALSE
    /\ wire' = <<>>
    /\ inbound' = <<>>
    /\ UNCHANGED <<raw, emitted, queueVars, dispatching, pushes>>

\* The retry timer connects the same Client again; its queue is untouched.
Reconnect ==
    /\ ~dispatching
    /\ ~up
    /\ up' = TRUE
    /\ UNCHANGED <<raw, emitted, queueVars, wire, inbound, dispatching, pushes, drops>>

Next ==
    \/ Emit
    \/ Dispatch
    \/ DispatchRaw
    \/ DispatchNext
    \/ Answer
    \/ Push
    \/ Drop
    \/ Reconnect

Spec == Init /\ [][Next]_vars

\* The server answers, messages arrive and handlers return.
FairSpec ==
    /\ Spec
    /\ WF_vars(Answer) /\ WF_vars(Reconnect)
    /\ WF_vars(Dispatch \/ DispatchRaw) /\ WF_vars(DispatchNext)

-----------------------------------------------------------------------------
\* Requests leave in the order of emit(), none twice and none forgotten by
\* the queue.
InOrder ==
    written \o contents = [i \in 1 .. emitted |-> i]

\* The queue is never idle while a request waits: emit() of an idle queue and
\* the last queue.next() may run in either order.
NoLostWakeup ==
    ~running => contents = <<>>

\* Every message, or piece of one, the client did not ask for buys one more request in flight,
\* and nothing else does, whatever is lost with a connection.
SyncWindow ==
    Len(wire) + Len(inbound) <= 1 + pushes

\* Requests wait for an answer that is on its way, or a connection was lost:
\* a queue that waits for a lost answer stays stalled after the reconnect.
StallsOnlyAfterLoss ==
    contents # <<>> =>
        wire # <<>> \/ inbound # <<>> \/ dispatching \/ drops > 0

\* Every request is written to the socket in the end, unless a connection is
\* lost on the way.
EveryRequestIsSent ==
    \A r \in Requests : (emitted >= r) ~> (Len(written) >= r \/ drops > 0)

-----------------------------------------------------------------------------
\* Every message that is on its way, being dispatched or asked of the server
\* was paid for by a push or by the one slot of the queue.
Credit ==
    Len(wire) + Len(inbound) + (IF dispatching THEN 1 ELSE 0) + (IF running THEN 0 ELSE 1)
        <= 1 + pushes

\* While nothing was lost, a running queue waits for something.
Waiting ==
    running /\ drops = 0 => wire # <<>> \/ inbound # <<>> \/ dispatching

\* A dead socket delivers nothing.
DeadSocket ==
    /\ ~up => inbound = <<>> /\ drops > 0
    /\ drops = 0 => up

IInv ==
    /\ TypeOK
    /\ InOrder
    /\ NoLostWakeup
    /\ Credit
    /\ Waiting
    /\ DeadSocket
=============================================================================

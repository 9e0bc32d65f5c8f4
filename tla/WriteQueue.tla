----------------------------- MODULE WriteQueue -----------------------------
(***************************************************************************)
(* The C# write queue of one peer: class WriteQueue of IpcPeer.cs.         *)
(*                                                                         *)
(* Threads that call TryEnqueue, the pump task, the read loop that calls   *)
(* Acknowledge (config.sync) and a thread that aborts the peer run         *)
(* concurrently.  Sections under lock(_gate) are atomic but for            *)
(* _pendingBytes: TryEnqueue and Stop change it with += and -= (a read and *)
(* a write) while PumpAsync subtracts with Interlocked.Add outside the     *)
(* lock, so gate tells who is between the read and the write.              *)
(*                                                                         *)
(* Every write is one byte long.  Writes are numbered as they are          *)
(* accepted.  The stream behind _writer is external.  PumpAsync is started *)
(* inside TryEnqueue's lock and keeps it until its first real suspension;  *)
(* the model gives the lock back when the stream is reached, which only    *)
(* adds interleavings.  _maximumPendingBytes = null is a limit that is not *)
(* reached.                                                                *)
(***************************************************************************)
EXTENDS Integers, Sequences

CONSTANTS
    Callers,          \* threads that call TryEnqueue
    MaxPendingBytes,  \* _maximumPendingBytes
    MaxWrites,        \* bound: accepted writes
    MaxAcks           \* bound: inbound messages

ASSUME WriteQueueAssumption ==
    /\ Callers \cap {"free", "pump", "stop", "pumpstop"} = {}
    /\ MaxPendingBytes \in Nat
    /\ MaxWrites \in Nat
    /\ MaxAcks \in Nat

VARIABLES
    synchronous, \* _synchronous (config.sync), set by the constructor
    gate,        \* who holds _gate across a step
    loaded,      \* what the holder has read from _pendingBytes
    bytes,       \* _pendingBytes
    queue,       \* _queue
    pumping,     \* _pumping
    stopped,     \* _stopped
    credits,     \* _acknowledgementCredits
    ackField,    \* _acknowledgement is set
    ackTask,     \* the acknowledgement the pump waits for
    pc,          \* the pump: where it is
    held,        \* the pump: its pending write
    failing,     \* the pump: it leaves after finally
    cancelled,   \* the peer's Lifetime token
    acking,      \* Acknowledge holds the acknowledgement, before TrySetResult
    stopping,    \* removed by Stop, TrySetException to come
    stopAck,     \* Stop holds the acknowledgement, before TrySetException
    completion,  \* Completion of each write
    accepted,    \* history: number of accepted writes
    written,     \* history: writes handed to the stream, in order
    acks         \* history: calls of Acknowledge

peerVars  == <<synchronous, cancelled>>
gateVars  == <<gate, loaded>>
queueVars == <<bytes, queue, pumping, stopped>>
pumpVars  == <<pc, held, failing>>
ackVars   == <<credits, ackField, ackTask>>
taskVars  == <<acking, stopping, stopAck, completion>>
histVars  == <<accepted, written, acks>>

vars == <<peerVars, gateVars, queueVars, pumpVars, ackVars, taskVars, histVars>>

Writes == 1 .. MaxWrites

TypeOK ==
    /\ synchronous \in BOOLEAN
    /\ gate \in Callers \cup {"free", "pump", "stop", "pumpstop"}
    /\ loaded \in Int
    /\ bytes \in Int
    /\ queue \in Seq(Writes)
    /\ pumping \in BOOLEAN
    /\ stopped \in BOOLEAN
    /\ credits \in Nat
    /\ ackField \in BOOLEAN
    /\ ackTask \in {"none", "waiting", "done", "failed"}
    /\ pc \in {"idle", "top", "credit", "write", "await", "catch", "finally", "account"}
    /\ held \in Writes \cup {0}
    /\ failing \in BOOLEAN
    /\ cancelled \in BOOLEAN
    /\ acking \in BOOLEAN
    /\ stopping \in Seq(Writes)
    /\ stopAck \in BOOLEAN
    /\ completion \in [Writes -> {"none", "pending", "ok", "failed"}]
    /\ accepted \in 0 .. MaxWrites
    /\ written \in Seq(Writes)
    /\ acks \in 0 .. MaxAcks

Init ==
    /\ synchronous \in BOOLEAN
    /\ gate = "free"
    /\ loaded = 0
    /\ bytes = 0
    /\ queue = <<>>
    /\ pumping = FALSE
    /\ stopped = FALSE
    /\ credits = 0
    /\ ackField = FALSE
    /\ ackTask = "none"
    /\ pc = "idle"
    /\ held = 0
    /\ failing = FALSE
    /\ cancelled = FALSE
    /\ acking = FALSE
    /\ stopping = <<>>
    /\ stopAck = FALSE
    /\ completion = [w \in Writes |-> "none"]
    /\ accepted = 0
    /\ written = <<>>
    /\ acks = 0

\* TrySetResult / TrySetException: the first one wins.
Complete(w, result) ==
    completion' = [completion EXCEPT ![w] = IF @ = "pending" THEN result ELSE @]

\* Writes whose bytes the queue still has to give back.
Outstanding == Len(queue) + (IF held # 0 THEN 1 ELSE 0)

-----------------------------------------------------------------------------
(***************************************************************************)
(* TryEnqueue, Acknowledge and Stop.                                       *)
(***************************************************************************)

\* Faulty variant: the write itself is not counted.
OverLimitLate == bytes > MaxPendingBytes

\* _pendingBytes + pending.Data.Length > maximum
OverLimit == bytes + 1 > MaxPendingBytes

\* TryEnqueue refuses the write: nothing but the caller's task changes.
Refuse ==
    /\ gate = "free"
    /\ ~stopped
    /\ OverLimit
    /\ accepted < MaxWrites
    /\ UNCHANGED vars

\* TryEnqueue accepts: += reads _pendingBytes.
Enqueue(t) ==
    /\ gate = "free"
    /\ ~stopped
    /\ ~OverLimit
    /\ accepted < MaxWrites
    /\ gate' = t
    /\ loaded' = bytes
    /\ UNCHANGED <<peerVars, queueVars, pumpVars, ackVars, taskVars, histVars>>

\* Faulty variant: the newest write goes first.
EnqueuedInFront(t) ==
    /\ gate = t
    /\ bytes' = loaded + 1
    /\ accepted' = accepted + 1
    /\ queue' = <<accepted + 1>> \o queue
    /\ completion' = [completion EXCEPT ![accepted + 1] = "pending"]
    /\ gate' = IF pumping THEN "free" ELSE "pump"
    /\ pumping' = TRUE
    /\ pc' = IF pumping THEN pc ELSE "top"
    /\ UNCHANGED <<peerVars, loaded, stopped, held, failing, ackVars, acking, stopping,
                   stopAck, written, acks>>

\* += writes; the write is queued.  The first part of a new pump runs in the
\* same lock.
Enqueued(t) ==
    /\ gate = t
    /\ bytes' = loaded + 1
    /\ accepted' = accepted + 1
    /\ queue' = Append(queue, accepted + 1)
    /\ completion' = [completion EXCEPT ![accepted + 1] = "pending"]
    /\ \/ /\ pumping
          /\ gate' = "free"
          /\ UNCHANGED <<pumping, pc>>
       \/ /\ ~pumping
          /\ gate' = "pump"
          /\ pumping' = TRUE
          /\ pc' = "top"
    /\ UNCHANGED <<peerVars, loaded, stopped, held, failing, ackVars, acking, stopping,
                   stopAck, written, acks>>

\* Faulty variant: every message is banked.
CreditAnyway == credits' = credits + 1

\* _pumping && _queue.Count > _acknowledgementCredits
Credit ==
    credits' = IF pumping /\ Len(queue) > credits THEN credits + 1 ELSE credits

\* Acknowledge: a message has arrived.
Acknowledge ==
    /\ synchronous
    /\ gate = "free"
    /\ ~acking
    /\ acks < MaxAcks
    /\ acks' = acks + 1
    /\ \/ /\ ackField
          /\ ackTask = "waiting"
          /\ acking' = TRUE
          /\ UNCHANGED credits
       \/ /\ ~(ackField /\ ackTask = "waiting")
          /\ Credit
          /\ UNCHANGED acking
    /\ UNCHANGED <<peerVars, gateVars, queueVars, pumpVars, ackField, ackTask, stopping,
                   stopAck, completion, accepted, written>>

\* acknowledgement.TrySetResult(), outside the lock.
Acknowledged ==
    /\ acking
    /\ acking' = FALSE
    /\ ackTask' = IF ackTask = "waiting" THEN "done" ELSE ackTask
    /\ UNCHANGED <<peerVars, gateVars, queueVars, pumpVars, credits, ackField, stopping,
                   stopAck, completion, histVars>>

\* IpcPeer.Abort cancels Lifetime before it calls Stop.
Cancel ==
    /\ ~cancelled
    /\ cancelled' = TRUE
    /\ UNCHANGED <<synchronous, gateVars, queueVars, pumpVars, ackVars, taskVars, histVars>>

\* Stop by Abort: -= reads _pendingBytes.
Stop ==
    /\ cancelled
    /\ gate = "free"
    /\ ~stopped
    /\ gate' = "stop"
    /\ loaded' = bytes
    /\ UNCHANGED <<peerVars, queueVars, pumpVars, ackVars, taskVars, histVars>>

\* Faulty variant: Stop forgets the writes it removes.
StoppedForgets ==
    /\ gate \in {"stop", "pumpstop"}
    /\ gate' = "free"
    /\ stopped' = TRUE
    /\ bytes' = loaded - Len(queue)
    /\ queue' = <<>>
    /\ stopAck' = ackField
    /\ ackField' = FALSE
    /\ credits' = 0
    /\ UNCHANGED <<peerVars, loaded, pumping, pumpVars, ackTask, acking, stopping,
                   completion, histVars>>

\* The locked part of Stop; -= writes.
Stopped ==
    /\ gate \in {"stop", "pumpstop"}
    /\ gate' = "free"
    /\ stopped' = TRUE
    /\ bytes' = loaded - Len(queue)
    /\ stopping' = queue
    /\ queue' = <<>>
    /\ stopAck' = ackField
    /\ ackField' = FALSE
    /\ credits' = 0
    /\ UNCHANGED <<peerVars, loaded, pumping, pumpVars, ackTask, acking, completion, histVars>>

\* The rest of Stop, outside the lock.
StopFails ==
    \/ /\ stopping # <<>>
       /\ Complete(Head(stopping), "failed")
       /\ stopping' = Tail(stopping)
       /\ UNCHANGED <<peerVars, gateVars, queueVars, pumpVars, ackVars, acking, stopAck,
                      histVars>>
    \/ /\ stopping = <<>>
       /\ stopAck
       /\ stopAck' = FALSE
       /\ ackTask' = IF ackTask = "waiting" THEN "failed" ELSE ackTask
       /\ UNCHANGED <<peerVars, gateVars, queueVars, pumpVars, credits, ackField, acking,
                      stopping, completion, histVars>>

-----------------------------------------------------------------------------
(***************************************************************************)
(* PumpAsync.                                                              *)
(***************************************************************************)

\* The top of the loop: leave, or take the next write.
PumpTop ==
    /\ pc = "top"
    /\ gate \in {"free", "pump"}
    /\ \/ /\ stopped \/ queue = <<>>
          /\ pumping' = FALSE
          /\ pc' = "idle"
          /\ gate' = "free"
          /\ UNCHANGED <<queue, held>>
       \/ /\ ~stopped
          /\ queue # <<>>
          /\ held' = Head(queue)
          /\ queue' = Tail(queue)
          /\ pc' = IF synchronous THEN "credit" ELSE "write"
          /\ gate' = IF synchronous THEN gate ELSE "free"
          /\ UNCHANGED pumping
    /\ UNCHANGED <<peerVars, loaded, bytes, stopped, failing, ackVars, taskVars, histVars>>

\* With sync: a credit pays for this write, or its answer must be awaited.
PumpCredit ==
    /\ pc = "credit"
    /\ gate \in {"free", "pump"}
    /\ \/ /\ credits > 0
          /\ credits' = credits - 1
          /\ ackField' = FALSE
          /\ ackTask' = "none"
       \/ /\ credits = 0
          /\ ackField' = TRUE
          /\ ackTask' = "waiting"
          /\ UNCHANGED credits
    /\ pc' = "write"
    /\ gate' = "free"
    /\ UNCHANGED <<peerVars, loaded, queueVars, held, failing, taskVars, histVars>>

\* _writer completes.
PumpWritten ==
    /\ pc = "write"
    /\ written' = Append(written, held)
    /\ Complete(held, "ok")
    /\ pc' = IF ackTask = "none" THEN "finally" ELSE "await"
    /\ UNCHANGED <<peerVars, gateVars, queueVars, held, failing, ackVars, acking, stopping,
                   stopAck, accepted, acks>>

\* Faulty variant: the answer is not waited for.
PumpGoesOn ==
    /\ pc = "await"
    /\ pc' = "finally"
    /\ UNCHANGED <<peerVars, gateVars, queueVars, held, failing, ackVars, taskVars, histVars>>

\* The answer has arrived.
PumpAnswered ==
    /\ pc = "await"
    /\ ackTask = "done"
    /\ pc' = "finally"
    /\ UNCHANGED <<peerVars, gateVars, queueVars, held, failing, ackVars, taskVars, histVars>>

\* The stream fails, the peer is aborted, or Stop fails the acknowledgement.
PumpThrows ==
    /\ \/ pc = "write"
       \/ pc = "await" /\ (cancelled \/ ackTask = "failed")
    /\ Complete(held, "failed")
    /\ pc' = "catch"
    /\ UNCHANGED <<peerVars, gateVars, queueVars, held, failing, ackVars, acking, stopping,
                   stopAck, histVars>>

\* catch: Stop(error), which returns at once if the queue is stopped; the
\* failure callback, which aborts the peer, follows.
PumpCatch ==
    /\ pc = "catch"
    /\ gate = "free"
    /\ pc' = "finally"
    /\ failing' = TRUE
    /\ cancelled' = TRUE
    /\ \/ /\ stopped
          /\ UNCHANGED gateVars
       \/ /\ ~stopped
          /\ gate' = "pumpstop"
          /\ loaded' = bytes
    /\ UNCHANGED <<synchronous, queueVars, held, ackVars, taskVars, histVars>>

\* finally: the acknowledgement is dropped.
PumpFinally ==
    /\ pc = "finally"
    /\ gate # "pumpstop"
    /\ \/ /\ synchronous
          /\ gate = "free"
          /\ ackField' = FALSE
          /\ ackTask' = "none"
       \/ /\ ~synchronous
          /\ UNCHANGED <<ackField, ackTask>>
    /\ pc' = "account"
    /\ UNCHANGED <<peerVars, gateVars, queueVars, held, failing, credits, taskVars, histVars>>

\* Interlocked.Add(ref _pendingBytes, -length), without the lock; then the
\* next turn, or the pump leaves with _pumping set.
PumpAccount ==
    /\ pc = "account"
    /\ bytes' = bytes - 1
    /\ held' = 0
    /\ pc' = IF failing THEN "idle" ELSE "top"
    /\ UNCHANGED <<peerVars, gateVars, queue, pumping, stopped, failing, ackVars, taskVars,
                   histVars>>

Pump ==
    \/ PumpTop
    \/ PumpCredit
    \/ PumpWritten
    \/ PumpAnswered
    \/ PumpThrows
    \/ PumpCatch
    \/ PumpFinally
    \/ PumpAccount

Next ==
    \/ Refuse
    \/ \E t \in Callers : Enqueue(t) \/ Enqueued(t)
    \/ Acknowledge
    \/ Acknowledged
    \/ Cancel
    \/ Stop
    \/ Stopped
    \/ StopFails
    \/ Pump

Spec == Init /\ [][Next]_vars

\* A thread inside the queue goes on, and a write to the stream ends.
FairSpec ==
    /\ Spec
    /\ \A t \in Callers : WF_vars(Enqueued(t))
    /\ WF_vars(Acknowledged)
    /\ WF_vars(Stopped)
    /\ WF_vars(StopFails)
    /\ SF_vars(PumpTop) /\ SF_vars(PumpCredit) /\ SF_vars(PumpCatch) /\ SF_vars(PumpFinally)
    /\ WF_vars(PumpWritten \/ PumpThrows) /\ WF_vars(PumpAnswered) /\ WF_vars(PumpAccount)

-----------------------------------------------------------------------------
(***************************************************************************)
(* Properties.                                                             *)
(***************************************************************************)

\* The writes that are queued or being written never exceed maxPendingBytes,
\* although _pendingBytes is updated by two threads without a common lock:
\* the race can only make it too large.
PendingIsBounded ==
    Outstanding <= MaxPendingBytes

\* A queued write always has a pump that will take it, and a second pump is
\* started only after the first has returned, whoever comes first when
\* TryEnqueue meets the end of the loop.
OnePump ==
    /\ queue # <<>> /\ ~stopped => pumping
    /\ pumping /\ ~stopped => pc # "idle"
    /\ ~pumping => pc = "idle"

\* Writes reach the stream in the order in which they were accepted, each
\* once, also when the queue is stopped half way.
InOrder ==
    /\ written = [i \in 1 .. Len(written) |-> i]
    /\ ~stopped =>
        \A i \in DOMAIN queue : queue[i] = accepted - Len(queue) + i

\* The task of an accepted write cannot be forgotten: while it is not
\* completed, the queue, the pump or a Stop under way has it.
TasksAreKept ==
    \A w \in Writes :
        completion[w] = "pending" =>
            \/ \E i \in DOMAIN queue : queue[i] = w
            \/ held = w /\ pc \notin {"finally", "account"}
            \/ \E i \in DOMAIN stopping : stopping[i] = w

\* csharp README: with sync, "unsolicited input is not banked as credit for a
\* future request": a credit is always for a write that waits already.
NoBankedCredit ==
    credits <= Len(queue) + (IF pc = "credit" THEN 1 ELSE 0)

\* With sync the queue advances at most once for every inbound message.
OneAdvancePerMessage ==
    synchronous => Len(written) <= 1 + acks

\* The task of every accepted write is completed in the end, unless it waits
\* behind a sync request that nobody answers.
TasksComplete ==
    \A w \in Writes :
        completion[w] = "pending" ~> (completion[w] # "pending" \/ (pc = "await" /\ ~cancelled))
=============================================================================

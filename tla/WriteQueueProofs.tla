-------------------------- MODULE WriteQueueProofs --------------------------
(***************************************************************************)
(* Proofs about WriteQueue, for any set of threads, any limit and any      *)
(* number of writes and messages.                                          *)
(***************************************************************************)
EXTENDS WriteQueue, TLAPS

USE WriteQueueAssumption DEF peerVars, gateVars, queueVars, pumpVars, ackVars, taskVars, histVars,
                              Writes

-----------------------------------------------------------------------------
(***************************************************************************)
(* Where the pump and the holders of the lock can be.                      *)
(***************************************************************************)

\* The pump has a write exactly between taking it and giving its bytes back.
PumpHolds ==
    held # 0 <=> pc \in {"credit", "write", "await", "catch", "finally", "account"}

\* What the holder of the lock knows.
LockHolder ==
    /\ gate = "pump" => pc \in {"top", "credit"}
    /\ gate \in Callers => ~stopped /\ accepted < MaxWrites
    /\ gate = "stop" => ~stopped
    /\ gate = "pumpstop" => ~stopped /\ pc = "finally"

\* A pump that failed has stopped the queue before it leaves.
FailedPump ==
    failing =>
        /\ pc \in {"finally", "account", "idle"}
        /\ stopped \/ gate = "pumpstop"

\* A queued write has a pump, and the pump is idle when it is not pumping.
QueuePumped ==
    /\ stopped => queue = <<>>
    /\ queue # <<>> => pumping
    /\ ~pumping => pc = "idle"
    /\ pumping /\ pc = "idle" => failing

Control == TypeOK /\ PumpHolds /\ LockHolder /\ FailedPump /\ QueuePumped

\* Taking the first element of a queue of writes.
LEMMA TakeHead ==
    ASSUME NEW q \in Seq(Writes), q # <<>>
    PROVE  /\ Head(q) \in Writes
           /\ Tail(q) \in Seq(Writes)
           /\ Len(Tail(q)) = Len(q) - 1
           /\ Len(q) > 0
           /\ DOMAIN q = 1 .. Len(q)
           /\ DOMAIN Tail(q) = 1 .. Len(q) - 1
           /\ \A i \in DOMAIN Tail(q) : Tail(q)[i] = q[i + 1]
           /\ Head(q) = q[1]
OBVIOUS

\* Appending to a queue of writes.
LEMMA AddLast ==
    ASSUME NEW q \in Seq(Writes), NEW w \in Writes
    PROVE  /\ Append(q, w) \in Seq(Writes)
           /\ Len(Append(q, w)) = Len(q) + 1
           /\ Append(q, w) # <<>>
           /\ Append(q, w)[Len(q) + 1] = w
           /\ \A i \in DOMAIN q : Append(q, w)[i] = q[i]
<1>1. /\ Append(q, w) \in Seq(Writes)
      /\ Len(Append(q, w)) = Len(q) + 1
      /\ Append(q, w)[Len(q) + 1] = w
      /\ \A i \in DOMAIN q : Append(q, w)[i] = q[i]
    OBVIOUS
<1>2. Len(Append(q, w)) # Len(<<>>)
    BY <1>1
<1>. QED
    BY <1>1, <1>2

\* Every step of the callers, the pump, Acknowledge and Stop keeps Control.
LEMMA ControlInductive ==
    Control /\ [Next]_vars => Control'
<1>. SUFFICES ASSUME Control, [Next]_vars PROVE Control'
    OBVIOUS
<1>. USE DEF Control
<1>1. CASE Refuse
    BY <1>1 DEF Refuse, vars, TypeOK, PumpHolds, LockHolder, FailedPump, QueuePumped
<1>2. ASSUME NEW t \in Callers, Enqueue(t) PROVE Control'
    BY <1>2 DEF Enqueue, OverLimit, TypeOK, PumpHolds, LockHolder, FailedPump, QueuePumped
<1>3. ASSUME NEW t \in Callers, Enqueued(t) PROVE Control'
  <2>1. accepted + 1 \in Writes
    BY <1>3 DEF Enqueued, TypeOK, LockHolder
  <2>2. queue' \in Seq(Writes) /\ queue' # <<>>
    BY <2>1, <1>3, AddLast DEF Enqueued, TypeOK
  <2>3. completion' \in [Writes -> {"none", "pending", "ok", "failed"}]
    BY <1>3 DEF Enqueued, TypeOK
  <2>0. pumping' \in BOOLEAN
    BY Zenon, <1>3 DEF Enqueued, TypeOK
  <2>4. TypeOK'
    BY <2>0, <2>1, <2>2, <2>3, <1>3 DEF Enqueued, TypeOK
  <2>5. (PumpHolds /\ LockHolder /\ FailedPump)'
    BY <1>3 DEF Enqueued, TypeOK, PumpHolds, LockHolder, FailedPump, QueuePumped
  <2>6. QueuePumped'
    BY <2>2, <1>3 DEF Enqueued, TypeOK, PumpHolds, LockHolder, FailedPump, QueuePumped
  <2>. QED
    BY <2>4, <2>5, <2>6
<1>4. CASE Acknowledge
  <2>1. acking' \in BOOLEAN
    BY <1>4 DEF Acknowledge, Credit, TypeOK
  <2>2. credits' \in Nat /\ acks' \in 0 .. MaxAcks
    BY <1>4 DEF Acknowledge, Credit, TypeOK
  <2>7. TypeOK'
    BY <2>1, <2>2, <1>4 DEF Acknowledge, TypeOK
  <2>8. (PumpHolds /\ LockHolder /\ FailedPump)'
    BY <1>4 DEF Acknowledge, Credit, TypeOK, PumpHolds, LockHolder, FailedPump, QueuePumped
  <2>9. QueuePumped'
    BY <1>4 DEF Acknowledge, Credit, TypeOK, PumpHolds, LockHolder, FailedPump, QueuePumped
  <2>. QED
    BY <2>7, <2>8, <2>9
<1>5. CASE Acknowledged
  <2>1. acking' \in BOOLEAN /\ ackTask' \in {"none", "waiting", "done", "failed"}
    BY <1>5 DEF Acknowledged, TypeOK
  <2>7. TypeOK'
    BY <2>1, <1>5 DEF Acknowledged, TypeOK
  <2>8. (PumpHolds /\ LockHolder /\ FailedPump)'
    BY <1>5 DEF Acknowledged, TypeOK, PumpHolds, LockHolder, FailedPump, QueuePumped
  <2>9. QueuePumped'
    BY <1>5 DEF Acknowledged, TypeOK, PumpHolds, LockHolder, FailedPump, QueuePumped
  <2>. QED
    BY <2>7, <2>8, <2>9
<1>6. CASE Cancel
    BY <1>6 DEF Cancel, TypeOK, PumpHolds, LockHolder, FailedPump, QueuePumped
<1>7. CASE Stop
    BY <1>7 DEF Stop, TypeOK, PumpHolds, LockHolder, FailedPump, QueuePumped
<1>8. CASE Stopped
  <2>1. stopped' \in BOOLEAN /\ ackField' \in BOOLEAN /\ stopAck' \in BOOLEAN
    BY Zenon, <1>8 DEF Stopped, TypeOK
  <2>2. queue' \in Seq(Writes) /\ stopping' \in Seq(Writes) /\ bytes' \in Int /\ credits' \in Nat
    BY <1>8 DEF Stopped, TypeOK
  <2>7. TypeOK'
    BY <2>1, <2>2, <1>8 DEF Stopped, TypeOK
  <2>8. (PumpHolds /\ LockHolder /\ FailedPump)'
    BY <1>8 DEF Stopped, TypeOK, PumpHolds, LockHolder, FailedPump, QueuePumped
  <2>9. QueuePumped'
    BY <1>8 DEF Stopped, TypeOK, PumpHolds, LockHolder, FailedPump, QueuePumped
  <2>. QED
    BY <2>7, <2>8, <2>9
<1>9. CASE StopFails
  <2>1. stopAck' \in BOOLEAN /\ ackTask' \in {"none", "waiting", "done", "failed"}
    BY Zenon, <1>9 DEF StopFails, Complete, TypeOK
  <2>2. stopping' \in Seq(Writes)
    <3>1. CASE stopping # <<>> /\ stopping' = Tail(stopping)
      BY <3>1 DEF TypeOK
    <3>2. CASE stopping' = stopping
      BY <3>2 DEF TypeOK
    <3>. QED
      BY <3>1, <3>2, <1>9 DEF StopFails
  <2>3. completion' \in [Writes -> {"none", "pending", "ok", "failed"}]
    BY <1>9 DEF StopFails, Complete, TypeOK
  <2>4. UNCHANGED <<peerVars, gateVars, queueVars, pumpVars, credits, ackField, acking, histVars>>
    BY <1>9 DEF StopFails, Complete, TypeOK
  <2>7. TypeOK'
    BY <2>1, <2>2, <2>3, <2>4 DEF TypeOK
  <2>8. (PumpHolds /\ LockHolder /\ FailedPump)'
    BY <1>9 DEF StopFails, Complete, TypeOK, PumpHolds, LockHolder, FailedPump, QueuePumped
  <2>9. QueuePumped'
    BY <1>9 DEF StopFails, Complete, TypeOK, PumpHolds, LockHolder, FailedPump, QueuePumped
  <2>. QED
    BY <2>7, <2>8, <2>9
<1>10. CASE PumpTop
  <2>1. CASE stopped \/ queue = <<>>
    BY <2>1, <1>10 DEF PumpTop, TypeOK, PumpHolds, LockHolder, FailedPump, QueuePumped
  <2>2. CASE ~stopped /\ queue # <<>>
    <3>1. held' \in Writes /\ queue' \in Seq(Writes)
      BY <2>2, <1>10, TakeHead DEF PumpTop, TypeOK
    <3>2. TypeOK'
      BY <3>1, <2>2, <1>10 DEF PumpTop, TypeOK
    <3>3. (PumpHolds /\ LockHolder)'
      BY <3>1, <2>2, <1>10 DEF PumpTop, TypeOK, PumpHolds, LockHolder
    <3>6. FailedPump'
      BY <2>2, <1>10 DEF PumpTop, TypeOK, FailedPump
    <3>4. pumping /\ pumping' = pumping /\ pumping \in BOOLEAN
      BY <2>2, <1>10 DEF PumpTop, TypeOK, QueuePumped
    <3>5. QueuePumped'
      BY <3>4, <2>2, <1>10 DEF PumpTop, TypeOK, QueuePumped
    <3>. QED
      BY <3>2, <3>3, <3>5, <3>6
  <2>. QED
    BY <2>1, <2>2
<1>11. CASE PumpCredit
  <2>1. ackField' \in BOOLEAN /\ ackTask' \in {"none", "waiting", "done", "failed"}
    BY Zenon, <1>11 DEF PumpCredit, TypeOK
  <2>2. credits' \in Nat
    BY <1>11 DEF PumpCredit, TypeOK
  <2>7. TypeOK'
    BY <2>1, <2>2, <1>11 DEF PumpCredit, TypeOK
  <2>8. (PumpHolds /\ LockHolder /\ FailedPump)'
    BY <1>11 DEF PumpCredit, TypeOK, PumpHolds, LockHolder, FailedPump, QueuePumped
  <2>9. QueuePumped'
    BY <1>11 DEF PumpCredit, TypeOK, PumpHolds, LockHolder, FailedPump, QueuePumped
  <2>. QED
    BY <2>7, <2>8, <2>9
<1>12. CASE PumpWritten
    BY <1>12 DEF PumpWritten, Complete, TypeOK, PumpHolds, LockHolder, FailedPump, QueuePumped
<1>13. CASE PumpAnswered
    BY <1>13 DEF PumpAnswered, TypeOK, PumpHolds, LockHolder, FailedPump, QueuePumped
<1>14. CASE PumpThrows
    BY <1>14 DEF PumpThrows, Complete, TypeOK, PumpHolds, LockHolder, FailedPump, QueuePumped
<1>15. CASE PumpCatch
    BY <1>15 DEF PumpCatch, TypeOK, PumpHolds, LockHolder, FailedPump, QueuePumped
<1>16. CASE PumpFinally
    BY <1>16 DEF PumpFinally, TypeOK, PumpHolds, LockHolder, FailedPump, QueuePumped
<1>17. CASE PumpAccount
    BY <1>17 DEF PumpAccount, TypeOK, PumpHolds, LockHolder, FailedPump, QueuePumped
<1>18. CASE UNCHANGED vars
    BY <1>18 DEF vars, TypeOK, PumpHolds, LockHolder, FailedPump, QueuePumped
<1>. QED
    BY <1>1, <1>2, <1>3, <1>4, <1>5, <1>6, <1>7, <1>8, <1>9, <1>10, <1>11, <1>12, <1>13, <1>14,
       <1>15, <1>16, <1>17, <1>18 DEF Next, Pump

\* Control: where the pump and the lock holders of IpcPeer.cs WriteQueue can be.
THEOREM ControlInvariant == Spec => []Control
<1>1. Init => TypeOK
  <2>. SUFFICES ASSUME Init PROVE TypeOK
    OBVIOUS
  <2>1. queue \in Seq(Writes) /\ stopping \in Seq(Writes) /\ written \in Seq(Writes)
    BY DEF Init
  <2>3. /\ pumping \in BOOLEAN /\ stopped \in BOOLEAN /\ ackField \in BOOLEAN
        /\ failing \in BOOLEAN /\ cancelled \in BOOLEAN /\ acking \in BOOLEAN
        /\ stopAck \in BOOLEAN
    BY Zenon DEF Init
  <2>2. completion \in [Writes -> {"none", "pending", "ok", "failed"}]
    BY DEF Init
  <2>. QED
    BY <2>1, <2>2, <2>3 DEF Init, TypeOK
<1>2. Init => PumpHolds /\ LockHolder /\ FailedPump /\ QueuePumped
    BY DEF Init, PumpHolds, LockHolder, FailedPump, QueuePumped
<1>. QED
    BY <1>1, <1>2, ControlInductive, PTL DEF Spec, Control

\* OnePump: a queued write always has a pump, and TryEnqueue never starts a
\* second one.
THEOREM QueueIsPumped == Spec => []OnePump
<1>1. Control => OnePump
    BY DEF Control, OnePump, FailedPump, LockHolder, QueuePumped, TypeOK
<1>. QED
    BY <1>1, ControlInvariant, PTL

\* TypeOK: the state of the queue has its type.
THEOREM TypeCorrect == Spec => []TypeOK
<1>. QED
    BY ControlInvariant, PTL DEF Control

-----------------------------------------------------------------------------
(***************************************************************************)
(* maxPendingBytes.                                                        *)
(***************************************************************************)

\* _pendingBytes, and the value a lock holder has read from it, are never
\* below the writes that are outstanding; a caller that passed the test has
\* read a value that leaves room for its write.
Accounting ==
    /\ Outstanding <= bytes
    /\ gate \in Callers => Outstanding <= loaded /\ loaded + 1 <= MaxPendingBytes
    /\ gate \in {"stop", "pumpstop"} => Outstanding <= loaded
    /\ Outstanding <= MaxPendingBytes

\* Every step keeps Accounting; the interesting ones are the two halves of +=
\* and the Interlocked.Add between them.
LEMMA AccountingInductive ==
    Control /\ Control' /\ Accounting /\ [Next]_vars => Accounting'
<1>. SUFFICES ASSUME Control, Control', Accounting, [Next]_vars PROVE Accounting'
    OBVIOUS
<1>. USE DEF Control
<1>0. Len(queue) \in Nat /\ Len(queue') \in Nat
    BY DEF TypeOK
<1>1. CASE Refuse
    BY <1>1, <1>0 DEF Refuse, vars, TypeOK, Accounting, Outstanding, PumpHolds
<1>2. ASSUME NEW t \in Callers, Enqueue(t) PROVE Accounting'
    BY <1>2, <1>0 DEF Enqueue, OverLimit, TypeOK, Accounting, Outstanding, PumpHolds
<1>3. ASSUME NEW t \in Callers, Enqueued(t) PROVE Accounting'
  <2>1. accepted + 1 \in Writes
    BY <1>3 DEF Enqueued, TypeOK, LockHolder
  <2>2. Len(queue') = Len(queue) + 1
    BY <2>1, <1>3, AddLast DEF Enqueued, TypeOK
  <2>3. Outstanding' = Outstanding + 1 /\ Outstanding \in Nat /\ bytes' = loaded + 1
    BY <2>2, <1>0, <1>3 DEF Enqueued, Outstanding
  <2>. QED
    BY <2>3, <1>3 DEF Enqueued, Accounting, TypeOK
<1>4. CASE Acknowledge
    BY <1>4, <1>0 DEF Acknowledge, Credit, TypeOK, Accounting, Outstanding, PumpHolds
<1>5. CASE Acknowledged
    BY <1>5, <1>0 DEF Acknowledged, TypeOK, Accounting, Outstanding, PumpHolds
<1>6. CASE Cancel
    BY <1>6, <1>0 DEF Cancel, TypeOK, Accounting, Outstanding, PumpHolds
<1>7. CASE Stop
    BY <1>7, <1>0 DEF Stop, TypeOK, Accounting, Outstanding, PumpHolds
<1>8. CASE Stopped
  <2>1. Len(queue') = 0
    BY <1>8 DEF Stopped
  <2>. QED
    BY <2>1, <1>0, <1>8 DEF Stopped, TypeOK, Accounting, Outstanding
<1>9. CASE StopFails
    BY <1>9, <1>0 DEF StopFails, Complete, TypeOK, Accounting, Outstanding, PumpHolds
<1>10. CASE PumpTop
  <2>1. Outstanding' = Outstanding /\ Outstanding \in Nat
    <3>1. CASE stopped \/ queue = <<>>
      BY <3>1, <1>0, <1>10 DEF PumpTop, Outstanding
    <3>2. CASE ~stopped /\ queue # <<>>
      <4>1. held' \in Writes /\ Len(queue') = Len(queue) - 1
        BY <3>2, <1>10, TakeHead DEF PumpTop, TypeOK
      <4>2. held = 0
        BY <1>10 DEF PumpTop, PumpHolds
      <4>. QED
        BY <4>1, <4>2, <1>0 DEF Outstanding
    <3>. QED
      BY <3>1, <3>2
  <2>. QED
    BY <2>1, <1>10 DEF PumpTop, Accounting, TypeOK
<1>11. CASE PumpCredit
    BY <1>11, <1>0 DEF PumpCredit, TypeOK, Accounting, Outstanding, PumpHolds
<1>12. CASE PumpWritten
    BY <1>12, <1>0 DEF PumpWritten, Complete, TypeOK, Accounting, Outstanding, PumpHolds
<1>13. CASE PumpAnswered
    BY <1>13, <1>0 DEF PumpAnswered, TypeOK, Accounting, Outstanding, PumpHolds
<1>14. CASE PumpThrows
    BY <1>14, <1>0 DEF PumpThrows, Complete, TypeOK, Accounting, Outstanding, PumpHolds
<1>15. CASE PumpCatch
    BY <1>15, <1>0 DEF PumpCatch, TypeOK, Accounting, Outstanding, PumpHolds
<1>16. CASE PumpFinally
    BY <1>16, <1>0 DEF PumpFinally, TypeOK, Accounting, Outstanding, PumpHolds
<1>17. CASE PumpAccount
    BY <1>17, <1>0 DEF PumpAccount, TypeOK, Accounting, Outstanding, PumpHolds
<1>18. CASE UNCHANGED vars
    BY <1>18 DEF vars, TypeOK, Accounting, Outstanding, PumpHolds
<1>. QED
    BY <1>1, <1>2, <1>3, <1>4, <1>5, <1>6, <1>7, <1>8, <1>9, <1>10, <1>11, <1>12, <1>13, <1>14,
       <1>15, <1>16, <1>17, <1>18 DEF Next, Pump

\* PendingIsBounded: the race on _pendingBytes never lets more than
\* maxPendingBytes bytes into the queue.
THEOREM WritesAreBounded == Spec => []PendingIsBounded
<1>1. Init => Accounting
  <2>. SUFFICES ASSUME Init PROVE Accounting
    OBVIOUS
  <2>1. Len(queue) = 0
    BY DEF Init
  <2>. QED
    BY <2>1 DEF Init, Accounting, Outstanding
<1>2. Accounting => PendingIsBounded
    BY DEF Accounting, PendingIsBounded
<1>. QED
    BY <1>1, <1>2, AccountingInductive, ControlInvariant, PTL DEF Spec

-----------------------------------------------------------------------------
(***************************************************************************)
(* config.sync.                                                            *)
(***************************************************************************)

\* Credits are for queued writes, and only exist with config.sync.
Credited == NoBankedCredit /\ (~synchronous => credits = 0)

\* Every step keeps Credited.
LEMMA CreditedInductive ==
    Control /\ Control' /\ Credited /\ [Next]_vars => Credited'
<1>. SUFFICES ASSUME Control, Control', Credited, [Next]_vars PROVE Credited'
    OBVIOUS
<1>. USE DEF Control
<1>0. Len(queue) \in Nat /\ Len(queue') \in Nat /\ credits \in Nat
    BY DEF TypeOK
<1>1. CASE Refuse
    BY <1>1, <1>0 DEF Refuse, vars, TypeOK, Credited, NoBankedCredit
<1>2. ASSUME NEW t \in Callers, Enqueue(t) PROVE Credited'
    BY <1>2, <1>0 DEF Enqueue, OverLimit, TypeOK, Credited, NoBankedCredit
<1>3. ASSUME NEW t \in Callers, Enqueued(t) PROVE Credited'
  <2>1. accepted + 1 \in Writes
    BY <1>3 DEF Enqueued, TypeOK, LockHolder
  <2>2. Len(queue') = Len(queue) + 1
    BY <2>1, <1>3, AddLast DEF Enqueued, TypeOK
  <2>. QED
    BY <2>2, <1>0, <1>3 DEF Enqueued, Credited, NoBankedCredit, QueuePumped
<1>4. CASE Acknowledge
    BY <1>4, <1>0 DEF Acknowledge, Credit, TypeOK, Credited, NoBankedCredit
<1>5. CASE Acknowledged
    BY <1>5, <1>0 DEF Acknowledged, TypeOK, Credited, NoBankedCredit
<1>6. CASE Cancel
    BY <1>6, <1>0 DEF Cancel, TypeOK, Credited, NoBankedCredit
<1>7. CASE Stop
    BY <1>7, <1>0 DEF Stop, TypeOK, Credited, NoBankedCredit
<1>8. CASE Stopped
    BY <1>8, <1>0 DEF Stopped, TypeOK, Credited, NoBankedCredit
<1>9. CASE StopFails
    BY <1>9, <1>0 DEF StopFails, Complete, TypeOK, Credited, NoBankedCredit
<1>10. CASE PumpTop
  <2>1. CASE stopped \/ queue = <<>>
    BY <2>1, <1>0, <1>10 DEF PumpTop, Credited, NoBankedCredit
  <2>2. CASE ~stopped /\ queue # <<>>
    <3>1. Len(queue') = Len(queue) - 1
      BY <2>2, <1>10, TakeHead DEF PumpTop, TypeOK
    <3>. QED
      BY <3>1, <2>2, <1>0, <1>10 DEF PumpTop, Credited, NoBankedCredit
  <2>. QED
    BY <2>1, <2>2
<1>11. CASE PumpCredit
    BY <1>11, <1>0 DEF PumpCredit, TypeOK, Credited, NoBankedCredit
<1>12. CASE PumpWritten
    BY <1>12, <1>0 DEF PumpWritten, Complete, TypeOK, Credited, NoBankedCredit
<1>13. CASE PumpAnswered
    BY <1>13, <1>0 DEF PumpAnswered, TypeOK, Credited, NoBankedCredit
<1>14. CASE PumpThrows
    BY <1>14, <1>0 DEF PumpThrows, Complete, TypeOK, Credited, NoBankedCredit
<1>15. CASE PumpCatch
    BY <1>15, <1>0 DEF PumpCatch, TypeOK, Credited, NoBankedCredit
<1>16. CASE PumpFinally
    BY <1>16, <1>0 DEF PumpFinally, TypeOK, Credited, NoBankedCredit
<1>17. CASE PumpAccount
    BY <1>17, <1>0 DEF PumpAccount, TypeOK, Credited, NoBankedCredit
<1>18. CASE UNCHANGED vars
    BY <1>18 DEF vars, TypeOK, Credited, NoBankedCredit
<1>. QED
    BY <1>1, <1>2, <1>3, <1>4, <1>5, <1>6, <1>7, <1>8, <1>9, <1>10, <1>11, <1>12, <1>13, <1>14,
       <1>15, <1>16, <1>17, <1>18 DEF Next, Pump

\* NoBankedCredit: a message never pays for a write that comes later.
THEOREM CreditsAreEarned == Spec => []NoBankedCredit
<1>1. Init => Credited
  <2>. SUFFICES ASSUME Init PROVE Credited
    OBVIOUS
  <2>1. Len(queue) = 0
    BY DEF Init
  <2>. QED
    BY <2>1 DEF Init, Credited, NoBankedCredit
<1>2. Credited => NoBankedCredit
    BY DEF Credited
<1>. QED
    BY <1>1, <1>2, CreditedInductive, ControlInvariant, PTL DEF Spec

-----------------------------------------------------------------------------
(***************************************************************************)
(* The pace of a synchronous queue.                                        *)
(***************************************************************************)

\* The answer the pump waits for has come, or Acknowledge is about to give it.
Answer == IF acking \/ ackTask = "done" THEN 1 ELSE 0

\* What the messages have paid for: the writes that are over, the credits and
\* the answer to the write under way.  A pump that fails may leave its last
\* write unanswered, and a late answer then finds nobody.
Paid ==
    synchronous =>
        /\ acking /\ ~failing /\ pc # "catch" =>
               pc \in {"write", "await"} /\ ackTask \in {"waiting", "failed"}
        /\ pc = "await" => ackTask # "none"
        /\ ackField => pc \in {"write", "await", "catch", "finally"}
        /\ pc = "finally" /\ ~failing => ackTask # "waiting"
        /\ failing \/ pc = "catch" => Len(written) + credits <= 1 + acks
        /\ ~failing /\ pc \in {"idle", "top", "credit", "finally", "account"} =>
               Len(written) + credits <= acks
        /\ pc = "write" /\ ackTask = "none" => Len(written) + 1 + credits <= acks
        /\ pc = "write" /\ ackTask # "none" => Len(written) + credits + Answer <= acks
        /\ pc = "await" => Len(written) + credits + Answer <= 1 + acks

\* Every step keeps Paid.
LEMMA PaidInductive ==
    Control /\ Control' /\ Paid /\ [Next]_vars => Paid'
<1>. SUFFICES ASSUME Control, Control', Paid, [Next]_vars PROVE Paid'
    OBVIOUS
<1>. USE DEF Control
<1>0. Len(written) \in Nat /\ credits \in Nat /\ acks \in Nat
    BY DEF TypeOK
<1>1. CASE Refuse
    BY <1>0, <1>1 DEF Refuse, vars, TypeOK, PumpHolds, LockHolder, FailedPump, Paid, Answer
<1>2. ASSUME NEW t \in Callers, Enqueue(t) PROVE Paid'
    BY <1>0, <1>2 DEF Enqueue, TypeOK, PumpHolds, LockHolder, FailedPump, Paid, Answer
<1>3. ASSUME NEW t \in Callers, Enqueued(t) PROVE Paid'
    BY <1>0, <1>3 DEF Enqueued, TypeOK, PumpHolds, LockHolder, FailedPump, Paid, Answer
<1>4. CASE Acknowledge
  <2>0. acks' = acks + 1 /\ ~acking /\ UNCHANGED <<synchronous, pc, failing, ackTask, written>>
    BY <1>4 DEF Acknowledge
  <2>1. CASE acking' /\ ackTask = "waiting" /\ credits' = credits
    <3>1. Answer = 0 /\ Answer' = 1
      BY <2>0, <2>1 DEF Answer
    <3>2. synchronous /\ ackField /\ ackField' = ackField
      BY <1>4, <2>0, <2>1 DEF Acknowledge
    <3>3. ~failing /\ pc # "catch" => pc \in {"write", "await"}
      BY <3>2, <2>1 DEF Paid
    <3>. QED
      BY <3>1, <3>2, <3>3, <2>0, <2>1, <1>0 DEF Paid
  <2>2. CASE ~acking' /\ credits' \in credits .. credits + 1
    <3>1. Answer' = Answer /\ credits' \in Nat /\ credits' <= credits + 1 /\ ackField' = ackField
      BY <1>4, <2>0, <2>2, <1>0 DEF Answer, Acknowledge
    <3>2. Answer \in {0, 1}
      BY DEF Answer
    <3>. QED
      BY <3>1, <3>2, <2>0, <2>2, <1>0 DEF Paid
  <2>3. CASE ~(ackField /\ ackTask = "waiting")
    <3>1. acking' = acking /\ credits' \in {credits, credits + 1}
      BY <2>3, <1>4 DEF Acknowledge, Credit
    <3>. QED
      BY <3>1, <2>0, <2>2, <1>0
  <2>4. CASE ackField /\ ackTask = "waiting"
    BY <2>4, <2>1, <1>4 DEF Acknowledge
  <2>. QED
    BY <2>3, <2>4
<1>5. CASE Acknowledged
    BY <1>0, <1>5 DEF Acknowledged, TypeOK, PumpHolds, LockHolder, FailedPump, Paid, Answer
<1>6. CASE Cancel
    BY <1>0, <1>6 DEF Cancel, TypeOK, PumpHolds, LockHolder, FailedPump, Paid, Answer
<1>7. CASE Stop
    BY <1>0, <1>7 DEF Stop, TypeOK, PumpHolds, LockHolder, FailedPump, Paid, Answer
<1>8. CASE Stopped
    BY <1>0, <1>8 DEF Stopped, TypeOK, PumpHolds, LockHolder, FailedPump, Paid, Answer
<1>9. CASE StopFails
    BY <1>0, <1>9 DEF StopFails, TypeOK, PumpHolds, LockHolder, FailedPump, Paid, Answer
<1>10. CASE PumpTop
    BY <1>0, <1>10 DEF PumpTop, TypeOK, PumpHolds, LockHolder, FailedPump, Paid, Answer
<1>11. CASE PumpCredit
    BY <1>0, <1>11 DEF PumpCredit, TypeOK, PumpHolds, LockHolder, FailedPump, Paid, Answer
<1>12. CASE PumpWritten
  <2>1. Len(written') = Len(written) + 1
    BY <1>12, AddLast DEF PumpWritten, TypeOK, PumpHolds
  <2>. QED
    BY <2>1, <1>0, <1>12 DEF PumpWritten, TypeOK, Paid, Answer
<1>13. CASE PumpAnswered
    BY <1>0, <1>13 DEF PumpAnswered, TypeOK, PumpHolds, LockHolder, FailedPump, Paid, Answer
<1>14. CASE PumpThrows
    BY <1>0, <1>14 DEF PumpThrows, TypeOK, PumpHolds, LockHolder, FailedPump, Paid, Answer
<1>15. CASE PumpCatch
    BY <1>0, <1>15 DEF PumpCatch, TypeOK, PumpHolds, LockHolder, FailedPump, Paid, Answer
<1>16. CASE PumpFinally
    BY <1>0, <1>16 DEF PumpFinally, TypeOK, PumpHolds, LockHolder, FailedPump, Paid, Answer
<1>17. CASE PumpAccount
    BY <1>0, <1>17 DEF PumpAccount, TypeOK, PumpHolds, LockHolder, FailedPump, Paid, Answer
<1>18. CASE UNCHANGED vars
    BY <1>18 DEF vars, Paid, Answer
<1>. QED
    BY <1>1, <1>2, <1>3, <1>4, <1>5, <1>6, <1>7, <1>8, <1>9, <1>10, <1>11, <1>12, <1>13, <1>14,
       <1>15, <1>16, <1>17, <1>18 DEF Next, Pump

\* OneAdvancePerMessage: with sync no more writes reach the stream than one
\* for each inbound message, and one in front.
THEOREM PaceIsKept == Spec => []OneAdvancePerMessage
<1>1. Init => Paid
  <2>. SUFFICES ASSUME Init PROVE Paid
    OBVIOUS
  <2>1. Len(written) = 0
    BY DEF Init
  <2>. QED
    BY <2>1 DEF Init, Paid, Answer
<1>2. Control /\ Paid => OneAdvancePerMessage
  <2>1. TypeOK => Len(written) \in Nat /\ credits \in Nat /\ acks \in Nat
    BY DEF TypeOK
  <2>. QED
    BY <2>1 DEF Control, TypeOK, Paid, Answer, OneAdvancePerMessage
<1>. QED
    BY <1>1, <1>2, PaidInductive, ControlInvariant, PTL DEF Spec

-----------------------------------------------------------------------------
(***************************************************************************)
(* Order.                                                                  *)
(***************************************************************************)

\* The writes 1 .. n in order.
Numbered(s) == s = [i \in 1 .. Len(s) |-> i]

\* What has been written, the pump's write and the queue are the accepted
\* writes in order, until a write fails.
Ordered ==
    /\ Numbered(written)
    /\ ~stopped => \A i \in DOMAIN queue : queue[i] = accepted - Len(queue) + i
    /\ pc \in {"credit", "write"} => held = Len(written) + 1
    /\ ~stopped /\ ~failing /\ pc # "catch" =>
           accepted = Len(written) + Len(queue) + (IF pc \in {"credit", "write"} THEN 1 ELSE 0)

\* Writing the next number keeps the order.
LEMMA NumberedNext ==
    ASSUME NEW s \in Seq(Writes), Numbered(s), Len(s) + 1 \in Writes
    PROVE  Numbered(Append(s, Len(s) + 1)) /\ Len(Append(s, Len(s) + 1)) = Len(s) + 1
BY DEF Numbered

\* Every step keeps Ordered.
LEMMA OrderedInductive ==
    Control /\ Control' /\ Ordered /\ [Next]_vars => Ordered'
<1>. SUFFICES ASSUME Control, Control', Ordered, [Next]_vars PROVE Ordered'
    OBVIOUS
<1>. USE DEF Control
<1>0. /\ Len(queue) \in Nat /\ Len(queue') \in Nat
      /\ Len(written) \in Nat /\ Len(written') \in Nat
      /\ DOMAIN queue = 1 .. Len(queue) /\ DOMAIN queue' = 1 .. Len(queue')
    BY DEF TypeOK
<1>1. CASE Refuse
    BY <1>1, <1>0 DEF Refuse, vars, TypeOK, Ordered
<1>2. ASSUME NEW t \in Callers, Enqueue(t) PROVE Ordered'
    BY <1>2, <1>0 DEF Enqueue, OverLimit, TypeOK, Ordered
<1>3. ASSUME NEW t \in Callers, Enqueued(t) PROVE Ordered'
  <2>1. accepted + 1 \in Writes /\ accepted' = accepted + 1 /\ ~stopped /\ ~stopped'
    BY <1>3 DEF Enqueued, TypeOK, LockHolder
  <2>2. /\ Len(queue') = Len(queue) + 1
        /\ queue'[Len(queue) + 1] = accepted + 1
        /\ \A i \in DOMAIN queue : queue'[i] = queue[i]
    BY <2>1, <1>3, AddLast DEF Enqueued, TypeOK
  <2>3. \A i \in DOMAIN queue' : queue'[i] = accepted' - Len(queue') + i
    <3>. SUFFICES ASSUME NEW i \in 1 .. Len(queue) + 1
                  PROVE  queue'[i] = accepted' - Len(queue') + i
      BY <2>2 DEF TypeOK
    <3>1. CASE i = Len(queue) + 1
      BY <3>1, <2>1, <2>2, <1>0 DEF TypeOK
    <3>2. CASE i # Len(queue) + 1
      <4>1. i \in DOMAIN queue
        BY <3>2, <1>0
      <4>. QED
        BY <4>1, <2>1, <2>2, <1>0 DEF TypeOK, Ordered
    <3>. QED
      BY <3>1, <3>2
  <2>4. Numbered(written') /\ (pc' \in {"credit", "write"} => held' = Len(written') + 1)
    BY <1>3 DEF Enqueued, Ordered
  <2>5. pc' = pc \/ (pc = "idle" /\ pc' = "top")
    BY <1>3 DEF Enqueued, QueuePumped
  <2>6. failing' = failing /\ written' = written
    BY <1>3 DEF Enqueued
  <2>. QED
    <3>1. ASSUME ~failing, pc # "catch"
          PROVE  accepted' = Len(written') + Len(queue')
                             + (IF pc' \in {"credit", "write"} THEN 1 ELSE 0)
      <4>1. accepted = Len(written) + Len(queue) + (IF pc \in {"credit", "write"} THEN 1 ELSE 0)
        BY <3>1, <2>1 DEF Ordered
      <4>. QED
        BY <4>1, <2>1, <2>2, <2>5, <2>6, <1>0
    <3>. QED
      BY <3>1, <2>3, <2>4, <2>5, <2>6 DEF Ordered
<1>4. CASE Acknowledge
    BY <1>4, <1>0 DEF Acknowledge, Credit, TypeOK, Ordered
<1>5. CASE Acknowledged
    BY <1>5, <1>0 DEF Acknowledged, TypeOK, Ordered
<1>6. CASE Cancel
    BY <1>6, <1>0 DEF Cancel, TypeOK, Ordered
<1>7. CASE Stop
    BY <1>7, <1>0 DEF Stop, TypeOK, Ordered
<1>8. CASE Stopped
  <2>1. stopped'
    BY <1>8 DEF Stopped
  <2>. QED
    BY <2>1, <1>8 DEF Stopped, Ordered
<1>9. CASE StopFails
    BY <1>9, <1>0 DEF StopFails, Complete, TypeOK, Ordered
<1>10. CASE PumpTop
  <2>1. CASE stopped \/ queue = <<>>
    BY <2>1, <1>0, <1>10 DEF PumpTop, Ordered, TypeOK
  <2>2. CASE ~stopped /\ queue # <<>>
    <3>1. /\ Len(queue') = Len(queue) - 1 /\ Len(queue) > 0
          /\ \A i \in DOMAIN queue' : queue'[i] = queue[i + 1]
          /\ held' = queue[1]
      BY <2>2, <1>10, TakeHead DEF PumpTop, TypeOK
    <3>2. /\ pc = "top" /\ pc' \in {"credit", "write"} /\ ~stopped /\ ~stopped'
          /\ accepted' = accepted /\ written' = written /\ failing' = failing
      BY <2>2, <1>10 DEF PumpTop
    <3>3. ~failing
      BY <3>2 DEF FailedPump
    <3>4. accepted = Len(written) + Len(queue)
      BY <3>2, <3>3, <1>0 DEF Ordered, TypeOK
    <3>5. queue[1] = accepted - Len(queue) + 1
      <4>1. 1 \in DOMAIN queue
        BY <3>1, <1>0
      <4>. QED
        BY <4>1, <3>2 DEF Ordered
    <3>6. held' = Len(written') + 1
      BY <3>1, <3>2, <3>4, <3>5, <1>0
    <3>7. \A i \in DOMAIN queue' : queue'[i] = accepted' - Len(queue') + i
      <4>. SUFFICES ASSUME NEW i \in DOMAIN queue'
                    PROVE  queue'[i] = accepted' - Len(queue') + i
        OBVIOUS
      <4>1. i \in Nat /\ i + 1 \in DOMAIN queue
        BY <3>1, <1>0
      <4>2. queue[i + 1] = accepted - Len(queue) + (i + 1)
        BY <4>1, <3>2 DEF Ordered
      <4>3. accepted \in Nat
        BY DEF TypeOK
      <4>. QED
        BY <4>1, <4>2, <4>3, <3>1, <3>2, <1>0
    <3>. QED
      BY <3>1, <3>2, <3>4, <3>6, <3>7, <1>0 DEF Ordered, TypeOK
  <2>. QED
    BY <2>1, <2>2
<1>11. CASE PumpCredit
    BY <1>11, <1>0 DEF PumpCredit, TypeOK, Ordered
<1>12. CASE PumpWritten
  <2>1. held = Len(written) + 1 /\ held \in Writes
    BY <1>12 DEF PumpWritten, Ordered, PumpHolds, TypeOK
  <2>2. Numbered(written') /\ Len(written') = Len(written) + 1
    BY <2>1, <1>12, NumberedNext DEF PumpWritten, Ordered, TypeOK
  <2>. QED
    BY <2>2, <1>0, <1>12 DEF PumpWritten, Ordered, TypeOK
<1>13. CASE PumpAnswered
    BY <1>13, <1>0 DEF PumpAnswered, TypeOK, Ordered
<1>14. CASE PumpThrows
    BY <1>14, <1>0 DEF PumpThrows, Complete, TypeOK, Ordered
<1>15. CASE PumpCatch
    BY <1>15, <1>0 DEF PumpCatch, TypeOK, Ordered
<1>16. CASE PumpFinally
    BY <1>16, <1>0 DEF PumpFinally, TypeOK, Ordered
<1>17. CASE PumpAccount
    BY <1>17, <1>0 DEF PumpAccount, TypeOK, Ordered
<1>18. CASE UNCHANGED vars
    BY <1>18 DEF vars, TypeOK, Ordered
<1>. QED
    BY <1>1, <1>2, <1>3, <1>4, <1>5, <1>6, <1>7, <1>8, <1>9, <1>10, <1>11, <1>12, <1>13, <1>14,
       <1>15, <1>16, <1>17, <1>18 DEF Next, Pump

\* InOrder: writes reach the stream in the order of acceptance.
THEOREM WritesInOrder == Spec => []InOrder
<1>1. Init => Ordered
  <2>. SUFFICES ASSUME Init PROVE Ordered
    OBVIOUS
  <2>1. Len(queue) = 0 /\ Len(written) = 0 /\ queue \in Seq(Writes) /\ written \in Seq(Writes)
    BY DEF Init
  <2>2. Numbered(written)
    BY <2>1 DEF Numbered
  <2>. QED
    BY <2>1, <2>2 DEF Init, Ordered
<1>2. Ordered => InOrder
    BY DEF Ordered, InOrder, Numbered
<1>. QED
    BY <1>1, <1>2, OrderedInductive, ControlInvariant, PTL DEF Spec

-----------------------------------------------------------------------------
(***************************************************************************)
(* The tasks the callers wait for.                                         *)
(***************************************************************************)

\* The pump completes a task before it leaves its write, and nothing is
\* waiting to be failed before the queue is stopped.
Kept ==
    /\ TasksAreKept
    /\ pc \in {"await", "catch"} => completion[held] # "pending"
    /\ stopping # <<>> => stopped
    /\ held <= accepted
    /\ \A i \in DOMAIN queue : queue[i] <= accepted

\* Every step keeps Kept.
LEMMA KeptInductive ==
    Control /\ Control' /\ Kept /\ [Next]_vars => Kept'
<1>. SUFFICES ASSUME Control, Control', Kept, [Next]_vars PROVE Kept'
    OBVIOUS
<1>. USE DEF Control
<1>1. CASE Refuse
    BY <1>1 DEF Refuse, vars, TypeOK, Kept, TasksAreKept
<1>2. ASSUME NEW t \in Callers, Enqueue(t) PROVE Kept'
    BY <1>2 DEF Enqueue, OverLimit, TypeOK, Kept, TasksAreKept
<1>3. ASSUME NEW t \in Callers, Enqueued(t) PROVE Kept'
  <2>1. accepted + 1 \in Writes
    BY <1>3 DEF Enqueued, TypeOK, LockHolder
  <2>2. /\ Len(queue) + 1 \in DOMAIN queue'
        /\ queue'[Len(queue) + 1] = accepted + 1
        /\ \A i \in DOMAIN queue : i \in DOMAIN queue' /\ queue'[i] = queue[i]
    BY <2>1, <1>3, AddLast DEF Enqueued, TypeOK
  <2>3. \A w \in Writes : w # accepted + 1 => completion'[w] = completion[w]
    BY <1>3 DEF Enqueued, TypeOK
  <2>4. pc' = pc \/ (pc = "idle" /\ pc' = "top")
    BY <1>3 DEF Enqueued, QueuePumped
  <2>5. held' = held /\ stopping' = stopping /\ stopped' = stopped
    BY <1>3 DEF Enqueued
  <2>6. TasksAreKept'
    BY <2>1, <2>2, <2>3, <2>4, <2>5 DEF Kept, TasksAreKept
  <2>. QED
    <3>1. pc' \in {"await", "catch"} => completion'[held'] # "pending"
      BY <2>1, <2>3, <2>4, <2>5 DEF Kept, PumpHolds, TypeOK
    <3>2. held' <= accepted'
      BY <2>5, <1>3 DEF Enqueued, Kept, TypeOK
    <3>3. \A i \in DOMAIN queue' : queue'[i] <= accepted'
      <4>. SUFFICES ASSUME NEW i \in DOMAIN queue' PROVE queue'[i] <= accepted'
        OBVIOUS
      <4>1. i \in DOMAIN queue \/ i = Len(queue) + 1
        BY <2>1, <1>3, AddLast DEF Enqueued, TypeOK
      <4>. QED
        BY <4>1, <2>1, <2>2, <1>3 DEF Enqueued, Kept, TypeOK
    <3>. QED
      BY <3>1, <3>2, <3>3, <2>5, <2>6 DEF Kept
<1>4. CASE Acknowledge
    BY <1>4 DEF Acknowledge, Credit, TypeOK, Kept, TasksAreKept
<1>5. CASE Acknowledged
    BY <1>5 DEF Acknowledged, TypeOK, Kept, TasksAreKept
<1>6. CASE Cancel
    BY <1>6 DEF Cancel, TypeOK, Kept, TasksAreKept
<1>7. CASE Stop
    BY <1>7 DEF Stop, TypeOK, Kept, TasksAreKept
<1>8. CASE Stopped
  <2>1. stopping = <<>> /\ stopping' = queue /\ stopped'
    BY <1>8 DEF Stopped, Kept, LockHolder
  <2>2. \A i \in DOMAIN stopping : FALSE
    BY <2>1
  <2>. QED
    BY <2>1, <2>2, <1>8 DEF Stopped, Kept, TasksAreKept
<1>9. CASE StopFails
  <2>1. CASE stopping # <<>>
    <3>0. stopping' = Tail(stopping)
      BY <2>1, <1>9 DEF StopFails
    <3>1. /\ \A i \in DOMAIN stopping : i \in Nat /\ (i = 1 \/ i - 1 \in DOMAIN Tail(stopping))
          /\ \A i \in DOMAIN Tail(stopping) : Tail(stopping)[i] = stopping[i + 1]
          /\ Head(stopping) = stopping[1] /\ Head(stopping) \in Writes
      <4>1. stopping \in Seq(Writes)
        BY DEF TypeOK
      <4>. QED
        BY <2>1, <4>1, TakeHead
    <3>2. \A i \in DOMAIN stopping :
             i = 1 \/ (i - 1 \in DOMAIN stopping' /\ stopping'[i - 1] = stopping[i])
      BY <3>0, <3>1
    <3>3. /\ completion'[stopping[1]] # "pending"
          /\ \A w \in Writes : completion'[w] = "pending" => completion[w] = "pending"
      BY <3>1, <2>1, <1>9 DEF StopFails, Complete, TypeOK
    <3>4. UNCHANGED <<queue, held, pc, stopped, accepted>>
      BY <2>1, <1>9 DEF StopFails
    <3>5. TasksAreKept'
      BY <3>2, <3>3, <3>4 DEF Kept, TasksAreKept
    <3>6. stopping' # <<>> => stopped'
      BY <2>1, <3>4 DEF Kept
    <3>7. pc' \in {"await", "catch"} => completion'[held'] # "pending"
      BY <3>3, <3>4 DEF Kept, PumpHolds, TypeOK
    <3>. QED
      BY <3>4, <3>5, <3>6, <3>7 DEF Kept
  <2>2. CASE stopping = <<>>
    BY <2>2, <1>9 DEF StopFails, Kept, TasksAreKept
  <2>. QED
    BY <2>1, <2>2
<1>10. CASE PumpTop
  <2>1. CASE stopped \/ queue = <<>>
    BY <2>1, <1>10 DEF PumpTop, Kept, TasksAreKept
  <2>2. CASE ~stopped /\ queue # <<>>
    <3>1. /\ queue' = Tail(queue) /\ held' = queue[1] /\ pc' \in {"credit", "write"}
          /\ \A i \in DOMAIN queue : i \in Nat /\ (i = 1 \/ i - 1 \in DOMAIN Tail(queue))
          /\ \A i \in DOMAIN Tail(queue) : Tail(queue)[i] = queue[i + 1]
      <4>1. queue \in Seq(Writes) /\ synchronous \in BOOLEAN
        BY DEF TypeOK
      <4>2. queue' = Tail(queue) /\ held' = Head(queue) /\ pc' \in {"credit", "write"}
        BY <2>2, <1>10 DEF PumpTop
      <4>. QED
        BY <4>1, <4>2, <2>2, TakeHead
    <3>2. \A i \in DOMAIN queue :
             i = 1 \/ (i - 1 \in DOMAIN queue' /\ queue'[i - 1] = queue[i])
      BY <3>1 DEF TypeOK
    <3>3. UNCHANGED <<completion, stopping, stopped, accepted>> /\ held = 0
      BY <1>10 DEF PumpTop, PumpHolds
    <3>4. TasksAreKept'
      <4>. SUFFICES ASSUME NEW w \in Writes, completion[w] = "pending"
                    PROVE  \/ \E i \in DOMAIN queue' : queue'[i] = w
                           \/ held' = w
                           \/ \E i \in DOMAIN stopping : stopping[i] = w
        BY <3>1, <3>3 DEF TasksAreKept
      <4>1. CASE \E i \in DOMAIN queue : queue[i] = w
        BY <4>1, <3>1, <3>2
      <4>2. CASE held = w \/ \E i \in DOMAIN stopping : stopping[i] = w
        BY <4>2, <3>3
      <4>. QED
        BY <4>1, <4>2 DEF Kept, TasksAreKept
    <3>5. held' <= accepted' /\ \A i \in DOMAIN queue' : queue'[i] <= accepted'
      <4>1. 1 \in DOMAIN queue /\ \A i \in DOMAIN Tail(queue) : i + 1 \in DOMAIN queue
        BY <2>2, TakeHead DEF TypeOK
      <4>. QED
        BY <4>1, <3>1, <3>3 DEF Kept
    <3>. QED
      BY <3>1, <3>3, <3>4, <3>5 DEF Kept
  <2>. QED
    BY <2>1, <2>2
<1>11. CASE PumpCredit
    BY <1>11 DEF PumpCredit, TypeOK, Kept, TasksAreKept
<1>12. CASE PumpWritten
  <2>1. /\ completion'[held] # "pending"
        /\ \A w \in Writes : w # held => completion'[w] = completion[w]
    BY <1>12 DEF PumpWritten, Complete, TypeOK, PumpHolds
  <2>. QED
    BY <2>1, <1>12 DEF PumpWritten, Kept, TasksAreKept
<1>13. CASE PumpAnswered
    BY <1>13 DEF PumpAnswered, TypeOK, Kept, TasksAreKept
<1>14. CASE PumpThrows
  <2>1. /\ completion'[held] # "pending"
        /\ \A w \in Writes : w # held => completion'[w] = completion[w]
    BY <1>14 DEF PumpThrows, Complete, TypeOK, PumpHolds
  <2>. QED
    BY <2>1, <1>14 DEF PumpThrows, Kept, TasksAreKept
<1>15. CASE PumpCatch
    BY <1>15 DEF PumpCatch, TypeOK, Kept, TasksAreKept
<1>16. CASE PumpFinally
    BY <1>16 DEF PumpFinally, TypeOK, Kept, TasksAreKept
<1>17. CASE PumpAccount
  <2>1. TasksAreKept'
    BY <1>17 DEF PumpAccount, Kept, TasksAreKept
  <2>2. held' <= accepted'
    BY <1>17 DEF PumpAccount, TypeOK
  <2>. QED
    BY <2>1, <2>2, <1>17 DEF PumpAccount, Kept
<1>18. CASE UNCHANGED vars
    BY <1>18 DEF vars, TypeOK, Kept, TasksAreKept
<1>. QED
    BY <1>1, <1>2, <1>3, <1>4, <1>5, <1>6, <1>7, <1>8, <1>9, <1>10, <1>11, <1>12, <1>13, <1>14,
       <1>15, <1>16, <1>17, <1>18 DEF Next, Pump

\* TasksAreKept: no accepted write is forgotten with its task pending.
THEOREM NoTaskIsForgotten == Spec => []TasksAreKept
<1>1. Init => Kept
    BY DEF Init, Kept, TasksAreKept
<1>2. Kept => TasksAreKept
    BY DEF Kept
<1>. QED
    BY <1>1, <1>2, KeptInductive, ControlInvariant, PTL DEF Spec
=============================================================================

--------------------------- MODULE CsClientProofs ---------------------------
(***************************************************************************)
(* Proofs about CsClient, for any set of threads, any limit, any number of *)
(* writes, connections, retries and calls of connect and disconnect.       *)
(***************************************************************************)
EXTENDS CsClient, TLAPS

USE CsClientAssumption DEF parserVars, peerVars, stateVars, waitVars, threadVars, histVars

-----------------------------------------------------------------------------
(***************************************************************************)
(* Where the threads and RunAsync can be.                                  *)
(***************************************************************************)

\* The types TypeOK leaves out.
HistoryOK ==
    /\ pending \in Seq(Writes) /\ drained \in Seq(Writes) /\ sent \in Seq(Writes)
    /\ emitted \in 0 .. MaxWrites /\ Calls <= MaxWrites
    /\ owner \in [Writes -> Threads]
    /\ waited \in SUBSET (1 .. emitted) /\ late \in SUBSET (1 .. emitted)
    /\ disconnects \in Nat

\* A thread works on a peer that was opened, and on a write that was emitted;
\* only handlers wait to emit.
JobOK(t, job) ==
    /\ job.at \in {"enqueue", "fail", "signal", "abort", "recede", "disconnect", "callback"} =>
           job.peer \in 1 .. socket
    /\ job.at = "enqueue" => job.write \in 1 .. emitted
    /\ job.at = "emit" => t \in {"run", "timer"}

Busy == \A t \in Threads : JobOK(t, doing[t])

\* What RunAsync knows where it is.
Running ==
    /\ run \in Holding => socket # 0
    /\ run = "delay" => retries > 0
    /\ run # "draining" => drained = <<>>

Aborting(t) == doing[t].at \in {"abort", "recede", "disconnect", "callback"}

\* One thread closes a marked peer.
OneCloses ==
    /\ \A t \in Threads :
           Aborting(t) => doing[t].peer \in disposed /\ doing[t].peer \notin closed \cup lost
    /\ \A t, u \in Threads :
           Aborting(t) /\ Aborting(u) /\ t # u => doing[t].peer # doing[u].peer

\* Only a queue that is open holds writes.
Queues == \A g \in Peers : queue[g] # <<>> => g <= socket /\ g \notin stopped

Control == TypeOK /\ HistoryOK /\ Busy /\ Running /\ OneCloses /\ Queues

\* What waits when RunAsync ends, or has ended, came too late to be failed.
OnlyLateWait == run \in {"ending", "off"} => ToSet(pending) \subseteq late

Increasing(s) == \A i, j \in DOMAIN s : i < j => s[i] < s[j]

\* The writes that wait, in order: those that were sent, those that are
\* drained, those that still wait.
WaitInOrder ==
    /\ Increasing(pending) /\ Increasing(drained)
    /\ ToSet(pending) \subseteq waited /\ ToSet(drained) \subseteq waited
    /\ \A d \in ToSet(drained), p \in ToSet(pending) : d < p
    /\ \A x \in ToSet(sent) \cap waited, y \in ToSet(drained) \cup ToSet(pending) : x < y

\* A write that did not wait is the newest of its thread and not sent yet.
NewestOfThread ==
    /\ ToSet(sent) \subseteq 1 .. emitted
    /\ \A t \in Threads :
           doing[t].at = "enqueue" =>
               /\ owner[doing[t].write] = t
               /\ doing[t].write \notin waited \cup ToSet(sent)
               /\ \A w \in 1 .. emitted : owner[w] = t => w <= doing[t].write

\* A callback of _lifetime runs only while it is registered.
CallbackIsRegistered ==
    \A t \in Threads : doing[t].at = "callback" =>
        doing[t].peer = socket /\ run \in Registered

-----------------------------------------------------------------------------
(***************************************************************************)
(* Threads and peers.                                                      *)
(***************************************************************************)

\* What a thread may be doing.
LEMMA JobTypes ==
    /\ \A at \in {"idle", "emit", "cancel", "cancelled"} : At(at) \in Jobs /\ At(at).at = at
    /\ Idle \in Jobs /\ Idle.at = "idle"
    /\ \A at \in {"enqueue", "fail", "signal", "abort", "recede", "disconnect", "callback"},
          w \in Writes \cup {0}, g \in Peers \cup {0} :
              [at |-> at, write |-> w, peer |-> g] \in Jobs
    /\ \A j \in Jobs : j.write \in Writes \cup {0} /\ j.peer \in Peers \cup {0}
BY DEF At, Idle, Jobs

\* Only RunAsync goes on.
LEMMA JustGoesControl ==
    ASSUME Control,
           UNCHANGED <<parserVars, socket, disposed, closed, lost, stopped, queue, waitVars, doing,
                       completion, histVars>>,
           run' \in Holding \cup {"off", "top", "opening", "after", "delay", "destroy", "ending"},
           cancelled' \in BOOLEAN, explicit' \in BOOLEAN, violation' \in BOOLEAN,
           retries' \in 0 .. MaxRetries, Running',
           signaled' \in SUBSET (1 .. socket),
           handling' \in [Threads -> {"none", "failure", "refusal"}], timed' \in 0 .. socket
    PROVE  Control'
<1>1. TypeOK'
    BY DEF Control, TypeOK
<1>2. HistoryOK'
    BY DEF Control, HistoryOK, Calls, Waits
<1>3. Busy' /\ OneCloses' /\ Queues'
    BY DEF Control, Busy, JobOK, OneCloses, Aborting, Queues
<1>. QED
    BY <1>1, <1>2, <1>3 DEF Control

\* Taking the first element of a sequence of writes, and adding one.
LEMMA TakeHead ==
    ASSUME NEW q \in Seq(Writes), q # <<>>
    PROVE  /\ Head(q) \in Writes /\ Tail(q) \in Seq(Writes)
           /\ Len(q) \in Nat /\ Len(q) > 0 /\ Len(Tail(q)) = Len(q) - 1
           /\ DOMAIN q = 1 .. Len(q) /\ DOMAIN Tail(q) = 1 .. Len(q) - 1
           /\ \A i \in DOMAIN Tail(q) : Tail(q)[i] = q[i + 1]
           /\ Head(q) = q[1]
OBVIOUS

\* What a sequence is after an append.
LEMMA AddLast ==
    ASSUME NEW q \in Seq(Writes), NEW w \in Writes
    PROVE  /\ Append(q, w) \in Seq(Writes)
           /\ Len(q) \in Nat /\ Len(Append(q, w)) = Len(q) + 1
           /\ DOMAIN q = 1 .. Len(q) /\ DOMAIN Append(q, w) = 1 .. Len(q) + 1
           /\ Append(q, w)[Len(q) + 1] = w
           /\ \A i \in DOMAIN q : Append(q, w)[i] = q[i]
OBVIOUS

\* Their elements.
LEMMA TailElements ==
    ASSUME NEW q \in Seq(Writes), q # <<>>
    PROVE  ToSet(q) = {Head(q)} \cup ToSet(Tail(q))
<1>1. \A x \in ToSet(q) : x = Head(q) \/ x \in ToSet(Tail(q))
  <2>. SUFFICES ASSUME NEW i \in DOMAIN q PROVE q[i] = Head(q) \/ q[i] \in ToSet(Tail(q))
    BY DEF ToSet
  <2>1. CASE i = 1
    BY <2>1, TakeHead
  <2>2. CASE i # 1
    <3>1. i - 1 \in DOMAIN Tail(q) /\ Tail(q)[i - 1] = q[i]
      BY <2>2, TakeHead
    <3>. QED
      BY <3>1 DEF ToSet
  <2>. QED
    BY <2>1, <2>2
<1>2. \A x \in ToSet(Tail(q)) : x \in ToSet(q)
  <2>. SUFFICES ASSUME NEW i \in DOMAIN Tail(q) PROVE Tail(q)[i] \in ToSet(q)
    BY DEF ToSet
  <2>1. i + 1 \in DOMAIN q /\ Tail(q)[i] = q[i + 1]
    BY TakeHead
  <2>. QED
    BY <2>1 DEF ToSet
<1>3. Head(q) \in ToSet(q)
  <2>1. 1 \in DOMAIN q /\ Head(q) = q[1]
    BY TakeHead
  <2>. QED
    BY <2>1 DEF ToSet
<1>. QED
    BY <1>1, <1>2, <1>3

\* The elements after an append.
LEMMA AppendElements ==
    ASSUME NEW q \in Seq(Writes), NEW w \in Writes
    PROVE  ToSet(Append(q, w)) = ToSet(q) \cup {w}
<1>1. \A x \in ToSet(Append(q, w)) : x = w \/ x \in ToSet(q)
  <2>. SUFFICES ASSUME NEW i \in DOMAIN Append(q, w)
                PROVE  Append(q, w)[i] = w \/ Append(q, w)[i] \in ToSet(q)
    BY DEF ToSet
  <2>1. i = Len(q) + 1 \/ i \in DOMAIN q
    BY AddLast
  <2>. QED
    BY <2>1, AddLast DEF ToSet
<1>2. \A x \in ToSet(q) : x \in ToSet(Append(q, w))
  <2>. SUFFICES ASSUME NEW i \in DOMAIN q PROVE q[i] \in ToSet(Append(q, w))
    BY DEF ToSet
  <2>1. i \in DOMAIN Append(q, w) /\ Append(q, w)[i] = q[i]
    BY AddLast
  <2>. QED
    BY <2>1 DEF ToSet
<1>3. w \in ToSet(Append(q, w))
  <2>1. Len(q) + 1 \in DOMAIN Append(q, w) /\ Append(q, w)[Len(q) + 1] = w
    BY AddLast
  <2>. QED
    BY <2>1 DEF ToSet
<1>. QED
    BY <1>1, <1>2, <1>3

\* The empty sequence has no elements.
LEMMA NoElements == ToSet(<<>>) = {} /\ <<>> \in Seq(Writes)
BY DEF ToSet

\* A thread changes what it does, and nothing else that Busy tells.
LEMMA BusyStep ==
    ASSUME Control, NEW t \in Threads, NEW job \in Jobs, doing' = [doing EXCEPT ![t] = job],
           socket' = socket, emitted' \in {emitted, emitted + 1},
           job.at \in {"enqueue", "fail", "signal", "abort", "recede", "disconnect", "callback"} =>
               job.peer \in 1 .. socket,
           job.at = "enqueue" => job.write \in 1 .. emitted',
           job.at = "emit" => t \in {"run", "timer"}
    PROVE  /\ doing' \in [Threads -> Jobs] /\ Busy' /\ doing'[t] = job
           /\ \A u \in Threads : u # t => doing'[u] = doing[u]
           /\ emitted' = emitted /\ job.at # "emit" => Calls' <= MaxWrites
<1>1. doing \in [Threads -> Jobs] /\ emitted \in Nat /\ Calls <= MaxWrites
    BY DEF Control, TypeOK, HistoryOK
<1>2. \A u \in Threads : doing'[u] = IF u = t THEN job ELSE doing[u]
    BY <1>1
<1>3. Busy'
    BY <1>1, <1>2 DEF Control, Busy, JobOK
<1>4. ASSUME emitted' = emitted, job.at # "emit" PROVE Calls' <= MaxWrites
  <2>1. "run" \in Threads /\ "timer" \in Threads
    BY DEF Threads
  <2>2. /\ doing'["run"].at = "emit" => doing["run"].at = "emit"
        /\ doing'["timer"].at = "emit" => doing["timer"].at = "emit"
    BY <2>1, <1>2, <1>4
  <2>. QED
    BY <2>2, <1>1, <1>4 DEF Calls, Waits
<1>. QED
    BY <1>1, <1>2, <1>3, <1>4

\* Lifetime.Cancel, Writes.Stop and the close of the stream, for a peer that
\* was marked and not closed.
LEMMA CloseMarkedTypes ==
    ASSUME Control, NEW g \in 1 .. socket, g \in disposed', g \notin closed \cup lost,
           disposed \subseteq disposed', disposed' \in SUBSET (1 .. socket), socket' = socket,
           CloseMarked(g)
    PROVE  /\ closed' \in SUBSET (disposed' \cap stopped')
           /\ lost' \in SUBSET (disposed' \ closed')
           /\ stopped' \in SUBSET (1 .. socket)
           /\ queue' \in [Peers -> Seq(Writes)]
           /\ completion' \in [Writes -> {"none", "pending", "ok", "failed"}]
           /\ Queues'
           /\ closed' \subseteq closed \cup {g} /\ lost' \subseteq lost \cup {g}
<1>0. /\ closed \in SUBSET (disposed \cap stopped) /\ lost \in SUBSET (disposed \ closed)
      /\ stopped \in SUBSET (1 .. socket) /\ queue \in [Peers -> Seq(Writes)]
      /\ completion \in [Writes -> {"none", "pending", "ok", "failed"}] /\ Queues
    BY DEF Control, TypeOK
<1>1. CASE LifetimeDisposed(g)
  <2>1. /\ lost' = lost \cup {g} /\ closed' = closed /\ stopped' = stopped
        /\ queue' = queue /\ completion' = completion
    BY <1>1 DEF CloseMarked
  <2>2. Queues'
    BY <2>1, <1>0 DEF Queues
  <2>. QED
    BY <2>1, <2>2, <1>0
<1>2. CASE ~LifetimeDisposed(g)
  <2>1. /\ closed' = closed \cup {g} /\ lost' = lost /\ stopped' = stopped \cup {g}
        /\ queue' = [queue EXCEPT ![g] = <<>>]
        /\ completion' = [w \in Writes |->
               IF w \in ToSet(queue[g]) /\ completion[w] = "pending" THEN "failed" ELSE completion[w]]
    BY <1>2 DEF CloseMarked, Stop, Completes
  <2>2. queue' \in [Peers -> Seq(Writes)]
    BY <2>1, <1>0, NoElements
  <2>3. completion' \in [Writes -> {"none", "pending", "ok", "failed"}]
    BY <2>1, <1>0
  <2>4. Queues'
    BY <2>1, <1>0 DEF Queues
  <2>. QED
    BY <2>1, <2>2, <2>3, <2>4, <1>0
<1>. QED
    BY <1>1, <1>2

\* Abort in one step.
LEMMA AbortTypes ==
    ASSUME Control, NEW g \in 1 .. socket, Abort(g), UNCHANGED <<doing, socket, emitted>>
    PROVE  /\ disposed' \in SUBSET (1 .. socket) /\ disposed \subseteq disposed' /\ g \in disposed'
           /\ closed' \in SUBSET (disposed' \cap stopped')
           /\ lost' \in SUBSET (disposed' \ closed')
           /\ stopped' \in SUBSET (1 .. socket)
           /\ queue' \in [Peers -> Seq(Writes)]
           /\ completion' \in [Writes -> {"none", "pending", "ok", "failed"}]
           /\ Busy' /\ OneCloses' /\ Queues'
<1>1. CASE g \in disposed
    BY <1>1 DEF Abort, Control, TypeOK, Busy, JobOK, OneCloses, Aborting, Queues
<1>2. CASE g \notin disposed
  <2>1. disposed' = disposed \cup {g} /\ CloseMarked(g)
    BY <1>2 DEF Abort
  <2>2. disposed' \in SUBSET (1 .. socket) /\ g \notin closed \cup lost
    BY <2>1, <1>2 DEF Control, TypeOK
  <2>3. /\ closed' \in SUBSET (disposed' \cap stopped')
        /\ lost' \in SUBSET (disposed' \ closed')
        /\ stopped' \in SUBSET (1 .. socket)
        /\ queue' \in [Peers -> Seq(Writes)]
        /\ completion' \in [Writes -> {"none", "pending", "ok", "failed"}]
        /\ Queues'
        /\ closed' \subseteq closed \cup {g} /\ lost' \subseteq lost \cup {g}
    BY <2>1, <2>2, CloseMarkedTypes
  <2>4. OneCloses'
    BY <2>1, <2>3, <1>2 DEF Control, OneCloses, Aborting
  <2>5. Busy'
    BY DEF Control, Busy, JobOK
  <2>. QED
    BY <2>1, <2>2, <2>3, <2>4, <2>5
<1>. QED
    BY <1>1, <1>2

\* The first step of Abort by another thread.
LEMMA MarkTypes ==
    ASSUME Control, NEW t \in Threads, ~Aborting(t), NEW g \in 1 .. socket,
           NEW at \in {"abort", "recede", "disconnect", "callback"},
           NEW next \in {Idle, At("cancelled")}, Mark(t, g, at, next),
           UNCHANGED <<socket, emitted, closed, lost>>
    PROVE  /\ disposed' \in SUBSET (1 .. socket) /\ disposed \subseteq disposed'
           /\ doing' \in [Threads -> Jobs] /\ Busy' /\ OneCloses' /\ Calls' <= MaxWrites
<1>0. /\ doing \in [Threads -> Jobs] /\ disposed \in SUBSET (1 .. socket) /\ g \in Peers
      /\ closed \subseteq disposed /\ lost \subseteq disposed
    BY DEF Control, TypeOK, Peers
<1>1. CASE g \in disposed
  <2>1. doing' = [doing EXCEPT ![t] = next] /\ disposed' = disposed
    BY <1>1 DEF Mark
  <2>2. next \in Jobs /\ next.at \in {"idle", "cancelled"}
    BY JobTypes
  <2>3. /\ doing' \in [Threads -> Jobs] /\ Busy' /\ doing'[t] = next /\ Calls' <= MaxWrites
        /\ \A u \in Threads : u # t => doing'[u] = doing[u]
    BY <2>1, <2>2, BusyStep
  <2>4. OneCloses'
    BY <2>1, <2>2, <2>3 DEF Control, OneCloses, Aborting
  <2>. QED
    BY <2>1, <2>3, <2>4, <1>0
<1>2. CASE g \notin disposed
  <2>. DEFINE job == [at |-> at, write |-> 0, peer |-> g]
  <2>1. doing' = [doing EXCEPT ![t] = job] /\ disposed' = disposed \cup {g}
    BY <1>2 DEF Mark
  <2>2. job \in Jobs /\ job.at = at /\ job.peer = g
    BY <1>0 DEF Jobs
  <2>. HIDE DEF job
  <2>3. /\ doing' \in [Threads -> Jobs] /\ Busy' /\ doing'[t] = job /\ Calls' <= MaxWrites
        /\ \A u \in Threads : u # t => doing'[u] = doing[u]
    BY <2>1, <2>2, BusyStep
  <2>4. OneCloses'
    BY <2>1, <2>2, <2>3, <1>0, <1>2 DEF Control, OneCloses, Aborting
  <2>. QED
    BY <2>1, <2>2, <2>3, <2>4, <1>0
<1>. QED
    BY <1>1, <1>2

\* TryEnqueue.
LEMMA TryEnqueueTypes ==
    ASSUME Control, NEW t \in Threads, ~Aborting(t), NEW w \in Writes, NEW g \in 1 .. socket,
           TryEnqueue(t, w, g), UNCHANGED <<socket, disposed, closed, lost, stopped, emitted>>
    PROVE  /\ completion' \in [Writes -> {"none", "pending", "ok", "failed"}]
           /\ violation' \in BOOLEAN
           /\ queue' \in [Peers -> Seq(Writes)]
           /\ sent' \in Seq(Writes)
           /\ doing' \in [Threads -> Jobs] /\ Busy' /\ OneCloses' /\ Queues' /\ Calls' <= MaxWrites
<1>0. /\ doing \in [Threads -> Jobs] /\ g \in Peers /\ queue \in [Peers -> Seq(Writes)]
      /\ completion \in [Writes -> {"none", "pending", "ok", "failed"}] /\ violation \in BOOLEAN
      /\ sent \in Seq(Writes)
    BY DEF Control, TypeOK, HistoryOK, Peers
<1>. DEFINE full == ~raw /\ g \notin stopped /\ Len(queue[g]) >= limit
<1>1. CASE g \in stopped \/ full
  <2>. DEFINE job == [at |-> IF full THEN "fail" ELSE "signal", write |-> 0, peer |-> g]
  <2>1. /\ doing' = [doing EXCEPT ![t] = job]
        /\ completion' = [completion EXCEPT ![w] = "failed"]
        /\ violation' = (violation \/ full)
        /\ queue' = queue /\ sent' = sent
    BY <1>1 DEF TryEnqueue
  <2>2. job \in Jobs /\ job.at \in {"fail", "signal"} /\ job.peer = g
    BY <1>0 DEF Jobs
  <2>. HIDE DEF job, full
  <2>3. /\ doing' \in [Threads -> Jobs] /\ Busy' /\ doing'[t] = job /\ Calls' <= MaxWrites
        /\ \A u \in Threads : u # t => doing'[u] = doing[u]
    BY <2>1, <2>2, BusyStep
  <2>4. OneCloses' /\ Queues'
    BY <2>1, <2>2, <2>3, <1>0 DEF Control, OneCloses, Aborting, Queues
  <2>5. violation' \in BOOLEAN
    BY <2>1
  <2>. QED
    BY <2>1, <2>2, <2>3, <2>4, <2>5, <1>0
<1>2. CASE ~(g \in stopped \/ full)
  <2>1. /\ doing' = [doing EXCEPT ![t] = Idle]
        /\ completion' = [completion EXCEPT ![w] = "pending"]
        /\ queue' = [queue EXCEPT ![g] = Append(@, w)]
        /\ sent' = Append(sent, w)
        /\ violation' = violation
    BY <1>2 DEF TryEnqueue
  <2>2. /\ doing' \in [Threads -> Jobs] /\ Busy' /\ doing'[t] = Idle /\ Calls' <= MaxWrites
        /\ \A u \in Threads : u # t => doing'[u] = doing[u]
    BY <2>1, JobTypes, BusyStep
  <2>3. OneCloses'
    BY <2>1, <2>2, JobTypes DEF Control, OneCloses, Aborting
  <2>4. queue' \in [Peers -> Seq(Writes)] /\ sent' \in Seq(Writes)
    BY <2>1, <1>0, AddLast
  <2>5. Queues'
    BY <2>1, <1>0, <1>2 DEF Control, Queues
  <2>. QED
    BY <2>1, <2>2, <2>3, <2>4, <2>5, <1>0
<1>. QED
    BY <1>1, <1>2

-----------------------------------------------------------------------------
(* Every action keeps Control. *)

\* Control is kept by connect.
LEMMA ConnectControl ==
    ASSUME Control, NEW t \in Threads, Connect(t)
    PROVE  Control'
<1>1. /\ run = "off" /\ run' = "top" /\ cancelled' = FALSE /\ explicit' = FALSE /\ violation' = FALSE
      /\ retries' = MaxRetries
      /\ UNCHANGED <<parserVars, peerVars, waitVars, threadVars, completion, emitted, owner, waited, late,
                     sent, disconnects>>
    BY DEF Connect
<1>2. cancelled' \in BOOLEAN /\ explicit' \in BOOLEAN /\ violation' \in BOOLEAN
    BY Zenon, <1>1
<1>3. retries' \in 0 .. MaxRetries
    BY <1>1
<1>4. TypeOK'
    BY <1>1, <1>2, <1>3 DEF Control, TypeOK
<1>5. HistoryOK' /\ Running'
    BY <1>1 DEF Control, HistoryOK, Calls, Waits, Running, Holding
<1>6. Busy' /\ OneCloses' /\ Queues'
    BY <1>1 DEF Control, Busy, JobOK, OneCloses, Aborting, Queues
<1>. QED
    BY <1>4, <1>5, <1>6 DEF Control

\* Who emits, and that there is a number for the write.
LEMMA NextWrite ==
    ASSUME Control, NEW t \in Threads, Queue(t)
    PROVE  /\ \/ doing[t].at = "emit" /\ t \in {"run", "timer"}
              \/ doing[t].at = "idle" /\ Calls < MaxWrites
           /\ emitted + 1 \in Writes
<1>0. "run" \in Threads /\ "timer" \in Threads /\ emitted \in Nat
    BY DEF Control, HistoryOK, Threads
<1>1. \/ doing[t].at = "emit" /\ t \in {"run", "timer"}
      \/ doing[t].at = "idle" /\ Calls < MaxWrites
    BY JobTypes DEF Queue, CanCall, Control, Busy, JobOK
<1>. QED
    BY <1>0, <1>1 DEF Control, HistoryOK, Calls, Waits, Writes

\* Control is kept by a write that joins the queue.
LEMMA QueueControl ==
    ASSUME Control, NEW t \in Threads, Queue(t)
    PROVE  Control'
<1>0. /\ "run" \in Threads /\ "timer" \in Threads /\ emitted \in Nat /\ socket \in Nat
      /\ doing \in [Threads -> Jobs]
    BY DEF Control, TypeOK, HistoryOK, Threads, Peers
<1>1. /\ \/ doing[t].at = "emit" /\ t \in {"run", "timer"}
         \/ doing[t].at = "idle" /\ Calls < MaxWrites
      /\ emitted + 1 \in Writes
    BY NextWrite
<1>. DEFINE job == IF Live THEN [at |-> "enqueue", write |-> emitted + 1, peer |-> socket] ELSE Idle
<1>2. /\ doing' = [doing EXCEPT ![t] = job] /\ emitted' = emitted + 1
      /\ UNCHANGED <<parserVars, run, peerVars, explicit, retries, drained, timed, sent, disconnects>>
      /\ owner' = [owner EXCEPT ![emitted + 1] = t]
    BY DEF Queue
<1>3. /\ job \in Jobs /\ job.at \in {"idle", "enqueue"}
      /\ job.at = "enqueue" => job.peer \in 1 .. socket /\ job.write = emitted + 1
  <2>1. CASE Live
    BY <2>1, <1>0, <1>1 DEF Jobs, Live, Control, TypeOK
  <2>2. CASE ~Live
    BY <2>2, JobTypes
  <2>. QED
    BY <2>1, <2>2
<1>. HIDE DEF job
<1>4. /\ doing' \in [Threads -> Jobs] /\ Busy' /\ doing'[t] = job
      /\ \A u \in Threads : u # t => doing'[u] = doing[u]
  <2>1. /\ job.at \in {"enqueue", "fail", "signal", "abort", "recede", "disconnect", "callback"} =>
               job.peer \in 1 .. socket
        /\ job.at = "enqueue" => job.write \in 1 .. emitted'
    BY <1>0, <1>2, <1>3
  <2>2. socket' = socket /\ emitted' \in {emitted, emitted + 1}
    BY <1>2
  <2>. QED
    BY <2>1, <2>2, <1>0, <1>2, <1>3, BusyStep
<1>5. handling' \in [Threads -> {"none", "failure", "refusal"}]
  <2>1. handling' = handling \/ handling' = [handling EXCEPT ![t] = "refusal"]
    BY DEF Queue
  <2>. QED
    BY <2>1 DEF Control, TypeOK
<1>6. OneCloses'
    BY <1>2, <1>3, <1>4 DEF Control, OneCloses, Aborting
<1>7. Calls' <= MaxWrites
  <2>1. \A u \in {"run", "timer"} : doing'[u].at = "emit" => u # t /\ doing[u].at = "emit"
    BY <1>0, <1>3, <1>4
  <2>2. CASE doing[t].at = "emit" /\ t \in {"run", "timer"}
    BY <2>1, <2>2, <1>0, <1>2 DEF Control, HistoryOK, Calls, Waits
  <2>3. CASE Calls < MaxWrites
    BY <2>1, <2>3, <1>0, <1>2 DEF Calls, Waits
  <2>. QED
    BY <2>2, <2>3, <1>1
<1>8. /\ cancelled' \in BOOLEAN /\ violation' \in BOOLEAN
      /\ pending' \in Seq(Writes) /\ (raw \/ Len(pending') <= limit)
      /\ completion' \in [Writes -> {"none", "pending", "ok", "failed"}]
      /\ waited' \in SUBSET (1 .. emitted') /\ late' \in SUBSET (1 .. emitted')
  <2>0. /\ cancelled \in BOOLEAN /\ violation \in BOOLEAN
        /\ pending \in Seq(Writes) /\ (raw \/ Len(pending) <= limit) /\ limit \in Nat
        /\ completion \in [Writes -> {"none", "pending", "ok", "failed"}]
        /\ waited \in SUBSET (1 .. emitted) /\ late \in SUBSET (1 .. emitted)
    /\ disconnects \in Nat
    BY DEF Control, TypeOK, HistoryOK
  <2>1. CASE UNCHANGED <<cancelled, violation, pending, completion, waited, late>>
    BY <2>1, <2>0, <1>0, <1>2
  <2>2. CASE /\ completion' = [completion EXCEPT ![emitted + 1] = "failed"]
             /\ UNCHANGED <<cancelled, violation, pending, waited, late>>
    <3>1. completion' \in [Writes -> {"none", "pending", "ok", "failed"}]
      BY <2>0, <2>2
    <3>. QED
      BY <3>1, <2>2, <2>0, <1>0, <1>2
  <2>4. CASE /\ completion' = [completion EXCEPT ![emitted + 1] = "failed"]
             /\ violation' = TRUE /\ cancelled' = TRUE
             /\ UNCHANGED <<pending, waited, late>>
    <3>1. violation' \in BOOLEAN /\ cancelled' \in BOOLEAN
      BY Zenon, <2>4
    <3>2. completion' \in [Writes -> {"none", "pending", "ok", "failed"}]
      BY <2>0, <2>4
    <3>. QED
      BY <3>1, <3>2, <2>4, <2>0, <1>0, <1>2
  <2>3. CASE /\ ~OverLimit /\ Wait(emitted + 1)
             /\ completion' = [completion EXCEPT ![emitted + 1] = "pending"]
             /\ waited' = waited \cup {emitted + 1}
             /\ late' = IF run = "ending" THEN late \cup {emitted + 1} ELSE late
             /\ UNCHANGED <<cancelled, violation>>
    <3>1. pending' = Append(pending, emitted + 1)
      BY <2>3 DEF Wait
    <3>2. pending' \in Seq(Writes) /\ Len(pending') = Len(pending) + 1 /\ Len(pending) \in Nat
      BY <3>1, <2>0, <1>1, AddLast
    <3>3. raw \/ Len(pending') <= limit
      BY <3>2, <2>0, <2>3 DEF OverLimit
    <3>4. completion' \in [Writes -> {"none", "pending", "ok", "failed"}]
      BY <2>0, <2>3
    <3>5. waited' \in SUBSET (1 .. emitted') /\ late' \in SUBSET (1 .. emitted')
      BY <2>0, <2>3, <1>0, <1>2
    <3>. QED
      BY <3>2, <3>3, <3>4, <3>5, <2>3, <2>0
  <2>. QED
    BY <2>1, <2>2, <2>3, <2>4 DEF Queue
<1>9. owner' \in [Writes -> Threads] /\ emitted' \in 0 .. MaxWrites
    BY <1>0, <1>1, <1>2 DEF Control, HistoryOK, Writes
<1>10. TypeOK'
    BY <1>2, <1>4, <1>5, <1>8 DEF Control, TypeOK
<1>11. HistoryOK'
    BY <1>2, <1>7, <1>8, <1>9 DEF Control, HistoryOK
<1>12. Running' /\ Queues'
    BY <1>2 DEF Control, Running, Queues
<1>. QED
    BY <1>4, <1>6, <1>10, <1>11, <1>12 DEF Control

\* Control is kept by a write that goes to the pump.
LEMMA EnqueueControl ==
    ASSUME Control, NEW t \in Threads, Enqueue(t)
    PROVE  Control'
<1>0. ~Aborting(t) /\ doing[t].peer \in 1 .. socket /\ doing[t].write \in Writes
    BY DEF Enqueue, Control, Busy, JobOK, HistoryOK, Writes, Aborting
<1>1. /\ TryEnqueue(t, doing[t].write, doing[t].peer)
      /\ UNCHANGED <<parserVars, run, socket, signaled, disposed, closed, lost, stopped, cancelled,
                     explicit, retries, waitVars, handling, timed, emitted, owner, waited, late,
                     disconnects>>
    BY DEF Enqueue
<1>2. /\ completion' \in [Writes -> {"none", "pending", "ok", "failed"}] /\ violation' \in BOOLEAN
      /\ queue' \in [Peers -> Seq(Writes)] /\ sent' \in Seq(Writes)
      /\ doing' \in [Threads -> Jobs] /\ Busy' /\ OneCloses' /\ Queues' /\ Calls' <= MaxWrites
    BY <1>0, <1>1, TryEnqueueTypes
<1>3. TypeOK'
    BY <1>1, <1>2 DEF Control, TypeOK
<1>4. HistoryOK' /\ Running'
    BY <1>1, <1>2 DEF Control, HistoryOK, Running
<1>. QED
    BY <1>2, <1>3, <1>4 DEF Control

\* Control is kept by a thread that marks a peer.
LEMMA MarkControl ==
    ASSUME Control, NEW t \in Threads, ~Aborting(t), NEW g \in 1 .. socket,
           NEW at \in {"abort", "recede", "disconnect", "callback"},
           NEW next \in {Idle, At("cancelled")}, Mark(t, g, at, next),
           violation' \in BOOLEAN, signaled' \in SUBSET (1 .. socket),
           handling' \in [Threads -> {"none", "failure", "refusal"}], timed' \in 0 .. socket,
           UNCHANGED <<parserVars, run, socket, closed, lost, stopped, queue, cancelled, explicit, retries,
                       waitVars, completion, histVars>>
    PROVE  Control'
<1>1. /\ disposed' \in SUBSET (1 .. socket) /\ disposed \subseteq disposed'
      /\ doing' \in [Threads -> Jobs] /\ Busy' /\ OneCloses' /\ Calls' <= MaxWrites
    BY MarkTypes
<1>2. TypeOK'
    BY <1>1 DEF Control, TypeOK
<1>3. HistoryOK' /\ Running' /\ Queues'
    BY <1>1 DEF Control, HistoryOK, Running, Queues
<1>. QED
    BY <1>1, <1>2, <1>3 DEF Control

\* Control is kept by a thread that goes on without a peer.
LEMMA GoControl ==
    ASSUME Control, NEW t \in Threads, NEW at \in {"idle", "cancel", "cancelled"},
           doing' = [doing EXCEPT ![t] = At(at)],
           cancelled' \in BOOLEAN, explicit' \in BOOLEAN, disconnects' \in Nat,
           UNCHANGED <<parserVars, run, peerVars, violation, retries, waitVars, handling, timed, completion,
                       emitted, owner, waited, late, sent>>
    PROVE  Control'
<1>1. At(at) \in Jobs /\ At(at).at = at
    BY JobTypes
<1>2. /\ doing' \in [Threads -> Jobs] /\ Busy' /\ doing'[t] = At(at) /\ Calls' <= MaxWrites
      /\ \A u \in Threads : u # t => doing'[u] = doing[u]
    BY <1>1, BusyStep
<1>3. OneCloses'
    BY <1>1, <1>2 DEF Control, OneCloses, Aborting
<1>4. TypeOK'
    BY <1>2 DEF Control, TypeOK
<1>5. HistoryOK' /\ Running' /\ Queues'
    BY <1>2 DEF Control, HistoryOK, Running, Queues
<1>. QED
    BY <1>2, <1>3, <1>4, <1>5 DEF Control

\* Control is kept by the report of a failure.
LEMMA SignalFailureControl ==
    ASSUME Control, NEW t \in Threads, SignalFailure(t)
    PROVE  Control'
<1>. DEFINE g == doing[t].peer
            at == IF Publishes(t, g) THEN "abort" ELSE "recede"
            how == IF Publishes(t, g) /\ g \in disposed THEN "failure" ELSE handling[t]
<1>0. ~Aborting(t) /\ g \in 1 .. socket
    BY DEF SignalFailure, Control, Busy, JobOK, Aborting
<1>1. /\ Mark(t, g, at, Idle) /\ signaled' = signaled \cup {g}
      /\ handling' = [handling EXCEPT ![t] = how]
      /\ UNCHANGED <<parserVars, run, socket, closed, lost, stopped, queue, stateVars, waitVars, timed,
                     completion, histVars>>
    BY DEF SignalFailure
<1>2. at \in {"abort", "recede"} /\ how \in {"none", "failure", "refusal"}
    BY DEF Control, TypeOK
<1>. HIDE DEF at, how, g
<1>3. /\ handling' \in [Threads -> {"none", "failure", "refusal"}] /\ timed' \in 0 .. socket
      /\ signaled' \in SUBSET (1 .. socket) /\ violation' \in BOOLEAN
    BY <1>0, <1>1, <1>2 DEF Control, TypeOK
<1>. QED
    BY <1>0, <1>1, <1>2, <1>3, MarkControl

\* Control is kept by disconnect.
LEMMA DisconnectControl ==
    ASSUME Control, NEW t \in Threads, Disconnect(t)
    PROVE  Control'
<1>. DEFINE at == IF cancelled THEN "cancelled" ELSE "cancel"
<1>1. /\ explicit' = TRUE /\ cancelled' = TRUE /\ disconnects' = disconnects + 1
      /\ doing' = [doing EXCEPT ![t] = At(at)]
      /\ UNCHANGED <<parserVars, run, peerVars, violation, retries, waitVars, handling, timed, completion,
                     emitted, owner, waited, late, sent>>
    BY DEF Disconnect
<1>2. explicit' \in BOOLEAN /\ cancelled' \in BOOLEAN
    BY Zenon, <1>1
<1>3. disconnects' \in Nat /\ at \in {"idle", "cancel", "cancelled"}
    BY <1>1 DEF Control, HistoryOK
<1>. HIDE DEF at
<1>. QED
    BY <1>1, <1>2, <1>3, GoControl

\* Control is kept by the callback of Cancel.
LEMMA CancelCallbackControl ==
    ASSUME Control, NEW t \in Threads, CancelCallback(t)
    PROVE  Control'
<1>1. /\ ~Aborting(t)
      /\ UNCHANGED <<parserVars, run, socket, signaled, closed, lost, stopped, queue, stateVars, waitVars,
                     handling, timed, completion, histVars>>
    BY DEF CancelCallback, Aborting
<1>2. /\ cancelled' \in BOOLEAN /\ explicit' \in BOOLEAN /\ violation' \in BOOLEAN
      /\ signaled' \in SUBSET (1 .. socket) /\ disconnects' \in Nat
      /\ handling' \in [Threads -> {"none", "failure", "refusal"}] /\ timed' \in 0 .. socket
    BY <1>1 DEF Control, TypeOK, HistoryOK
<1>3. CASE run \in Registered
  <2>1. Mark(t, socket, "callback", At("cancelled"))
    BY <1>3 DEF CancelCallback
  <2>2. socket \in 1 .. socket
    BY <1>3 DEF Control, Running, TypeOK, Peers, Registered, Holding
  <2>. QED
    BY <2>1, <2>2, <1>1, <1>2, MarkControl
<1>4. CASE run \notin Registered
  <2>1. doing' = [doing EXCEPT ![t] = At("cancelled")] /\ disposed' = disposed
    BY <1>4 DEF CancelCallback
  <2>. QED
    BY <2>1, <1>1, <1>2, GoControl
<1>. QED
    BY <1>3, <1>4

\* Control is kept by the abort of disconnect.
LEMMA AbortSocketControl ==
    ASSUME Control, NEW t \in Threads, AbortSocket(t)
    PROVE  Control'
<1>1. /\ ~Aborting(t)
      /\ UNCHANGED <<parserVars, run, socket, signaled, closed, lost, stopped, queue, stateVars, waitVars,
                     handling, timed, completion, histVars>>
    BY DEF AbortSocket, Aborting
<1>2. /\ cancelled' \in BOOLEAN /\ explicit' \in BOOLEAN /\ violation' \in BOOLEAN
      /\ signaled' \in SUBSET (1 .. socket) /\ disconnects' \in Nat
      /\ handling' \in [Threads -> {"none", "failure", "refusal"}] /\ timed' \in 0 .. socket
    BY <1>1 DEF Control, TypeOK, HistoryOK
<1>3. CASE socket # 0
  <2>1. Mark(t, socket, "disconnect", Idle)
    BY <1>3 DEF AbortSocket
  <2>2. socket \in 1 .. socket
    BY <1>3 DEF Control, TypeOK, Peers
  <2>. QED
    BY <2>1, <2>2, <1>1, <1>2, MarkControl
<1>4. CASE socket = 0
  <2>1. doing' = [doing EXCEPT ![t] = At("idle")] /\ disposed' = disposed
    BY <1>4 DEF AbortSocket, Idle
  <2>. QED
    BY <2>1, <1>1, <1>2, GoControl
<1>. QED
    BY <1>3, <1>4

\* Control is kept by the end of an abort.
LEMMA FinishAbortControl ==
    ASSUME Control, NEW t \in Threads, FinishAbort(t)
    PROVE  Control'
<1>. DEFINE throws == LifetimeDisposed(doing[t].peer)
            job == IF doing[t].at = "callback" /\ ~throws THEN At("cancelled") ELSE Idle
            how == IF doing[t].at = "abort" /\ ~throws THEN "failure" ELSE handling[t]
<1>0. /\ Aborting(t) /\ doing[t].peer \in 1 .. socket
      /\ doing[t].peer \in disposed /\ doing[t].peer \notin closed \cup lost
    BY DEF FinishAbort, Control, Busy, JobOK, OneCloses, Aborting
<1>1. /\ CloseMarked(doing[t].peer) /\ doing' = [doing EXCEPT ![t] = job]
      /\ handling' = [handling EXCEPT ![t] = how]
      /\ UNCHANGED <<parserVars, run, socket, signaled, disposed, stateVars, waitVars, timed, histVars>>
    BY DEF FinishAbort
<1>2. /\ closed' \in SUBSET (disposed' \cap stopped')
      /\ lost' \in SUBSET (disposed' \ closed')
      /\ stopped' \in SUBSET (1 .. socket)
      /\ queue' \in [Peers -> Seq(Writes)]
      /\ completion' \in [Writes -> {"none", "pending", "ok", "failed"}]
      /\ Queues'
      /\ closed' \subseteq closed \cup {doing[t].peer} /\ lost' \subseteq lost \cup {doing[t].peer}
  <2>1. disposed \in SUBSET (1 .. socket)
    BY DEF Control, TypeOK
  <2>. QED
    BY <2>1, <1>0, <1>1, CloseMarkedTypes
<1>3. job \in Jobs /\ job.at \in {"idle", "cancelled"} /\ how \in {"none", "failure", "refusal"}
    BY JobTypes DEF Control, TypeOK
<1>. HIDE DEF throws, job, how
<1>4. /\ doing' \in [Threads -> Jobs] /\ Busy' /\ doing'[t] = job /\ Calls' <= MaxWrites
      /\ \A u \in Threads : u # t => doing'[u] = doing[u]
    BY <1>1, <1>3, BusyStep
<1>5. OneCloses'
    BY <1>0, <1>1, <1>2, <1>3, <1>4 DEF Control, OneCloses, Aborting
<1>6. handling' \in [Threads -> {"none", "failure", "refusal"}]
    BY <1>1, <1>3 DEF Control, TypeOK
<1>7. TypeOK'
    BY <1>1, <1>2, <1>4, <1>6 DEF Control, TypeOK
<1>8. HistoryOK' /\ Running'
    BY <1>1, <1>4 DEF Control, HistoryOK, Running
<1>. QED
    BY <1>2, <1>4, <1>5, <1>7, <1>8 DEF Control

\* Control is kept by 'error' handlers that return.
LEMMA ErrorReturnsControl ==
    ASSUME Control, NEW t \in Threads, ErrorReturns(t)
    PROVE  Control'
<1>. DEFINE outer == IF handling[t] = "failure" \/ InApplication(t) THEN "none" ELSE "failure"
<1>1. /\ handling' = [handling EXCEPT ![t] = outer] /\ timed' \in {0, timed}
      /\ UNCHANGED <<parserVars, run, peerVars, stateVars, waitVars, doing, completion, histVars>>
    BY DEF ErrorReturns
<1>2. outer \in {"none", "failure"}
    OBVIOUS
<1>. HIDE DEF outer
<1>3. handling' \in [Threads -> {"none", "failure", "refusal"}] /\ timed' \in 0 .. socket
    BY <1>1, <1>2 DEF Control, TypeOK, Peers
<1>. QED
    BY <1>1, <1>3, JustGoesControl DEF Control, TypeOK, Running

\* Control is kept by a handler that emits.
LEMMA HandlerEmitsControl ==
    ASSUME Control, NEW t \in {"run", "timer"}, HandlerEmits(t)
    PROVE  Control'
<1>0. /\ t \in Threads /\ "run" \in Threads /\ "timer" \in Threads
      /\ doing[t].at = "idle" /\ Calls < MaxWrites /\ doing \in [Threads -> Jobs]
    BY JobTypes DEF HandlerEmits, CanCall, Threads, Control, TypeOK
<1>1. /\ doing' = [doing EXCEPT ![t] = At("emit")]
      /\ UNCHANGED <<parserVars, run, peerVars, stateVars, waitVars, handling, timed, completion, histVars>>
    BY DEF HandlerEmits
<1>2. At("emit") \in Jobs /\ At("emit").at = "emit"
    BY JobTypes
<1>3. /\ doing' \in [Threads -> Jobs] /\ Busy' /\ doing'[t] = At("emit")
      /\ \A u \in Threads : u # t => doing'[u] = doing[u]
    BY <1>0, <1>1, <1>2, BusyStep
<1>4. OneCloses'
    BY <1>1, <1>2, <1>3 DEF Control, OneCloses, Aborting
<1>5. TypeOK'
    BY <1>1, <1>3 DEF Control, TypeOK
<1>6. Calls' <= MaxWrites
    BY <1>0, <1>1, <1>2, <1>3 DEF Control, HistoryOK, Calls, Waits
<1>7. HistoryOK' /\ Running' /\ Queues'
    BY <1>1, <1>6 DEF Control, HistoryOK, Running, Queues
<1>. QED
    BY <1>3, <1>4, <1>5, <1>7 DEF Control

\* Control is kept by an opened connection.
LEMMA OpensControl ==
    ASSUME Control, Opens
    PROVE  Control'
<1>1. /\ run = "opening" /\ run' = "drain" /\ socket' = socket + 1 /\ socket < MaxPeers
      /\ retries' = MaxRetries
      /\ UNCHANGED <<parserVars, signaled, disposed, closed, lost, stopped, queue, cancelled, explicit,
                     violation, waitVars, threadVars, completion, histVars>>
    BY DEF Opens, Goes
<1>2. socket' \in Peers /\ socket \in Nat /\ 1 .. socket \subseteq 1 .. socket' /\ retries' \in 0 .. MaxRetries
    BY <1>1 DEF Control, TypeOK, Peers
<1>3. TypeOK'
    BY <1>1, <1>2 DEF Control, TypeOK, Holding
<1>4. HistoryOK' /\ OneCloses'
    BY <1>1 DEF Control, HistoryOK, Calls, Waits, OneCloses, Aborting
<1>5. Busy' /\ Queues'
    BY <1>1, <1>2 DEF Control, Busy, JobOK, Queues, Peers
<1>6. Running'
    BY <1>1, <1>2 DEF Control, Running, Holding, Peers
<1>. QED
    BY <1>3, <1>4, <1>5, <1>6 DEF Control

\* Control is kept by the start of the drain.
LEMMA DrainControl ==
    ASSUME Control, Drain
    PROVE  Control'
<1>1. /\ run' = "draining" /\ run = "drain" /\ drained' = pending /\ pending' = <<>>
      /\ UNCHANGED <<parserVars, peerVars, stateVars, threadVars, completion, histVars>>
    BY DEF Drain, Goes
<1>2. raw' \/ Len(pending') <= limit'
  <2>1. limit \in Nat /\ limit' = limit /\ Len(<<>>) = 0
    BY <1>1 DEF Control, TypeOK
  <2>. QED
    BY <2>1, <1>1
<1>3. TypeOK'
    BY <1>1, <1>2 DEF Control, TypeOK, Holding
<1>4. HistoryOK'
    BY <1>1, NoElements DEF Control, HistoryOK, Calls, Waits
<1>5. Running'
    BY <1>1 DEF Control, Running, Holding
<1>. QED
    BY <1>1, <1>3, <1>4, <1>5 DEF Control, Busy, JobOK, OneCloses, Aborting, Queues

\* Control is kept by each write of the drain.
LEMMA DrainNextControl ==
    ASSUME Control, DrainNext
    PROVE  Control'
<1>0. /\ "run" \in Threads /\ ~Aborting("run") /\ socket \in 1 .. socket
      /\ Head(drained) \in Writes /\ Tail(drained) \in Seq(Writes)
  <2>1. "run" \in Threads /\ ~Aborting("run")
    BY JobTypes DEF DrainNext, Threads, Aborting
  <2>2. socket # 0
    BY DEF DrainNext, Control, Running, Holding
  <2>3. socket \in 1 .. socket
    BY <2>2 DEF Control, TypeOK, Peers
  <2>4. Head(drained) \in Writes /\ Tail(drained) \in Seq(Writes)
    BY TakeHead DEF DrainNext, Control, HistoryOK
  <2>. QED
    BY <2>1, <2>3, <2>4
<1>1. /\ TryEnqueue("run", Head(drained), socket) /\ drained' = Tail(drained) /\ run = "draining"
      /\ UNCHANGED <<parserVars, run, socket, signaled, disposed, closed, lost, stopped, cancelled,
                     explicit, retries, pending, handling, timed, emitted, owner, waited, late,
                     disconnects>>
    BY DEF DrainNext
<1>2. /\ completion' \in [Writes -> {"none", "pending", "ok", "failed"}] /\ violation' \in BOOLEAN
      /\ queue' \in [Peers -> Seq(Writes)] /\ sent' \in Seq(Writes)
      /\ doing' \in [Threads -> Jobs] /\ Busy' /\ OneCloses' /\ Queues' /\ Calls' <= MaxWrites
    BY <1>0, <1>1, TryEnqueueTypes
<1>3. TypeOK'
    BY <1>1, <1>2 DEF Control, TypeOK
<1>4. HistoryOK' /\ Running'
    BY <1>0, <1>1, <1>2 DEF Control, HistoryOK, Running
<1>. QED
    BY <1>2, <1>3, <1>4 DEF Control

\* Abort by RunAsync.
LEMMA AbortControl ==
    ASSUME Control, socket # 0, Abort(socket),
           run' \in Holding \cup {"off", "top", "opening", "after", "delay", "destroy", "ending"},
           violation' \in BOOLEAN, Running',
           UNCHANGED <<parserVars, socket, signaled, cancelled, explicit, retries, waitVars, threadVars,
                       histVars>>
    PROVE  Control'
<1>1. socket \in 1 .. socket
    BY DEF Control, TypeOK, Peers
<1>2. /\ disposed' \in SUBSET (1 .. socket)
      /\ closed' \in SUBSET (disposed' \cap stopped')
      /\ lost' \in SUBSET (disposed' \ closed')
      /\ stopped' \in SUBSET (1 .. socket)
      /\ queue' \in [Peers -> Seq(Writes)]
      /\ completion' \in [Writes -> {"none", "pending", "ok", "failed"}]
      /\ Busy' /\ OneCloses' /\ Queues'
    BY <1>1, AbortTypes
<1>3. TypeOK'
    BY <1>2 DEF Control, TypeOK
<1>4. HistoryOK'
    BY DEF Control, HistoryOK, Calls, Waits
<1>. QED
    BY <1>2, <1>3, <1>4 DEF Control

\* Control is kept by the registration of the callback.
LEMMA RegisterControl ==
    ASSUME Control, Register
    PROVE  Control'
<1>1. /\ run = "connected" /\ run' \in {"dispose", "reading"} /\ socket # 0
      /\ UNCHANGED <<parserVars, socket, signaled, stateVars, waitVars, threadVars, histVars>>
    BY DEF Register, Goes, LoopOrEnd, Control, Running, Holding
<1>2. Running' /\ run' \in Holding
    BY <1>1 DEF Control, Running, Holding
<1>3. CASE cancelled
    BY <1>1, <1>2, <1>3, AbortControl DEF Register, Control, TypeOK
<1>4. CASE ~cancelled
    BY <1>1, <1>2, <1>4, JustGoesControl DEF Register, Control, TypeOK
<1>. QED
    BY <1>3, <1>4

\* Control is kept by a message timeout.
LEMMA MessageTimeoutControl ==
    ASSUME Control, MessageTimeout
    PROVE  Control'
<1>. DEFINE at == IF socket \in signaled THEN "recede" ELSE "abort"
<1>1. /\ Mark("timer", socket, at, Idle) /\ signaled' = signaled \cup {socket} /\ timed' = socket
      /\ "timer" \in Threads /\ ~Aborting("timer") /\ socket # 0
      /\ UNCHANGED <<parserVars, run, socket, closed, lost, stopped, queue, cancelled, explicit, retries,
                     waitVars, handling, completion, histVars>>
    BY JobTypes DEF MessageTimeout, Live, Threads, Aborting
<1>2. violation' \in BOOLEAN
    BY Zenon DEF MessageTimeout
<1>3. /\ socket \in Nat /\ signaled \in SUBSET (1 .. socket)
      /\ handling \in [Threads -> {"none", "failure", "refusal"}]
    BY DEF Control, TypeOK, Peers
<1>4. /\ socket \in 1 .. socket /\ signaled' \in SUBSET (1 .. socket) /\ timed' \in 0 .. socket
      /\ handling' \in [Threads -> {"none", "failure", "refusal"}]
    BY <1>1, <1>3
<1>5. at \in {"abort", "recede"}
    OBVIOUS
<1>. HIDE DEF at
<1>. QED
    BY <1>1, <1>2, <1>4, <1>5, MarkControl

\* Control is kept by the disposal of a peer.
LEMMA DisposeControl ==
    ASSUME Control, Dispose
    PROVE  Control'
<1>1. /\ run = "close" /\ run' = "after" /\ socket # 0 /\ Abort(socket)
      /\ UNCHANGED <<parserVars, socket, signaled, stateVars, waitVars, threadVars, histVars>>
    BY DEF Dispose, Goes, Control, Running, Holding
<1>2. Running'
    BY <1>1 DEF Control, Running, Holding
<1>. QED
    BY <1>1, <1>2, AbortControl DEF Control, TypeOK

\* Control is kept by giving up.
LEMMA GiveUpControl ==
    ASSUME Control, GiveUp
    PROVE  Control'
<1>1. /\ run \in {"destroy", "delay"} /\ run' = "ending" /\ pending' = <<>>
      /\ Completes(ToSet(pending), "failed")
      /\ UNCHANGED <<parserVars, peerVars, stateVars, drained, threadVars, histVars>>
    BY DEF GiveUp, Goes, FailPendingWrites
<1>2. raw' \/ Len(pending') <= limit'
  <2>1. limit \in Nat /\ limit' = limit /\ Len(<<>>) = 0
    BY <1>1 DEF Control, TypeOK
  <2>. QED
    BY <2>1, <1>1
<1>3. completion' \in [Writes -> {"none", "pending", "ok", "failed"}]
    BY <1>1 DEF Completes, Control, TypeOK
<1>4. TypeOK'
    BY <1>1, <1>2, <1>3 DEF Control, TypeOK
<1>5. HistoryOK'
    BY <1>1, NoElements DEF Control, HistoryOK, Calls, Waits
<1>6. Running'
    BY <1>1 DEF Control, Running, Holding
<1>. QED
    BY <1>1, <1>4, <1>5, <1>6 DEF Control, Busy, JobOK, OneCloses, Aborting, Queues

\* Control is kept by a write by the pump.
LEMMA PumpControl ==
    ASSUME Control, NEW g \in Peers, Pump(g)
    PROVE  Control'
<1>1. /\ queue[g] # <<>> /\ queue' = [queue EXCEPT ![g] = Tail(@)]
      /\ Completes({Head(queue[g])}, "ok")
      /\ UNCHANGED <<parserVars, run, socket, signaled, disposed, closed, lost, stopped, stateVars, waitVars,
                     threadVars, histVars>>
    BY DEF Pump
<1>2. Tail(queue[g]) \in Seq(Writes)
    BY <1>1, TakeHead DEF Control, TypeOK
<1>3. queue' \in [Peers -> Seq(Writes)] /\ \A h \in Peers : queue'[h] # <<>> => queue[h] # <<>>
    BY <1>1, <1>2 DEF Control, TypeOK
<1>4. completion' \in [Writes -> {"none", "pending", "ok", "failed"}]
    BY <1>1 DEF Completes, Control, TypeOK
<1>5. TypeOK'
    BY <1>1, <1>3, <1>4 DEF Control, TypeOK
<1>6. Queues'
    BY <1>1, <1>3 DEF Control, Queues
<1>. QED
    BY <1>1, <1>5, <1>6 DEF Control, HistoryOK, Calls, Waits, Busy, JobOK, Running, OneCloses, Aborting

\* Control is kept by a failing pump.
LEMMA PumpFailsControl ==
    ASSUME Control, NEW g \in Peers, PumpFails(g)
    PROVE  Control'
<1>0. g \in 1 .. socket /\ "pool" \in Threads /\ ~Aborting("pool")
    BY JobTypes DEF PumpFails, Control, Queues, TypeOK, Peers, Threads, Aborting
<1>1. /\ Stop(g) /\ Mark("pool", g, "recede", Idle) /\ signaled' = signaled \cup {g}
      /\ UNCHANGED <<parserVars, run, socket, closed, lost, stateVars, waitVars, handling, timed, histVars>>
    BY DEF PumpFails
<1>2. /\ disposed' \in SUBSET (1 .. socket) /\ disposed \subseteq disposed'
      /\ doing' \in [Threads -> Jobs] /\ Busy' /\ OneCloses' /\ Calls' <= MaxWrites
    BY <1>0, <1>1, MarkTypes
<1>3. /\ stopped' = stopped \cup {g} /\ queue' = [queue EXCEPT ![g] = <<>>]
      /\ completion' \in [Writes -> {"none", "pending", "ok", "failed"}]
    BY <1>1 DEF Stop, Completes, Control, TypeOK
<1>4. queue' \in [Peers -> Seq(Writes)] /\ stopped' \in SUBSET (1 .. socket) /\ Queues'
    BY <1>0, <1>1, <1>3, NoElements DEF Control, TypeOK, Queues
<1>5. TypeOK'
    BY <1>0, <1>1, <1>2, <1>3, <1>4 DEF Control, TypeOK
<1>6. HistoryOK' /\ Running'
    BY <1>1, <1>2 DEF Control, HistoryOK, Running
<1>. QED
    BY <1>2, <1>4, <1>5, <1>6 DEF Control

\* RunAsync goes on.
LEMMA RunControl ==
    ASSUME Control,
           \/ Top \/ OpenFails \/ Drained \/ Message \/ HandlerReturns \/ ReadEnds \/ Unregister
           \/ Catch \/ TimerReturns \/ Decide \/ Returns \/ Retry
    PROVE  Control'
<1>. USE DEF Goes, JustGoes
<1>0. Control /\ Running /\ TypeOK
    BY DEF Control
<1>1. CASE Top
    BY <1>0, <1>1, JustGoesControl DEF Top, TypeOK, Running, Holding
<1>2. CASE OpenFails
    BY <1>0, <1>2, JustGoesControl DEF OpenFails, TypeOK, Running, Holding
<1>3. CASE Drained
    BY <1>0, <1>3, JustGoesControl DEF Drained, TypeOK, Running, Holding
<1>4. CASE Message
    BY <1>0, <1>4, JustGoesControl DEF Message, TypeOK, Running, Holding
<1>5. CASE HandlerReturns
    BY <1>0, <1>5, JustGoesControl DEF HandlerReturns, LoopOrEnd, TypeOK, Running, Holding
<1>6. CASE ReadEnds
    BY <1>0, <1>6, JustGoesControl DEF ReadEnds, TypeOK, Running, Holding
<1>7. CASE Unregister
    BY <1>0, <1>7, JustGoesControl DEF Unregister, TypeOK, Running, Holding
<1>8. CASE Decide
  <2>1. run' \in {"destroy", "delay"} /\ (run' = "delay" => retries > 0)
    BY <1>0, <1>8 DEF Decide, Final, TypeOK
  <2>. QED
    BY <2>1, <1>0, <1>8, JustGoesControl DEF Decide, TypeOK, Running, Holding
<1>9. CASE Returns
    BY <1>0, <1>9, JustGoesControl DEF Returns, TypeOK, Running, Holding
<1>10. CASE Retry
  <2>1. retries' \in 0 .. MaxRetries
    BY <1>0, <1>10 DEF Retry, TypeOK, Running
  <2>. QED
    BY <2>1, <1>0, <1>10, JustGoesControl DEF Retry, TypeOK, Running, Holding
<1>11. CASE Catch
  <2>1. /\ run = "throwing" /\ run' = "close" /\ signaled' = signaled \cup {socket}
        /\ violation' \in {violation, violation \/ ~raw}
        /\ handling' = handling \/ handling' = [handling EXCEPT !["run"] = "failure"]
        /\ UNCHANGED <<parserVars, socket, disposed, closed, lost, stopped, queue, cancelled, explicit,
                       retries, waitVars, doing, timed, completion, histVars>>
    BY <1>11 DEF Catch
  <2>a. violation \in BOOLEAN /\ raw \in BOOLEAN
    BY <1>0 DEF TypeOK
  <2>b. violation' \in BOOLEAN
    BY <2>1, <2>a, Zenon
  <2>c. socket \in Nat /\ socket # 0
    BY <2>1, <1>0 DEF TypeOK, Running, Holding, Peers
  <2>2. violation' \in BOOLEAN /\ socket \in 1 .. socket
    BY <2>b, <2>c
  <2>3. /\ handling' \in [Threads -> {"none", "failure", "refusal"}]
        /\ signaled' \in SUBSET (1 .. socket)
    BY <2>1, <2>2, <1>0 DEF TypeOK
  <2>. QED
    BY <2>1, <2>2, <2>3, <1>0, JustGoesControl DEF TypeOK, Running, Holding
<1>12. CASE TimerReturns
  <2>1. /\ timed' = 0
        /\ UNCHANGED <<parserVars, run, peerVars, stateVars, waitVars, doing, handling, completion,
                       histVars>>
    BY <1>12 DEF TimerReturns
  <2>2. timed' \in 0 .. socket
    BY <2>1, <1>0 DEF TypeOK, Peers
  <2>. QED
    BY <2>1, <2>2, <1>0, JustGoesControl DEF TypeOK, Running
<1>. QED
    BY <1>1, <1>2, <1>3, <1>4, <1>5, <1>6, <1>7, <1>8, <1>9, <1>10, <1>11, <1>12

\* Every step keeps Control.
LEMMA ControlInductive == Control /\ [Next]_vars => Control'
<1>. SUFFICES ASSUME Control, [Next]_vars PROVE Control'
    OBVIOUS
<1>1. CASE UNCHANGED vars
    BY <1>1, JustGoesControl DEF vars, Control, TypeOK, Running
<1>. QED
    BY <1>1, ConnectControl, QueueControl, EnqueueControl, SignalFailureControl, DisconnectControl,
       CancelCallbackControl, AbortSocketControl, FinishAbortControl, ErrorReturnsControl,
       HandlerEmitsControl, OpensControl, DrainControl, DrainNextControl,
       RegisterControl, MessageTimeoutControl, DisposeControl, GiveUpControl, PumpControl,
       PumpFailsControl, RunControl DEF Next

\* A client that was not connected yet satisfies Control.
LEMMA ControlInitially == Init => Control
<1>. SUFFICES ASSUME Init PROVE Control
    OBVIOUS
<1>1. <<>> \in Seq(Writes) /\ Len(<<>>) = 0 /\ "run" \in Threads /\ "timer" \in Threads /\ MaxRetries \in Nat /\ MaxWrites \in Nat
    BY DEF Threads
<1>2. doing = [t \in Threads |-> Idle] /\ Idle \in Jobs /\ Idle.at = "idle"
    BY JobTypes DEF Init
<1>3. queue \in [Peers -> Seq(Writes)] /\ doing \in [Threads -> Jobs] /\ \A t \in Threads : doing[t] = Idle
    BY <1>1, <1>2 DEF Init
<1>4. cancelled \in BOOLEAN /\ explicit \in BOOLEAN /\ violation \in BOOLEAN
    BY Zenon DEF Init
<1>5. (raw \/ Len(pending) <= limit) /\ retries \in 0 .. MaxRetries
    BY <1>1 DEF Init
<1>6. TypeOK
    BY <1>3, <1>4, <1>5 DEF Init, TypeOK
<1>7. HistoryOK
    BY <1>1, <1>2, <1>3 DEF Init, HistoryOK, Calls, Waits
<1>. QED
    BY <1>2, <1>3, <1>6, <1>7 DEF Init, Control, Busy, JobOK, Running, Holding, OneCloses, Aborting, Queues

-----------------------------------------------------------------------------
(***************************************************************************)
(* No connection outlives its RunAsync.                                    *)
(***************************************************************************)

\* DisposeAsync leaves no peer unmarked.
DisposedAreMarked == \A g \in 1 .. socket : LifetimeDisposed(g) => g \in disposed

\* A marked peer was closed or lost, or a thread is about to do it.
SomeoneCloses ==
    \A g \in disposed : g \in closed \cup lost \/ \E t \in Threads : Aborting(t) /\ doing[t].peer = g

\* A thread that aborts has a reason for it: a failure or a disconnect.
CauseOK(job) ==
    /\ job.at \in {"abort", "recede"} => job.peer \in signaled
    /\ job.at \in {"cancel", "callback", "cancelled", "disconnect"} => disconnects > 0

Causes ==
    /\ \A t \in Threads : CauseOK(doing[t])
    /\ \A g \in lost : g \in signaled \/ disconnects > 0

Survives == CallbackIsRegistered /\ DisposedAreMarked /\ SomeoneCloses /\ Causes

\* A step in which nothing is unmarked or reopened.
Grows ==
    /\ disposed \subseteq disposed' /\ closed \subseteq closed' /\ lost \subseteq lost'
    /\ signaled \subseteq signaled' /\ disconnects' \in Nat /\ disconnects <= disconnects'
    /\ \A g \in lost' \ lost : g \in signaled' \/ disconnects' > 0

\* A thread goes on: what it marks it will close, and what it was to close is
\* closed or lost.
GoesOn(t, job) ==
    /\ \A g \in disposed' \ disposed :
           job.at \in {"abort", "recede", "disconnect", "callback"} /\ job.peer = g
    /\ Aborting(t) => doing[t].peer \in closed' \cup lost'
    /\ job.at \in {"abort", "recede"} => job.peer \in signaled'
    /\ job.at \in {"cancel", "callback", "cancelled", "disconnect"} => disconnects' > 0

\* ...and it begins a callback only as it may.
LEMMA ThreadSurvives ==
    ASSUME Control, Survives, NEW t \in Threads, NEW job \in Jobs, doing' = [doing EXCEPT ![t] = job],
           run' = run, socket' = socket, Grows, GoesOn(t, job),
           job.at = "callback" => job.peer = socket /\ run \in Registered
    PROVE  Survives'
<1>1. doing \in [Threads -> Jobs] /\ disconnects \in Nat
    BY DEF Control, TypeOK, HistoryOK
<1>2. doing'[t] = job /\ \A u \in Threads : u # t => doing'[u] = doing[u]
    BY <1>1
<1>3. CallbackIsRegistered'
    BY <1>2 DEF Survives, CallbackIsRegistered
<1>4. DisposedAreMarked'
    BY DEF Survives, DisposedAreMarked, LifetimeDisposed, Grows
<1>5. SomeoneCloses'
  <2>. SUFFICES ASSUME NEW g \in disposed'
                PROVE  g \in closed' \cup lost' \/ \E u \in Threads : Aborting(u)' /\ doing'[u].peer = g
    BY DEF SomeoneCloses
  <2>1. CASE g \notin disposed
    BY <2>1, <1>2 DEF GoesOn, Aborting
  <2>2. CASE g \in closed \cup lost
    BY <2>2 DEF Grows
  <2>3. ASSUME NEW u \in Threads, Aborting(u), doing[u].peer = g
        PROVE  g \in closed' \cup lost' \/ (Aborting(u)' /\ doing'[u].peer = g)
    BY <2>3, <1>2 DEF GoesOn, Aborting
  <2>. QED
    BY <2>1, <2>2, <2>3 DEF Survives, SomeoneCloses
<1>6. Causes'
    BY <1>1, <1>2 DEF Survives, Causes, CauseOK, Grows, GoesOn
<1>. QED
    BY <1>3, <1>4, <1>5, <1>6 DEF Survives

\* Nobody's call goes on: what RunAsync marks it closes, and it leaves no peer
\* that is not marked and no callback.
LEMMA RunSurvives ==
    ASSUME Control, Survives, UNCHANGED <<socket, doing, lost, disconnects>>,
           disposed \subseteq disposed', closed \subseteq closed', signaled \subseteq signaled',
           disposed' \subseteq disposed \cup closed',
           run' \in Holding => run \in Holding,
           run \in Holding /\ run' \notin Holding => socket \in disposed',
           run \in Registered /\ run' \notin Registered => NoCallback
    PROVE  Survives'
<1>1. socket \in Nat
    BY DEF Control, TypeOK, Peers
<1>2. CallbackIsRegistered'
    BY DEF Survives, CallbackIsRegistered, NoCallback
<1>3. DisposedAreMarked'
    BY <1>1 DEF Survives, DisposedAreMarked, LifetimeDisposed
<1>4. SomeoneCloses'
    BY DEF Survives, SomeoneCloses, Aborting
<1>5. Causes'
    BY DEF Survives, Causes, CauseOK
<1>. QED
    BY <1>2, <1>3, <1>4, <1>5 DEF Survives

\* The first step of Abort by a thread that has a reason for it.
LEMMA MarkSurvives ==
    ASSUME Control, Survives, NEW t \in Threads, ~Aborting(t), NEW g \in 1 .. socket,
           NEW at \in {"abort", "recede", "disconnect", "callback"},
           NEW next \in {Idle, At("cancelled")}, Mark(t, g, at, next),
           UNCHANGED <<run, socket, closed, lost, disconnects>>, signaled \subseteq signaled',
           at \in {"abort", "recede"} => g \in signaled',
           at \in {"callback", "disconnect"} \/ next = At("cancelled") => disconnects > 0,
           at = "callback" => g = socket /\ run \in Registered
    PROVE  Survives'
<1>1. /\ doing \in [Threads -> Jobs] /\ disconnects \in Nat /\ g \in Peers
    BY DEF Control, TypeOK, HistoryOK, Peers
<1>2. CASE g \in disposed
  <2>1. doing' = [doing EXCEPT ![t] = next] /\ disposed' = disposed
    BY <1>2 DEF Mark
  <2>2. next \in Jobs /\ next.at \in {"idle", "cancelled"} /\ (next.at = "cancelled" => next # Idle)
    BY JobTypes
  <2>3. Grows /\ GoesOn(t, next)
    BY <2>1, <2>2, <1>1 DEF Grows, GoesOn
  <2>. QED
    BY <2>1, <2>2, <2>3, ThreadSurvives
<1>3. CASE g \notin disposed
  <2>. DEFINE job == [at |-> at, write |-> 0, peer |-> g]
  <2>1. doing' = [doing EXCEPT ![t] = job] /\ disposed' = disposed \cup {g}
    BY <1>3 DEF Mark
  <2>2. job \in Jobs /\ job.at = at /\ job.peer = g
    BY <1>1 DEF Jobs
  <2>. HIDE DEF job
  <2>3. Grows /\ GoesOn(t, job)
    BY <2>1, <2>2, <1>1 DEF Grows, GoesOn
  <2>. QED
    BY <2>1, <2>2, <2>3, ThreadSurvives
<1>. QED
    BY <1>2, <1>3

\* Abort by RunAsync, which holds the peer, closes it or finds it marked.
LEMMA AbortCloses ==
    ASSUME Control, run \in Holding, Abort(socket)
    PROVE  /\ disposed \subseteq disposed' /\ closed \subseteq closed' /\ lost' = lost
           /\ disposed' \subseteq disposed \cup closed' /\ socket \in disposed'
<1>1. ~LifetimeDisposed(socket)
    BY DEF LifetimeDisposed, Control, TypeOK, Peers
<1>. QED
    BY <1>1 DEF Abort, CloseMarked

\* A step of a thread that neither marks nor closes a peer.
LEMMA CallSurvives ==
    ASSUME Control, Survives, NEW t \in Threads, ~Aborting(t), NEW job \in Jobs,
           doing' = [doing EXCEPT ![t] = job],
           job.at \in {"idle", "emit", "enqueue", "fail", "signal"},
           UNCHANGED <<run, socket, signaled, disposed, closed, lost, disconnects>>
    PROVE  Survives'
<1>1. disconnects \in Nat
    BY DEF Control, HistoryOK
<1>2. Grows /\ GoesOn(t, job)
    BY <1>1 DEF Grows, GoesOn
<1>. QED
    BY <1>2, ThreadSurvives

\* What a thread does in Queue, and in TryEnqueue.
LEMMA QueueJob ==
    ASSUME Control, NEW t \in Threads, Queue(t)
    PROVE  \E job \in Jobs :
              /\ doing' = [doing EXCEPT ![t] = job] /\ job.at \in {"idle", "enqueue"}
              /\ ~Aborting(t)
<1>. DEFINE job == IF Live THEN [at |-> "enqueue", write |-> emitted + 1, peer |-> socket] ELSE Idle
<1>1. doing' = [doing EXCEPT ![t] = job]
    BY DEF Queue
<1>2. emitted + 1 \in Writes /\ socket \in Peers \cup {0}
    BY NextWrite DEF Control, TypeOK
<1>3. job \in Jobs /\ job.at \in {"idle", "enqueue"}
    BY <1>2, JobTypes
<1>4. ~Aborting(t)
    BY JobTypes DEF Queue, CanCall, Aborting
<1>. QED
    BY <1>1, <1>3, <1>4

LEMMA TryEnqueueJob ==
    ASSUME Control, NEW t \in Threads, NEW w, NEW g \in 1 .. socket, TryEnqueue(t, w, g)
    PROVE  \E job \in Jobs : doing' = [doing EXCEPT ![t] = job] /\ job.at \in {"idle", "fail", "signal"}
<1>1. g \in Peers /\ 0 \in Writes \cup {0}
    BY DEF Control, TypeOK, Peers
<1>. DEFINE job(at) == [at |-> at, write |-> 0, peer |-> g]
<1>2. \A at \in {"fail", "signal"} : job(at) \in Jobs /\ job(at).at = at
    BY <1>1 DEF Jobs
<1>3. \/ doing' = [doing EXCEPT ![t] = job("fail")] \/ doing' = [doing EXCEPT ![t] = job("signal")]
      \/ doing' = [doing EXCEPT ![t] = Idle]
    BY DEF TryEnqueue
<1>. HIDE DEF job
<1>. QED
    BY <1>2, <1>3, JobTypes

\* Every step keeps Survives.
LEMMA SurvivesInductive == Control /\ Survives /\ [Next]_vars => Survives'
<1>. SUFFICES ASSUME Control, Survives, [Next]_vars PROVE Survives'
    OBVIOUS
<1>0. /\ doing \in [Threads -> Jobs] /\ socket \in Nat /\ disconnects \in Nat
      /\ "run" \in Threads /\ "pool" \in Threads /\ "timer" \in Threads
    BY DEF Control, TypeOK, HistoryOK, Peers, Threads
<1>1. ASSUME NEW t \in Threads, Connect(t) PROVE Survives'
    BY <1>1, RunSurvives DEF Connect, Holding, Registered
<1>2. ASSUME NEW t \in Threads, Queue(t) PROVE Survives'
  <2>1. UNCHANGED <<run, socket, signaled, disposed, closed, lost, disconnects>>
    BY <1>2 DEF Queue
  <2>. QED
    BY <2>1, <1>2, QueueJob, CallSurvives
<1>3. ASSUME NEW t \in Threads, Enqueue(t) PROVE Survives'
  <2>1. /\ UNCHANGED <<run, socket, signaled, disposed, closed, lost, disconnects>>
        /\ TryEnqueue(t, doing[t].write, doing[t].peer) /\ ~Aborting(t)
    BY <1>3 DEF Enqueue, Aborting
  <2>2. doing[t].peer \in 1 .. socket
    BY <1>3 DEF Enqueue, Control, Busy, JobOK
  <2>. QED
    BY <2>1, <2>2, TryEnqueueJob, CallSurvives
<1>4. ASSUME NEW t \in Threads, SignalFailure(t) PROVE Survives'
  <2>. DEFINE g == doing[t].peer
              at == IF Publishes(t, g) THEN "abort" ELSE "recede"
  <2>1. /\ Mark(t, g, at, Idle) /\ signaled' = signaled \cup {g} /\ ~Aborting(t)
        /\ UNCHANGED <<run, socket, closed, lost, disconnects>>
    BY <1>4 DEF SignalFailure, Aborting
  <2>2. g \in 1 .. socket
    BY <1>4 DEF SignalFailure, Control, Busy, JobOK
  <2>3. at \in {"abort", "recede"}
    OBVIOUS
  <2>4. Idle # At("cancelled")
    BY JobTypes
  <2>. HIDE DEF at, g
  <2>. QED
    BY <2>1, <2>2, <2>3, <2>4, MarkSurvives
<1>5. ASSUME NEW t \in Threads, Disconnect(t) PROVE Survives'
  <2>. DEFINE job == At(IF cancelled THEN "cancelled" ELSE "cancel")
  <2>1. /\ doing' = [doing EXCEPT ![t] = job] /\ ~Aborting(t) /\ disconnects' = disconnects + 1
        /\ UNCHANGED <<run, socket, signaled, disposed, closed, lost>>
    BY <1>5, JobTypes DEF Disconnect, CanCall, Aborting
  <2>2. job \in Jobs /\ job.at \in {"cancel", "cancelled"}
    BY JobTypes
  <2>. HIDE DEF job
  <2>3. Grows /\ GoesOn(t, job)
    BY <2>1, <2>2, <1>0 DEF Grows, GoesOn
  <2>. QED
    BY <2>1, <2>2, <2>3, ThreadSurvives
<1>6. ASSUME NEW t \in Threads, CancelCallback(t) PROVE Survives'
  <2>1. /\ doing[t].at = "cancel" /\ ~Aborting(t) /\ disconnects > 0
        /\ UNCHANGED <<run, socket, signaled, closed, lost, disconnects>>
    BY <1>6 DEF CancelCallback, Aborting, Survives, Causes, CauseOK
  <2>2. CASE run \in Registered
    <3>1. Mark(t, socket, "callback", At("cancelled"))
      BY <2>2, <1>6 DEF CancelCallback
    <3>2. socket \in 1 .. socket
      BY <2>2, <1>0 DEF Control, Running, Registered, Holding
    <3>. QED
      BY <2>1, <2>2, <3>1, <3>2, MarkSurvives
  <2>3. CASE run \notin Registered
    <3>1. doing' = [doing EXCEPT ![t] = At("cancelled")] /\ disposed' = disposed
      BY <2>3, <1>6 DEF CancelCallback
    <3>2. At("cancelled") \in Jobs /\ At("cancelled").at = "cancelled"
      BY JobTypes
    <3>3. Grows /\ GoesOn(t, At("cancelled"))
      BY <2>1, <3>1, <3>2, <1>0 DEF Grows, GoesOn
    <3>. QED
      BY <2>1, <3>1, <3>2, <3>3, ThreadSurvives
  <2>. QED
    BY <2>2, <2>3
<1>7. ASSUME NEW t \in Threads, AbortSocket(t) PROVE Survives'
  <2>1. /\ doing[t].at = "cancelled" /\ ~Aborting(t) /\ disconnects > 0
        /\ UNCHANGED <<run, socket, signaled, closed, lost, disconnects>>
    BY <1>7 DEF AbortSocket, Aborting, Survives, Causes, CauseOK
  <2>2. CASE socket # 0
    <3>1. Mark(t, socket, "disconnect", Idle) /\ socket \in 1 .. socket
      BY <2>2, <1>7, <1>0 DEF AbortSocket
    <3>. QED
      BY <2>1, <3>1, MarkSurvives
  <2>3. CASE socket = 0
    <3>1. doing' = [doing EXCEPT ![t] = Idle] /\ disposed' = disposed
      BY <2>3, <1>7 DEF AbortSocket
    <3>. QED
      BY <2>1, <3>1, JobTypes, CallSurvives
  <2>. QED
    BY <2>2, <2>3
<1>8. ASSUME NEW t \in Threads, FinishAbort(t) PROVE Survives'
  <2>. DEFINE g == doing[t].peer
              job == IF doing[t].at = "callback" /\ ~LifetimeDisposed(g) THEN At("cancelled") ELSE Idle
  <2>1. /\ CloseMarked(g) /\ Aborting(t)
        /\ UNCHANGED <<run, socket, signaled, disposed, disconnects>>
    BY <1>8 DEF FinishAbort, Aborting
  <2>2. doing' = [doing EXCEPT ![t] = job]
    BY <1>8, <1>0 DEF FinishAbort
  <2>3. closed \subseteq closed' /\ lost \subseteq lost' /\ g \in closed' \cup lost' /\ lost' \subseteq lost \cup {g}
    BY <2>1 DEF CloseMarked
  <2>4. g \in signaled \/ disconnects > 0
    BY <2>1 DEF Aborting, Survives, Causes, CauseOK
  <2>5. /\ job \in Jobs /\ job.at \in {"idle", "cancelled"}
        /\ job.at = "cancelled" => doing[t].at = "callback"
    BY JobTypes
  <2>6. doing[t].at = "callback" => disconnects > 0
    BY DEF Survives, Causes, CauseOK
  <2>. HIDE DEF job
  <2>7. Grows /\ GoesOn(t, job)
    BY <2>1, <2>3, <2>4, <2>5, <2>6, <1>0 DEF Grows, GoesOn
  <2>. QED
    BY <2>1, <2>2, <2>5, <2>7, ThreadSurvives
<1>9. ASSUME NEW t \in {"run", "timer"}, HandlerEmits(t) PROVE Survives'
  <2>1. /\ UNCHANGED <<run, socket, signaled, disposed, closed, lost, disconnects>>
        /\ doing' = [doing EXCEPT ![t] = At("emit")] /\ ~Aborting(t)
    BY <1>9, JobTypes DEF HandlerEmits, CanCall, Aborting
  <2>. QED
    BY <2>1, <1>0, JobTypes, CallSurvives
<1>10. CASE Opens
  <2>1. /\ run = "opening" /\ run' = "drain" /\ socket' = socket + 1
        /\ UNCHANGED <<signaled, disposed, closed, lost, disconnects, doing>>
    BY <1>10 DEF Opens, Goes
  <2>2. CallbackIsRegistered'
    BY <2>1 DEF Survives, CallbackIsRegistered, Registered
  <2>3. \A g \in 1 .. socket : g \in disposed
    BY <2>1 DEF Survives, DisposedAreMarked, LifetimeDisposed, Holding
  <2>4. DisposedAreMarked'
    BY <2>1, <2>3, <1>0 DEF DisposedAreMarked, LifetimeDisposed, Holding
  <2>5. SomeoneCloses' /\ Causes'
    BY <2>1 DEF Survives, SomeoneCloses, Aborting, Causes, CauseOK
  <2>. QED
    BY <2>2, <2>4, <2>5 DEF Survives
<1>11. CASE DrainNext
  <2>1. /\ UNCHANGED <<run, socket, signaled, disposed, closed, lost, disconnects>>
        /\ TryEnqueue("run", Head(drained), socket) /\ run = "draining" /\ ~Aborting("run")
    BY <1>11, JobTypes DEF DrainNext, Aborting
  <2>2. socket \in 1 .. socket
    BY <2>1, <1>0 DEF Control, Running, Holding
  <2>. QED
    BY <2>1, <2>2, <1>0, TryEnqueueJob, CallSurvives
<1>12. CASE Register
  <2>1. /\ run = "connected" /\ run' \in {"dispose", "reading"}
        /\ UNCHANGED <<socket, signaled, doing, disconnects>>
    BY <1>12 DEF Register, Goes, LoopOrEnd
  <2>2. CASE cancelled
    BY <2>1, <2>2, <1>12, AbortCloses, RunSurvives DEF Register, Holding, Registered
  <2>3. CASE ~cancelled
    BY <2>1, <2>3, <1>12, RunSurvives DEF Register, Holding, Registered
  <2>. QED
    BY <2>2, <2>3
<1>13. CASE MessageTimeout
  <2>. DEFINE at == IF socket \in signaled THEN "recede" ELSE "abort"
  <2>1. /\ Mark("timer", socket, at, Idle) /\ signaled' = signaled \cup {socket} /\ ~Aborting("timer")
        /\ UNCHANGED <<run, socket, closed, lost, disconnects>> /\ socket # 0
    BY <1>13, JobTypes DEF MessageTimeout, Live, Aborting
  <2>2. at \in {"abort", "recede"} /\ socket \in 1 .. socket /\ Idle # At("cancelled")
    BY <2>1, <1>0, JobTypes
  <2>. HIDE DEF at
  <2>. QED
    BY <2>1, <2>2, <1>0, MarkSurvives
<1>14. CASE Dispose
  <2>1. run = "close" /\ run' = "after" /\ UNCHANGED <<socket, signaled, doing, disconnects>> /\ Abort(socket)
    BY <1>14 DEF Dispose, Goes
  <2>. QED
    BY <2>1, AbortCloses, RunSurvives DEF Holding, Registered
<1>15. CASE Unregister \/ Catch
  <2>1. /\ run \in {"dispose", "throwing"} /\ run' = "close" /\ NoCallback
        /\ UNCHANGED <<socket, disposed, closed, lost, doing, disconnects>> /\ signaled \subseteq signaled'
    BY <1>15 DEF Unregister, Catch, JustGoes, Goes
  <2>. QED
    BY <2>1, RunSurvives DEF Holding
<1>16. CASE Top \/ OpenFails \/ Drain \/ Drained \/ Message \/ HandlerReturns \/ ReadEnds
            \/ Decide \/ GiveUp \/ Returns \/ Retry
  <2>1. UNCHANGED <<socket, doing, signaled, disposed, closed, lost, disconnects>>
    BY <1>16 DEF Top, OpenFails, Drain, Drained, Message, HandlerReturns, ReadEnds, Decide, GiveUp,
                 Returns, Retry, JustGoes
  <2>2. \/ run \in {"drain", "draining"} /\ run' \in {"draining", "connected"}
        \/ run \in {"reading", "handler"} /\ run' \in {"handler", "dispose", "throwing", "reading"}
        \/ run \notin Holding /\ run' \notin Holding
    BY <1>16 DEF Top, OpenFails, Drain, Drained, Message, HandlerReturns, ReadEnds, Decide, GiveUp,
                 Returns, Retry, JustGoes, Goes, LoopOrEnd, Holding
  <2>. QED
    BY <2>1, <2>2, RunSurvives DEF Holding, Registered
<1>17. CASE (\E t \in Threads : ErrorReturns(t)) \/ TimerReturns \/ \E g \in Peers : Pump(g)
    BY <1>17, RunSurvives DEF ErrorReturns, TimerReturns, Pump
<1>18. ASSUME NEW g \in Peers, PumpFails(g) PROVE Survives'
  <2>1. /\ Mark("pool", g, "recede", Idle) /\ signaled' = signaled \cup {g} /\ ~Aborting("pool")
        /\ UNCHANGED <<run, socket, closed, lost, disconnects>> /\ queue[g] # <<>>
    BY <1>18, JobTypes DEF PumpFails, Aborting
  <2>2. g \in 1 .. socket /\ Idle # At("cancelled")
    BY <2>1, <1>0, JobTypes DEF Control, Queues, Peers
  <2>. QED
    BY <2>1, <2>2, <1>0, MarkSurvives
<1>19. CASE UNCHANGED vars
    BY <1>19, RunSurvives DEF vars
<1>. QED
    BY <1>1, <1>2, <1>3, <1>4, <1>5, <1>6, <1>7, <1>8, <1>9, <1>10, <1>11, <1>12, <1>13, <1>14, <1>15,
       <1>16, <1>17, <1>18, <1>19 DEF Next

\* What holds of the control in every state.
LEMMA ControlInvariant == Spec => []Control
BY ControlInitially, ControlInductive, PTL DEF Spec

\* NothingSurvives: when DisposeAsync has returned the peer is closed, unless
\* another thread was inside its Abort, after a failure or in a disconnect; and
\* no peer is disposed under a registered callback.
THEOREM ConnectionsEnd == Spec => []NothingSurvives
<1>1. Init => Survives
  <2>. SUFFICES ASSUME Init PROVE Survives
    OBVIOUS
  <2>1. \A t \in Threads : doing[t].at = "idle"
    BY JobTypes DEF Init
  <2>2. socket = 0 /\ disposed = {} /\ lost = {}
    BY DEF Init
  <2>. QED
    BY <2>1, <2>2 DEF Survives, CallbackIsRegistered, DisposedAreMarked, SomeoneCloses, Causes, CauseOK
<1>2. Control /\ Survives => NothingSurvives
  <2>. SUFFICES ASSUME Control, Survives PROVE NothingSurvives
    OBVIOUS
  <2>1. ASSUME NEW t \in Threads, doing[t].at = "callback" PROVE ~LifetimeDisposed(doing[t].peer)
    BY <2>1 DEF Survives, CallbackIsRegistered, LifetimeDisposed, Registered, Holding, Control, TypeOK, Peers
  <2>2. ASSUME NEW g \in 1 .. socket, LifetimeDisposed(g)
        PROVE  \/ g \in closed \cup lost
               \/ \E t \in Threads : doing[t].at \in {"abort", "recede", "disconnect"} /\ doing[t].peer = g
    BY <2>1, <2>2 DEF Survives, DisposedAreMarked, SomeoneCloses, Aborting
  <2>3. \A g \in lost : g \in signaled \/ disconnects > 0
    BY DEF Survives, Causes
  <2>. QED
    BY <2>1, <2>2, <2>3 DEF NothingSurvives
<1>. QED
    BY <1>1, <1>2, SurvivesInductive, ControlInvariant, PTL DEF Spec

-----------------------------------------------------------------------------
(***************************************************************************)
(* Every task has somebody who will complete it.                           *)
(***************************************************************************)

\* Somebody will complete the task of w.
Holder(w) ==
    \/ w \in ToSet(pending)
    \/ w \in ToSet(drained)
    \/ \E g \in Peers \ stopped : w \in ToSet(queue[g])

Held == OnlyLateWait /\ \A w \in Writes : completion[w] = "pending" => Holder(w)

\* The writes are where they were, and RunAsync does not end.
LEMMA QuietHeld ==
    ASSUME Held, UNCHANGED <<pending, drained, queue, stopped, completion, late>>,
           run' \in {"ending", "off"} => run \in {"ending", "off"}
    PROVE  Held'
BY DEF Held, OnlyLateWait, Holder

\* Writes.Stop fails what it removes.
LEMMA StopHeld ==
    ASSUME Control, Held, NEW g \in Peers, Stop(g), UNCHANGED <<pending, drained, late>>,
           run' \in {"ending", "off"} => run \in {"ending", "off"}
    PROVE  Held'
<1>1. OnlyLateWait'
    BY DEF Held, OnlyLateWait
<1>2. /\ stopped' = stopped \cup {g} /\ queue' = [queue EXCEPT ![g] = <<>>]
      /\ completion' = [w \in Writes |->
             IF w \in ToSet(queue[g]) /\ completion[w] = "pending" THEN "failed" ELSE completion[w]]
    BY DEF Stop, Completes
<1>3. ASSUME NEW w \in Writes, completion'[w] = "pending" PROVE Holder(w)'
  <2>1. completion[w] = "pending" /\ w \notin ToSet(queue[g])
    BY <1>2, <1>3
  <2>2. CASE w \in ToSet(pending) \cup ToSet(drained)
    BY <2>2 DEF Holder
  <2>3. ASSUME NEW h \in Peers \ stopped, w \in ToSet(queue[h]) PROVE Holder(w)'
    <3>1. h # g /\ queue'[h] = queue[h]
      BY <2>1, <2>3, <1>2 DEF Control, TypeOK
    <3>. QED
      BY <3>1, <2>3, <1>2 DEF Holder
  <2>. QED
    BY <2>1, <2>2, <2>3 DEF Held, Holder
<1>. QED
    BY <1>1, <1>3 DEF Held

\* Closing a peer leaves no task without an owner.
LEMMA CloseHeld ==
    ASSUME Control, Held, NEW g \in Peers, CloseMarked(g), UNCHANGED <<pending, drained, late>>,
           run' \in {"ending", "off"} => run \in {"ending", "off"}
    PROVE  Held'
<1>1. CASE LifetimeDisposed(g)
    BY <1>1, QuietHeld DEF CloseMarked
<1>2. CASE ~LifetimeDisposed(g)
    BY <1>2, StopHeld DEF CloseMarked
<1>. QED
    BY <1>1, <1>2

\* Aborting a connection leaves no task without an owner.
LEMMA AbortHeld ==
    ASSUME Control, Held, NEW g \in Peers, Abort(g), UNCHANGED <<pending, drained, late>>,
           run' \in {"ending", "off"} => run \in {"ending", "off"}
    PROVE  Held'
<1>1. CASE g \in disposed
    BY <1>1, QuietHeld DEF Abort
<1>2. CASE g \notin disposed
    BY <1>2, CloseHeld DEF Abort
<1>. QED
    BY <1>1, <1>2

\* TryEnqueue fails the task or queues the write.
LEMMA TryEnqueueHeld ==
    ASSUME Control, Held, NEW t, NEW w \in Writes, NEW g \in Peers, TryEnqueue(t, w, g),
           UNCHANGED <<run, pending, late, stopped>>,
           ToSet(drained) \subseteq ToSet(drained') \cup {w}
    PROVE  Held'
<1>0. /\ queue \in [Peers -> Seq(Writes)] /\ g \in Peers
      /\ completion \in [Writes -> {"none", "pending", "ok", "failed"}]
    BY DEF Control, TypeOK
<1>1. OnlyLateWait'
    BY DEF Held, OnlyLateWait
<1>. DEFINE full == ~raw /\ g \notin stopped /\ Len(queue[g]) >= limit
<1>2. CASE g \in stopped \/ full
  <2>1. completion' = [completion EXCEPT ![w] = "failed"] /\ queue' = queue
    BY <1>2 DEF TryEnqueue
  <2>2. ASSUME NEW x \in Writes, completion'[x] = "pending" PROVE Holder(x)'
    <3>1. x # w /\ completion[x] = "pending"
      BY <2>1, <2>2, <1>0
    <3>2. Holder(x)
      BY <3>1 DEF Held
    <3>. QED
      BY <3>1, <3>2, <2>1 DEF Holder
  <2>. QED
    BY <2>2, <1>1 DEF Held
<1>3. CASE ~(g \in stopped \/ full)
  <2>1. /\ completion' = [completion EXCEPT ![w] = "pending"]
        /\ queue' = [queue EXCEPT ![g] = Append(@, w)] /\ g \notin stopped
    BY <1>3 DEF TryEnqueue
  <2>2. /\ ToSet(queue'[g]) = ToSet(queue[g]) \cup {w}
        /\ \A h \in Peers : h # g => queue'[h] = queue[h]
    BY <2>1, <1>0, AppendElements
  <2>3. ASSUME NEW x \in Writes, completion'[x] = "pending" PROVE Holder(x)'
    <3>1. CASE x = w
      BY <3>1, <2>1, <2>2 DEF Holder
    <3>2. CASE x # w
      <4>1. Holder(x)
        BY <3>2, <2>1, <2>3, <1>0 DEF Held
      <4>2. \A h \in Peers : ToSet(queue[h]) \subseteq ToSet(queue'[h])
        BY <2>2
      <4>. QED
        BY <4>1, <4>2, <3>2 DEF Holder
    <3>. QED
      BY <3>1, <3>2
  <2>. QED
    BY <2>3, <1>1 DEF Held
<1>. QED
    BY <1>2, <1>3

\* Every step keeps Held.
LEMMA HeldInductive == Control /\ Control' /\ Held /\ [Next]_vars => Held'
<1>. SUFFICES ASSUME Control, Control', Held, [Next]_vars PROVE Held'
    OBVIOUS
<1>0. /\ pending \in Seq(Writes) /\ drained \in Seq(Writes) /\ queue \in [Peers -> Seq(Writes)]
      /\ completion \in [Writes -> {"none", "pending", "ok", "failed"}]
    BY DEF Control, TypeOK, HistoryOK
<1>00. 1 .. socket \subseteq Peers
    BY DEF Control, TypeOK, Peers
<1>1. ASSUME NEW t \in Threads, Connect(t) PROVE Held'
    BY <1>1, QuietHeld DEF Connect
<1>2. ASSUME NEW t \in Threads, Queue(t) PROVE Held'
  <2>0. /\ emitted + 1 \in Writes /\ emitted' = emitted + 1 /\ emitted \in Nat
        /\ UNCHANGED <<run, drained, queue, stopped>>
    BY <1>2, NextWrite DEF Queue, Control, HistoryOK
  <2>1. CASE UNCHANGED <<pending, completion, late>>
    BY <2>0, <2>1, QuietHeld
  <2>2. CASE completion' = [completion EXCEPT ![emitted + 1] = "failed"] /\ UNCHANGED <<pending, late>>
    BY <2>0, <2>2, <1>0 DEF Held, OnlyLateWait, Holder
  <2>3. CASE /\ run # "off" /\ pending' = Append(pending, emitted + 1)
             /\ completion' = [completion EXCEPT ![emitted + 1] = "pending"]
             /\ late' = IF run = "ending" THEN late \cup {emitted + 1} ELSE late
    <3>1. ToSet(pending') = ToSet(pending) \cup {emitted + 1}
      BY <2>0, <2>3, <1>0, AppendElements
    <3>2. OnlyLateWait'
      BY <2>0, <2>3, <3>1 DEF Held, OnlyLateWait
    <3>. QED
      BY <2>0, <2>3, <3>1, <3>2, <1>0 DEF Held, Holder
  <2>. QED
    BY <2>1, <2>2, <2>3, <1>2 DEF Queue, Wait
<1>3. ASSUME NEW t \in Threads, Enqueue(t) PROVE Held'
  <2>1. doing[t].peer \in Peers /\ doing[t].write \in Writes
    BY <1>00, <1>3 DEF Enqueue, Control, Busy, JobOK, HistoryOK, Writes
  <2>. QED
    BY <2>1, <1>3, TryEnqueueHeld DEF Enqueue
<1>4. ASSUME NEW t \in Threads, SignalFailure(t) PROVE Held'
    BY <1>4, QuietHeld DEF SignalFailure
<1>5. ASSUME NEW t \in Threads, Disconnect(t) \/ CancelCallback(t) \/ AbortSocket(t) PROVE Held'
    BY <1>5, QuietHeld DEF Disconnect, CancelCallback, AbortSocket
<1>6. ASSUME NEW t \in Threads, FinishAbort(t) PROVE Held'
  <2>1. doing[t].peer \in Peers
    BY <1>00, <1>6 DEF FinishAbort, Control, Busy, JobOK
  <2>. QED
    BY <2>1, <1>6, CloseHeld DEF FinishAbort
<1>7. ASSUME NEW t \in Threads, ErrorReturns(t) \/ HandlerEmits(t) PROVE Held'
    BY <1>7, QuietHeld DEF ErrorReturns, HandlerEmits
<1>70. "run" \in Threads /\ "timer" \in Threads
    BY DEF Threads
<1>8. CASE Opens
    BY <1>8, QuietHeld DEF Opens, Goes
<1>9. CASE Drain
  <2>1. /\ run = "drain" /\ run' = "draining" /\ drained' = pending /\ pending' = <<>> /\ drained = <<>>
        /\ UNCHANGED <<queue, stopped, completion, late>>
    BY <1>9 DEF Drain, Goes, Control, Running
  <2>. QED
    BY <2>1, NoElements DEF Held, OnlyLateWait, Holder
<1>10. CASE DrainNext
  <2>1. socket \in Peers /\ drained # <<>>
    BY <1>10 DEF DrainNext, Control, Running, Holding, TypeOK
  <2>2. Head(drained) \in Writes /\ ToSet(drained) = {Head(drained)} \cup ToSet(Tail(drained))
    BY <2>1, <1>0, TakeHead, TailElements
  <2>. QED
    BY <2>1, <2>2, <1>10, TryEnqueueHeld DEF DrainNext
<1>11. CASE Register
  <2>1. socket \in Peers
    BY <1>11 DEF Register, Goes, Control, Running, Holding, TypeOK
  <2>2. run' \notin {"ending", "off"}
    BY <1>11 DEF Register, Goes, LoopOrEnd
  <2>. QED
    BY <2>1, <2>2, <1>11, AbortHeld, QuietHeld DEF Register
<1>12. CASE MessageTimeout \/ TimerReturns
    BY <1>12, QuietHeld DEF MessageTimeout, TimerReturns
<1>13. CASE Dispose
  <2>1. socket \in Peers
    BY <1>13 DEF Dispose, Goes, Control, Running, Holding, TypeOK
  <2>. QED
    BY <2>1, <1>13, AbortHeld DEF Dispose, Goes
<1>14. CASE Top \/ OpenFails \/ Drained \/ Message \/ HandlerReturns \/ ReadEnds \/ Unregister
            \/ Catch \/ Decide \/ Returns \/ Retry
  <2>1. UNCHANGED <<pending, drained, queue, stopped, completion, late>>
    BY <1>14 DEF Top, OpenFails, Drained, Message, HandlerReturns, ReadEnds, Unregister, Catch, Decide,
                 Returns, Retry, JustGoes, Goes
  <2>2. run' \in {"ending", "off"} => run \in {"ending", "off"}
    BY <1>14 DEF Top, OpenFails, Drained, Message, HandlerReturns, ReadEnds, Unregister, Catch, Decide,
                 Returns, Retry, JustGoes, Goes, LoopOrEnd
  <2>. QED
    BY <2>1, <2>2, QuietHeld
<1>15. CASE GiveUp
  <2>1. /\ pending' = <<>> /\ Completes(ToSet(pending), "failed") /\ UNCHANGED <<queue, stopped, drained, late>>
    BY <1>15 DEF GiveUp, FailPendingWrites
  <2>2. \A w \in Writes : completion'[w] = "pending" => completion[w] = "pending" /\ w \notin ToSet(pending)
    BY <2>1 DEF Completes
  <2>. QED
    BY <2>1, <2>2, NoElements DEF Held, OnlyLateWait, Holder
<1>16. ASSUME NEW g \in Peers, Pump(g) PROVE Held'
  <2>1. /\ queue[g] # <<>> /\ queue' = [queue EXCEPT ![g] = Tail(@)]
        /\ Completes({Head(queue[g])}, "ok") /\ UNCHANGED <<run, pending, drained, stopped, late>>
    BY <1>16 DEF Pump
  <2>2. ToSet(queue[g]) = {Head(queue[g])} \cup ToSet(Tail(queue[g]))
    BY <2>1, <1>0, TailElements
  <2>3. \A w \in Writes : completion'[w] = "pending" => completion[w] = "pending" /\ w # Head(queue[g])
    BY <2>1 DEF Completes
  <2>4. \A h \in Peers : ToSet(queue[h]) \subseteq ToSet(queue'[h]) \cup {Head(queue[g])}
    BY <2>1, <2>2, <1>0
  <2>5. OnlyLateWait'
    BY <2>1 DEF Held, OnlyLateWait
  <2>. QED
    BY <2>1, <2>3, <2>4, <2>5 DEF Held, Holder
<1>17. ASSUME NEW g \in Peers, PumpFails(g) PROVE Held'
    BY <1>17, StopHeld DEF PumpFails
<1>18. CASE UNCHANGED vars
    BY <1>18, QuietHeld DEF vars
<1>. QED
    BY <1>1, <1>2, <1>3, <1>4, <1>5, <1>6, <1>7, <1>8, <1>9, <1>10, <1>11, <1>12, <1>13, <1>14, <1>15,
       <1>16, <1>17, <1>18, <1>70 DEF Next

\* TasksAreHeld: no write is lost between a connection that ends, the writes
\* that wait, and the next connection.
THEOREM TasksAreNotLost == Spec => []TasksAreHeld
<1>1. Init => Held
    BY NoElements DEF Init, Held, OnlyLateWait
<1>2. Control /\ Held => TasksAreHeld
    BY DEF Control, Held, OnlyLateWait, Holder, TasksAreHeld
<1>. QED
    BY <1>1, <1>2, HeldInductive, ControlInvariant, PTL DEF Spec

-----------------------------------------------------------------------------
(***************************************************************************)
(* The order of the writes.                                                *)
(***************************************************************************)

Ordered == WaitInOrder /\ NewestOfThread /\ FlushedInOrder

\* Steps that enqueue nothing and let nothing wait.
LEMMA QuietOrdered ==
    ASSUME Ordered, UNCHANGED <<pending, drained, waited, sent, emitted, owner>>,
           \A u \in Threads : doing'[u].at = "enqueue" => doing'[u] = doing[u]
    PROVE  Ordered'
<1>1. WaitInOrder' /\ FlushedInOrder'
    BY DEF Ordered, WaitInOrder, FlushedInOrder, Increasing
<1>2. NewestOfThread'
    BY DEF Ordered, NewestOfThread
<1>. QED
    BY <1>1, <1>2 DEF Ordered

\* A thread takes a job that is not to enqueue.
LEMMA JobOrdered ==
    ASSUME Control, Ordered, NEW t \in Threads, NEW job, job.at # "enqueue",
           doing' = [doing EXCEPT ![t] = job],
           UNCHANGED <<pending, drained, waited, sent, emitted, owner>>
    PROVE  Ordered'
<1>1. doing \in [Threads -> Jobs]
    BY DEF Control, TypeOK
<1>2. \A u \in Threads : doing'[u] = IF u = t THEN job ELSE doing[u]
    BY <1>1
<1>. QED
    BY <1>2, QuietOrdered

\* The first step of Abort.
LEMMA MarkOrdered ==
    ASSUME Control, Ordered, NEW t \in Threads, NEW g, NEW at \in {"abort", "recede", "disconnect", "callback"},
           NEW next \in {Idle, At("cancelled")}, Mark(t, g, at, next),
           UNCHANGED <<pending, drained, waited, sent, emitted, owner>>
    PROVE  Ordered'
<1>1. CASE g \in disposed
  <2>1. next.at # "enqueue" /\ doing' = [doing EXCEPT ![t] = next]
    BY <1>1, JobTypes DEF Mark
  <2>. QED
    BY <2>1, JobOrdered
<1>2. CASE g \notin disposed
  <2>. DEFINE job == [at |-> at, write |-> 0, peer |-> g]
  <2>1. job.at # "enqueue" /\ doing' = [doing EXCEPT ![t] = job]
    BY <1>2 DEF Mark
  <2>. QED
    BY <2>1, JobOrdered
<1>. QED
    BY <1>1, <1>2

\* What keeps FlushedInOrder when a write is sent: it was not sent before, and
\* those it overtakes did not wait.
LEMMA SendOrdered ==
    ASSUME sent \in Seq(Writes), FlushedInOrder, NEW w \in Writes, sent' = Append(sent, w),
           UNCHANGED <<owner, waited>>,
           \A x \in ToSet(sent) :
               x # w /\ (owner[x] = owner[w] /\ x > w => x \notin waited /\ w \in waited)
    PROVE  FlushedInOrder'
<1>1. /\ DOMAIN sent = 1 .. Len(sent) /\ Len(sent) \in Nat /\ DOMAIN sent' = 1 .. Len(sent) + 1
      /\ sent'[Len(sent) + 1] = w /\ \A i \in DOMAIN sent : sent'[i] = sent[i]
    BY AddLast
<1>2. \A i \in DOMAIN sent : sent[i] \in ToSet(sent)
    BY DEF ToSet
<1>. SUFFICES ASSUME NEW i \in DOMAIN sent', NEW j \in DOMAIN sent'
              PROVE  /\ sent'[i] = sent'[j] => i = j
                     /\ i < j /\ owner[sent'[i]] = owner[sent'[j]] /\ sent'[i] > sent'[j] =>
                           sent'[i] \notin waited /\ sent'[j] \in waited
    BY DEF FlushedInOrder
<1>3. CASE i \in DOMAIN sent /\ j \in DOMAIN sent
    BY <1>1, <1>3 DEF FlushedInOrder
<1>4. CASE i \in DOMAIN sent /\ j = Len(sent) + 1
    BY <1>1, <1>2, <1>4
<1>5. CASE i = Len(sent) + 1
  <2>1. ~(i < j) /\ (j # i => j \in DOMAIN sent)
    BY <1>1, <1>5
  <2>. QED
    BY <2>1, <1>1, <1>2, <1>5
<1>. QED
    BY <1>1, <1>3, <1>4, <1>5

\* TryEnqueue, of a write that is sent or refused.
LEMMA TryEnqueueSends ==
    ASSUME Control, NEW t \in Threads, NEW w \in Writes, NEW g \in Peers, TryEnqueue(t, w, g)
    PROVE  /\ doing'[t].at # "enqueue" /\ \A u \in Threads : u # t => doing'[u] = doing[u]
           /\ sent' = sent \/ sent' = Append(sent, w)
<1>1. doing \in [Threads -> Jobs]
    BY DEF Control, TypeOK
<1>2. PICK job : job.at # "enqueue" /\ doing' = [doing EXCEPT ![t] = job]
  <2>1. \A at \in {"fail", "signal"} : [at |-> at, write |-> 0, peer |-> g].at # "enqueue"
    OBVIOUS
  <2>. QED
    BY <2>1, JobTypes DEF TryEnqueue
<1>. QED
    BY <1>1, <1>2 DEF TryEnqueue

\* Queue.
LEMMA QueueOrdered ==
    ASSUME Control, Ordered, NEW t \in Threads, Queue(t)
    PROVE  Ordered'
<1>. DEFINE w == emitted + 1
<1>1. /\ emitted \in Nat /\ w \in Writes /\ emitted' = w /\ t \in Threads
      /\ pending \in Seq(Writes) /\ drained \in Seq(Writes) /\ sent \in Seq(Writes)
      /\ owner \in [Writes -> Threads] /\ waited \subseteq 1 .. emitted
  <2>1. emitted \in Nat /\ emitted' = w
    BY DEF Queue, Control, HistoryOK
  <2>2. w \in Writes
    BY NextWrite
  <2>. QED
    BY <2>1, <2>2 DEF Control, HistoryOK
<1>2. doing \in [Threads -> Jobs] /\ 1 .. emitted \subseteq Writes
    BY <1>1 DEF Control, TypeOK, Writes
<1>3. /\ drained' = drained /\ sent' = sent /\ owner' = [owner EXCEPT ![w] = t]
      /\ doing' = [doing EXCEPT ![t] = IF Live THEN [at |-> "enqueue", write |-> w, peer |-> socket] ELSE Idle]
    BY DEF Queue
<1>4. \/ pending' = pending /\ waited' = waited
      \/ ~Live /\ pending' = Append(pending, w) /\ waited' = waited \cup {w}
    BY DEF Queue, Wait
<1>. HIDE DEF w
<1>5. /\ \A x \in 1 .. emitted : x < w /\ owner'[x] = owner[x] /\ (x \in waited' <=> x \in waited)
      /\ owner'[w] = t /\ w \notin 1 .. emitted /\ w \in Nat
      /\ \A x \in 1 .. emitted' : x \in 1 .. emitted \/ x = w
  <2>1. w \in Nat /\ w \notin 1 .. emitted /\ \A x \in 1 .. emitted : x < w
    BY <1>1 DEF w
  <2>2. \A x \in 1 .. emitted' : x \in 1 .. emitted \/ x = w
    BY <1>1 DEF w
  <2>. QED
    BY <2>1, <2>2, <1>1, <1>2, <1>3, <1>4
<1>6. WaitInOrder'
  <2>1. ToSet(pending) \subseteq 1 .. emitted /\ ToSet(drained) \subseteq 1 .. emitted /\ ToSet(sent) \subseteq 1 .. emitted
    BY <1>1 DEF Ordered, WaitInOrder, NewestOfThread
  <2>2. CASE pending' = pending /\ waited' = waited
    BY <2>2, <1>3 DEF Ordered, WaitInOrder, Increasing
  <2>3. CASE pending' = Append(pending, w) /\ waited' = waited \cup {w}
    <3>1. ToSet(pending') = ToSet(pending) \cup {w}
      BY <2>3, <1>1, AppendElements
    <3>2. Increasing(pending')
      <4>1. /\ DOMAIN pending = 1 .. Len(pending) /\ Len(pending) \in Nat
            /\ DOMAIN pending' = 1 .. Len(pending) + 1 /\ pending'[Len(pending) + 1] = w
            /\ \A i \in DOMAIN pending : pending'[i] = pending[i]
        BY <2>3, <1>1, AddLast
      <4>2. Increasing(pending)
        BY DEF Ordered, WaitInOrder
      <4>3. \A i \in DOMAIN pending : pending[i] < w
        BY <2>1, <1>5 DEF ToSet
      <4>. QED
        BY <4>1, <4>2, <4>3 DEF Increasing
    <3>3. Increasing(drained') /\ ToSet(drained') = ToSet(drained) /\ ToSet(sent') = ToSet(sent)
      BY <1>3 DEF Ordered, WaitInOrder, Increasing
    <3>4. ToSet(pending') \subseteq waited' /\ ToSet(drained') \subseteq waited'
      BY <3>1, <3>3, <2>3 DEF Ordered, WaitInOrder
    <3>5. \A d \in ToSet(drained'), p \in ToSet(pending') : d < p
      BY <3>1, <3>3, <2>1, <1>5 DEF Ordered, WaitInOrder
    <3>6. \A x \in ToSet(sent') \cap waited', y \in ToSet(drained') \cup ToSet(pending') : x < y
      BY <3>1, <3>3, <2>1, <1>5 DEF Ordered, WaitInOrder
    <3>. QED
      BY <3>2, <3>3, <3>4, <3>5, <3>6 DEF WaitInOrder
  <2>. QED
    BY <2>2, <2>3, <1>4
<1>7. NewestOfThread'
  <2>1. ToSet(sent') \subseteq 1 .. emitted /\ ToSet(sent') = ToSet(sent) /\ 1 .. emitted \subseteq 1 .. emitted'
    BY <1>3, <1>1 DEF Ordered, NewestOfThread, w
  <2>2. ASSUME NEW u \in Threads, u # t, doing'[u].at = "enqueue"
        PROVE  /\ owner'[doing'[u].write] = u
               /\ doing'[u].write \notin waited' \cup ToSet(sent')
               /\ \A x \in 1 .. emitted' : owner'[x] = u => x <= doing'[u].write
    <3>1. doing'[u] = doing[u]
      BY <2>2, <1>2, <1>3
    <3>2. doing[u].write \in 1 .. emitted
      BY <2>2, <3>1 DEF Control, Busy, JobOK
    <3>. QED
      BY <3>1, <3>2, <2>1, <2>2, <1>5 DEF Ordered, NewestOfThread
  <2>3. ASSUME doing'[t].at = "enqueue"
        PROVE  /\ owner'[doing'[t].write] = t
               /\ doing'[t].write \notin waited' \cup ToSet(sent')
               /\ \A x \in 1 .. emitted' : owner'[x] = t => x <= doing'[t].write
    <3>1. Live /\ doing'[t].write = w
      BY <2>3, <1>1, <1>2, <1>3, JobTypes
    <3>2. w \notin waited'
      BY <3>1, <1>1, <1>4, <1>5
    <3>3. \A x \in 1 .. emitted' : x <= w
      BY <1>1
    <3>. QED
      BY <3>1, <3>2, <3>3, <2>1, <1>5
  <2>. QED
    BY <2>1, <2>2, <2>3 DEF NewestOfThread
<1>8. FlushedInOrder'
  <2>1. \A i \in DOMAIN sent : sent[i] \in 1 .. emitted
    BY DEF Ordered, NewestOfThread, ToSet
  <2>2. \A i \in DOMAIN sent : owner'[sent[i]] = owner[sent[i]] /\ (sent[i] \in waited' <=> sent[i] \in waited)
    BY <2>1, <1>5
  <2>. QED
    BY <2>2, <1>3 DEF Ordered, FlushedInOrder
<1>. QED
    BY <1>6, <1>7, <1>8 DEF Ordered

\* The rest of Queue: the write did not wait and is the newest of its thread.
LEMMA EnqueueOrdered ==
    ASSUME Control, Ordered, NEW t \in Threads, Enqueue(t)
    PROVE  Ordered'
<1>. DEFINE w == doing[t].write
<1>1. sent \in Seq(Writes) /\ doing[t].at = "enqueue" /\ emitted \in Nat
    BY DEF Enqueue, Control, HistoryOK
<1>2. w \in 1 .. emitted /\ w \in Writes /\ doing[t].peer \in Peers
    BY <1>1 DEF Control, Busy, JobOK, HistoryOK, TypeOK, Writes, Peers
<1>3. owner[w] = t /\ w \notin waited \cup ToSet(sent) /\ \A x \in 1 .. emitted : owner[x] = t => x <= w
    BY <1>1 DEF Ordered, NewestOfThread
<1>4. /\ doing'[t].at # "enqueue" /\ \A u \in Threads : u # t => doing'[u] = doing[u]
      /\ sent' = sent \/ sent' = Append(sent, w)
    BY <1>1, <1>2, TryEnqueueSends DEF Enqueue
<1>5. UNCHANGED <<pending, drained, waited, emitted, owner>>
    BY DEF Enqueue
<1>. HIDE DEF w
<1>6. CASE sent' = sent
    BY <1>4, <1>5, <1>6, QuietOrdered
<1>7. CASE sent' = Append(sent, w)
  <2>1. ToSet(sent') = ToSet(sent) \cup {w} /\ ToSet(sent) \subseteq 1 .. emitted
    BY <1>1, <1>2, <1>7, AppendElements DEF Ordered, NewestOfThread
  <2>2. WaitInOrder'
    BY <2>1, <1>3, <1>5 DEF Ordered, WaitInOrder, Increasing
  <2>3. NewestOfThread'
    <3>1. \A u \in Threads : doing'[u].at = "enqueue" => u # t /\ doing'[u] = doing[u] /\ doing'[u].write # w
      BY <1>3, <1>4 DEF Ordered, NewestOfThread
    <3>. QED
      BY <3>1, <2>1, <1>2, <1>5 DEF Ordered, NewestOfThread
  <2>4. \A x \in ToSet(sent) : x # w /\ ~(owner[x] = owner[w] /\ x > w)
    BY <2>1, <1>1, <1>2, <1>3
  <2>5. FlushedInOrder'
    BY <2>4, <1>1, <1>2, <1>5, <1>7, SendOrdered DEF Ordered
  <2>. QED
    BY <2>2, <2>3, <2>5 DEF Ordered
<1>. QED
    BY <1>4, <1>6, <1>7

\* DrainNext: the oldest of the writes that waited.
LEMMA DrainNextOrdered ==
    ASSUME Control, Ordered, DrainNext
    PROVE  Ordered'
<1>. DEFINE w == Head(drained)
<1>0. "run" \in Threads /\ sent \in Seq(Writes) /\ drained \in Seq(Writes) /\ drained # <<>> /\ socket \in Peers
    BY DEF Threads, DrainNext, Control, HistoryOK, TypeOK, Running, Holding
<1>1. w \in Writes /\ ToSet(drained) = {w} \cup ToSet(Tail(drained))
    BY <1>0, TakeHead, TailElements
<1>2. /\ doing'["run"].at # "enqueue" /\ \A u \in Threads : u # "run" => doing'[u] = doing[u]
      /\ sent' = sent \/ sent' = Append(sent, w)
    BY <1>0, <1>1, TryEnqueueSends DEF DrainNext
<1>3. UNCHANGED <<pending, waited, emitted, owner>> /\ drained' = Tail(drained)
    BY DEF DrainNext
<1>4. Increasing(drained') /\ \A y \in ToSet(drained') : w < y
  <2>1. Increasing(drained)
    BY DEF Ordered, WaitInOrder
  <2>2. /\ DOMAIN drained = 1 .. Len(drained) /\ Len(drained) \in Nat /\ Len(drained) > 0
        /\ DOMAIN drained' = 1 .. Len(drained) - 1 /\ w = drained[1]
        /\ \A i \in DOMAIN drained' : drained'[i] = drained[i + 1]
    BY <1>0, <1>3, TakeHead
  <2>. HIDE DEF w
  <2>3. \A i \in DOMAIN drained' : w < drained'[i]
    BY <2>1, <2>2 DEF Increasing
  <2>4. Increasing(drained')
    BY <2>1, <2>2 DEF Increasing
  <2>. QED
    BY <2>3, <2>4 DEF ToSet
<1>5. /\ w \in waited /\ \A y \in ToSet(pending) : w < y
      /\ \A x \in ToSet(sent) \cap waited : x < w
    BY <1>1 DEF Ordered, WaitInOrder
<1>6. /\ ToSet(sent') \subseteq ToSet(sent) \cup {w} /\ ToSet(sent) \subseteq 1 .. emitted
      /\ ToSet(drained') \subseteq ToSet(drained) /\ w \in 1 .. emitted /\ emitted \in Nat
  <2>1. ToSet(sent') \subseteq ToSet(sent) \cup {w}
    BY <1>0, <1>1, <1>2, AppendElements
  <2>2. waited \subseteq 1 .. emitted /\ emitted \in Nat
    BY DEF Control, HistoryOK
  <2>. QED
    BY <2>1, <2>2, <1>1, <1>3, <1>5 DEF Ordered, NewestOfThread
<1>. HIDE DEF w
<1>7. WaitInOrder'
  <2>1. \A x \in ToSet(sent') \cap waited', y \in ToSet(drained') \cup ToSet(pending') : x < y
    BY <1>3, <1>4, <1>5, <1>6 DEF Ordered, WaitInOrder
  <2>2. Increasing(pending') /\ ToSet(pending') \subseteq waited' /\ ToSet(drained') \subseteq waited'
    BY <1>3, <1>6 DEF Ordered, WaitInOrder, Increasing
  <2>3. \A d \in ToSet(drained'), p \in ToSet(pending') : d < p
    BY <1>3, <1>6 DEF Ordered, WaitInOrder
  <2>. QED
    BY <2>1, <2>2, <2>3, <1>4 DEF WaitInOrder
<1>8. NewestOfThread'
  <2>1. \A u \in Threads : doing'[u].at = "enqueue" => doing'[u] = doing[u] /\ doing'[u].write # w
    BY <1>2, <1>5 DEF Ordered, NewestOfThread
  <2>. QED
    BY <2>1, <1>3, <1>6 DEF Ordered, NewestOfThread
<1>9. FlushedInOrder'
  <2>1. \A x \in ToSet(sent) : x # w /\ (owner[x] = owner[w] /\ x > w => x \notin waited /\ w \in waited)
    BY <1>5, <1>6
  <2>2. CASE sent' = Append(sent, w)
    BY <2>1, <2>2, <1>0, <1>1, <1>3, SendOrdered DEF Ordered
  <2>3. CASE sent' = sent
    BY <2>3, <1>3 DEF Ordered, FlushedInOrder
  <2>. QED
    BY <2>2, <2>3, <1>2
<1>. QED
    BY <1>7, <1>8, <1>9 DEF Ordered

\* Every step keeps Ordered.
LEMMA OrderedInductive == Control /\ Ordered /\ [Next]_vars => Ordered'
<1>. SUFFICES ASSUME Control, Ordered, [Next]_vars PROVE Ordered'
    OBVIOUS
<1>0. "run" \in Threads /\ "pool" \in Threads /\ "timer" \in Threads /\ doing \in [Threads -> Jobs]
    BY DEF Threads, Control, TypeOK
<1>1. ASSUME NEW t \in Threads, Connect(t) \/ ErrorReturns(t) PROVE Ordered'
    BY <1>1, QuietOrdered DEF Connect, ErrorReturns
<1>2. ASSUME NEW t \in Threads, Queue(t) PROVE Ordered'
    BY <1>2, QueueOrdered
<1>3. ASSUME NEW t \in Threads, Enqueue(t) PROVE Ordered'
    BY <1>3, EnqueueOrdered
<1>4. ASSUME NEW t \in Threads, SignalFailure(t) PROVE Ordered'
  <2>. DEFINE at == IF Publishes(t, doing[t].peer) THEN "abort" ELSE "recede"
  <2>1. Mark(t, doing[t].peer, at, Idle) /\ UNCHANGED <<pending, drained, waited, sent, emitted, owner>>
    BY <1>4 DEF SignalFailure
  <2>2. at \in {"abort", "recede"}
    OBVIOUS
  <2>. HIDE DEF at
  <2>. QED
    BY <2>1, <2>2, MarkOrdered
<1>5. ASSUME NEW t \in Threads, NEW at \in {"idle", "emit", "cancel", "cancelled"},
             doing' = [doing EXCEPT ![t] = At(at)],
             UNCHANGED <<pending, drained, waited, sent, emitted, owner>>
      PROVE  Ordered'
    BY <1>5, JobTypes, JobOrdered
<1>50. Idle = At("idle")
    BY DEF Idle
<1>6. ASSUME NEW t \in Threads, Disconnect(t) PROVE Ordered'
  <2>1. /\ doing' = [doing EXCEPT ![t] = At(IF cancelled THEN "cancelled" ELSE "cancel")]
        /\ UNCHANGED <<pending, drained, waited, sent, emitted, owner>>
    BY <1>6 DEF Disconnect
  <2>. QED
    BY <2>1, <1>5
<1>7. ASSUME NEW t \in Threads, FinishAbort(t) PROVE Ordered'
  <2>. DEFINE at == IF doing[t].at = "callback" /\ ~LifetimeDisposed(doing[t].peer) THEN "cancelled" ELSE "idle"
  <2>1. /\ doing' = [doing EXCEPT ![t] = At(at)] /\ UNCHANGED <<pending, drained, waited, sent, emitted, owner>>
    BY <1>7, <1>0, <1>50 DEF FinishAbort
  <2>2. at \in {"idle", "cancelled"}
    OBVIOUS
  <2>. HIDE DEF at
  <2>. QED
    BY <2>1, <2>2, <1>5
<1>71. ASSUME NEW t \in Threads, CancelCallback(t) \/ AbortSocket(t) PROVE Ordered'
  <2>1. UNCHANGED <<pending, drained, waited, sent, emitted, owner>>
    BY <1>71 DEF CancelCallback, AbortSocket
  <2>2. \/ \E at \in {"idle", "cancelled"} : doing' = [doing EXCEPT ![t] = At(at)]
        \/ Mark(t, socket, "callback", At("cancelled")) \/ Mark(t, socket, "disconnect", Idle)
    BY <1>71, <1>50 DEF CancelCallback, AbortSocket
  <2>. QED
    BY <2>1, <2>2, <1>5, MarkOrdered
<1>72. ASSUME NEW t \in {"run", "timer"}, HandlerEmits(t) PROVE Ordered'
    BY <1>72, <1>0, <1>5 DEF HandlerEmits
<1>73. CASE MessageTimeout
  <2>. DEFINE at == IF socket \in signaled THEN "recede" ELSE "abort"
  <2>1. Mark("timer", socket, at, Idle) /\ UNCHANGED <<pending, drained, waited, sent, emitted, owner>>
    BY <1>73 DEF MessageTimeout
  <2>2. at \in {"abort", "recede"}
    OBVIOUS
  <2>. HIDE DEF at
  <2>. QED
    BY <2>1, <2>2, <1>0, MarkOrdered
<1>8. CASE Drain
  <2>1. /\ drained' = pending /\ pending' = <<>> /\ drained = <<>>
        /\ UNCHANGED <<doing, waited, sent, emitted, owner>>
    BY <1>8 DEF Drain, Goes, Control, Running
  <2>2. WaitInOrder'
    BY <2>1, NoElements DEF Ordered, WaitInOrder, Increasing
  <2>3. NewestOfThread' /\ FlushedInOrder'
    BY <2>1 DEF Ordered, NewestOfThread, FlushedInOrder
  <2>. QED
    BY <2>2, <2>3 DEF Ordered
<1>9. CASE DrainNext
    BY <1>9, DrainNextOrdered
<1>10. CASE GiveUp
  <2>1. pending' = <<>> /\ UNCHANGED <<drained, doing, waited, sent, emitted, owner>>
    BY <1>10 DEF GiveUp, FailPendingWrites
  <2>2. WaitInOrder'
    BY <2>1, NoElements DEF Ordered, WaitInOrder, Increasing
  <2>3. NewestOfThread' /\ FlushedInOrder'
    BY <2>1 DEF Ordered, NewestOfThread, FlushedInOrder
  <2>. QED
    BY <2>2, <2>3 DEF Ordered
<1>11. CASE Top \/ Opens \/ OpenFails \/ Drained \/ Register \/ Message \/ HandlerReturns \/ ReadEnds
            \/ TimerReturns \/ Unregister \/ Catch \/ Dispose \/ Decide \/ Returns \/ Retry
  <2>1. UNCHANGED <<pending, drained, doing, waited, sent, emitted, owner>>
    BY <1>11 DEF Top, Opens, OpenFails, Drained, Register, Message, HandlerReturns, ReadEnds,
                 TimerReturns, Unregister, Catch, Dispose, Decide, Returns, Retry, JustGoes
  <2>. QED
    BY <2>1, QuietOrdered
<1>12. ASSUME NEW g \in Peers, Pump(g) PROVE Ordered'
    BY <1>12, QuietOrdered DEF Pump
<1>13. ASSUME NEW g \in Peers, PumpFails(g) PROVE Ordered'
    BY <1>0, <1>13, MarkOrdered DEF PumpFails
<1>14. CASE UNCHANGED vars
    BY <1>14, QuietOrdered DEF vars
<1>. QED
    BY <1>1, <1>2, <1>3, <1>4, <1>5, <1>6, <1>7, <1>71, <1>72, <1>73, <1>8, <1>9,
       <1>10, <1>11, <1>12, <1>13, <1>14 DEF Next

\* FlushedInOrder: "retained and flushed in order", and nothing twice, for any
\* number of threads and any connections that are lost and opened.
THEOREM WritesKeepOrder == Spec => []FlushedInOrder
<1>1. Init => Ordered
  <2>. SUFFICES ASSUME Init PROVE Ordered
    OBVIOUS
  <2>1. /\ pending = <<>> /\ drained = <<>> /\ sent = <<>> /\ waited = {}
        /\ \A t \in Threads : doing[t].at = "idle"
    BY JobTypes DEF Init
  <2>2. WaitInOrder /\ FlushedInOrder
    BY <2>1, NoElements DEF WaitInOrder, FlushedInOrder, Increasing
  <2>3. NewestOfThread
    BY <2>1, NoElements DEF NewestOfThread
  <2>. QED
    BY <2>2, <2>3 DEF Ordered
<1>2. Ordered => FlushedInOrder
    BY DEF Ordered
<1>. QED
    BY <1>1, <1>2, OrderedInductive, ControlInvariant, PTL DEF Spec
=============================================================================

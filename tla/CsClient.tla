------------------------------ MODULE CsClient ------------------------------
(***************************************************************************)
(* The C# client, Client.cs: threads of the application call emit,         *)
(* connect and disconnect while RunAsync opens connections, drains the     *)
(* writes that waited for one, reads, and runs the application's handlers. *)
(*                                                                         *)
(* A section under lock(_stateGate) is one action, except where it calls   *)
(* out of it: disconnect, which cancels and aborts inside the lock, and an *)
(* emit() that is refused, which publishes 'error' there.  Abort is two    *)
(* steps: it marks the peer, then waits for its ProtocolGate, which the    *)
(* handlers of framed messages and of the 'error' of the message timer     *)
(* hold and the handlers of raw data do not.  The write queue of a peer is *)
(* what WriteQueue promises to be.  Every write is one byte long.          *)
(* Handlers return and do not throw.                                       *)
(***************************************************************************)
EXTENDS Integers, Sequences, SequencesExt

CONSTANTS
    Callers,          \* threads of the application
    Limits,           \* values of parser.maxPendingBytes
    MaxRetries,       \* config.maxRetries
    MaxWrites,        \* bound: emit() calls
    MaxPeers,         \* bound: connections
    MaxConnects,      \* bound: connect() calls that start a RunAsync
    MaxDisconnects    \* bound: disconnect() calls

ASSUME CsClientAssumption ==
    /\ {"run", "pool", "timer"} \cap Callers = {}
    /\ Limits \subseteq Nat /\ {MaxRetries, MaxWrites, MaxPeers, MaxConnects, MaxDisconnects} \subseteq Nat

\* "run" runs RunAsync, "pool" the rest of a pump that failed, "timer" the
\* timer of an incomplete message.
Threads == Callers \cup {"run", "pool", "timer"}
Writes  == 1 .. MaxWrites
Peers   == 1 .. MaxPeers

VARIABLES
    raw,            \* the raw parser
    limit,          \* parser.maxPendingBytes; the raw parser has none
    run,            \* where RunAsync is
    socket,         \* the peer of the last connection, 0 for null
    signaled,       \* peers with FailureSignaled
    disposed,       \* peers that are marked by Abort...
    closed,         \* ...whose Lifetime it cancelled, with their stream...
    lost,           \* ...or whose Lifetime it found disposed, and threw
    stopped,        \* peers whose write queue was stopped
    queue,          \* writes in the queue of each peer
    cancelled,      \* the token of _lifetime
    explicit,       \* explicitlyDisconnected
    violation,      \* protocolViolation
    retries,        \* retriesRemaining
    pending,        \* _pendingBeforeConnect
    drained,        \* what DrainPendingWrites has still to enqueue
    doing,          \* what each thread does inside emit or disconnect
    handling,       \* which 'error' handlers it is in: none, those of a failure,
                    \* or those of a refused emit(), under _stateGate
    timed,          \* the peer whose ProtocolGate the message timer holds, or 0
    completion,     \* the task of each write
    emitted,        \* history: number of writes, and the
    owner,          \* thread that emitted each
    waited,         \* history: writes that waited for a connection
    late,           \* history: those that came after the last FailPendingWrites
    sent,           \* history: writes that entered a queue, in order
    connects,       \* history: connect() calls
    disconnects     \* history: disconnect() calls

parserVars == <<raw, limit>>
peerVars   == <<socket, signaled, disposed, closed, lost, stopped, queue>>
stateVars  == <<cancelled, explicit, violation, retries>>
waitVars   == <<pending, drained>>
threadVars == <<doing, handling, timed>>
histVars   == <<emitted, owner, waited, late, sent, connects, disconnects>>

vars == <<parserVars, run, peerVars, stateVars, waitVars, threadVars, completion, histVars>>

\* A thread that is somewhere with no write and no peer.
At(at) == [at |-> at, write |-> 0, peer |-> 0]

Idle == At("idle")

\* What a thread may be doing: with which write and which peer.
Jobs ==
    [at : {"idle", "emit", "enqueue", "fail", "signal", "abort", "recede",
           "cancel", "callback", "cancelled", "disconnect"},
     write : Writes \cup {0}, peer : Peers \cup {0}]

\* RunAsync holds a peer: from its connection to DisposeAsync.
Holding == {"drain", "draining", "connected", "reading", "handler", "dispose", "throwing", "close"}

\* The part of it in which peer.Abort is registered with the token.
Registered == {"reading", "handler", "dispose", "throwing"}

TypeOK ==
    /\ raw \in BOOLEAN /\ limit \in Limits
    /\ run \in Holding \cup {"off", "top", "opening", "after", "delay", "destroy", "ending"}
    /\ socket \in Peers \cup {0}
    /\ disposed \in SUBSET (1 .. socket) /\ signaled \in SUBSET (1 .. socket)
    /\ closed \in SUBSET (disposed \cap stopped) /\ lost \in SUBSET (disposed \ closed)
    /\ stopped \in SUBSET (1 .. socket)
    /\ queue \in [Peers -> Seq(Writes)]
    /\ cancelled \in BOOLEAN /\ explicit \in BOOLEAN /\ violation \in BOOLEAN
    /\ retries \in 0 .. MaxRetries
    /\ raw \/ Len(pending) <= limit
    /\ doing \in [Threads -> Jobs]
    /\ handling \in [Threads -> {"none", "failure", "refusal"}] /\ timed \in 0 .. socket
    /\ completion \in [Writes -> {"none", "pending", "ok", "failed"}]

Init ==
    /\ raw \in BOOLEAN /\ limit \in Limits
    /\ run = "off"
    /\ socket = 0 /\ signaled = {} /\ disposed = {} /\ closed = {} /\ lost = {} /\ stopped = {}
    /\ queue = [g \in Peers |-> <<>>]
    /\ cancelled = FALSE /\ explicit = FALSE /\ violation = FALSE /\ retries = MaxRetries
    /\ pending = <<>> /\ drained = <<>>
    /\ doing = [t \in Threads |-> Idle]
    /\ handling = [t \in Threads |-> "none"] /\ timed = 0
    /\ completion = [w \in Writes |-> "none"]
    /\ emitted = 0 /\ owner = [w \in Writes |-> "run"] /\ waited = {} /\ late = {}
    /\ sent = <<>> /\ connects = 0 /\ disconnects = 0

-----------------------------------------------------------------------------
(* Locks, and IpcPeer.Abort *)

\* RunAsync has published an event: its handlers run on its thread.  (After a
\* cancelled delay 'destroy' is published, too, when Queue refuses everything,
\* and 'error' after a failed attempt just before 'disconnect'.)
InHandler == run \in {"connected", "handler", "after", "destroy"}

\* Thread t is one of the application's, or in a handler that may do as much.
InApplication(t) == t \in Callers \/ (t = "run" /\ InHandler)

\* t holds _stateGate: disconnect keeps it until its last Abort has finished,
\* and a refused emit() until the handlers of 'error' have returned.
HoldsState(t) ==
    \/ doing[t].at \in {"cancel", "callback", "cancelled", "disconnect"}
    \/ handling[t] = "refusal"

\* t holds the ProtocolGate of peer g, while handlers run or Abort works.
HoldsGate(t, g) ==
    \/ t = "run" /\ ~raw /\ run = "handler" /\ g = socket
    \/ t = "timer" /\ g = timed

\* lock(_stateGate) does not block t.
StateFree(t) == \A u \in Threads \ {t} : ~HoldsState(u)


\* lock(ProtocolGate) of peer g does not block t.
GateFree(t, g) == \A u \in Threads \ {t} : ~HoldsGate(u, g)

\* DisposeAsync has disposed the Lifetime of g.
LifetimeDisposed(g) == g < socket \/ run \notin Holding

\* Writes of a set complete, unless they have.
Completes(ws, result) ==
    completion' = [w \in Writes |->
        IF w \in ws /\ completion[w] = "pending" THEN result ELSE completion[w]]

\* Writes.Stop fails what is queued.
Stop(g) ==
    /\ stopped' = stopped \cup {g}
    /\ queue' = [queue EXCEPT ![g] = <<>>]
    /\ Completes(ToSet(queue[g]), "failed")

\* What Abort does under the lock and after it: Lifetime.Cancel throws when
\* the Lifetime is disposed, and then nothing is stopped or closed.
CloseMarked(g) ==
    IF LifetimeDisposed(g)
    THEN lost' = lost \cup {g} /\ UNCHANGED <<closed, stopped, queue, completion>>
    ELSE closed' = closed \cup {g} /\ Stop(g) /\ UNCHANGED lost

\* Abort by a thread that no lock stops.
Abort(g) ==
    IF g \in disposed THEN UNCHANGED <<disposed, closed, lost, stopped, queue, completion>>
    ELSE disposed' = disposed \cup {g} /\ CloseMarked(g)

\* The first step of Abort by another thread, which goes on at `at` if it was
\* the first to mark the peer, and else at `next`.
Mark(t, g, at, next) ==
    IF g \in disposed THEN doing' = [doing EXCEPT ![t] = next] /\ UNCHANGED disposed
    ELSE /\ disposed' = disposed \cup {g}
         /\ doing' = [doing EXCEPT ![t] = [at |-> at, write |-> 0, peer |-> g]]

\* SignalFailure(g) on t will publish 'error'.  Left out are the cases in which
\* the handlers can do nothing that is not done anyway: where the application
\* is at work already, and on the thread of the pump, which holds no lock and
\* does nothing more, so that another thread of the application stands for it.
Publishes(t, g) == g \notin signaled /\ t # "pool" /\ handling[t] = "none" /\ ~InApplication(t)

\* The second step.  When Cancel throws the caller gets the exception.
FinishAbort(t) ==
    /\ doing[t].at \in {"abort", "recede", "callback", "disconnect"}
    /\ GateFree(t, doing[t].peer)
    /\ CloseMarked(doing[t].peer)
    /\ LET throws == LifetimeDisposed(doing[t].peer)
       IN  /\ doing' = [doing EXCEPT ![t] =
                 IF @.at = "callback" /\ ~throws THEN At("cancelled") ELSE Idle]
           /\ handling' = [handling EXCEPT ![t] =
                 IF doing[t].at = "abort" /\ ~throws THEN "failure" ELSE @]
    /\ UNCHANGED <<parserVars, run, socket, signaled, disposed, stateVars, waitVars, timed, histVars>>

-----------------------------------------------------------------------------
(* emit *)

Live == socket # 0 /\ socket \notin disposed

\* The application can call the client on thread t.
CanCall(t) == doing[t] = Idle /\ (handling[t] # "none" \/ InApplication(t))

Waits(t) == IF doing[t].at = "emit" THEN 1 ELSE 0

\* emit() calls made or committed to.
Calls == emitted + Waits("run") + Waits("timer")

\* A handler calls emit, and may have to wait for the lock.
HandlerEmits(t) ==
    /\ CanCall(t) /\ Calls < MaxWrites
    /\ doing' = [doing EXCEPT ![t] = At("emit")]
    /\ UNCHANGED <<parserVars, run, peerVars, stateVars, waitVars, handling, timed, completion, histVars>>

\* 'error' handlers return; the ones of a refused emit() to those that called it.
ErrorReturns(t) ==
    /\ handling[t] # "none" /\ doing[t] = Idle
    /\ LET outer == IF handling[t] = "failure" \/ InApplication(t) THEN "none" ELSE "failure"
       IN  /\ handling' = [handling EXCEPT ![t] = outer]
           /\ timed' = IF t = "timer" /\ outer = "none" THEN 0 ELSE timed
    /\ UNCHANGED <<parserVars, run, peerVars, stateVars, waitVars, doing, completion, histVars>>

\* Faulty variant: the writes that wait are a stack.
WaitStack(w) == pending' = <<w>> \o pending

\* _pendingBeforeConnect.Enqueue
Wait(w) == pending' = Append(pending, w)

\* _pendingBeforeConnectBytes + data.Length > maximum
OverLimit == ~raw /\ Len(pending) + 1 > limit

\* The section of Queue under the lock: a write for the current peer, one
\* that is refused, or one that waits.  One too many cancels, and publishes
\* 'error' inside the lock.
Queue(t) ==
    /\ doing[t].at = "emit" \/ (t \in Callers /\ CanCall(t) /\ Calls < MaxWrites)
    /\ StateFree(t)
    /\ emitted' = emitted + 1
    /\ LET w == emitted + 1
           refused == run = "off" \/ explicit \/ violation
           does == IF Live THEN [at |-> "enqueue", write |-> w, peer |-> socket] ELSE Idle
       IN  /\ owner' = [owner EXCEPT ![w] = t]
           /\ doing' = [doing EXCEPT ![t] = does]
           /\ \/ /\ Live
                 /\ UNCHANGED <<cancelled, violation, handling, pending, completion, waited, late>>
              \/ /\ ~Live /\ refused
                 /\ completion' = [completion EXCEPT ![w] = "failed"]
                 /\ UNCHANGED <<cancelled, violation, handling, pending, waited, late>>
              \/ /\ ~Live /\ ~refused /\ OverLimit
                 /\ completion' = [completion EXCEPT ![w] = "failed"]
                 /\ violation' = TRUE /\ cancelled' = TRUE
                 /\ handling' = [handling EXCEPT ![t] = "refusal"]
                 /\ UNCHANGED <<pending, waited, late>>
              \/ /\ ~Live /\ ~refused /\ ~OverLimit
                 /\ Wait(w)
                 /\ completion' = [completion EXCEPT ![w] = "pending"]
                 /\ waited' = waited \cup {w}
                 /\ late' = IF run = "ending" THEN late \cup {w} ELSE late
                 /\ UNCHANGED <<cancelled, violation, handling>>
    /\ UNCHANGED <<parserVars, run, peerVars, explicit, retries, drained, timed, sent, connects,
                   disconnects>>

\* TryEnqueue of write w by t; after a refusal SignalFailure is called, with a
\* protocol error when the queue was full.
TryEnqueue(t, w, g) ==
    LET full == ~raw /\ g \notin stopped /\ Len(queue[g]) >= limit
        fails(at) == [at |-> at, write |-> 0, peer |-> g]
    IN  IF g \in stopped \/ full
        THEN /\ completion' = [completion EXCEPT ![w] = "failed"]
             /\ violation' = (violation \/ full)
             /\ doing' = [doing EXCEPT ![t] = fails(IF full THEN "fail" ELSE "signal")]
             /\ UNCHANGED <<queue, sent>>
        ELSE /\ completion' = [completion EXCEPT ![w] = "pending"]
             /\ queue' = [queue EXCEPT ![g] = Append(@, w)]
             /\ sent' = Append(sent, w)
             /\ doing' = [doing EXCEPT ![t] = Idle]
             /\ UNCHANGED violation

\* The rest of Queue.
Enqueue(t) ==
    /\ doing[t].at = "enqueue"
    /\ TryEnqueue(t, doing[t].write, doing[t].peer)
    /\ UNCHANGED <<parserVars, run, socket, signaled, disposed, closed, lost, stopped, cancelled,
                   explicit, retries, waitVars, handling, timed, emitted, owner, waited, late, connects,
                   disconnects>>

\* SignalFailure: after a protocol error it clears the buffer, for which it
\* needs the ProtocolGate; then it aborts, and the first one publishes 'error'.
SignalFailure(t) ==
    /\ doing[t].at \in {"fail", "signal"}
    /\ doing[t].at = "fail" => GateFree(t, doing[t].peer)
    /\ LET g == doing[t].peer
       IN  /\ Mark(t, g, IF Publishes(t, g) THEN "abort" ELSE "recede", Idle)
           /\ signaled' = signaled \cup {g}
           /\ handling' = [handling EXCEPT ![t] =
                 IF Publishes(t, g) /\ g \in disposed THEN "failure" ELSE @]
    /\ UNCHANGED <<parserVars, run, socket, closed, lost, stopped, queue, stateVars, waitVars,
                   timed, completion, histVars>>

-----------------------------------------------------------------------------
(* connect and disconnect *)

\* connect: while a RunAsync runs it does nothing.
Connect(t) ==
    /\ CanCall(t)
    /\ StateFree(t)
    /\ run = "off"
    /\ connects < MaxConnects
    /\ connects' = connects + 1
    /\ run' = "top"
    /\ cancelled' = FALSE /\ explicit' = FALSE /\ violation' = FALSE
    /\ retries' = MaxRetries
    /\ UNCHANGED <<parserVars, peerVars, waitVars, threadVars, completion,
                   emitted, owner, waited, late, sent, disconnects>>

\* disconnect takes the lock, and keeps it until its last Abort has finished.
\* _lifetime.Cancel has callbacks to call only the first time.
Disconnect(t) ==
    /\ CanCall(t)
    /\ StateFree(t)
    /\ disconnects < MaxDisconnects
    /\ disconnects' = disconnects + 1
    /\ explicit' = TRUE /\ cancelled' = TRUE
    /\ doing' = [doing EXCEPT ![t] = At(IF cancelled THEN "cancelled" ELSE "cancel")]
    /\ UNCHANGED <<parserVars, run, peerVars, violation, retries, waitVars, handling, timed,
                   completion, emitted, owner, waited, late, sent, connects>>

\* Inside Cancel: the callback peer.Abort, if it is still registered.
CancelCallback(t) ==
    /\ doing[t].at = "cancel"
    /\ IF run \in Registered THEN Mark(t, socket, "callback", At("cancelled"))
       ELSE doing' = [doing EXCEPT ![t] = At("cancelled")] /\ UNCHANGED disposed
    /\ UNCHANGED <<parserVars, run, socket, signaled, closed, lost, stopped, queue, stateVars, waitVars,
                   handling, timed, completion, histVars>>

\* socket?.Abort()
AbortSocket(t) ==
    /\ doing[t].at = "cancelled"
    /\ IF socket = 0 THEN doing' = [doing EXCEPT ![t] = Idle] /\ UNCHANGED disposed
       ELSE Mark(t, socket, "disconnect", Idle)
    /\ UNCHANGED <<parserVars, run, socket, signaled, closed, lost, stopped, queue, stateVars, waitVars,
                   handling, timed, completion, histVars>>

-----------------------------------------------------------------------------
(* RunAsync *)

\* RunAsync goes on; no handler is in a call, and no 'error' is published.
Goes(from, to) == run = from /\ doing["run"] = Idle /\ handling["run"] = "none" /\ run' = to

\* RunAsync goes on and changes nothing else.
JustGoes(from, to) ==
    /\ Goes(from, to)
    /\ UNCHANGED <<parserVars, peerVars, stateVars, waitVars, threadVars, completion, histVars>>

\* ThrowIfCancellationRequested
Top == JustGoes("top", IF cancelled THEN "after" ELSE "opening")

\* OpenPeerAsync returns a peer, and everybody sees it.
Opens ==
    /\ Goes("opening", "drain")
    /\ socket < MaxPeers
    /\ socket' = socket + 1
    /\ retries' = MaxRetries
    /\ UNCHANGED <<parserVars, signaled, disposed, closed, lost, stopped, queue, cancelled, explicit,
                   violation, waitVars, threadVars, completion, histVars>>

\* OpenPeerAsync fails or is cancelled.
OpenFails == JustGoes("opening", "after")

\* DrainPendingWrites takes what waits...
Drain ==
    /\ Goes("drain", "draining")
    /\ StateFree("run")
    /\ drained' = pending /\ pending' = <<>>
    /\ UNCHANGED <<parserVars, peerVars, stateVars, threadVars, completion, histVars>>

\* ...and enqueues one after the other.
DrainNext ==
    /\ run = "draining" /\ drained # <<>> /\ doing["run"] = Idle /\ handling["run"] = "none"
    /\ drained' = Tail(drained)
    /\ TryEnqueue("run", Head(drained), socket)
    /\ UNCHANGED <<parserVars, run, socket, signaled, disposed, closed, lost, stopped, cancelled,
                   explicit, retries, pending, handling, timed, emitted, owner, waited, late, connects,
                   disconnects>>

\* 'connect' is published.
Drained == drained = <<>> /\ JustGoes("draining", "connected")

\* The loop of ReadLoopAsync goes on until one of its tokens is cancelled.
LoopOrEnd == IF cancelled \/ socket \in closed THEN "dispose" ELSE "reading"

\* cancellationToken.Register(peer.Abort) calls it at once when it is too late.
Register ==
    /\ Goes("connected", LoopOrEnd)
    /\ IF cancelled THEN Abort(socket) ELSE UNCHANGED <<disposed, closed, lost, stopped, queue, completion>>
    /\ UNCHANGED <<parserVars, socket, signaled, stateVars, waitVars, threadVars, histVars>>

\* ReadAsync has data: the handler of a message is called, under the lock if it
\* is framed.
Message ==
    /\ raw \/ GateFree("run", socket)
    /\ JustGoes("reading", "handler")

HandlerReturns == JustGoes("handler", LoopOrEnd)

\* ReadAsync ends with the stream or because it is cancelled; or it fails, or
\* the parser refuses what was read.
ReadEnds == JustGoes("reading", "dispose") \/ JustGoes("reading", "throwing")

\* The timer of an incomplete message has got the ProtocolGate: SignalFailure
\* runs under it, with its Abort and the handlers of 'error'.
MessageTimeout ==
    /\ run \in {"reading", "dispose", "throwing", "close"} /\ ~raw /\ Live
    /\ doing["timer"] = Idle /\ timed = 0
    /\ timed' = socket
    /\ violation' = TRUE
    /\ signaled' = signaled \cup {socket}
    /\ Mark("timer", socket, IF socket \in signaled THEN "recede" ELSE "abort", Idle)
    /\ UNCHANGED <<parserVars, run, socket, closed, lost, stopped, queue, cancelled, explicit, retries,
                   waitVars, handling, completion, histVars>>

\* ...and it ends without 'error' when it was not the first, or Abort threw.
TimerReturns ==
    /\ timed # 0 /\ doing["timer"] = Idle /\ handling["timer"] = "none"
    /\ timed' = 0
    /\ UNCHANGED <<parserVars, run, peerVars, stateVars, waitVars, doing, handling, completion, histVars>>

\* No thread runs the callback that RunAsync has registered.
NoCallback == \A t \in Threads : doing[t].at # "callback"

\* Faulty variant: nobody waits for the callback.
UnregisterAtOnce == JustGoes("dispose", "close")

\* The registration is disposed at the end of the try block, which waits for
\* a callback that is running.
Unregister == NoCallback /\ JustGoes("dispose", "close")

\* catch: the first failure of the peer is published.
Catch ==
    /\ NoCallback
    /\ Goes("throwing", "close")
    /\ signaled' = signaled \cup {socket}
    /\ IF socket \in signaled THEN UNCHANGED <<violation, handling>>
       ELSE /\ violation' \in {violation, violation \/ ~raw}
            /\ handling' = [handling EXCEPT !["run"] = "failure"]
    /\ UNCHANGED <<parserVars, socket, disposed, closed, lost, stopped, queue, cancelled, explicit, retries,
                   waitVars, doing, timed, completion, histVars>>

\* finally: peer.DisposeAsync; then 'disconnect' is published.
Dispose ==
    /\ Goes("close", "after")
    /\ Abort(socket)
    /\ UNCHANGED <<parserVars, socket, signaled, stateVars, waitVars, threadVars, histVars>>

\* The decision to give up; stopRetrying is a retry budget of 0.
Final == explicit \/ cancelled \/ violation \/ retries < 1

\* After 'disconnect': 'destroy' is published, or the delay begins.
Decide == JustGoes("after", IF Final THEN "destroy" ELSE "delay")

\* FailPendingWrites
FailPendingWrites ==
    /\ StateFree("run")
    /\ pending' = <<>>
    /\ Completes(ToSet(pending), "failed")

\* Faulty variant: the writes that wait are forgotten.
GiveUpForgets ==
    /\ run = "destroy" \/ (run = "delay" /\ cancelled)
    /\ JustGoes(run, "ending")

\* After 'destroy', or when the token is cancelled during the delay.
GiveUp ==
    /\ run = "destroy" \/ (run = "delay" /\ cancelled)
    /\ Goes(run, "ending")
    /\ FailPendingWrites
    /\ UNCHANGED <<parserVars, peerVars, stateVars, drained, threadVars, histVars>>

\* RunAsync returns.
Returns == JustGoes("ending", "off")

\* The delay is over.
Retry ==
    /\ Goes("delay", "top")
    /\ retries' = retries - 1
    /\ UNCHANGED <<parserVars, peerVars, cancelled, explicit, violation, waitVars, threadVars, completion,
                   histVars>>

-----------------------------------------------------------------------------
(* The write queue *)

\* A write is written.
Pump(g) ==
    /\ queue[g] # <<>>
    /\ queue' = [queue EXCEPT ![g] = Tail(@)]
    /\ Completes({Head(queue[g])}, "ok")
    /\ UNCHANGED <<parserVars, run, socket, signaled, disposed, closed, lost, stopped, stateVars, waitVars,
                   threadVars, histVars>>

\* A write fails: the queue is stopped and SignalFailure is called.
PumpFails(g) ==
    /\ queue[g] # <<>> /\ doing["pool"] = Idle
    /\ Stop(g)
    /\ Mark("pool", g, "recede", Idle)
    /\ signaled' = signaled \cup {g}
    /\ UNCHANGED <<parserVars, run, socket, closed, lost, stateVars, waitVars,
                   handling, timed, histVars>>

Next ==
    \/ \E t \in Threads :
        \/ Connect(t) \/ Queue(t) \/ Enqueue(t) \/ SignalFailure(t)
        \/ Disconnect(t) \/ CancelCallback(t) \/ AbortSocket(t) \/ FinishAbort(t) \/ ErrorReturns(t)
    \/ \E t \in {"run", "timer"} : HandlerEmits(t)
    \/ Top \/ Opens \/ OpenFails \/ Drain \/ DrainNext \/ Drained \/ Register
    \/ Message \/ HandlerReturns \/ ReadEnds \/ MessageTimeout \/ TimerReturns
    \/ Unregister \/ Catch \/ Dispose
    \/ Decide \/ GiveUp \/ Returns \/ Retry
    \/ \E g \in Peers : Pump(g) \/ PumpFails(g)

Spec == Init /\ [][Next]_vars

\* A thread goes on inside a call of the client, or its 'error' handlers return.
Continues(t) ==
    \/ doing[t].at = "emit" /\ Queue(t)
    \/ Enqueue(t) \/ SignalFailure(t) \/ CancelCallback(t) \/ AbortSocket(t) \/ FinishAbort(t)
    \/ ErrorReturns(t)

\* RunAsync goes on: an attempt to connect or a read ends if it is cancelled.
RunContinues ==
    \/ Top \/ (cancelled /\ (Opens \/ OpenFails)) \/ Drain \/ DrainNext \/ Drained \/ Register
    \/ HandlerReturns \/ ((cancelled \/ socket \in closed) /\ ReadEnds)
    \/ Unregister \/ Catch \/ Dispose \/ Decide \/ GiveUp \/ Returns \/ Retry

\* Threads go on and locks are granted.  Nothing is assumed of the server, the
\* write queue or the application, except that handlers return.
FairSpec ==
    /\ Spec
    /\ WF_vars(RunContinues) /\ WF_vars(TimerReturns)
    /\ \A t \in Threads : WF_vars(Continues(t))

-----------------------------------------------------------------------------
\* Every write has one of the places where somebody will complete it: it waits
\* for a connection, is being drained, or is in the queue of a peer that was
\* not stopped.  Nothing waits for a connection nobody will open, unless it was
\* emitted in the moment between FailPendingWrites and the end of RunAsync.
TasksAreHeld ==
    /\ TypeOK
    /\ \A w \in Writes : completion[w] = "pending" =>
          \/ w \in ToSet(pending) /\ (run = "off" => w \in late)
          \/ w \in ToSet(drained)
          \/ \E g \in Peers \ stopped : w \in ToSet(queue[g])

\* "retained and flushed in order": the writes of a thread that waited for a
\* connection keep their order, and so do the ones that did not have to.  Only
\* one that finds the new connection can overtake one that is being drained.
\* And no write is sent twice, whichever connections are lost.
FlushedInOrder ==
    \A i, j \in DOMAIN sent :
        /\ sent[i] = sent[j] => i = j
        /\ i < j /\ owner[sent[i]] = owner[sent[j]] /\ sent[i] > sent[j] =>
              sent[i] \notin waited /\ sent[j] \in waited

\* There is one connection at a time, and none that outlives its RunAsync:
\* when DisposeAsync has returned the write queue is stopped and the stream
\* closed, unless another thread has marked the peer and had not yet cancelled
\* its Lifetime; it is then left open, and the thread's Abort throws.  That
\* takes a failure of the peer or a disconnect; and the callback of a disconnect
\* never comes too late like this, because RunAsync waits for it.
NothingSurvives ==
    /\ \A g \in 1 .. socket : LifetimeDisposed(g) =>
          \/ g \in closed \cup lost
          \/ \E t \in Threads : doing[t].at \in {"abort", "recede", "disconnect"} /\ doing[t].peer = g
    /\ \A g \in lost : g \in signaled \/ disconnects > 0
    /\ \A t \in Threads : doing[t].at = "callback" => ~LifetimeDisposed(doing[t].peer)

\* Two threads wait for each other: one has _stateGate and needs the
\* ProtocolGate of a peer to abort it, the other has that one and emits.
LockInversion ==
    \E t, u \in Threads :
        /\ HoldsState(t) /\ doing[t].at \in {"fail", "abort", "recede", "callback", "disconnect"}
        /\ t # u /\ HoldsGate(u, doing[t].peer) /\ doing[u].at = "emit"


=============================================================================

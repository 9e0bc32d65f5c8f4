----------------------------- MODULE RoundTrip -----------------------------
(***************************************************************************)
(* The two pairs of peers that meet on one TCP connection, which may be    *)
(* lost at any time.  The round-trip peers of                              *)
(* rust/node-ipc/interop/node-peer.js: a client that keeps a window of     *)
(* numbered requests in flight, first for warm-up and then measured, and a *)
(* server that checks and answers each of them.  The ping-pong demo of     *)
(* rust/node-ipc/examples/nodeRustInterop/node-peer.js: one message each   *)
(* way, and a server that waits for a client that has one.                 *)
(*                                                                         *)
(* Each direction is a write buffer in the sender's process (buf), the     *)
(* network (net), and the chunk its receiver is working on (burst).  A     *)
(* chunk is handled without interruption; promises are settled after it.   *)
(***************************************************************************)
EXTENDS Integers, Sequences, FiniteSets, FiniteSetsExt, TLC

CONSTANTS
    Warmups,      \* values given with --warmup, --count and --inflight
    Counts,
    Inflights,
    MaxSafe,      \* Number.MAX_SAFE_INTEGER
    Payloads,     \* values of --payload-bytes
    HighWater,    \* high water mark of a socket, in messages
    NetCapacity,  \* messages the network holds in each direction
    Percents,     \* percentiles in the report of the client
    Latencies,    \* the time a round trip may take
    Base,         \* base of the numerals in a message
    RequestBase,  \* bytes of a request, and
    ResponseBase  \* of a response, with a sequence of one digit

ASSUME RoundTripAssumption ==
    /\ Warmups \cup Counts \cup Inflights \subseteq Nat
    /\ {MaxSafe, HighWater, NetCapacity} \subseteq Nat \ {0}
    /\ Base \in Nat /\ Base > 1
    /\ Percents \subseteq 1 .. 100 /\ Latencies \subseteq Nat
    /\ {RequestBase, ResponseBase} \subseteq Nat

VARIABLES
    demo,  \* the peers are those of the ping-pong demo
    copt,  \* options of the client
    sopt,  \* options of the server
    conn,  \* the TCP connection
    cl,    \* the client: runClient and the runPhase under way
    sv,    \* the server: runServer
    up,    \* requests
    down,  \* responses
    wire,  \* history: bytes of the measured requests and responses
    fault  \* history: the connection was refused or lost

options == <<demo, copt, sopt>>

vars == <<demo, copt, sopt, conn, cl, sv, up, down, wire, fault>>

-----------------------------------------------------------------------------
(* Options *)

\* parseInteger
InRange(value, minimum, maximum) == value <= MaxSafe /\ minimum <= value /\ value <= maximum

\* What the command line asks for is accepted...
Accepts(asked) ==
    /\ InRange(asked.warmup, 0, MaxSafe)
    /\ InRange(asked.count, 1, MaxSafe)
    /\ InRange(asked.inflight, 1, MaxSafe)
    /\ asked.warmup + asked.count <= MaxSafe

\* ...and the window is never larger than the measured phase.
Options ==
    {[asked EXCEPT !.inflight = Min({@, asked.count})] :
        asked \in {a \in [warmup : Warmups, count : Counts,
                          inflight : Inflights, payload : Payloads] : Accepts(a)}}

Agree == \A field \in {"warmup", "count", "payload"} : copt[field] = sopt[field]

Expected == sopt.warmup + sopt.count

-----------------------------------------------------------------------------
(* Connections *)

Idle == [buf |-> <<>>, net |-> <<>>, burst |-> <<>>, needDrain |-> FALSE]

\* socket.write(), once for each of the messages.
Writes(d, messages) ==
    LET buf == d.buf \o messages
    IN  [d EXCEPT !.buf = buf, !.needDrain = @ \/ (messages # <<>> /\ Len(buf) >= HighWater)]

Full(d) == Len(d.buf) >= HighWater

-----------------------------------------------------------------------------
(* Client *)

PhaseCount(phase) == IF phase = "warmup" THEN copt.warmup ELSE copt.count

\* slotSequences.length
Slots(phase) == Min({copt.inflight, PhaseCount(phase)})

\* How many writes until one returns false.
UntilFull(d) == Max({1, HighWater - Len(d.buf)})

\* How many requests the window has room for.
Room(c) == Min({PhaseCount(c.phase) - c.sent, Slots(c.phase) - (c.sent - c.received)})

\* fillWindow: it stops when the window is full or a write returns false; then
\* it waits for 'drain'.
FillWindow(c, u) ==
    LET w == Slots(c.phase)
        n == IF c.waiting THEN 0 ELSE Min({Room(c), UntilFull(u)})
        new == c.sent .. c.sent + n - 1
        requests == [j \in 1 .. n |-> [sequence |-> c.sent + j - 1, payload |-> copt.payload]]
    IN  IF \E k \in new : c.slots[k % w] # -1
        THEN /\ cl' = [c EXCEPT !.result = "rejected", !.error = "slot"]
             /\ up' = u
        ELSE /\ cl' = [c EXCEPT
                    !.sent = @ + n,
                    !.slots = [s \in DOMAIN @ |->
                        IF \E k \in new : k % w = s THEN CHOOSE k \in new : k % w = s ELSE @[s]],
                    !.waiting = @ \/ (n > 0 /\ Len(u.buf) + n >= HighWater)]
             /\ up' = Writes(u, requests)

\* runPhase
RunPhase(phase) ==
    FillWindow([phase |-> phase, sent |-> 0, received |-> 0,
                slots |-> [s \in 0 .. Slots(phase) - 1 |-> -1],
                waiting |-> FALSE, result |-> "running", error |-> "none"], up)

\* 'connect': waitForConnect resolves, and runClient starts the first phase.
Connect ==
    /\ ~demo
    /\ conn = "connecting"
    /\ conn' = "open"
    /\ RunPhase(IF copt.warmup > 0 THEN "warmup" ELSE "measured")
    /\ UNCHANGED <<options, sv, down, wire, fault>>

\* 'error' first: waitForConnect rejects; maxRetries is 0.
ConnectFails ==
    /\ conn = "connecting"
    /\ conn' = "refused" /\ fault' = TRUE
    /\ cl' = [cl EXCEPT !.phase = "failed"]
    /\ UNCHANGED <<options, sv, up, down, wire>>

Phasing == cl.phase \in {"warmup", "measured"}

\* A chunk of responses arrives.
ClientReads ==
    /\ Phasing /\ cl.result = "running" /\ down.burst = <<>>
    /\ \E n \in 1 .. Len(down.net) :
        down' = [down EXCEPT !.burst = SubSeq(down.net, 1, n),
                             !.net = SubSeq(@, n + 1, Len(@))]
    /\ UNCHANGED <<options, conn, cl, sv, up, wire, fault>>

Length(base, sequence) == base + Cardinality({e \in 1 .. sequence : Base^e <= sequence})

\* validatePayload; the client expects no particular sequence.
Valid(data, payload) == data.sequence >= 0 /\ data.payload = payload

\* onResponse with the next message of the chunk.  Once the phase is settled
\* its handlers are gone, and nobody handles the message.
OnResponse ==
    /\ ~demo
    /\ down.burst # <<>>
    /\ LET data == Head(down.burst)
           slot == data.sequence % Slots(cl.phase)
           next == [cl EXCEPT !.slots[slot] = -1, !.received = @ + 1]
       IN  IF cl.result # "running"
           THEN UNCHANGED <<cl, up, wire>>
           ELSE IF ~Valid(data, copt.payload) \/ cl.slots[slot] # data.sequence
           THEN /\ cl' = [cl EXCEPT !.result = "rejected", !.error = "response"]
                /\ UNCHANGED <<up, wire>>
           ELSE /\ wire' = wire + IF cl.phase = "warmup" THEN 0
                                  ELSE Length(RequestBase, data.sequence)
                                       + Length(ResponseBase, data.sequence)
                /\ IF next.received = PhaseCount(cl.phase)
                   THEN cl' = [next EXCEPT !.result = "resolved"] /\ UNCHANGED up
                   ELSE FillWindow(next, up)
    /\ down' = [down EXCEPT !.burst = Tail(@)]
    /\ UNCHANGED <<options, conn, sv, fault>>

\* Faulty variant: nobody listens to 'drain'.
FlushRequestForgets ==
    /\ conn = "open" /\ up.buf # <<>> /\ down.burst = <<>> /\ Len(up.net) < NetCapacity
    /\ up' = [up EXCEPT !.buf = Tail(@), !.net = Append(@, Head(up.buf)),
                        !.needDrain = @ /\ Len(up.buf) > 1]
    /\ UNCHANGED <<options, conn, cl, sv, down, wire, fault>>

\* A request leaves the client's buffer; 'drain' when it was the last one.
FlushRequest ==
    /\ conn = "open" /\ up.buf # <<>> /\ down.burst = <<>> /\ Len(up.net) < NetCapacity
    /\ LET drained == Len(up.buf) = 1 /\ up.needDrain
           flushed == [up EXCEPT !.buf = Tail(@), !.net = Append(@, Head(up.buf)),
                                 !.needDrain = @ /\ ~drained]
       IN  IF drained /\ cl.waiting /\ Phasing /\ cl.result = "running"
           THEN FillWindow([cl EXCEPT !.waiting = FALSE], flushed)
           ELSE up' = flushed /\ UNCHANGED cl
    /\ UNCHANGED <<options, conn, sv, down, wire, fault>>

\* 'disconnect' reaches the phase under way: the connection was lost, or the
\* server has ended it and everything was read.
ClientClosed ==
    /\ Phasing /\ cl.result = "running" /\ down.burst = <<>>
    /\ conn = "lost" \/ (sv.finishing /\ down.buf = <<>> /\ down.net = <<>>)
    /\ cl' = [cl EXCEPT !.result = "rejected", !.error = "disconnect"]
    /\ UNCHANGED <<options, conn, sv, up, down, wire, fault>>

\* The warm-up is over.
MeasuresNext(c) == c.phase = "warmup" /\ c.result = "resolved"

\* runClient goes on when the promise of a phase is settled: the measured
\* phase follows the warm-up; in the end it disconnects.
ContinueClient ==
    /\ Phasing /\ cl.result # "running" /\ down.burst = <<>>
    /\ IF MeasuresNext(cl)
       THEN RunPhase("measured") /\ UNCHANGED conn
       ELSE /\ cl' = [cl EXCEPT !.phase = IF cl.result = "resolved" THEN "done" ELSE "failed"]
            /\ conn' = "lost"
            /\ UNCHANGED up
    /\ UNCHANGED <<options, sv, down, wire, fault>>

-----------------------------------------------------------------------------
(* Server *)

\* A chunk of requests arrives, unless the socket is paused.
ServerReads ==
    /\ conn \in {"open", "lost"} /\ sv.result # "failed" /\ ~sv.paused /\ up.burst = <<>>
    /\ \E n \in 1 .. Len(up.net) :
        up' = [up EXCEPT !.burst = SubSeq(up.net, 1, n), !.net = SubSeq(@, n + 1, Len(@))]
    /\ UNCHANGED <<options, conn, cl, sv, down, wire, fault>>

\* Faulty variant: the measured phase goes on counting.
ExpectedSequenceRuns(frames) == frames

\* The client starts from 0 again after the warm-up.
ExpectedSequence(frames) ==
    IF frames < sopt.warmup THEN frames ELSE frames - sopt.warmup

\* After the last answer, or a failure, requests are ignored.
Ignores == sv.result # "running" \/ sv.finishing

Expects(data) ==
    Valid(data, sopt.payload) /\ data.sequence = ExpectedSequence(sv.frames)

\* The handler of REQUEST_EVENT with the next message of the chunk: it answers
\* with the same data, ends the socket after the last answer, and stops reading
\* while its answers do not drain.  A wrong request fails the server, whose
\* stop() destroys the socket.
Request ==
    /\ ~demo
    /\ up.burst # <<>>
    /\ LET data == Head(up.burst)
           answered == Writes(down, <<data>>)
           last == sv.frames + 1 = Expected
       IN  IF Ignores
           THEN UNCHANGED <<conn, sv, down>>
           ELSE IF ~Expects(data)
           THEN /\ sv' = [sv EXCEPT !.result = "failed"]
                /\ conn' = "lost"
                /\ UNCHANGED down
           ELSE /\ sv' = [sv EXCEPT !.frames = @ + 1, !.finishing = last,
                                    !.paused = @ \/ (~last /\ Full(answered))]
                /\ down' = answered
                /\ UNCHANGED conn
    /\ up' = [up EXCEPT !.burst = Tail(@)]
    /\ UNCHANGED <<options, cl, wire, fault>>

\* A response leaves the server's buffer; 'drain' resumes a paused socket.  A
\* socket that was ended emits no 'drain'.
FlushResponse ==
    /\ conn = "open" /\ down.buf # <<>> /\ up.burst = <<>> /\ Len(down.net) < NetCapacity
    /\ LET drained == Len(down.buf) = 1 /\ down.needDrain /\ ~sv.finishing
       IN  /\ down' = [down EXCEPT !.buf = Tail(@), !.net = Append(@, Head(down.buf)),
                                   !.needDrain = @ /\ ~drained]
           /\ sv' = [sv EXCEPT !.paused = @ /\ ~drained]
    /\ UNCHANGED <<options, conn, cl, up, wire, fault>>

\* The callback of socket.end(): everything is written, or the socket died.
EndCallback ==
    /\ ~demo
    /\ sv.finishing /\ sv.result = "running" /\ up.burst = <<>>
    /\ down.buf = <<>> \/ conn = "lost"
    /\ sv' = [sv EXCEPT !.result = "complete"]
    /\ UNCHANGED <<options, conn, cl, up, down, wire, fault>>

\* 'close' of the client's socket.
ServerClosed ==
    /\ ~demo
    /\ conn = "lost" /\ sv.result = "running" /\ ~sv.finishing /\ up.burst = <<>>
    /\ sv' = [sv EXCEPT !.result = "failed"]
    /\ UNCHANGED <<options, conn, cl, up, down, wire, fault>>

\* 'error' of the client's socket fails the server even after its last answer:
\* the connection broke, or the client left before it had read everything.  (The
\* server of the demo may fail so before its ping, too, when it waits for ever.)
ServerError ==
    /\ conn = "lost" /\ (fault \/ down.buf # <<>>)
    /\ sv.finishing /\ sv.result = "running" /\ up.burst = <<>>
    /\ sv' = [sv EXCEPT !.result = "failed"]
    /\ UNCHANGED <<options, conn, cl, up, down, wire, fault>>

-----------------------------------------------------------------------------
(* The ping-pong demo.  Its client has the shape of a phase with one request *)
(* and leaves it in the same ways.                                           *)

\* 'connect': waitForConnect resolves, waitForPong listens, a ping is sent.
DemoConnect ==
    /\ demo
    /\ conn = "connecting"
    /\ conn' = "open"
    /\ cl' = [cl EXCEPT !.phase = "measured", !.sent = 1, !.slots = [s \in 0 .. 0 |-> 0]]
    /\ up' = Writes(up, <<[sequence |-> 0, payload |-> copt.payload]>>)
    /\ UNCHANGED <<options, sv, down, wire, fault>>

\* waitForPong's onPong.
Pong ==
    /\ demo
    /\ down.burst # <<>>
    /\ down' = [down EXCEPT !.burst = Tail(@)]
    /\ cl' = IF cl.result # "running" THEN cl
             ELSE IF Head(down.burst).payload = copt.payload
             THEN [cl EXCEPT !.received = 1, !.slots = [s \in 0 .. 0 |-> -1], !.result = "resolved"]
             ELSE [cl EXCEPT !.result = "rejected", !.error = "response"]
    /\ UNCHANGED <<options, conn, sv, up, wire, fault>>

\* The handler of PING_EVENT: it answers and ends the socket; a wrong message
\* fails the server, which stops.
Ping ==
    /\ demo
    /\ up.burst # <<>>
    /\ up' = [up EXCEPT !.burst = Tail(@)]
    /\ IF Head(up.burst).payload = sopt.payload
       THEN /\ sv' = [sv EXCEPT !.frames = @ + 1, !.finishing = TRUE]
            /\ down' = Writes(down, <<[sequence |-> 0, payload |-> sopt.payload]>>)
            /\ UNCHANGED conn
       ELSE /\ sv' = [sv EXCEPT !.result = "failed"]
            /\ conn' = "lost"
            /\ UNCHANGED down
    /\ UNCHANGED <<options, cl, wire, fault>>

\* The callbacks of socket.end() and of server.close(): everything is written,
\* and the connection is gone.
DemoEnds ==
    /\ demo
    /\ sv.finishing /\ sv.result = "running" /\ up.burst = <<>>
    /\ conn = "lost"
    /\ sv' = [sv EXCEPT !.result = "complete"]
    /\ UNCHANGED <<options, conn, cl, up, down, wire, fault>>

-----------------------------------------------------------------------------
Lose ==
    /\ conn = "open"
    /\ conn' = "lost" /\ fault' = TRUE
    /\ UNCHANGED <<options, cl, sv, up, down, wire>>

\* The demo has no options but what it says; a peer may say something else.
DemoOptions == {o \in Options : o.warmup = 0 /\ o.count = 1 /\ o.inflight = 1}

Init ==
    /\ demo \in BOOLEAN
    /\ copt \in Options /\ sopt \in Options
    /\ demo => {copt, sopt} \subseteq DemoOptions
    /\ sopt.inflight = 1
    /\ conn = "connecting"
    /\ cl = [phase |-> "connecting", sent |-> 0, received |-> 0, slots |-> <<>>,
             waiting |-> FALSE, result |-> "running", error |-> "none"]
    /\ sv = [frames |-> 0, finishing |-> FALSE, paused |-> FALSE, result |-> "running"]
    /\ up = Idle /\ down = Idle
    /\ wire = 0 /\ fault = FALSE

Steps ==
    \/ Connect \/ ConnectFails \/ ClientReads \/ OnResponse \/ FlushRequest
    \/ ClientClosed \/ ContinueClient
    \/ ServerReads \/ Request \/ FlushResponse \/ EndCallback \/ ServerClosed \/ ServerError
    \/ DemoConnect \/ Pong \/ Ping \/ DemoEnds

Next == Steps \/ Lose

Spec == Init /\ [][Next]_vars

\* Both event loops run and the network delivers, as long as it holds.
FairSpec ==
    /\ Spec
    /\ WF_vars(Connect \/ DemoConnect \/ ConnectFails)
    /\ WF_vars(ClientReads \/ OnResponse \/ Pong) /\ WF_vars(FlushRequest)
    /\ WF_vars(ClientClosed) /\ WF_vars(ContinueClient)
    /\ WF_vars(ServerReads \/ Request \/ Ping) /\ WF_vars(FlushResponse)
    /\ WF_vars(EndCallback \/ DemoEnds) /\ WF_vars(ServerClosed)

-----------------------------------------------------------------------------
\* Faulty variant: the last range is counted in full.
RangeEndFull(start, count) == start * Base

RangeEnd(start, count) == IF start > MaxSafe \div Base THEN count ELSE Min({count, start * Base})

\* The digits beyond the first, for the ranges of numerals of equal length.
ExtraDigits(count) ==
    LET from[e \in 1 .. MaxSafe] ==
          LET start == Base^e
              end == RangeEnd(start, count)
          IN  IF start >= count THEN 0
              ELSE (end - start) * e + IF end = count THEN 0 ELSE from[e + 1]
    IN  from[1]

WireBytesForPhase(count) ==
    count * (RequestBase + ResponseBase) + 2 * ExtraDigits(count)

Ceil(a, b) == -((-a) \div b)

Percentile(sorted, percent) == sorted[Max({1, Ceil(Len(sorted) * percent, 100)})]

\* reportClientResult: the latencies of the measured phase, in any order.
Report(latencies) ==
    LET sorted == SortSeq(latencies, LAMBDA left, right : left < right)
    IN  [percentile |-> [percent \in Percents |-> Percentile(sorted, percent)],
         max |-> sorted[Len(sorted)]]

TypeOK ==
    /\ copt \in Options /\ sopt \in Options
    /\ conn \in {"connecting", "open", "lost", "refused"}
    /\ cl.phase \in {"connecting", "warmup", "measured", "done", "failed"}
    /\ cl.result \in {"running", "resolved", "rejected"}
    /\ sv.frames \in 0 .. Expected
    /\ sv.result \in {"running", "complete", "failed"}

\* While the connection holds and a phase runs, every request that was sent and
\* not answered is in exactly one place, in order, the answers in front: the
\* window is the content of the connection.
WindowIsOnTheWire ==
    conn = "open" /\ cl.result = "running" /\ ~sv.finishing =>
        LET path == down.burst \o down.net \o down.buf \o up.burst \o up.net \o up.buf
        IN  path = [j \in 1 .. cl.sent - cl.received |->
                        [sequence |-> cl.received + j - 1, payload |-> copt.payload]]

\* "latency slot was reused before its response" and "unexpected or duplicate
\* response" never happen, not even with a server that was given other options.
NoFalseAlarm == cl.error \notin {"slot", "response"}

\* Two peers with different options never both succeed.
MismatchIsNoticed == cl.phase = "done" /\ sv.result = "complete" => Agree

\* A peer that waits for 'drain' has something to drain: the client's window
\* and the server's reading never wait for an event that has passed.
DrainWillCome ==
    /\ Phasing /\ cl.result = "running" /\ cl.waiting => up.buf # <<>> /\ up.needDrain
    /\ sv.paused /\ ~sv.finishing => down.buf # <<>> /\ down.needDrain

\* The checks of the peers accept what is right and nothing else, since the
\* window is what is on the wire, and back-pressure never loses a wake-up.
ChecksAreExact ==
    TypeOK /\ WindowIsOnTheWire /\ NoFalseAlarm /\ MismatchIsNoticed /\ DrainWillCome

\* The bytes reported for the measured phase are the bytes of its messages.
WireBytesAreExact == ~demo /\ cl.phase = "done" => wire = WireBytesForPhase(copt.count)

\* A percentile in the report is the smallest latency that so many of the round
\* trips kept to, whichever latencies were measured; no latency exceeds max.
PercentilesAreExact ==
    cl.phase = "done" =>
        \A latencies \in [1 .. copt.count -> Latencies] :
            LET within(l) == Cardinality({i \in DOMAIN latencies : latencies[i] <= l})
                report == Report(latencies)
            IN  /\ \A percent \in Percents :
                      report.percentile[percent] =
                          Min({l \in Latencies : within(l) * 100 >= percent * copt.count})
                /\ within(report.max) = copt.count

\* What reportClientResult prints is true.
ReportIsExact == WireBytesAreExact /\ PercentilesAreExact

\* The client always comes to an end, and so does a server with a client; the
\* server of the demo once it has its ping.  With the same options and no fault
\* both peers succeed.
BothSettle ==
    /\ <>(cl.phase \in {"done", "failed"})
    /\ conn = "open" /\ (demo => sv.frames = 1) ~> sv.result # "running"
    /\ Agree => <>(fault \/ (cl.phase = "done" /\ sv.result = "complete"))
=============================================================================

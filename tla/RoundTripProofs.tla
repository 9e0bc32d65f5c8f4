-------------------------- MODULE RoundTripProofs --------------------------
(***************************************************************************)
(* Proofs about RoundTrip, for all options, high water marks and           *)
(* capacities of the network.                                              *)
(***************************************************************************)
EXTENDS RoundTrip, SequenceTheorems, TLAPS

-----------------------------------------------------------------------------
(***************************************************************************)
(* The inductive invariant.                                                *)
(***************************************************************************)

Messages == [sequence : Nat, payload : Payloads]

Directions ==
    [buf : Seq(Messages), net : Seq(Messages), burst : Seq(Messages), needDrain : BOOLEAN]

Sized == UNION {[0 .. n - 1 -> Int] : n \in 0 .. MaxSafe}

\* Before the first phase there is no window.
Windows == Sized \cup {<<>>}

Clients ==
    [phase : {"connecting", "warmup", "measured", "done", "failed"},
     sent : Nat, received : Nat, slots : Windows, waiting : BOOLEAN,
     result : {"running", "resolved", "rejected"}, error : {"none", "slot", "response", "disconnect"}]

Servers ==
    [frames : Nat, finishing : BOOLEAN, paused : BOOLEAN,
     result : {"running", "complete", "failed"}]

Types ==
    /\ demo \in BOOLEAN /\ cl \in Clients /\ sv \in Servers /\ up \in Directions /\ down \in Directions

\* What is on the way in a direction, the oldest first.
InFlight(d) == (d.burst \o d.net) \o d.buf

\* The request with a number.
Numbered(n) == [sequence |-> n, payload |-> copt.payload]

\* A client that has not given up.
Tracks(c) == c.phase \in {"warmup", "measured", "done"} /\ c.result # "rejected"

\* The window: the slot of every request under way has its number, and the
\* other slots are free.
WindowOf(c) ==
    /\ c.received <= c.sent /\ c.sent <= PhaseCount(c.phase) /\ PhaseCount(c.phase) > 0
    /\ c.sent - c.received <= Slots(c.phase)
    /\ c.slots \in [0 .. Slots(c.phase) - 1 -> Int]
    /\ \A k \in c.received .. c.sent - 1 : c.slots[k % Slots(c.phase)] = k
    /\ \A s \in 0 .. Slots(c.phase) - 1 :
           c.slots[s] # -1 => c.slots[s] \in c.received .. c.sent - 1 /\ c.slots[s] % Slots(c.phase) = s

Window ==
    Tracks(cl) =>
        /\ WindowOf(cl)
        /\ cl.result = "running" => cl.received < PhaseCount(cl.phase)
        /\ cl.result = "resolved" => cl.received = PhaseCount(cl.phase)

\* The requests of earlier phases.
Before(c) == IF c.phase = "warmup" THEN 0 ELSE copt.warmup

\* The answers on their way are the next ones the client waits for, and the
\* server has counted them; a server that goes on answers the rest.
WireOf(c, answers, requests) ==
    /\ \A j \in 1 .. Len(answers) : answers[j] = Numbered(c.received + j - 1)
    /\ sv.frames = Before(c) + c.received + Len(answers)
    /\ Len(answers) <= c.sent - c.received
    /\ ~Ignores => Len(answers) + Len(requests) = c.sent - c.received

Wire == Tracks(cl) => WireOf(cl, InFlight(down), InFlight(up))

\* The number in the request that follows k others.
ClientSequence(k) == IF k < copt.warmup THEN k ELSE k - copt.warmup

Follow(requests) ==
    \A j \in 1 .. Len(requests) : requests[j] = Numbered(ClientSequence(sv.frames + j - 1))

\* Requests come in order whatever has become of the client; those the server
\* has accepted were right for both.
Accepted ==
    /\ \A k \in 0 .. sv.frames - 1 : ClientSequence(k) = ExpectedSequence(k)
    /\ sv.frames > 0 => copt.payload = sopt.payload
    /\ ~Ignores => Follow(InFlight(up))

\* Where client, server and connection can be.
Places ==
    /\ cl.phase = "connecting" <=> conn = "connecting"
    /\ conn \in {"connecting", "refused"} =>
          /\ up = Idle /\ down = Idle /\ sv.frames = 0 /\ sv.result = "running"
          /\ ~sv.paused /\ ~cl.waiting /\ cl.sent = 0 /\ cl.received = 0
    /\ cl.phase = "connecting" => cl.result = "running"
    /\ conn = "open" => Phasing
    /\ conn = "refused" => cl.phase = "failed"
    /\ cl.phase = "done" => cl.result = "resolved"
    /\ cl.phase = "failed" => cl.result = "rejected" \/ conn = "refused"
    /\ sv.finishing <=> sv.frames = Expected
    /\ sv.result = "complete" => sv.finishing
    /\ sv.result = "failed" => conn = "lost"

\* The demo has one message.
Demo ==
    demo =>
        /\ {copt, sopt} \subseteq DemoOptions
        /\ cl.phase # "warmup" /\ ~cl.waiting
        /\ sv.frames + Len(InFlight(up)) <= 1
        /\ Ignores => InFlight(up) = <<>>

IInv ==
    /\ TypeOK /\ Types /\ Places /\ Demo
    /\ Window /\ Wire /\ Accepted
    /\ NoFalseAlarm /\ DrainWillCome

-----------------------------------------------------------------------------
(***************************************************************************)
(* Options.                                                                *)
(***************************************************************************)

\* The minimum of two numbers.
LEMMA TheSmaller ==
    ASSUME NEW a \in Int, NEW b \in Int
    PROVE  Min({a, b}) = IF a <= b THEN a ELSE b
<1>. DEFINE m == IF a <= b THEN a ELSE b
<1>1. m \in {a, b} /\ \A y \in {a, b} : m <= y
    OBVIOUS
<1>2. \A x \in {a, b} : (\A y \in {a, b} : x <= y) => x = m
    OBVIOUS
<1>. QED
    BY <1>1, <1>2 DEF Min

\* The maximum of two numbers.
LEMMA TheLarger ==
    ASSUME NEW a \in Int, NEW b \in Int
    PROVE  Max({a, b}) = IF a >= b THEN a ELSE b
<1>. DEFINE m == IF a >= b THEN a ELSE b
<1>1. m \in {a, b} /\ \A y \in {a, b} : m >= y
    OBVIOUS
<1>2. \A x \in {a, b} : (\A y \in {a, b} : x >= y) => x = m
    OBVIOUS
<1>. QED
    BY <1>1, <1>2 DEF Max

\* There is something to measure, and room for a request.
LEMMA OptionTypes ==
    ASSUME NEW o \in Options
    PROVE  /\ o.warmup \in Nat /\ o.count \in Nat \ {0} /\ o.inflight \in Nat \ {0}
           /\ o.payload \in Payloads /\ o.inflight <= MaxSafe
<1>1. PICK a \in [warmup : Warmups, count : Counts, inflight : Inflights, payload : Payloads] :
          Accepts(a) /\ o = [a EXCEPT !.inflight = Min({a.inflight, a.count})]
    BY DEF Options
<1>2. /\ a.warmup \in Nat /\ a.count \in Nat \ {0} /\ a.inflight \in Nat \ {0}
      /\ a.payload \in Payloads /\ a.inflight <= MaxSafe
    BY <1>1, RoundTripAssumption DEF Accepts, InRange
<1>3. /\ o.warmup = a.warmup /\ o.count = a.count /\ o.payload = a.payload
      /\ o.inflight = Min({a.inflight, a.count})
    BY <1>1
<1>4. Min({a.inflight, a.count}) \in Nat \ {0} /\ Min({a.inflight, a.count}) <= a.inflight
    BY <1>2, TheSmaller
<1>. QED
    BY <1>2, <1>3, <1>4, RoundTripAssumption

\* A phase with requests has slots.
LEMMA SlotTypes ==
    ASSUME copt \in Options, NEW phase, PhaseCount(phase) > 0
    PROVE  /\ PhaseCount(phase) \in Nat \ {0} /\ Slots(phase) \in Nat \ {0}
           /\ Slots(phase) <= MaxSafe
<1>1. PhaseCount(phase) \in Nat
    BY OptionTypes DEF PhaseCount
<1>2. Slots(phase) = IF copt.inflight <= PhaseCount(phase) THEN copt.inflight ELSE PhaseCount(phase)
    BY <1>1, OptionTypes, TheSmaller DEF Slots
<1>3. copt.inflight \in Nat \ {0} /\ copt.inflight <= MaxSafe
    BY OptionTypes
<1>. QED
    BY <1>1, <1>2, <1>3, RoundTripAssumption

\* Requests that are less than a window apart have different slots.
LEMMA SlotsDiffer ==
    ASSUME NEW w \in Nat \ {0}, NEW k \in Nat, NEW m \in Nat, m < k, k < m + w
    PROVE  k % w # m % w
<1>1. /\ k = (w * (k \div w)) + (k % w) /\ m = (w * (m \div w)) + (m % w)
      /\ k \div w \in Int /\ m \div w \in Int /\ k % w \in 0 .. w - 1 /\ m % w \in 0 .. w - 1
    OBVIOUS
<1>. DEFINE d == (k \div w) - (m \div w)
<1>2. ASSUME k % w = m % w PROVE FALSE
  <2>1. k - m = w * d /\ d \in Int
    BY <1>1, <1>2
  <2>. HIDE DEF d
  <2>2. CASE d <= 0
    <3>1. w * d <= 0
      BY <2>1, <2>2
    <3>. QED
      BY <2>1, <3>1
  <2>3. CASE d >= 1
    <3>1. w * d >= w
      BY <2>1, <2>3
    <3>. QED
      BY <2>1, <3>1
  <2>. QED
    BY <2>1, <2>2, <2>3
<1>. QED
    BY <1>2

-----------------------------------------------------------------------------
(***************************************************************************)
(* Messages on their way.                                                  *)
(***************************************************************************)

\* What a concatenation is made of.
LEMMA Joined ==
    ASSUME NEW u \in Seq(Messages), NEW v \in Seq(Messages)
    PROVE  /\ u \o v \in Seq(Messages) /\ Len(u) \in Nat /\ Len(v) \in Nat
           /\ Len(u \o v) = Len(u) + Len(v)
           /\ \A i \in 1 .. Len(u) : (u \o v)[i] = u[i]
           /\ \A i \in 1 .. Len(v) : (u \o v)[Len(u) + i] = v[i]
OBVIOUS

\* Concatenation is associative.
LEMMA Associative ==
    ASSUME NEW s \in Seq(Messages), NEW t \in Seq(Messages), NEW u \in Seq(Messages)
    PROVE  (s \o t) \o u = s \o (t \o u)
OBVIOUS

\* A sequence is its first n messages and the rest.
LEMMA SplitAt ==
    ASSUME NEW a \in Seq(Messages), NEW n \in 1 .. Len(a)
    PROVE  SubSeq(a, 1, n) \o SubSeq(a, n + 1, Len(a)) = SubSeq(a, 1, Len(a))
<1>1. 1 \in 1 .. Len(a) + 1 /\ n \in 1 - 1 .. Len(a) /\ Len(a) \in n .. Len(a)
    OBVIOUS
<1>. QED
    BY <1>1, ConcatAdjacentSubSeq, Zenon

\* What is on the way is a sequence of messages, as long as its three parts.
LEMMA InFlightTypes ==
    ASSUME NEW d \in Directions
    PROVE  /\ InFlight(d) \in Seq(Messages)
           /\ Len(InFlight(d)) = Len(d.burst) + Len(d.net) + Len(d.buf)
           /\ Len(InFlight(d)) \in Nat
           /\ d.burst \in Seq(Messages) /\ d.net \in Seq(Messages) /\ d.buf \in Seq(Messages)
<1>1. d.burst \in Seq(Messages) /\ d.net \in Seq(Messages) /\ d.buf \in Seq(Messages)
    BY DEF Directions
<1>. DEFINE front == d.burst \o d.net
<1>2. front \in Seq(Messages) /\ Len(front) = Len(d.burst) + Len(d.net)
    BY <1>1, Joined
<1>. HIDE DEF front
<1>3. front \o d.buf \in Seq(Messages) /\ Len(front \o d.buf) = Len(front) + Len(d.buf)
    BY <1>1, <1>2, Joined
<1>4. InFlight(d) = front \o d.buf
    BY DEF InFlight, front
<1>5. Len(InFlight(d)) = Len(d.burst) + Len(d.net) + Len(d.buf)
    BY <1>1, <1>2, <1>3, <1>4
<1>6. InFlight(d) \in Seq(Messages)
    BY <1>3, <1>4
<1>7. Len(InFlight(d)) \in Nat
    BY <1>6
<1>. QED
    BY <1>1, <1>5, <1>6, <1>7

\* A message of the chunk is handled.
LEMMA TakesFirst ==
    ASSUME NEW d \in Directions, d.burst # <<>>, NEW e,
           e = [d EXCEPT !.burst = Tail(@)]
    PROVE  /\ e \in Directions /\ e.buf = d.buf /\ e.needDrain = d.needDrain
           /\ Len(InFlight(d)) > 0 /\ Head(d.burst) = InFlight(d)[1]
           /\ Len(InFlight(e)) = Len(InFlight(d)) - 1
           /\ \A j \in 1 .. Len(InFlight(e)) : InFlight(e)[j] = InFlight(d)[j + 1]
<1>1. /\ d.burst \in Seq(Messages) /\ Tail(d.burst) \in Seq(Messages) /\ Len(d.burst) \in Nat \ {0}
      /\ Len(Tail(d.burst)) = Len(d.burst) - 1 /\ Head(d.burst) = d.burst[1]
      /\ \A j \in 1 .. Len(d.burst) - 1 : Tail(d.burst)[j] = d.burst[j + 1]
    BY DEF Directions
<1>2. /\ e \in Directions /\ e.burst = Tail(d.burst) /\ e.net = d.net /\ e.buf = d.buf
      /\ e.needDrain = d.needDrain
    BY <1>1 DEF Directions
<1>3. d.burst \in Seq(Messages) /\ d.net \in Seq(Messages) /\ d.buf \in Seq(Messages)
    BY DEF Directions
<1>. DEFINE rest == d.net \o d.buf
<1>4. rest \in Seq(Messages) /\ Len(rest) \in Nat
    BY <1>3, Joined
<1>5. InFlight(d) = d.burst \o rest
    BY <1>3, Associative DEF InFlight
<1>. DEFINE r == Tail(d.burst)
<1>6. InFlight(e) = r \o rest /\ r \in Seq(Messages)
  <2>1. InFlight(e) = (r \o d.net) \o d.buf
    BY <1>2 DEF InFlight
  <2>2. r \in Seq(Messages)
    BY <1>1
  <2>. HIDE DEF r
  <2>3. (r \o d.net) \o d.buf = r \o (d.net \o d.buf)
    BY <2>2, <1>3, Associative
  <2>. QED
    BY <2>1, <2>2, <2>3
<1>. HIDE DEF rest
<1>. DEFINE n == Len(d.burst)
            s == InFlight(d)
            t == InFlight(e)
<1>7. n \in Nat \ {0} /\ Len(s) = n + Len(rest) /\ Len(t) = n - 1 + Len(rest)
  <2>1. Len(s) = n + Len(rest)
    BY <1>1, <1>4, <1>5, Joined
  <2>2. Len(t) = Len(r) + Len(rest)
    <3>. HIDE DEF r
    <3>. QED
      BY <1>4, <1>6, Joined
  <2>. QED
    BY <1>1, <2>1, <2>2
<1>8. /\ \A i \in 1 .. n : s[i] = d.burst[i]
      /\ \A i \in 1 .. Len(rest) : s[n + i] = rest[i]
    BY <1>1, <1>4, <1>5, Joined
<1>9. /\ \A i \in 1 .. n - 1 : t[i] = r[i]
      /\ \A i \in 1 .. Len(rest) : t[n - 1 + i] = rest[i]
  <2>1. Len(r) = n - 1
    BY <1>1
  <2>. HIDE DEF r
  <2>2. /\ \A i \in 1 .. Len(r) : (r \o rest)[i] = r[i]
        /\ \A i \in 1 .. Len(rest) : (r \o rest)[Len(r) + i] = rest[i]
    BY <1>4, <1>6, Joined
  <2>. HIDE DEF n
  <2>. QED
    BY <2>1, <2>2, <1>6
<1>10. \A i \in 1 .. n - 1 : r[i] = d.burst[i + 1]
    BY <1>1
<1>11. Head(d.burst) = d.burst[1]
    BY <1>1
<1>. HIDE DEF n, s, t, r
<1>12. ASSUME NEW j \in 1 .. Len(t) PROVE t[j] = s[j + 1]
  <2>1. CASE j <= n - 1
    <3>1. j \in 1 .. n - 1 /\ j + 1 \in 1 .. n
      BY <2>1, <1>7, <1>12
    <3>. QED
      BY <3>1, <1>8, <1>9, <1>10
  <2>2. CASE j > n - 1
    <3>. DEFINE i == j - (n - 1)
    <3>1. i \in 1 .. Len(rest) /\ j = n - 1 + i /\ j + 1 = n + i
      BY <2>2, <1>4, <1>7, <1>12
    <3>. HIDE DEF i
    <3>. QED
      BY <3>1, <1>8, <1>9
  <2>. QED
    BY <2>1, <2>2, <1>7
<1>13. Len(s) > 0 /\ Len(t) = Len(s) - 1 /\ s[1] = Head(d.burst)
    BY <1>4, <1>7, <1>8, <1>11
<1>. QED
    BY <1>2, <1>12, <1>13 DEF s, t

\* A chunk arrives.
LEMMA ReadsChunk ==
    ASSUME NEW d \in Directions, d.burst = <<>>, NEW n \in 1 .. Len(d.net), NEW e,
           e = [d EXCEPT !.burst = SubSeq(d.net, 1, n), !.net = SubSeq(@, n + 1, Len(@))]
    PROVE  /\ e \in Directions /\ InFlight(e) = InFlight(d)
           /\ e.buf = d.buf /\ e.needDrain = d.needDrain
<1>0. d.net \in Seq(Messages) /\ d.buf \in Seq(Messages) /\ Len(d.net) \in Nat
    BY DEF Directions
<1>1. /\ SubSeq(d.net, 1, n) \in Seq(Messages) /\ SubSeq(d.net, n + 1, Len(d.net)) \in Seq(Messages)
      /\ SubSeq(d.net, 1, n) \o SubSeq(d.net, n + 1, Len(d.net)) = SubSeq(d.net, 1, Len(d.net))
  <2>2. SubSeq(d.net, 1, n) \in Seq(Messages)
    BY <1>0
  <2>3. SubSeq(d.net, n + 1, Len(d.net)) \in Seq(Messages)
    BY <1>0
  <2>4. SubSeq(d.net, 1, n) \o SubSeq(d.net, n + 1, Len(d.net)) = SubSeq(d.net, 1, Len(d.net))
    BY <1>0, SplitAt
  <2>. QED
    BY <2>2, <2>3, <2>4
<1>2. SubSeq(d.net, 1, Len(d.net)) = d.net
    BY <1>0, SubSeqFull
<1>3. /\ e \in Directions /\ e.burst = SubSeq(d.net, 1, n) /\ e.net = SubSeq(d.net, n + 1, Len(d.net))
      /\ e.buf = d.buf /\ e.needDrain = d.needDrain
    BY <1>1 DEF Directions
<1>4. <<>> \o d.net = d.net
    BY <1>0, ConcatEmptySeq
<1>. QED
    BY <1>1, <1>2, <1>3, <1>4 DEF InFlight

\* A message leaves the buffer.
LEMMA Flushes ==
    ASSUME NEW d \in Directions, d.buf # <<>>, NEW drain \in BOOLEAN, NEW e,
           e = [d EXCEPT !.buf = Tail(@), !.net = Append(@, Head(d.buf)), !.needDrain = drain]
    PROVE  /\ e \in Directions /\ InFlight(e) = InFlight(d)
           /\ e.buf = Tail(d.buf) /\ e.needDrain = drain
<1>0. d.net \in Seq(Messages) /\ d.buf \in Seq(Messages) /\ d.burst \in Seq(Messages)
    BY DEF Directions
<1>1. /\ Head(d.buf) \in Messages /\ Tail(d.buf) \in Seq(Messages)
      /\ <<Head(d.buf)>> \in Seq(Messages) /\ d.buf = <<Head(d.buf)>> \o Tail(d.buf)
    BY <1>0, HeadTailProperties
<1>2. Append(d.net, Head(d.buf)) = d.net \o <<Head(d.buf)>> /\ Append(d.net, Head(d.buf)) \in Seq(Messages)
    BY <1>0, <1>1, AppendIsConcat
<1>3. /\ e \in Directions /\ e.burst = d.burst /\ e.net = Append(d.net, Head(d.buf))
      /\ e.buf = Tail(d.buf) /\ e.needDrain = drain
    BY <1>1, <1>2 DEF Directions
<1>. DEFINE h == <<Head(d.buf)>>
            t == Tail(d.buf)
<1>4. (d.burst \o (d.net \o h)) \o t = (d.burst \o d.net) \o (h \o t)
  <2>. HIDE DEF h, t
  <2>1. h \in Seq(Messages) /\ t \in Seq(Messages) /\ d.burst \o d.net \in Seq(Messages)
    BY <1>0, <1>1, Joined DEF h, t
  <2>2. d.burst \o (d.net \o h) = (d.burst \o d.net) \o h
    BY <2>1, <1>0, Associative
  <2>. DEFINE x == d.burst \o d.net
  <2>3. x \in Seq(Messages)
    BY <2>1
  <2>. HIDE DEF x
  <2>4. (x \o h) \o t = x \o (h \o t)
    BY <2>1, <2>3, Associative
  <2>. QED
    BY <2>2, <2>4 DEF x
<1>. QED
    BY <1>1, <1>2, <1>3, <1>4 DEF InFlight

\* A buffer with more than one message does not run empty.
LEMMA MoreToFlush ==
    ASSUME NEW s \in Seq(Messages), s # <<>>, Len(s) # 1
    PROVE  Tail(s) # <<>>
<1>1. Len(s) \in Nat \ {0}
    OBVIOUS
<1>2. Len(Tail(s)) = Len(s) - 1
    OBVIOUS
<1>3. Len(Tail(s)) # 0
    BY <1>1, <1>2
<1>4. Len(<<>>) = 0
    OBVIOUS
<1>. QED
    BY <1>3, <1>4, Zenon

\* Messages are written.
LEMMA WritesLast ==
    ASSUME NEW d \in Directions, NEW m \in Seq(Messages)
    PROVE  LET e == Writes(d, m)
           IN  /\ e \in Directions /\ InFlight(e) = InFlight(d) \o m
               /\ e.buf = d.buf \o m
               /\ e.needDrain = (d.needDrain \/ (m # <<>> /\ Len(e.buf) >= HighWater))
<1>0. d.net \in Seq(Messages) /\ d.buf \in Seq(Messages) /\ d.burst \in Seq(Messages)
    BY DEF Directions
<1>. DEFINE e == Writes(d, m)
            drain == d.needDrain \/ (m # <<>> /\ Len(d.buf \o m) >= HighWater)
<1>1. e = [d EXCEPT !.buf = d.buf \o m, !.needDrain = drain]
    BY DEF Writes
<1>2. drain \in BOOLEAN /\ d.buf \o m \in Seq(Messages)
    BY <1>0, Joined
<1>. HIDE DEF drain
<1>3. /\ e \in Directions /\ e.burst = d.burst /\ e.net = d.net /\ e.buf = d.buf \o m
      /\ e.needDrain = drain
  <2>. HIDE DEF e
  <2>. QED
    BY <1>1, <1>2 DEF Directions
<1>4. InFlight(e) = InFlight(d) \o m
  <2>. HIDE DEF e
  <2>. DEFINE x == d.burst \o d.net
  <2>1. x \in Seq(Messages)
    BY <1>0, Joined
  <2>2. InFlight(d) = x \o d.buf /\ InFlight(e) = x \o (d.buf \o m)
    BY <1>3 DEF InFlight
  <2>. HIDE DEF x
  <2>3. (x \o d.buf) \o m = x \o (d.buf \o m)
    BY <1>0, <2>1, Associative
  <2>. QED
    BY <2>2, <2>3
<1>. QED
    BY <1>3, <1>4 DEF drain

-----------------------------------------------------------------------------
(***************************************************************************)
(* fillWindow.                                                             *)
(***************************************************************************)

\* How many requests it sends.
Filled(c, u) == IF c.waiting THEN 0 ELSE Min({Room(c), UntilFull(u)})

\* fillWindow sends no more than the phase and the window allow.
LEMMA FilledBounds ==
    ASSUME copt \in Options, NEW c \in Clients, NEW u \in Directions, WindowOf(c)
    PROVE  /\ Filled(c, u) \in Nat /\ c.sent + Filled(c, u) <= PhaseCount(c.phase)
           /\ c.sent + Filled(c, u) - c.received <= Slots(c.phase)
<1>1. /\ c.sent \in Nat /\ c.received \in Nat /\ c.received <= c.sent
      /\ c.sent <= PhaseCount(c.phase) /\ c.sent - c.received <= Slots(c.phase)
    BY DEF Clients, WindowOf
<1>2. PhaseCount(c.phase) \in Nat /\ Slots(c.phase) \in Nat
    BY SlotTypes DEF WindowOf
<1>. DEFINE a == PhaseCount(c.phase) - c.sent
            b == Slots(c.phase) - (c.sent - c.received)
<1>3. a \in Nat /\ b \in Nat
    BY <1>1, <1>2
<1>4. Room(c) = IF a <= b THEN a ELSE b
    BY <1>3, TheSmaller DEF Room
<1>5. Room(c) \in Nat /\ Room(c) <= a /\ Room(c) <= b
    BY <1>3, <1>4
<1>6. UntilFull(u) \in Nat /\ UntilFull(u) >= 1
  <2>1. HighWater - Len(u.buf) \in Int
    BY RoundTripAssumption DEF Directions
  <2>2. UntilFull(u) = IF 1 >= HighWater - Len(u.buf) THEN 1 ELSE HighWater - Len(u.buf)
    BY <2>1, TheLarger DEF UntilFull
  <2>. QED
    BY <2>1, <2>2
<1>7. Filled(c, u) \in Nat /\ Filled(c, u) <= Room(c)
  <2>1. Min({Room(c), UntilFull(u)}) = IF Room(c) <= UntilFull(u) THEN Room(c) ELSE UntilFull(u)
    BY <1>5, <1>6, TheSmaller
  <2>. QED
    BY <1>5, <1>6, <2>1 DEF Filled
<1>. QED
    BY <1>1, <1>2, <1>3, <1>5, <1>7

\* "latency slot was reused before its response" never happens.
LEMMA SlotsAreFree ==
    ASSUME copt \in Options, NEW c \in Clients, WindowOf(c), NEW n \in Nat,
           c.sent + n - c.received <= Slots(c.phase), NEW k \in c.sent .. c.sent + n - 1
    PROVE  c.slots[k % Slots(c.phase)] = -1
<1>. DEFINE w == Slots(c.phase)
<1>1. /\ c.sent \in Nat /\ c.received \in Nat /\ c.received <= c.sent /\ w \in Nat \ {0}
    BY SlotTypes DEF Clients, WindowOf
<1>2. k \in Nat /\ k % w \in 0 .. w - 1
    BY <1>1
<1>3. ASSUME c.slots[k % w] # -1 PROVE FALSE
  <2>1. /\ c.slots[k % w] \in c.received .. c.sent - 1 /\ c.slots[k % w] % w = k % w
    BY <1>2, <1>3 DEF WindowOf
  <2>. DEFINE m == c.slots[k % w]
  <2>2. m \in Nat /\ m < k /\ k < m + w
    BY <1>1, <1>2, <2>1
  <2>. HIDE DEF m, w
  <2>3. k % w # m % w
    BY <1>1, <1>2, <2>2, SlotsDiffer
  <2>. QED
    BY <2>1, <2>3 DEF m
<1>. QED
    BY <1>3

\* The slots after n more requests.
SlotsAfter(c, n) ==
    [s \in DOMAIN c.slots |->
        IF \E k \in c.sent .. c.sent + n - 1 : k % Slots(c.phase) = s
        THEN CHOOSE k \in c.sent .. c.sent + n - 1 : k % Slots(c.phase) = s ELSE c.slots[s]]

\* Requests in free slots make a window again.
LEMMA WindowGrows ==
    ASSUME copt \in Options, NEW c \in Clients, WindowOf(c), NEW n \in Nat,
           c.sent + n <= PhaseCount(c.phase), c.sent + n - c.received <= Slots(c.phase),
           NEW d, d.phase = c.phase, d.received = c.received, d.sent = c.sent + n,
           d.slots = SlotsAfter(c, n)
    PROVE  WindowOf(d)
<1>. DEFINE w == Slots(c.phase)
            new == c.sent .. c.sent + n - 1
<1>1. /\ c.sent \in Nat /\ c.received \in Nat /\ c.received <= c.sent /\ w \in Nat \ {0}
      /\ c.slots \in [0 .. w - 1 -> Int]
    BY SlotTypes DEF Clients, WindowOf
<1>2. \A k \in Nat : k % w \in 0 .. w - 1
    BY <1>1
<1>3. new \subseteq Nat
    BY <1>1
<1>4. \A k, m \in new : k % w = m % w => k = m
  <2>. SUFFICES ASSUME NEW k \in new, NEW m \in new, k % w = m % w, k # m PROVE FALSE
    OBVIOUS
  <2>1. k \in Nat /\ m \in Nat /\ k < m + w /\ m < k + w
    BY <1>1
  <2>2. k < m \/ m < k
    BY <2>1
  <2>. HIDE DEF w, new
  <2>. QED
    BY <1>1, <2>1, <2>2, SlotsDiffer
<1>5. /\ d.slots = [s \in 0 .. w - 1 |->
             IF \E k \in new : k % w = s THEN CHOOSE k \in new : k % w = s ELSE c.slots[s]]
    BY <1>1 DEF SlotsAfter
<1>6. \A k \in new : d.slots[k % w] = k
  <2>. HIDE DEF w, new
  <2>. TAKE k \in new
  <2>1. k % w \in 0 .. w - 1
    BY <1>2, <1>3
  <2>2. d.slots[k % w] = CHOOSE m \in new : m % w = k % w
    BY <2>1, <1>5
  <2>. QED
    BY <2>2, <1>4
<1>7. \A s \in 0 .. w - 1 : (\A k \in new : k % w # s) => d.slots[s] = c.slots[s]
  <2>. HIDE DEF w, new
  <2>. QED
    BY <1>5
<1>8. d.slots \in [0 .. w - 1 -> Int]
  <2>1. \A s \in 0 .. w - 1 : d.slots[s] \in Int
    <3>. TAKE s \in 0 .. w - 1
    <3>1. CASE \E k \in new : k % w = s
      BY <3>1, <1>3, <1>6
    <3>2. CASE \A k \in new : k % w # s
      BY <3>2, <1>1, <1>7
    <3>. QED
      BY <3>1, <3>2
  <2>. HIDE DEF w, new
  <2>. QED
    BY <2>1, <1>5
<1>9. ASSUME NEW k \in d.received .. d.sent - 1 PROVE d.slots[k % w] = k
  <2>1. CASE k \in new
    BY <2>1, <1>6
  <2>2. CASE k \notin new
    <3>1. k \in c.received .. c.sent - 1 /\ k \in Nat
      BY <2>2, <1>1, <1>9
    <3>2. \A m \in new : m % w # k % w
      <4>. SUFFICES ASSUME NEW m \in new PROVE m % w # k % w
        OBVIOUS
      <4>1. m \in Nat /\ k < m /\ m < k + w
        BY <3>1, <1>1
      <4>. HIDE DEF w, new
      <4>. QED
        BY <4>1, <3>1, <1>1, SlotsDiffer
    <3>3. d.slots[k % w] = c.slots[k % w]
      BY <3>1, <3>2, <1>2, <1>7
    <3>. QED
      BY <3>1, <3>3 DEF WindowOf
  <2>. QED
    BY <2>1, <2>2
<1>10. ASSUME NEW s \in 0 .. w - 1, d.slots[s] # -1
       PROVE  d.slots[s] \in d.received .. d.sent - 1 /\ d.slots[s] % w = s
  <2>1. CASE \E k \in new : k % w = s
    <3>1. PICK k \in new : k % w = s
      BY <2>1
    <3>2. d.slots[s] = k
      BY <3>1, <1>6
    <3>. QED
      BY <3>1, <3>2, <1>1
  <2>2. CASE \A k \in new : k % w # s
    <3>1. d.slots[s] = c.slots[s]
      BY <2>2, <1>7
    <3>2. c.slots[s] \in c.received .. c.sent - 1 /\ c.slots[s] % w = s
      BY <3>1, <1>10 DEF WindowOf
    <3>. QED
      BY <3>1, <3>2, <1>1
  <2>. QED
    BY <2>1, <2>2
<1>11. d.received <= d.sent /\ d.sent <= PhaseCount(d.phase) /\ PhaseCount(d.phase) > 0
       /\ d.sent - d.received <= w
    BY <1>1 DEF WindowOf
<1>. QED
    BY <1>8, <1>9, <1>10, <1>11 DEF WindowOf

\* The n requests it writes.
NewRequests(c, n) == [j \in 1 .. n |-> Numbered(c.sent + j - 1)]

\* fillWindow fills the window, and never finds a slot in use.
LEMMA FillsWindow ==
    ASSUME copt \in Options, NEW c \in Clients, NEW u \in Directions, WindowOf(c), FillWindow(c, u)
    PROVE  LET n == Filled(c, u)
           IN  /\ cl' = [c EXCEPT !.sent = c.sent + n, !.slots = SlotsAfter(c, n),
                                  !.waiting = c.waiting \/ (n > 0 /\ Len(u.buf) + n >= HighWater)]
               /\ up' = Writes(u, NewRequests(c, n))
<1>. DEFINE n == Filled(c, u)
            w == Slots(c.phase)
            new == c.sent .. c.sent + n - 1
<1>1. n \in Nat /\ c.sent + n - c.received <= w
    BY FilledBounds
<1>2. \A k \in new : c.slots[k % w] = -1
    BY <1>1, SlotsAreFree
<1>3. NewRequests(c, n) = [j \in 1 .. n |-> [sequence |-> c.sent + j - 1, payload |-> copt.payload]]
    BY DEF NewRequests, Numbered
<1>4. SlotsAfter(c, n) =
          [s \in DOMAIN c.slots |->
              IF \E k \in new : k % w = s THEN CHOOSE k \in new : k % w = s ELSE c.slots[s]]
    BY DEF SlotsAfter
<1>5. DOMAIN c = {"phase", "sent", "received", "slots", "waiting", "result", "error"}
    BY DEF Clients
<1>. DEFINE slots == SlotsAfter(c, n)
            requests == NewRequests(c, n)
            waiting == c.waiting \/ (n > 0 /\ Len(u.buf) + n >= HighWater)
<1>6. /\ cl' = [c EXCEPT !.sent = @ + n, !.slots = slots, !.waiting = waiting]
      /\ up' = Writes(u, requests)
  <2>1. ~ \E k \in new : c.slots[k % w] # -1
    BY <1>2
  <2>. QED
    BY <2>1, <1>3, <1>4, <1>5 DEF FillWindow, Filled
<1>. HIDE DEF slots, requests, waiting, n
<1>7. [c EXCEPT !.sent = @ + n, !.slots = slots, !.waiting = waiting] =
      [c EXCEPT !.sent = c.sent + n, !.slots = slots, !.waiting = waiting]
    BY <1>5
<1>. QED
    BY <1>6, <1>7 DEF slots, requests, waiting, n

\* The client as it is after fillWindow.
LEMMA FilledClient ==
    ASSUME copt \in Options, NEW c \in Clients, NEW u \in Directions, WindowOf(c), FillWindow(c, u)
    PROVE  /\ cl' \in Clients /\ WindowOf(cl')
           /\ cl'.phase = c.phase /\ cl'.received = c.received /\ cl'.result = c.result
           /\ cl'.error = c.error /\ cl'.sent = c.sent + Filled(c, u)
           /\ cl'.waiting = (c.waiting \/ (Filled(c, u) > 0 /\ Len(u.buf) + Filled(c, u) >= HighWater))
<1>. DEFINE n == Filled(c, u)
            slots == SlotsAfter(c, n)
            waiting == c.waiting \/ (n > 0 /\ Len(u.buf) + n >= HighWater)
            d == [c EXCEPT !.sent = c.sent + n, !.slots = slots, !.waiting = waiting]
<1>1. cl' = d
    BY FillsWindow
<1>2. /\ n \in Nat /\ c.sent + n <= PhaseCount(c.phase) /\ c.sent + n - c.received <= Slots(c.phase)
      /\ c.sent + n \in Nat
    BY FilledBounds DEF Clients
<1>3. waiting \in BOOLEAN
    BY DEF Clients
<1>. HIDE DEF n, waiting
<1>. HIDE DEF slots
<1>4. /\ d.phase = c.phase /\ d.received = c.received /\ d.result = c.result /\ d.error = c.error
      /\ d.sent = c.sent + n /\ d.waiting = waiting /\ d.slots = slots
    BY DEF Clients
<1>5. WindowOf(d)
  <2>1. d.slots = SlotsAfter(c, n)
    BY <1>4 DEF slots
  <2>. HIDE DEF d
  <2>. QED
    BY <1>2, <1>4, <2>1, WindowGrows
<1>6. slots \in Windows
  <2>1. slots \in [0 .. Slots(c.phase) - 1 -> Int]
    BY <1>4, <1>5 DEF WindowOf
  <2>2. Slots(c.phase) \in 0 .. MaxSafe
    BY SlotTypes, RoundTripAssumption DEF WindowOf
  <2>. QED
    BY <2>1, <2>2 DEF Windows, Sized
<1>7. d \in Clients
    BY <1>2, <1>3, <1>6 DEF Clients
<1>. HIDE DEF d
<1>. QED
    BY <1>1, <1>4, <1>5, <1>7 DEF n, waiting

\* The requests on their way after fillWindow.
LEMMA FilledWire ==
    ASSUME copt \in Options, NEW c \in Clients, NEW u \in Directions, WindowOf(c), FillWindow(c, u),
           c.waiting => u.buf # <<>> /\ u.needDrain
    PROVE  /\ up' \in Directions
           /\ Len(InFlight(up')) = Len(InFlight(u)) + Filled(c, u)
           /\ \A j \in 1 .. Len(InFlight(u)) : InFlight(up')[j] = InFlight(u)[j]
           /\ \A j \in 1 .. Filled(c, u) : InFlight(up')[Len(InFlight(u)) + j] = Numbered(c.sent + j - 1)
           /\ cl'.waiting => up'.buf # <<>> /\ up'.needDrain
<1>. DEFINE n == Filled(c, u)
            requests == NewRequests(c, n)
<1>1. up' = Writes(u, requests)
    BY FillsWindow
<1>2. n \in Nat
    BY FilledBounds
<1>. HIDE DEF n
<1>3. requests \in Seq(Messages) /\ Len(requests) = n /\ \A j \in 1 .. n : requests[j] = Numbered(c.sent + j - 1)
  <2>1. \A j \in 1 .. n : Numbered(c.sent + j - 1) \in Messages
    BY <1>2, OptionTypes DEF Clients, Numbered, Messages
  <2>. QED
    BY <1>2, <2>1 DEF NewRequests
<1>. HIDE DEF requests
<1>4. /\ up' \in Directions /\ InFlight(up') = InFlight(u) \o requests /\ up'.buf = u.buf \o requests
      /\ up'.needDrain = (u.needDrain \/ (requests # <<>> /\ Len(up'.buf) >= HighWater))
    BY <1>1, <1>3, WritesLast
<1>5. InFlight(u) \in Seq(Messages) /\ u.buf \in Seq(Messages)
    BY InFlightTypes
<1>6. /\ Len(InFlight(up')) = Len(InFlight(u)) + n
      /\ \A j \in 1 .. Len(InFlight(u)) : InFlight(up')[j] = InFlight(u)[j]
  <2>. DEFINE v == InFlight(u)
  <2>1. v \in Seq(Messages) /\ InFlight(up') = v \o requests
    BY <1>4, <1>5
  <2>. HIDE DEF v
  <2>2. Len(v \o requests) = Len(v) + Len(requests) /\ \A j \in 1 .. Len(v) : (v \o requests)[j] = v[j]
    BY <2>1, <1>3, Joined
  <2>. QED
    BY <2>1, <2>2, <1>3 DEF v
<1>7. \A j \in 1 .. n : InFlight(up')[Len(InFlight(u)) + j] = Numbered(c.sent + j - 1)
  <2>. DEFINE v == InFlight(u)
  <2>1. v \in Seq(Messages) /\ InFlight(up') = v \o requests
    BY <1>4, <1>5
  <2>. HIDE DEF v
  <2>2. \A j \in 1 .. Len(requests) : (v \o requests)[Len(v) + j] = requests[j]
    BY <2>1, <1>3, Joined
  <2>. QED
    BY <2>1, <2>2, <1>3 DEF v
<1>8. ASSUME cl'.waiting PROVE up'.buf # <<>> /\ up'.needDrain
  <2>1. Len(up'.buf) = Len(u.buf) + n /\ Len(u.buf) \in Nat
    <3>1. Len(u.buf \o requests) = Len(u.buf) + Len(requests) /\ Len(u.buf) \in Nat
      BY <1>3, <1>5, Joined
    <3>. QED
      BY <3>1, <1>3, <1>4
  <2>2. CASE c.waiting
    <3>1. Len(u.buf) > 0
      BY <2>2, <1>5
    <3>2. up'.buf # <<>>
      BY <3>1, <2>1, <1>2
    <3>. QED
      BY <2>2, <3>2, <1>4
  <2>3. CASE n > 0 /\ Len(u.buf) + n >= HighWater
    <3>1. requests # <<>>
      BY <2>3, <1>2, <1>3
    <3>2. up'.buf # <<>>
      BY <2>1, <2>3, <1>2
    <3>. QED
      BY <2>1, <2>3, <3>1, <3>2, <1>4
  <2>4. cl'.waiting = (c.waiting \/ (n > 0 /\ Len(u.buf) + n >= HighWater))
    BY FilledClient DEF n
  <2>. QED
    BY <2>2, <2>3, <2>4, <1>8
<1>. QED
    BY <1>4, <1>6, <1>7, <1>8 DEF n

\* A request of a phase has its place among all requests.
LEMMA PlaceOfRequest ==
    ASSUME copt \in Options, NEW c, NEW i \in Nat, i < PhaseCount(c.phase)
    PROVE  ClientSequence(Before(c) + i) = i
<1>1. copt.warmup \in Nat
    BY OptionTypes
<1>2. CASE c.phase = "warmup"
    BY <1>1, <1>2 DEF ClientSequence, Before, PhaseCount
<1>3. CASE c.phase # "warmup"
    BY <1>1, <1>3 DEF ClientSequence, Before
<1>. QED
    BY <1>2, <1>3

\* fillWindow keeps what the window says of the wire.
LEMMA FillKeeps ==
    ASSUME copt \in Options, sv \in Servers, NEW c \in Clients, NEW u \in Directions, WindowOf(c),
           FillWindow(c, u), c.waiting => u.buf # <<>> /\ u.needDrain,
           NEW a \in Seq(Messages), WireOf(c, a, InFlight(u)), ~Ignores => Follow(InFlight(u))
    PROVE  WireOf(cl', a, InFlight(up')) /\ (~Ignores => Follow(InFlight(up')))
<1>1. PICK n \in Nat : n = Filled(c, u)
    BY FilledBounds
<1>2. PICK l \in Nat : l = Len(InFlight(u))
    BY InFlightTypes
<1>3. PICK m \in Nat : m = Len(a)
    OBVIOUS
<1>4. PICK b \in Nat : b = Before(c)
    BY OptionTypes DEF Before
<1>5. /\ c.sent \in Nat /\ c.received \in Nat /\ sv.frames \in Nat /\ copt.warmup \in Nat
      /\ c.sent + n <= PhaseCount(c.phase)
    BY <1>1, FilledBounds, OptionTypes DEF Clients, Servers
<1>6. cl'.phase = c.phase /\ cl'.received = c.received /\ cl'.sent = c.sent + n
    BY <1>1, FilledClient
<1>7. /\ Len(InFlight(up')) = l + n
      /\ \A j \in 1 .. l : InFlight(up')[j] = InFlight(u)[j]
      /\ \A j \in 1 .. n : InFlight(up')[l + j] = Numbered(c.sent + j - 1)
    BY <1>1, <1>2, FilledWire
<1>8. sv.frames = b + c.received + m /\ m <= c.sent - c.received
    BY <1>3, <1>4 DEF WireOf
<1>9. ~Ignores => m + l = c.sent - c.received
    BY <1>2, <1>3 DEF WireOf
<1>10. WireOf(cl', a, InFlight(up'))
  <2>1. \A j \in 1 .. Len(a) : a[j] = Numbered(c.received + j - 1)
    BY DEF WireOf
  <2>2. Before(cl') = b
    BY <1>4, <1>6 DEF Before
  <2>3. m <= c.sent + n - c.received
    BY <1>5, <1>8
  <2>4. ~Ignores => m + (l + n) = c.sent + n - c.received
    BY <1>5, <1>9
  <2>5. \A j \in 1 .. Len(a) : a[j] = Numbered(cl'.received + j - 1)
    BY <2>1, <1>6
  <2>6. sv.frames = Before(cl') + cl'.received + Len(a)
    BY <2>2, <1>3, <1>6, <1>8
  <2>7. Len(a) <= cl'.sent - cl'.received
    BY <2>3, <1>3, <1>5, <1>6
  <2>8. ~Ignores => Len(a) + Len(InFlight(up')) = cl'.sent - cl'.received
    BY <2>4, <1>3, <1>5, <1>6, <1>7
  <2>. QED
    BY <2>5, <2>6, <2>7, <2>8 DEF WireOf
<1>11. ASSUME ~Ignores PROVE Follow(InFlight(up'))
  <2>1. m + l = c.sent - c.received
    BY <1>9, <1>11
  <2>2. ASSUME NEW j \in 1 .. n PROVE ClientSequence(sv.frames + (l + j) - 1) = c.sent + j - 1
    <3>1. sv.frames + (l + j) - 1 = b + (c.sent + j - 1)
      <4>1. PICK f \in Nat, e \in Nat, r \in Nat : f = sv.frames /\ e = c.sent /\ r = c.received
        BY <1>5
      <4>2. f = b + r + m /\ m + l = e - r
        BY <4>1, <1>8, <2>1
      <4>3. f + (l + j) - 1 = b + (e + j - 1)
        BY <4>2
      <4>. QED
        BY <4>1, <4>3
    <3>2. c.sent + j - 1 \in Nat /\ c.sent + j - 1 < c.sent + n
      BY <1>5
    <3>3. c.sent + j - 1 < PhaseCount(c.phase)
      BY <3>2, <1>5, OptionTypes DEF PhaseCount
    <3>. QED
      BY <3>1, <3>2, <3>3, <1>4, PlaceOfRequest
  <2>3. ASSUME NEW i \in 1 .. l + n PROVE InFlight(up')[i] = Numbered(ClientSequence(sv.frames + i - 1))
    <3>1. CASE i \in 1 .. l
      BY <3>1, <1>2, <1>7, <1>11 DEF Follow
    <3>2. CASE i \notin 1 .. l
      <4>1. PICK j \in 1 .. n : i = l + j
        <5>1. i - l \in 1 .. n /\ i = l + (i - l)
          BY <3>2
        <5>. QED
          BY <5>1
      <4>. QED
        BY <4>1, <2>2, <1>7
    <3>. QED
      BY <3>1, <3>2
  <2>. QED
    BY <2>3, <1>7 DEF Follow
<1>. QED
    BY <1>10, <1>11

-----------------------------------------------------------------------------
(***************************************************************************)
(* Steps.                                                                  *)
(***************************************************************************)

\* Options do not change, so the window is what it was for the same client.
LEMMA StillWindow ==
    ASSUME copt' = copt, WindowOf(cl')
    PROVE  WindowOf(cl)'
BY DEF WindowOf, PhaseCount, Slots

\* The wire is what it was for the same client and count.
LEMMA StillWire ==
    ASSUME copt' = copt, sv'.frames = sv.frames, ~Ignores' => ~Ignores,
           WireOf(cl', InFlight(down'), InFlight(up'))
    PROVE  WireOf(cl, InFlight(down), InFlight(up))'
<1>1. (\A j \in 1 .. Len(InFlight(down)) : InFlight(down)[j] = Numbered(cl.received + j - 1))'
    BY DEF WireOf, Numbered
<1>2. (sv.frames = Before(cl) + cl.received + Len(InFlight(down)))'
    BY DEF WireOf, Before
<1>3. (Len(InFlight(down)) <= cl.sent - cl.received)'
    BY DEF WireOf
<1>4. (~Ignores => Len(InFlight(down)) + Len(InFlight(up)) = cl.sent - cl.received)'
    BY DEF WireOf
<1>. QED
    BY <1>1, <1>2, <1>3, <1>4 DEF WireOf

\* What was accepted stays right as long as nothing more is.
LEMMA StillAccepted ==
    ASSUME copt' = copt, sopt' = sopt, sv'.frames = sv.frames, ~Ignores' => ~Ignores,
           Accepted, ~Ignores => Follow(InFlight(up'))
    PROVE  Accepted'
<1>1. (\A k \in 0 .. sv.frames - 1 : ClientSequence(k) = ExpectedSequence(k))'
    BY DEF Accepted, ClientSequence, ExpectedSequence
<1>2. (sv.frames > 0 => copt.payload = sopt.payload)'
    BY DEF Accepted
<1>3. (~Ignores => Follow(InFlight(up)))'
    BY DEF Follow, Numbered, ClientSequence
<1>. QED
    BY <1>1, <1>2, <1>3 DEF Accepted

\* The client, the messages on their way and the count of the server stay.
LEMMA SameWire ==
    ASSUME IInv, UNCHANGED <<options, cl>>, sv'.frames = sv.frames, ~Ignores' => ~Ignores,
           InFlight(up') = InFlight(up), InFlight(down') = InFlight(down)
    PROVE  Window' /\ Wire' /\ Accepted' /\ NoFalseAlarm'
<1>1. copt' = copt /\ sopt' = sopt /\ cl' = cl
    BY DEF options
<1>2. Window'
    BY <1>1 DEF IInv, Window, Tracks, WindowOf, PhaseCount, Slots
<1>3. Wire'
  <2>. SUFFICES ASSUME Tracks(cl) PROVE WireOf(cl, InFlight(down), InFlight(up))'
    BY <1>1 DEF Wire, Tracks
  <2>1. WireOf(cl', InFlight(down'), InFlight(up'))
    BY <1>1 DEF IInv, Wire
  <2>. QED
    BY <1>1, <2>1, StillWire
<1>4. Accepted'
  <2>1. Accepted /\ (~Ignores => Follow(InFlight(up')))
    BY DEF IInv, Accepted
  <2>. QED
    BY <1>1, <2>1, StillAccepted
<1>5. NoFalseAlarm'
    BY <1>1 DEF IInv, NoFalseAlarm
<1>. QED
    BY <1>2, <1>3, <1>4, <1>5

\* A client that has given up waits for nothing.
LEMMA GivesUp ==
    ASSUME IInv, UNCHANGED <<options, sv, up>>, cl'.phase = "failed" \/ cl'.result = "rejected",
           cl'.error \notin {"slot", "response"}
    PROVE  Window' /\ Wire' /\ Accepted' /\ NoFalseAlarm'
<1>1. copt' = copt /\ sopt' = sopt /\ sv' = sv /\ up' = up
    BY DEF options
<1>2. Window' /\ Wire' /\ NoFalseAlarm'
    BY DEF Window, Wire, Tracks, NoFalseAlarm
<1>3. Accepted'
  <2>1. Accepted /\ (~Ignores => Follow(InFlight(up')))
    BY <1>1 DEF IInv, Accepted
  <2>2. ~Ignores' => ~Ignores
    BY <1>1 DEF Ignores
  <2>. QED
    BY <1>1, <2>1, <2>2, StillAccepted
<1>. QED
    BY <1>2, <1>3

\* A step that ends with fillWindow.
LEMMA FillStep ==
    ASSUME copt \in Options, sv \in Servers, Accepted, UNCHANGED <<copt, sopt, sv>>,
           NEW c \in Clients, NEW u \in Directions, WindowOf(c), FillWindow(c, u),
           c.phase \in {"warmup", "measured"}, c.result = "running",
           c.error \notin {"slot", "response"}, c.received < PhaseCount(c.phase),
           c.waiting => u.buf # <<>> /\ u.needDrain,
           down' \in Directions, WireOf(c, InFlight(down'), InFlight(u)),
           ~Ignores => Follow(InFlight(u)),
           sv.paused /\ ~sv.finishing => down'.buf # <<>> /\ down'.needDrain
    PROVE  /\ cl' \in Clients /\ up' \in Directions /\ cl'.phase = c.phase /\ cl'.result = "running"
           /\ Window' /\ Wire' /\ Accepted' /\ NoFalseAlarm' /\ DrainWillCome'
<1>1. /\ cl' \in Clients /\ WindowOf(cl') /\ cl'.phase = c.phase /\ cl'.received = c.received
      /\ cl'.result = c.result /\ cl'.error = c.error
    BY FilledClient
<1>2. up' \in Directions /\ (cl'.waiting => up'.buf # <<>> /\ up'.needDrain)
    BY FilledWire
<1>3. InFlight(down') \in Seq(Messages)
    BY InFlightTypes
<1>4. WireOf(cl', InFlight(down'), InFlight(up')) /\ (~Ignores => Follow(InFlight(up')))
    BY <1>3, FillKeeps
<1>5. ~Ignores' => ~Ignores
    BY DEF Ignores
<1>6. Window'
  <2>1. WindowOf(cl)'
    BY <1>1, StillWindow
  <2>2. cl'.received < PhaseCount(cl.phase)'
    BY <1>1 DEF PhaseCount
  <2>. QED
    BY <1>1, <2>1, <2>2 DEF Window
<1>7. Wire'
  <2>1. WireOf(cl, InFlight(down), InFlight(up))'
    BY <1>4, <1>5, StillWire
  <2>. QED
    BY <2>1 DEF Wire
<1>8. Accepted'
    BY <1>4, <1>5, StillAccepted
<1>9. NoFalseAlarm'
    BY <1>1 DEF NoFalseAlarm
<1>10. DrainWillCome'
    BY <1>2 DEF DrainWillCome
<1>. QED
    BY <1>1, <1>2, <1>6, <1>7, <1>8, <1>9, <1>10

\* Something is expected of the client.
LEMMA SomethingExpected ==
    ASSUME sopt \in Options
    PROVE  Expected \in Nat \ {0}
BY OptionTypes DEF Expected

\* A lost connection keeps the invariant: messages stay where they are.
LEMMA LoseStep ==
    ASSUME IInv, Lose
    PROVE  IInv'
<1>1. /\ copt' = copt /\ sopt' = sopt /\ demo' = demo /\ cl' = cl /\ sv' = sv /\ up' = up /\ down' = down
      /\ conn = "open" /\ conn' = "lost"
    BY DEF Lose, options
<1>2. Window' /\ Wire' /\ Accepted' /\ NoFalseAlarm'
    BY <1>1, SameWire DEF options, Ignores
<1>3. TypeOK' /\ Types'
    BY <1>1 DEF IInv, TypeOK, Types, Expected
<1>4. Places'
    BY <1>1 DEF IInv, Places, Expected
<1>5. Demo' /\ DrainWillCome'
    BY <1>1 DEF IInv, Demo, DrainWillCome, Ignores, Phasing
<1>. QED
    BY <1>2, <1>3, <1>4, <1>5 DEF IInv

\* Reading moves answers from the network into a chunk, in order.
LEMMA ClientReadsStep ==
    ASSUME IInv, ClientReads
    PROVE  IInv'
<1>1. PICK n \in 1 .. Len(down.net) :
          down' = [down EXCEPT !.burst = SubSeq(down.net, 1, n), !.net = SubSeq(@, n + 1, Len(@))]
    BY DEF ClientReads
<1>2. /\ copt' = copt /\ sopt' = sopt /\ demo' = demo /\ cl' = cl /\ sv' = sv /\ up' = up /\ conn' = conn
      /\ down.burst = <<>>
    BY DEF ClientReads, options
<1>3. down \in Directions
    BY DEF IInv, Types
<1>4. /\ down' \in Directions /\ InFlight(down') = InFlight(down) /\ down'.buf = down.buf
      /\ down'.needDrain = down.needDrain
    BY <1>1, <1>2, <1>3, ReadsChunk
<1>5. conn \notin {"connecting", "refused"}
  <2>1. Phasing
    BY DEF ClientReads
  <2>. QED
    BY <2>1 DEF IInv, Places, Phasing
<1>6. Window' /\ Wire' /\ Accepted' /\ NoFalseAlarm'
    BY <1>2, <1>4, SameWire DEF options, Ignores
<1>7. TypeOK' /\ Types'
    BY <1>2, <1>4 DEF IInv, TypeOK, Types, Expected
<1>8. Places'
    BY <1>2, <1>5 DEF IInv, Places, Expected, Phasing
<1>9. Demo'
    BY <1>2 DEF IInv, Demo, Ignores
<1>10. DrainWillCome'
    BY <1>2, <1>4 DEF IInv, DrainWillCome, Phasing
<1>. QED
    BY <1>6, <1>7, <1>8, <1>9, <1>10 DEF IInv

\* Reading moves requests from the network into a chunk, in order.
LEMMA ServerReadsStep ==
    ASSUME IInv, ServerReads
    PROVE  IInv'
<1>1. PICK n \in 1 .. Len(up.net) :
          up' = [up EXCEPT !.burst = SubSeq(up.net, 1, n), !.net = SubSeq(@, n + 1, Len(@))]
    BY DEF ServerReads
<1>2. /\ copt' = copt /\ sopt' = sopt /\ demo' = demo /\ cl' = cl /\ sv' = sv /\ down' = down /\ conn' = conn
      /\ up.burst = <<>> /\ conn \in {"open", "lost"}
    BY DEF ServerReads, options
<1>3. up \in Directions
    BY DEF IInv, Types
<1>4. /\ up' \in Directions /\ InFlight(up') = InFlight(up) /\ up'.buf = up.buf
      /\ up'.needDrain = up.needDrain
    BY <1>1, <1>2, <1>3, ReadsChunk
<1>5. Window' /\ Wire' /\ Accepted' /\ NoFalseAlarm'
    BY <1>2, <1>4, SameWire DEF options, Ignores
<1>6. TypeOK' /\ Types'
    BY <1>2, <1>4 DEF IInv, TypeOK, Types, Expected
<1>7. Places'
    BY <1>2 DEF IInv, Places, Expected, Phasing
<1>8. Demo'
    BY <1>2, <1>4 DEF IInv, Demo, Ignores
<1>9. DrainWillCome'
    BY <1>2, <1>4 DEF IInv, DrainWillCome, Phasing
<1>. QED
    BY <1>5, <1>6, <1>7, <1>8, <1>9 DEF IInv

\* A flushed answer keeps its place, and 'drain' comes with the last one.
LEMMA FlushResponseStep ==
    ASSUME IInv, FlushResponse
    PROVE  IInv'
<1>. DEFINE drained == Len(down.buf) = 1 /\ down.needDrain /\ ~sv.finishing
            drain == down.needDrain /\ ~drained
            paused == sv.paused /\ ~drained
<1>1. /\ copt' = copt /\ sopt' = sopt /\ demo' = demo /\ cl' = cl /\ up' = up /\ conn' = conn
      /\ down.buf # <<>> /\ conn = "open"
    BY DEF FlushResponse, options
<1>2. down \in Directions /\ sv \in Servers
    BY DEF IInv, Types
<1>3. /\ down' = [down EXCEPT !.buf = Tail(@), !.net = Append(@, Head(down.buf)), !.needDrain = drain]
      /\ sv' = [sv EXCEPT !.paused = paused]
    BY DEF FlushResponse
<1>4. drain \in BOOLEAN /\ paused \in BOOLEAN
    BY <1>2 DEF Directions, Servers
<1>5. ASSUME paused, ~sv.finishing PROVE Tail(down.buf) # <<>> /\ drain
  <2>1. down.buf \in Seq(Messages) /\ down.needDrain /\ ~drained /\ Len(down.buf) # 1
    BY <1>2, <1>5 DEF IInv, DrainWillCome, Directions
  <2>2. Tail(down.buf) # <<>>
    BY <1>1, <2>1, MoreToFlush
  <2>. QED
    BY <2>1, <2>2
<1>. HIDE DEF drain, paused
<1>6. /\ down' \in Directions /\ InFlight(down') = InFlight(down) /\ down'.buf = Tail(down.buf)
      /\ down'.needDrain = drain
    BY <1>1, <1>2, <1>3, <1>4, Flushes
<1>7. /\ sv' \in Servers /\ sv'.frames = sv.frames /\ sv'.result = sv.result
      /\ sv'.finishing = sv.finishing /\ sv'.paused = paused
    BY <1>2, <1>3, <1>4 DEF Servers
<1>8. Window' /\ Wire' /\ Accepted' /\ NoFalseAlarm'
    BY <1>1, <1>6, <1>7, SameWire DEF options, Ignores
<1>9. TypeOK' /\ Types'
    BY <1>1, <1>6, <1>7 DEF IInv, TypeOK, Types, Expected
<1>10. Places'
    BY <1>1, <1>7 DEF IInv, Places, Expected, Phasing
<1>11. Demo'
    BY <1>1, <1>7 DEF IInv, Demo, Ignores
<1>12. DrainWillCome'
    BY <1>1, <1>5, <1>6, <1>7 DEF IInv, DrainWillCome, Phasing
<1>. QED
    BY <1>8, <1>9, <1>10, <1>11, <1>12 DEF IInv

\* The server settles.
LEMMA ServerSettles ==
    ASSUME IInv, UNCHANGED <<options, conn, cl, up, down>>,
           NEW result \in {"complete", "failed"}, sv' = [sv EXCEPT !.result = result],
           result = "complete" => sv.finishing, result = "failed" => conn = "lost" /\ (sv.finishing \/ ~demo)
    PROVE  IInv'
<1>1. /\ copt' = copt /\ sopt' = sopt /\ demo' = demo /\ cl' = cl /\ up' = up /\ conn' = conn /\ down' = down
    BY DEF options
<1>2. /\ sv' \in Servers /\ sv'.frames = sv.frames /\ sv'.result = result
      /\ sv'.finishing = sv.finishing /\ sv'.paused = sv.paused
    BY DEF IInv, Types, Servers
<1>3. Window' /\ Wire' /\ Accepted' /\ NoFalseAlarm'
  <2>1. ~Ignores' => ~Ignores
    BY <1>2 DEF Ignores
  <2>. QED
    BY <1>1, <1>2, <2>1, SameWire DEF options
<1>4. TypeOK' /\ Types'
    BY <1>1, <1>2 DEF IInv, TypeOK, Types, Expected
<1>5. conn \notin {"connecting", "refused"}
  <2>1. CASE result = "complete"
    BY <2>1, SomethingExpected DEF IInv, TypeOK, Places
  <2>2. CASE result = "failed"
    BY <2>2
  <2>. QED
    BY <2>1, <2>2
<1>6. Places'
    BY <1>1, <1>2, <1>5 DEF IInv, Places, Expected, Phasing
<1>7. Demo'
    BY <1>1, <1>2 DEF IInv, Demo, Ignores
<1>8. DrainWillCome'
    BY <1>1, <1>2 DEF IInv, DrainWillCome, Phasing
<1>. QED
    BY <1>3, <1>4, <1>6, <1>7, <1>8 DEF IInv

\* A server that has answered everything is complete.
LEMMA EndCallbackStep ==
    ASSUME IInv, EndCallback \/ DemoEnds
    PROVE  IInv'
<1>1. /\ UNCHANGED <<options, conn, cl, up, down>> /\ sv.finishing
      /\ sv' = [sv EXCEPT !.result = "complete"]
    BY DEF EndCallback, DemoEnds
<1>. QED
    BY <1>1, ServerSettles

\* A server whose client is gone too early, or whose connection breaks, fails.
LEMMA ServerClosedStep ==
    ASSUME IInv, ServerClosed \/ ServerError
    PROVE  IInv'
<1>1. /\ UNCHANGED <<options, conn, cl, up, down>> /\ conn = "lost" /\ (sv.finishing \/ ~demo)
      /\ sv' = [sv EXCEPT !.result = "failed"]
    BY DEF ServerClosed, ServerError
<1>. QED
    BY <1>1, ServerSettles

\* The client settles without success.
LEMMA ClientFails ==
    ASSUME IInv, UNCHANGED <<options, sv, up, down>>, cl' \in Clients,
           cl'.phase = "failed" \/ (cl'.phase = cl.phase /\ cl'.result = "rejected" /\ Phasing),
           cl'.phase = "failed" => cl'.result = "rejected" \/ conn' = "refused",
           cl'.error \notin {"slot", "response"},
           cl'.sent = cl.sent, cl'.received = cl.received, cl'.waiting = cl.waiting,
           conn' = conn \/ (conn = "connecting" /\ conn' = "refused") \/ conn' = "lost",
           cl'.phase = "failed" => conn' \in {"lost", "refused"},
           conn' = "refused" => cl'.phase = "failed" /\ conn \in {"connecting", "refused"}
    PROVE  IInv'
<1>1. /\ copt' = copt /\ sopt' = sopt /\ demo' = demo /\ sv' = sv /\ up' = up /\ down' = down
    BY DEF options
<1>2. Window' /\ Wire' /\ Accepted' /\ NoFalseAlarm'
    BY GivesUp
<1>3. TypeOK' /\ Types'
    BY <1>1 DEF IInv, TypeOK, Types, Expected, Clients
<1>4. Places'
    BY <1>1 DEF IInv, Places, Expected, Phasing
<1>5. Demo'
    BY <1>1 DEF IInv, Demo, Ignores
<1>6. DrainWillCome'
    BY <1>1 DEF IInv, DrainWillCome, Phasing
<1>. QED
    BY <1>2, <1>3, <1>4, <1>5, <1>6 DEF IInv

\* A refused connection leaves nothing behind.
LEMMA ConnectFailsStep ==
    ASSUME IInv, ConnectFails
    PROVE  IInv'
<1>1. /\ UNCHANGED <<options, sv, up, down>> /\ conn = "connecting" /\ conn' = "refused"
      /\ cl' = [cl EXCEPT !.phase = "failed"]
    BY DEF ConnectFails
<1>2. cl \in Clients /\ cl.error \notin {"slot", "response"}
    BY DEF IInv, Types, NoFalseAlarm
<1>3. /\ cl' \in Clients /\ cl'.phase = "failed" /\ cl'.error = cl.error
      /\ cl'.sent = cl.sent /\ cl'.received = cl.received /\ cl'.waiting = cl.waiting
    BY <1>1, <1>2 DEF Clients
<1>. QED
    BY <1>1, <1>2, <1>3, ClientFails

\* A phase whose connection closes is rejected with 'disconnect', nothing else.
LEMMA ClientClosedStep ==
    ASSUME IInv, ClientClosed
    PROVE  IInv'
<1>1. /\ UNCHANGED <<options, conn, sv, up, down>> /\ Phasing
      /\ cl' = [cl EXCEPT !.result = "rejected", !.error = "disconnect"]
    BY DEF ClientClosed
<1>2. cl \in Clients
    BY DEF IInv, Types
<1>3. /\ cl' \in Clients /\ cl'.phase = cl.phase /\ cl'.error = "disconnect" /\ cl'.result = "rejected"
      /\ cl'.sent = cl.sent /\ cl'.received = cl.received /\ cl'.waiting = cl.waiting
    BY <1>1, <1>2 DEF Clients
<1>4. conn # "refused"
    BY <1>1 DEF IInv, Places, Phasing
<1>. QED
    BY <1>1, <1>3, <1>4, ClientFails DEF Phasing

\* The client at the start of a phase.
Fresh(phase) ==
    [phase |-> phase, sent |-> 0, received |-> 0, slots |-> [s \in 0 .. Slots(phase) - 1 |-> -1],
     waiting |-> FALSE, result |-> "running", error |-> "none"]

\* A phase starts with an empty window.
LEMMA FreshPhase ==
    ASSUME copt \in Options, NEW phase \in {"warmup", "measured"}, PhaseCount(phase) > 0
    PROVE  /\ Fresh(phase) \in Clients /\ WindowOf(Fresh(phase))
           /\ Fresh(phase).received < PhaseCount(phase)
<1>. DEFINE c == Fresh(phase)
            slots == [s \in 0 .. Slots(phase) - 1 |-> -1]
<1>1. PhaseCount(phase) \in Nat \ {0} /\ Slots(phase) \in Nat \ {0} /\ Slots(phase) <= MaxSafe
    BY SlotTypes
<1>2. slots \in [0 .. Slots(phase) - 1 -> Int] /\ \A s \in 0 .. Slots(phase) - 1 : slots[s] = -1
    OBVIOUS
<1>3. slots \in Windows
  <2>1. Slots(phase) \in 0 .. MaxSafe
    BY <1>1, RoundTripAssumption
  <2>. HIDE DEF slots
  <2>. QED
    BY <2>1, <1>2 DEF Windows, Sized
<1>4. /\ c.phase = phase /\ c.sent = 0 /\ c.received = 0 /\ c.slots = slots
    BY DEF Fresh
<1>5. c \in Clients
  <2>. HIDE DEF slots
  <2>1. c = [phase |-> phase, sent |-> 0, received |-> 0, slots |-> slots,
             waiting |-> FALSE, result |-> "running", error |-> "none"]
    BY DEF Fresh, slots
  <2>. QED
    BY <1>3, <2>1 DEF Clients
<1>6. WindowOf(c)
  <2>. HIDE DEF c, slots
  <2>. QED
    BY <1>1, <1>2, <1>4 DEF WindowOf
<1>. QED
    BY <1>1, <1>4, <1>5, <1>6

\* A phase starts.
LEMMA RunPhaseStep ==
    ASSUME IInv, UNCHANGED <<options, sv, down>>, ~demo, conn' \in {"open", "lost"},
           NEW phase \in {"warmup", "measured"}, PhaseCount(phase) > 0, RunPhase(phase),
           WireOf(Fresh(phase), InFlight(down), InFlight(up)),
           sv.result = "failed" => conn' = "lost"
    PROVE  IInv'
<1>. DEFINE c == Fresh(phase)
<1>1. copt' = copt /\ sopt' = sopt /\ demo' = demo /\ sv' = sv /\ down' = down
    BY DEF options
<1>2. /\ copt \in Options /\ sv \in Servers /\ Accepted /\ up \in Directions /\ down \in Directions
      /\ (sv.paused /\ ~sv.finishing => down.buf # <<>> /\ down.needDrain)
    BY DEF IInv, TypeOK, Types, DrainWillCome
<1>3. /\ c \in Clients /\ WindowOf(c) /\ c.phase = phase /\ c.result = "running" /\ c.error = "none"
      /\ c.received < PhaseCount(c.phase) /\ c.waiting = FALSE
    BY <1>2, FreshPhase DEF Fresh
<1>4. FillWindow(c, up)
    BY DEF RunPhase, Fresh
<1>5. ~Ignores => Follow(InFlight(up))
    BY <1>2 DEF Accepted
<1>6. WireOf(c, InFlight(down'), InFlight(up))
    BY <1>1
<1>. HIDE DEF c
<1>7. /\ cl' \in Clients /\ up' \in Directions /\ cl'.phase = phase /\ cl'.result = "running"
      /\ Window' /\ Wire' /\ Accepted' /\ NoFalseAlarm' /\ DrainWillCome'
    BY <1>1, <1>2, <1>3, <1>4, <1>5, <1>6, FillStep
<1>8. TypeOK' /\ Types'
    BY <1>1, <1>2, <1>7 DEF IInv, TypeOK, Types, Expected
<1>9. Places'
    BY <1>1, <1>7 DEF IInv, Places, Expected, Phasing
<1>10. Demo'
    BY <1>1 DEF Demo
<1>. QED
    BY <1>7, <1>8, <1>9, <1>10 DEF IInv

\* The first phase starts with nothing on the wire.
LEMMA ConnectStep ==
    ASSUME IInv, Connect
    PROVE  IInv'
<1>. DEFINE phase == IF copt.warmup > 0 THEN "warmup" ELSE "measured"
            c == Fresh(phase)
<1>1. /\ ~demo /\ conn = "connecting" /\ conn' = "open" /\ UNCHANGED <<options, sv, down>> /\ RunPhase(phase)
    BY DEF Connect
<1>2. up = Idle /\ down = Idle /\ sv.frames = 0 /\ sv.result = "running" /\ copt \in Options
    BY <1>1 DEF IInv, Places, TypeOK
<1>3. copt.warmup \in Nat /\ copt.count \in Nat \ {0}
    BY <1>2, OptionTypes
<1>4. phase \in {"warmup", "measured"} /\ PhaseCount(phase) > 0 /\ Before(c) = 0
    BY <1>3 DEF PhaseCount, Before, Fresh
<1>5. InFlight(up) = <<>> /\ InFlight(down) = <<>> /\ Len(<<>>) = 0
    BY <1>2 DEF InFlight, Idle
<1>6. c.sent = 0 /\ c.received = 0
    BY DEF Fresh
<1>7. WireOf(c, InFlight(down), InFlight(up))
  <2>. HIDE DEF c
  <2>. QED
    BY <1>2, <1>4, <1>5, <1>6 DEF WireOf
<1>. HIDE DEF phase
<1>. QED
    BY <1>1, <1>2, <1>4, <1>7, RunPhaseStep

\* Everything of a settled phase was answered.
LEMMA NothingLeft ==
    ASSUME IInv, Tracks(cl), cl.result = "resolved"
    PROVE  /\ cl.received = PhaseCount(cl.phase) /\ cl.sent = cl.received
           /\ Len(InFlight(down)) = 0 /\ (~Ignores => Len(InFlight(up)) = 0)
           /\ sv.frames = Before(cl) + PhaseCount(cl.phase)
<1>1. /\ cl.received = PhaseCount(cl.phase) /\ cl.received <= cl.sent /\ cl.sent <= PhaseCount(cl.phase)
      /\ cl.sent \in Nat /\ cl.received \in Nat
    BY DEF IInv, Window, WindowOf, Types, Clients
<1>2. cl.sent = cl.received
    BY <1>1
<1>3. PICK a \in Nat, r \in Nat, b \in Nat :
          a = Len(InFlight(down)) /\ r = Len(InFlight(up)) /\ b = Before(cl)
    BY InFlightTypes, OptionTypes DEF IInv, Types, TypeOK, Before
<1>4. a <= cl.sent - cl.received /\ (~Ignores => a + r = cl.sent - cl.received) /\ sv.frames = b + cl.received + a
    BY <1>3 DEF IInv, Wire, WireOf
<1>5. a = 0 /\ (~Ignores => r = 0)
    BY <1>1, <1>2, <1>4
<1>. QED
    BY <1>1, <1>2, <1>3, <1>4, <1>5

\* The measured phase starts when the warm-up has left nothing on the wire.
LEMMA ContinueClientStep ==
    ASSUME IInv, ContinueClient
    PROVE  IInv'
<1>1. Phasing /\ cl.result # "running" /\ UNCHANGED <<options, sv, down>>
    BY DEF ContinueClient
<1>2. cl \in Clients /\ copt \in Options /\ cl.phase \in {"warmup", "measured"}
    BY <1>1 DEF IInv, Types, TypeOK, Phasing
<1>3. CASE MeasuresNext(cl)
  <2>1. cl.phase = "warmup" /\ cl.result = "resolved" /\ Tracks(cl)
    BY <1>3 DEF MeasuresNext, Tracks
  <2>2. RunPhase("measured") /\ conn' = conn
    BY <1>3 DEF ContinueClient
  <2>3. ~demo
    BY <2>1 DEF IInv, Demo
  <2>4. conn \in {"open", "lost"}
    BY <2>1 DEF IInv, Places, TypeOK
  <2>5. PhaseCount("measured") > 0 /\ copt.warmup \in Nat
    BY <1>2, OptionTypes DEF PhaseCount
  <2>6. /\ Len(InFlight(down)) = 0 /\ (~Ignores => Len(InFlight(up)) = 0) /\ sv.frames = copt.warmup
    <3>1. Before(cl) = 0 /\ PhaseCount(cl.phase) = copt.warmup
      BY <2>1 DEF Before, PhaseCount
    <3>. QED
      BY <2>1, <2>5, <3>1, NothingLeft
  <2>. DEFINE c == Fresh("measured")
  <2>7. c.sent = 0 /\ c.received = 0 /\ Before(c) = copt.warmup
    BY DEF Fresh, Before
  <2>8. WireOf(c, InFlight(down), InFlight(up))
    <3>. HIDE DEF c
    <3>. QED
      BY <2>5, <2>6, <2>7 DEF WireOf
  <2>9. sv.result = "failed" => conn' = "lost"
    BY <2>2 DEF IInv, Places
  <2>. QED
    BY <1>1, <2>2, <2>3, <2>4, <2>5, <2>8, <2>9, RunPhaseStep
<1>4. CASE ~MeasuresNext(cl) /\ cl.result = "resolved"
  <2>1. cl' = [cl EXCEPT !.phase = "done"] /\ conn' = "lost" /\ up' = up
    BY <1>4 DEF ContinueClient
  <2>2. /\ cl' \in Clients /\ cl'.phase = "done" /\ cl'.sent = cl.sent /\ cl'.received = cl.received
        /\ cl'.slots = cl.slots /\ cl'.waiting = cl.waiting /\ cl'.result = cl.result /\ cl'.error = cl.error
    BY <1>2, <2>1 DEF Clients
  <2>3. cl.phase = "measured" /\ Tracks(cl)
    BY <1>2, <1>4 DEF MeasuresNext, Tracks
  <2>4. copt' = copt /\ sopt' = sopt /\ demo' = demo /\ sv' = sv /\ down' = down
    BY <1>1 DEF options
  <2>5. PhaseCount("done") = PhaseCount("measured") /\ Slots("done") = Slots("measured")
    BY DEF PhaseCount, Slots
  <2>6. Window'
    <3>1. WindowOf(cl')
      BY <2>2, <2>3, <2>5 DEF IInv, Window, WindowOf
    <3>2. WindowOf(cl)'
      BY <2>4, <3>1, StillWindow
    <3>3. cl'.received = PhaseCount(cl.phase)'
      BY <1>4, <2>2, <2>3, <2>4 DEF IInv, Window, PhaseCount
    <3>. QED
      BY <1>4, <2>2, <3>2, <3>3 DEF Window
  <2>7. Wire'
    <3>1. Before(cl') = Before(cl)
      BY <2>2, <2>3 DEF Before
    <3>2. WireOf(cl', InFlight(down'), InFlight(up'))
      BY <2>1, <2>2, <2>3, <2>4, <3>1 DEF IInv, Wire, WireOf
    <3>3. WireOf(cl, InFlight(down), InFlight(up))'
      BY <2>4, <3>2, StillWire DEF Ignores
    <3>. QED
      BY <3>3 DEF Wire
  <2>8. Accepted'
    BY <2>1, <2>4, StillAccepted DEF IInv, Accepted, Ignores
  <2>9. NoFalseAlarm' /\ DrainWillCome'
    BY <2>2, <2>4 DEF IInv, NoFalseAlarm, DrainWillCome, Phasing
  <2>10. TypeOK' /\ Types'
    BY <1>4, <2>1, <2>2, <2>4 DEF IInv, TypeOK, Types, Expected
  <2>11. Places'
    BY <1>4, <2>1, <2>2, <2>4 DEF IInv, Places, Expected, Phasing
  <2>12. Demo'
    BY <2>1, <2>2, <2>4 DEF IInv, Demo, Ignores
  <2>. QED
    BY <2>6, <2>7, <2>8, <2>9, <2>10, <2>11, <2>12 DEF IInv
<1>5. CASE ~MeasuresNext(cl) /\ cl.result # "resolved"
  <2>1. cl' = [cl EXCEPT !.phase = "failed"] /\ conn' = "lost" /\ up' = up
    BY <1>5 DEF ContinueClient
  <2>2. /\ cl' \in Clients /\ cl'.phase = "failed" /\ cl'.sent = cl.sent /\ cl'.received = cl.received
        /\ cl'.waiting = cl.waiting /\ cl'.result = cl.result /\ cl'.error = cl.error
    BY <1>2, <2>1 DEF Clients
  <2>3. cl.result = "rejected" /\ cl.error \notin {"slot", "response"}
    BY <1>1, <1>2, <1>5 DEF Clients, IInv, NoFalseAlarm
  <2>. QED
    BY <1>1, <2>1, <2>2, <2>3, ClientFails
<1>. QED
    BY <1>3, <1>4, <1>5

\* A slot is set free and the others stay.
LEMMA Updates ==
    ASSUME NEW S, NEW f \in [S -> Int], NEW i \in S
    PROVE  LET g == [f EXCEPT ![i] = -1]
           IN  g \in [S -> Int] /\ g[i] = -1 /\ \A s \in S : s # i => g[s] = f[s]
<1>1. -1 \in Int
    OBVIOUS
<1>. QED
    BY <1>1

\* An answer frees its slot.
LEMMA AnswerFrees ==
    ASSUME copt \in Options, NEW c \in Clients, WindowOf(c), c.received < c.sent,
           NEW d, d.phase = c.phase, d.sent = c.sent, d.received = c.received + 1,
           d.slots = [c.slots EXCEPT ![c.received % Slots(c.phase)] = -1]
    PROVE  WindowOf(d)
<1>. DEFINE w == Slots(c.phase)
            r == c.received
<1>1. /\ c.sent \in Nat /\ r \in Nat /\ w \in Nat \ {0} /\ c.sent - r <= w
      /\ c.slots \in [0 .. w - 1 -> Int] /\ c.sent <= PhaseCount(c.phase) /\ PhaseCount(c.phase) > 0
    BY SlotTypes DEF Clients, WindowOf
<1>2. r % w \in 0 .. w - 1
    BY <1>1
<1>3. /\ d.slots \in [0 .. w - 1 -> Int] /\ d.slots[r % w] = -1
      /\ \A s \in 0 .. w - 1 : s # r % w => d.slots[s] = c.slots[s]
  <2>. HIDE DEF w, r
  <2>1. PICK i \in 0 .. w - 1 : i = r % w
    BY <1>2
  <2>2. d.slots = [c.slots EXCEPT ![i] = -1]
    BY <2>1 DEF w, r
  <2>3. PICK f \in [0 .. w - 1 -> Int] : f = c.slots
    BY <1>1
  <2>4. LET g == [f EXCEPT ![i] = -1]
        IN  g \in [0 .. w - 1 -> Int] /\ g[i] = -1 /\ \A s \in 0 .. w - 1 : s # i => g[s] = f[s]
    BY Updates
  <2>. QED
    BY <2>1, <2>2, <2>3, <2>4, Zenon
<1>4. ASSUME NEW k \in d.received .. d.sent - 1 PROVE d.slots[k % w] = k
  <2>1. k \in Nat /\ r < k /\ k < r + w /\ k \in r .. c.sent - 1
    BY <1>1
  <2>2. c.slots[k % w] = k
    BY <2>1 DEF WindowOf
  <2>. HIDE DEF w, r
  <2>3. k % w # r % w
    BY <1>1, <2>1, SlotsDiffer
  <2>4. k % w \in 0 .. w - 1
    BY <1>1, <2>1
  <2>. QED
    BY <1>3, <2>2, <2>3, <2>4
<1>5. ASSUME NEW s \in 0 .. w - 1, d.slots[s] # -1
      PROVE  d.slots[s] \in d.received .. d.sent - 1 /\ d.slots[s] % w = s
  <2>1. s # r % w /\ d.slots[s] = c.slots[s]
    BY <1>3, <1>5
  <2>2. c.slots[s] \in r .. c.sent - 1 /\ c.slots[s] % w = s
    BY <1>5, <2>1 DEF WindowOf
  <2>3. c.slots[s] # r
    BY <2>1, <2>2
  <2>. QED
    BY <1>1, <2>1, <2>2, <2>3
<1>. QED
    BY <1>1, <1>3, <1>4, <1>5 DEF WindowOf

\* It is the next one the client waits for.
LEMMA AnswerTaken ==
    ASSUME copt \in Options, sv \in Servers, NEW c \in Clients, NEW a \in Seq(Messages), NEW q \in Seq(Messages),
           WireOf(c, a, q), Len(a) > 0, NEW b \in Seq(Messages), Len(b) = Len(a) - 1,
           \A j \in 1 .. Len(b) : b[j] = a[j + 1],
           NEW d, d.phase = c.phase, d.sent = c.sent, d.received = c.received + 1
    PROVE  a[1] = Numbered(c.received) /\ c.received < c.sent /\ WireOf(d, b, q)
<1>1. c.sent \in Nat /\ c.received \in Nat /\ sv.frames \in Nat
    BY DEF Clients, Servers
<1>2. PICK m \in Nat, e \in Nat, r \in Nat, t \in Nat :
          m = Len(a) /\ e = c.sent /\ r = c.received /\ t = Before(c)
    BY <1>1, OptionTypes DEF Before
<1>3. \A j \in 1 .. m : a[j] = Numbered(r + j - 1)
    BY <1>2 DEF WireOf
<1>4. a[1] = Numbered(r)
  <2>1. 1 \in 1 .. m /\ r + 1 - 1 = r
    BY <1>2
  <2>. QED
    BY <2>1, <1>3
<1>5. m <= e - r /\ sv.frames = t + r + m /\ (~Ignores => m + Len(q) = e - r)
    BY <1>2 DEF WireOf
<1>6. r < e
    BY <1>2, <1>5
<1>7. \A j \in 1 .. Len(b) : b[j] = Numbered(d.received + j - 1)
  <2>. TAKE j \in 1 .. Len(b)
  <2>1. j + 1 \in 1 .. m /\ r + (j + 1) - 1 = (r + 1) + j - 1
    BY <1>2
  <2>2. a[j + 1] = Numbered(r + (j + 1) - 1)
    BY <2>1, <1>3
  <2>3. b[j] = a[j + 1] /\ d.received = r + 1
    BY <1>2
  <2>. QED
    BY <2>1, <2>2, <2>3
<1>8. Before(d) = t
    BY <1>2 DEF Before
<1>9. t + (r + 1) + (m - 1) = t + r + m /\ m - 1 <= e - (r + 1)
    BY <1>5
<1>10. ~Ignores => (m - 1) + Len(q) = e - (r + 1)
    BY <1>5
<1>11. sv.frames = Before(d) + d.received + Len(b)
    BY <1>2, <1>5, <1>8, <1>9
<1>12. Len(b) <= d.sent - d.received
    BY <1>2, <1>9
<1>13. ~Ignores => Len(b) + Len(q) = d.sent - d.received
    BY <1>2, <1>10
<1>. QED
    BY <1>2, <1>4, <1>6, <1>7, <1>11, <1>12, <1>13 DEF WireOf

\* A message that nobody waits for.
LEMMA NobodyWaits ==
    ASSUME IInv, UNCHANGED <<options, conn, cl, sv, up>>, down.burst # <<>>, cl.result # "running",
           down' = [down EXCEPT !.burst = Tail(@)]
    PROVE  IInv'
<1>1. copt' = copt /\ sopt' = sopt /\ demo' = demo /\ conn' = conn /\ cl' = cl /\ sv' = sv /\ up' = up
    BY DEF options
<1>2. down \in Directions
    BY DEF IInv, Types
<1>3. /\ down' \in Directions /\ down'.buf = down.buf /\ down'.needDrain = down.needDrain
      /\ Len(InFlight(down)) > 0
    BY <1>2, TakesFirst
<1>4. cl.result = "rejected"
  <2>1. ASSUME cl.result = "resolved" PROVE FALSE
    <3>1. ~Tracks(cl)
      BY <1>3, <2>1, NothingLeft
    <3>2. cl.phase \in {"connecting", "failed"}
      BY <3>1, <2>1 DEF IInv, Types, Clients, Tracks
    <3>3. conn \in {"connecting", "refused"}
      BY <3>2, <2>1 DEF IInv, Places
    <3>. QED
      BY <3>3 DEF IInv, Places, Idle
  <2>. QED
    BY <2>1 DEF IInv, Types, Clients
<1>5. conn \notin {"connecting", "refused"}
    BY DEF IInv, Places, Idle
<1>6. Window' /\ Wire' /\ Accepted' /\ NoFalseAlarm'
  <2>1. cl'.error \notin {"slot", "response"} /\ cl'.result = "rejected"
    BY <1>1, <1>4 DEF IInv, NoFalseAlarm
  <2>. QED
    BY <2>1, GivesUp
<1>7. TypeOK' /\ Types'
    BY <1>1, <1>3 DEF IInv, TypeOK, Types, Expected
<1>8. Places'
    BY <1>1, <1>5 DEF IInv, Places, Expected, Phasing
<1>9. Demo'
    BY <1>1 DEF IInv, Demo, Ignores
<1>10. DrainWillCome'
    BY <1>1, <1>3 DEF IInv, DrainWillCome, Phasing
<1>. QED
    BY <1>6, <1>7, <1>8, <1>9, <1>10 DEF IInv

\* An answer that the client waits for is the one it expects.
LEMMA AnswerArrives ==
    ASSUME IInv, down.burst # <<>>, cl.result = "running",
           NEW e, e = [down EXCEPT !.burst = Tail(@)],
           NEW d, d.phase = cl.phase, d.sent = cl.sent, d.received = cl.received + 1
    PROVE  /\ Phasing /\ Tracks(cl) /\ conn \notin {"connecting", "refused"} /\ cl.received < cl.sent
           /\ e \in Directions /\ e.buf = down.buf /\ e.needDrain = down.needDrain
           /\ Head(down.burst) = Numbered(cl.received) /\ WireOf(d, InFlight(e), InFlight(up))
<1>1. down \in Directions /\ up \in Directions /\ cl \in Clients /\ sv \in Servers /\ copt \in Options
    BY DEF IInv, Types, TypeOK
<1>2. conn \notin {"connecting", "refused"}
    BY DEF IInv, Places, Idle
<1>3. Phasing /\ Tracks(cl)
    BY <1>1, <1>2 DEF IInv, Places, Phasing, Tracks, Clients
<1>4. /\ e \in Directions /\ e.buf = down.buf /\ e.needDrain = down.needDrain
      /\ Len(InFlight(down)) > 0 /\ Head(down.burst) = InFlight(down)[1]
      /\ Len(InFlight(e)) = Len(InFlight(down)) - 1
      /\ \A j \in 1 .. Len(InFlight(e)) : InFlight(e)[j] = InFlight(down)[j + 1]
    BY <1>1, TakesFirst
<1>5. WireOf(cl, InFlight(down), InFlight(up))
    BY <1>3 DEF IInv, Wire
<1>6. InFlight(down) \in Seq(Messages) /\ InFlight(e) \in Seq(Messages) /\ InFlight(up) \in Seq(Messages)
    BY <1>1, <1>4, InFlightTypes
<1>7. InFlight(down)[1] = Numbered(cl.received) /\ cl.received < cl.sent /\ WireOf(d, InFlight(e), InFlight(up))
    BY <1>1, <1>4, <1>5, <1>6, AnswerTaken
<1>. QED
    BY <1>2, <1>3, <1>4, <1>7

\* onResponse takes the answer it waits for, and never finds a wrong one.
LEMMA OnResponseStep ==
    ASSUME IInv, OnResponse
    PROVE  IInv'
<1>1. /\ ~demo /\ down.burst # <<>> /\ down' = [down EXCEPT !.burst = Tail(@)]
      /\ UNCHANGED <<options, conn, sv>>
    BY DEF OnResponse
<1>2. CASE cl.result # "running"
    BY <1>1, <1>2, NobodyWaits DEF OnResponse
<1>3. CASE cl.result = "running"
  <2>. DEFINE data == Head(down.burst)
              slot == data.sequence % Slots(cl.phase)
              next == [cl EXCEPT !.slots[slot] = -1, !.received = @ + 1]
  <2>1. /\ cl \in Clients /\ copt \in Options /\ sv \in Servers /\ up \in Directions /\ Accepted
    BY DEF IInv, Types, TypeOK
  <2>2. next.phase = cl.phase /\ next.sent = cl.sent /\ next.received = cl.received + 1
    BY <2>1 DEF Clients
  <2>3. /\ Phasing /\ Tracks(cl) /\ conn \notin {"connecting", "refused"} /\ cl.received < cl.sent
        /\ down' \in Directions /\ down'.buf = down.buf /\ down'.needDrain = down.needDrain
        /\ data = Numbered(cl.received) /\ WireOf(next, InFlight(down'), InFlight(up))
    <3>. HIDE DEF next
    <3>. QED
      BY <1>1, <1>3, <2>2, AnswerArrives
  <2>4. /\ data.sequence = cl.received /\ data.payload = copt.payload
    BY <2>3 DEF Numbered
  <2>5. WindowOf(cl) /\ cl.received \in Nat /\ cl.sent \in Nat
    BY <2>1, <2>3 DEF IInv, Window, Clients
  <2>6. /\ cl.received \in cl.received .. cl.sent - 1 /\ slot = cl.received % Slots(cl.phase)
    BY <2>3, <2>4, <2>5
  <2>7. cl.slots[slot] = data.sequence
    BY <2>4, <2>5, <2>6 DEF WindowOf
  <2>8. Valid(data, copt.payload)
    BY <2>4, <2>5 DEF Valid
  <2>9. next.slots = [cl.slots EXCEPT ![cl.received % Slots(cl.phase)] = -1]
    BY <2>1, <2>6 DEF Clients
  <2>10. WindowOf(next)
    <3>. HIDE DEF next
    <3>. QED
      BY <2>1, <2>2, <2>3, <2>5, <2>9, AnswerFrees
  <2>11. /\ next.result = "running" /\ next.error = cl.error /\ next.waiting = cl.waiting
    BY <1>3, <2>1 DEF Clients
  <2>12. next \in Clients
    <3>1. next.slots \in [0 .. Slots(cl.phase) - 1 -> Int] /\ Slots(cl.phase) \in 0 .. MaxSafe
      BY <2>1, <2>2, <2>10, SlotTypes, RoundTripAssumption DEF WindowOf
    <3>2. next.slots \in Windows
      BY <3>1 DEF Windows, Sized
    <3>. DEFINE slots == [cl.slots EXCEPT ![slot] = -1]
    <3>3. next = [cl EXCEPT !.slots = slots, !.received = cl.received + 1] /\ next.slots = slots
      BY <2>1 DEF Clients
    <3>. HIDE DEF slots, next
    <3>4. slots \in Windows /\ cl.received + 1 \in Nat
      BY <3>2, <3>3, <2>5
    <3>. QED
      BY <3>3, <3>4, <2>1 DEF Clients
  <2>13. IF next.received = PhaseCount(cl.phase)
         THEN cl' = [next EXCEPT !.result = "resolved"] /\ UNCHANGED up
         ELSE FillWindow(next, up)
    <3>. HIDE DEF slot, data
    <3>. QED
      BY <1>3, <2>7, <2>8 DEF OnResponse, slot, data
  <2>14. /\ copt' = copt /\ sopt' = sopt /\ demo' = demo /\ conn' = conn /\ sv' = sv
    BY <1>1 DEF options
  <2>15. /\ cl.phase \in {"warmup", "measured"} /\ cl.error \notin {"slot", "response"}
         /\ (cl.waiting => up.buf # <<>> /\ up.needDrain)
         /\ (sv.paused /\ ~sv.finishing => down'.buf # <<>> /\ down'.needDrain)
    BY <1>3, <2>3 DEF Phasing, IInv, NoFalseAlarm, DrainWillCome
  <2>16. ~Ignores => Follow(InFlight(up))
    BY <2>1 DEF Accepted
  <2>. HIDE DEF next, slot, data
  <2>17. /\ cl' \in Clients /\ up' \in Directions /\ cl'.phase = cl.phase
         /\ cl'.result \in {"running", "resolved"}
         /\ Window' /\ Wire' /\ Accepted' /\ NoFalseAlarm' /\ DrainWillCome'
    <3>1. CASE next.received = PhaseCount(cl.phase)
      <4>1. cl' = [next EXCEPT !.result = "resolved"] /\ up' = up
        BY <2>13, <3>1
      <4>2. /\ cl' \in Clients /\ cl'.phase = next.phase /\ cl'.result = "resolved"
            /\ cl'.sent = next.sent /\ cl'.received = next.received /\ cl'.slots = next.slots
            /\ cl'.error = next.error
        BY <4>1, <2>12 DEF Clients
      <4>3. WindowOf(cl')
        BY <4>2, <2>10 DEF WindowOf
      <4>4. WindowOf(cl)'
        BY <4>3, <2>14, StillWindow
      <4>5. cl'.received = PhaseCount(cl.phase)'
        BY <4>2, <3>1, <2>2, <2>14 DEF PhaseCount
      <4>6. Window'
        BY <4>2, <4>4, <4>5 DEF Window
      <4>7. WireOf(cl', InFlight(down'), InFlight(up'))
        <5>1. Before(cl') = Before(next)
          BY <4>2 DEF Before
        <5>. QED
          BY <2>3, <4>1, <4>2, <5>1 DEF WireOf
      <4>8. WireOf(cl, InFlight(down), InFlight(up))'
        BY <4>7, <2>14, StillWire DEF Ignores
      <4>9. Wire'
        BY <4>8 DEF Wire
      <4>10. Accepted'
        BY <4>1, <2>1, <2>14, <2>16, StillAccepted DEF Ignores
      <4>11. NoFalseAlarm' /\ DrainWillCome'
        BY <4>2, <2>11, <2>14, <2>15 DEF NoFalseAlarm, DrainWillCome
      <4>. QED
        BY <4>1, <4>2, <4>6, <4>9, <4>10, <4>11, <2>1, <2>2
    <3>2. CASE next.received # PhaseCount(cl.phase)
      <4>1. FillWindow(next, up)
        BY <2>13, <3>2
      <4>2. next.received < PhaseCount(next.phase)
        <5>1. next.received <= next.sent /\ next.sent <= PhaseCount(cl.phase)
          BY <2>2, <2>10 DEF WindowOf
        <5>2. PhaseCount(cl.phase) \in Nat /\ next.received \in Nat /\ next.sent \in Nat
          BY <2>1, <2>12, OptionTypes DEF PhaseCount, Clients
        <5>. QED
          BY <5>1, <5>2, <3>2, <2>2
      <4>3. /\ next.phase \in {"warmup", "measured"} /\ next.error \notin {"slot", "response"}
            /\ (next.waiting => up.buf # <<>> /\ up.needDrain)
        BY <2>2, <2>11, <2>15
      <4>. QED
        BY <4>1, <4>2, <4>3, <2>1, <2>2, <2>3, <2>10, <2>11, <2>12, <2>14, <2>15, <2>16, FillStep
    <3>. QED
      BY <3>1, <3>2
  <2>18. TypeOK' /\ Types'
    BY <2>3, <2>14, <2>17 DEF IInv, TypeOK, Types, Expected
  <2>19. Places'
    BY <2>3, <2>14, <2>15, <2>17 DEF IInv, Places, Expected, Phasing
  <2>20. Demo'
    BY <1>1, <2>14 DEF Demo
  <2>. QED
    BY <2>17, <2>18, <2>19, <2>20 DEF IInv
<1>. QED
    BY <1>2, <1>3

\* A flushed request keeps its place; with the last one the client goes on.
LEMMA FlushRequestStep ==
    ASSUME IInv, FlushRequest
    PROVE  IInv'
<1>. DEFINE drained == Len(up.buf) = 1 /\ up.needDrain
            drain == up.needDrain /\ ~drained
            flushed == [up EXCEPT !.buf = Tail(@), !.net = Append(@, Head(up.buf)), !.needDrain = drain]
            fills == drained /\ cl.waiting /\ Phasing /\ cl.result = "running"
<1>1. /\ copt' = copt /\ sopt' = sopt /\ demo' = demo /\ conn' = conn /\ sv' = sv /\ down' = down
      /\ conn = "open" /\ up.buf # <<>>
    BY DEF FlushRequest, options
<1>2. /\ up \in Directions /\ down \in Directions /\ cl \in Clients /\ sv \in Servers /\ copt \in Options
      /\ Accepted /\ up.buf \in Seq(Messages) /\ drain \in BOOLEAN
    BY DEF IInv, Types, TypeOK, Directions
<1>3. IF fills THEN FillWindow([cl EXCEPT !.waiting = FALSE], flushed)
      ELSE up' = flushed /\ cl' = cl
    BY DEF FlushRequest
<1>4. ASSUME ~drained, up.needDrain PROVE Tail(up.buf) # <<>> /\ drain
    BY <1>1, <1>2, <1>4, MoreToFlush
<1>5. /\ flushed \in Directions /\ InFlight(flushed) = InFlight(up) /\ flushed.buf = Tail(up.buf)
      /\ flushed.needDrain = drain
  <2>. HIDE DEF drain
  <2>. QED
    BY <1>1, <1>2, Flushes
<1>6. /\ Phasing /\ (sv.paused /\ ~sv.finishing => down.buf # <<>> /\ down.needDrain)
    BY <1>1 DEF IInv, Places, DrainWillCome
<1>. HIDE DEF flushed, drain
<1>7. CASE ~fills
  <2>1. up' = flushed /\ cl' = cl
    BY <1>3, <1>7
  <2>2. Window' /\ Wire' /\ Accepted' /\ NoFalseAlarm'
    BY <2>1, <1>1, <1>5, SameWire DEF options, Ignores
  <2>3. DrainWillCome'
    <3>1. ASSUME Phasing, cl.result = "running", cl.waiting PROVE flushed.buf # <<>> /\ flushed.needDrain
      <4>1. ~drained /\ up.needDrain
        BY <3>1, <1>7 DEF IInv, DrainWillCome
      <4>. QED
        BY <4>1, <1>4, <1>5
    <3>. QED
      BY <3>1, <2>1, <1>1, <1>6 DEF DrainWillCome, Phasing
  <2>4. TypeOK' /\ Types'
    BY <2>1, <1>1, <1>5 DEF IInv, TypeOK, Types, Expected
  <2>5. Places'
    BY <2>1, <1>1 DEF IInv, Places, Expected, Phasing
  <2>6. Demo'
    BY <2>1, <1>1, <1>5 DEF IInv, Demo, Ignores
  <2>. QED
    BY <2>2, <2>3, <2>4, <2>5, <2>6 DEF IInv
<1>8. CASE fills
  <2>. DEFINE c == [cl EXCEPT !.waiting = FALSE]
  <2>1. FillWindow(c, flushed)
    BY <1>3, <1>8
  <2>2. /\ c \in Clients /\ c.phase = cl.phase /\ c.sent = cl.sent /\ c.received = cl.received
        /\ c.slots = cl.slots /\ c.result = "running" /\ c.error = cl.error /\ c.waiting = FALSE
    BY <1>2, <1>8 DEF Clients
  <2>. HIDE DEF c
  <2>3. Tracks(cl) /\ ~demo /\ cl.phase \in {"warmup", "measured"}
    BY <1>8 DEF Tracks, Phasing, IInv, Demo
  <2>4. WindowOf(c) /\ c.received < PhaseCount(c.phase) /\ c.error \notin {"slot", "response"}
    BY <2>2, <2>3, <1>8 DEF IInv, Window, WindowOf, NoFalseAlarm
  <2>5. WireOf(c, InFlight(down'), InFlight(flushed))
    <3>1. Before(c) = Before(cl)
      BY <2>2 DEF Before
    <3>. QED
      BY <3>1, <2>2, <2>3, <1>1, <1>5 DEF IInv, Wire, WireOf
  <2>6. ~Ignores => Follow(InFlight(flushed))
    BY <1>2, <1>5 DEF Accepted
  <2>7. /\ cl' \in Clients /\ up' \in Directions /\ cl'.phase = c.phase /\ cl'.result = "running"
        /\ Window' /\ Wire' /\ Accepted' /\ NoFalseAlarm' /\ DrainWillCome'
    BY <2>1, <2>2, <2>3, <2>4, <2>5, <2>6, <1>1, <1>2, <1>5, <1>6, FillStep
  <2>8. TypeOK' /\ Types'
    BY <2>2, <2>3, <2>7, <1>1, <1>2 DEF IInv, TypeOK, Types, Expected
  <2>9. Places'
    BY <2>2, <2>3, <2>7, <1>1 DEF IInv, Places, Expected, Phasing
  <2>10. Demo'
    BY <2>3, <1>1 DEF Demo
  <2>. QED
    BY <2>7, <2>8, <2>9, <2>10 DEF IInv
<1>. QED
    BY <1>7, <1>8

-----------------------------------------------------------------------------
(***************************************************************************)
(* The server handles a request.                                           *)
(***************************************************************************)

\* A request is dropped, because the server wants no more or rejects it.
LEMMA RequestDropped ==
    ASSUME IInv, UNCHANGED <<options, cl, down>>, up.burst # <<>>, up' = [up EXCEPT !.burst = Tail(@)],
           sv' \in Servers, sv'.frames = sv.frames, sv'.finishing = sv.finishing, sv'.paused = sv.paused,
           Ignores', sv'.result = sv.result \/ sv'.result = "failed",
           conn' = conn \/ conn' = "lost", sv'.result = "failed" => conn' = "lost",
           demo => ~Ignores
    PROVE  IInv'
<1>1. copt' = copt /\ sopt' = sopt /\ demo' = demo /\ cl' = cl /\ down' = down
    BY DEF options
<1>2. up \in Directions /\ down \in Directions
    BY DEF IInv, Types
<1>3. /\ up' \in Directions /\ up'.buf = up.buf /\ up'.needDrain = up.needDrain
      /\ Len(InFlight(up)) > 0 /\ Len(InFlight(up')) = Len(InFlight(up)) - 1
    BY <1>2, TakesFirst
<1>4. conn \notin {"connecting", "refused"}
    BY DEF IInv, Places, Idle
<1>5. Window' /\ NoFalseAlarm'
    BY <1>1 DEF IInv, Window, Tracks, WindowOf, PhaseCount, Slots, NoFalseAlarm
<1>6. Wire'
  <2>. SUFFICES ASSUME Tracks(cl) PROVE WireOf(cl, InFlight(down), InFlight(up))'
    BY <1>1 DEF Wire, Tracks
  <2>1. WireOf(cl, InFlight(down), InFlight(up))
    BY DEF IInv, Wire
  <2>. QED
    BY <1>1, <2>1 DEF WireOf, Numbered, Before
<1>7. Accepted'
  <2>1. (\A k \in 0 .. sv.frames - 1 : ClientSequence(k) = ExpectedSequence(k))'
    BY <1>1 DEF IInv, Accepted, ClientSequence, ExpectedSequence
  <2>2. (sv.frames > 0 => copt.payload = sopt.payload)'
    BY <1>1 DEF IInv, Accepted
  <2>. QED
    BY <2>1, <2>2 DEF Accepted
<1>8. TypeOK' /\ Types'
    BY <1>1, <1>3 DEF IInv, TypeOK, Types, Expected
<1>9. Places'
    BY <1>1, <1>4 DEF IInv, Places, Expected, Phasing
<1>10. Demo'
  <2>1. ASSUME demo PROVE sv'.frames + Len(InFlight(up')) <= 1 /\ InFlight(up') = <<>>
    <3>1. /\ sv.frames + Len(InFlight(up)) <= 1 /\ sv.frames \in Nat /\ Len(InFlight(up)) \in Nat
      BY <2>1, <1>2, InFlightTypes DEF IInv, Demo, Types, Servers
    <3>2. Len(InFlight(up')) = 0 /\ sv.frames = 0
      BY <3>1, <1>3
    <3>3. InFlight(up') \in Seq(Messages)
      BY <1>3, InFlightTypes
    <3>4. InFlight(up') = <<>>
      BY <3>2, <3>3, EmptySeq
    <3>. QED
      BY <3>2, <3>4
  <2>. QED
    BY <2>1, <1>1 DEF IInv, Demo
<1>11. DrainWillCome'
    BY <1>1, <1>3 DEF IInv, DrainWillCome, Phasing
<1>. QED
    BY <1>5, <1>6, <1>7, <1>8, <1>9, <1>10, <1>11 DEF IInv

\* The request the server accepts is the one the client's numbering has next,
\* and so is its answer.
LEMMA RequestAnswered ==
    ASSUME copt \in Options, sv \in Servers, NEW c \in Clients, WindowOf(c), Tracks(c),
           NEW a \in Seq(Messages), NEW q \in Seq(Messages), WireOf(c, a, q), ~Ignores,
           Len(q) > 0, NEW b \in Seq(Messages), b = a \o <<Numbered(ClientSequence(sv.frames))>>,
           Numbered(ClientSequence(sv.frames)) \in Messages
    PROVE  /\ \A j \in 1 .. Len(b) : b[j] = Numbered(c.received + j - 1)
           /\ sv.frames + 1 = Before(c) + c.received + Len(b)
           /\ Len(b) = Len(a) + 1 /\ Len(b) <= c.sent - c.received
<1>. DEFINE x == Numbered(ClientSequence(sv.frames))
<1>1. c.sent \in Nat /\ c.received \in Nat /\ sv.frames \in Nat /\ c.sent <= PhaseCount(c.phase)
    BY DEF Clients, Servers, WindowOf
<1>2. PICK e \in Nat, r \in Nat, t \in Nat : e = c.sent /\ r = c.received /\ t = Before(c)
    BY <1>1, OptionTypes DEF Before
<1>3. PICK m \in Nat, n \in Nat : m = Len(a) /\ n = Len(q)
    OBVIOUS
<1>4. m = Len(a) /\ n = Len(q) /\ e = c.sent /\ r = c.received /\ t = Before(c)
    BY <1>2, <1>3
<1>5. \A j \in 1 .. m : a[j] = Numbered(r + j - 1)
    BY <1>4 DEF WireOf
<1>6. sv.frames = t + r + m /\ m + n = e - r /\ n > 0
    BY <1>4 DEF WireOf
<1>7. r + m \in Nat /\ r + m < e /\ sv.frames = t + (r + m)
    BY <1>6
<1>8. ClientSequence(sv.frames) = r + m
  <2>1. PhaseCount(c.phase) \in Nat
    BY OptionTypes DEF PhaseCount
  <2>2. r + m < PhaseCount(c.phase)
    BY <2>1, <1>1, <1>4, <1>7
  <2>. QED
    BY <2>2, <1>4, <1>7, PlaceOfRequest
<1>. HIDE DEF x
<1>9. /\ Len(b) = m + 1 /\ \A j \in 1 .. m : b[j] = a[j] /\ b[m + 1] = x
  <2>1. x \in Messages /\ b = a \o <<x>>
    BY DEF x
  <2>. QED
    BY <2>1, <1>4
<1>10. ASSUME NEW j \in 1 .. m + 1 PROVE b[j] = Numbered(r + j - 1)
  <2>1. CASE j \in 1 .. m
    BY <2>1, <1>5, <1>9
  <2>2. CASE j \notin 1 .. m
    <3>1. j = m + 1
      BY <2>2
    <3>2. r + j - 1 = r + m
      BY <3>1
    <3>. QED
      BY <3>1, <3>2, <1>8, <1>9 DEF x
  <2>. QED
    BY <2>1, <2>2
<1>11. sv.frames + 1 = t + r + (m + 1) /\ m + 1 <= e - r
    BY <1>6
<1>. QED
    BY <1>4, <1>9, <1>10, <1>11

\* A right request is answered.
LEMMA RequestAccepted ==
    ASSUME IInv, UNCHANGED <<options, conn, cl>>, up.burst # <<>>, up' = [up EXCEPT !.burst = Tail(@)],
           ~Ignores, NEW data, data = Head(up.burst),
           data.sequence = ExpectedSequence(sv.frames), data.payload = sopt.payload,
           down' = Writes(down, <<data>>), sv' \in Servers, sv'.frames = sv.frames + 1,
           sv'.finishing = (sv.frames + 1 = Expected), sv'.result = sv.result,
           sv'.paused => sv.paused \/ sv'.finishing \/ Full(down')
    PROVE  IInv'
<1>1. copt' = copt /\ sopt' = sopt /\ demo' = demo /\ conn' = conn /\ cl' = cl
    BY DEF options
<1>2. /\ up \in Directions /\ down \in Directions /\ cl \in Clients /\ sv \in Servers
      /\ copt \in Options /\ sopt \in Options /\ demo \in BOOLEAN
    BY DEF IInv, Types, TypeOK
<1>3. /\ up' \in Directions /\ up'.buf = up.buf /\ up'.needDrain = up.needDrain
      /\ Len(InFlight(up)) > 0 /\ data = InFlight(up)[1] /\ Len(InFlight(up')) = Len(InFlight(up)) - 1
      /\ \A j \in 1 .. Len(InFlight(up')) : InFlight(up')[j] = InFlight(up)[j + 1]
    BY <1>2, TakesFirst
<1>4. /\ InFlight(up) \in Seq(Messages) /\ InFlight(up') \in Seq(Messages) /\ InFlight(down) \in Seq(Messages)
      /\ Len(InFlight(up)) \in Nat /\ Len(InFlight(up')) \in Nat /\ Len(InFlight(down)) \in Nat
    BY <1>2, <1>3, InFlightTypes
<1>5. sv.frames \in Nat /\ sv.frames < Expected /\ Expected \in Nat /\ ~sv.finishing /\ sv.result = "running"
  <2>1. sv.frames \in 0 .. Expected /\ sv.frames # Expected /\ ~sv.finishing /\ sv.result = "running"
    BY DEF IInv, TypeOK, Places, Ignores
  <2>2. Expected \in Nat
    BY <1>2, SomethingExpected
  <2>. QED
    BY <2>1, <2>2
<1>6. data = Numbered(ClientSequence(sv.frames)) /\ data \in Messages
  <2>1. Follow(InFlight(up))
    BY DEF IInv, Accepted
  <2>2. 1 \in 1 .. Len(InFlight(up)) /\ sv.frames + 1 - 1 = sv.frames
    BY <1>3, <1>4, <1>5
  <2>3. data = Numbered(ClientSequence(sv.frames))
    BY <1>3, <2>1, <2>2 DEF Follow
  <2>. QED
    BY <2>2, <2>3, <1>3, <1>4
<1>7. /\ down' \in Directions /\ InFlight(down') = InFlight(down) \o <<data>>
      /\ down'.buf = down.buf \o <<data>>
      /\ down'.needDrain = (down.needDrain \/ (<<data>> # <<>> /\ Len(down'.buf) >= HighWater))
  <2>1. data \in Messages
    BY <1>6
  <2>2. <<data>> \in Seq(Messages)
    BY <2>1
  <2>3. PICK s \in Seq(Messages) : s = <<data>>
    BY <2>2, Zenon
  <2>4. LET e == Writes(down, s)
        IN  /\ e \in Directions /\ InFlight(e) = InFlight(down) \o s /\ e.buf = down.buf \o s
            /\ e.needDrain = (down.needDrain \/ (s # <<>> /\ Len(e.buf) >= HighWater))
    BY <1>2, WritesLast
  <2>. QED
    BY <2>3, <2>4, Zenon
<1>8. conn \notin {"connecting", "refused"}
    BY DEF IInv, Places, Idle
<1>9. Window' /\ NoFalseAlarm'
    BY <1>1 DEF IInv, Window, Tracks, WindowOf, PhaseCount, Slots, NoFalseAlarm
<1>10. Wire'
  <2>. SUFFICES ASSUME Tracks(cl) PROVE WireOf(cl, InFlight(down), InFlight(up))'
    BY <1>1 DEF Wire, Tracks
  <2>1. WireOf(cl, InFlight(down), InFlight(up)) /\ WindowOf(cl)
    BY DEF IInv, Wire, Window
  <2>2. InFlight(down') \in Seq(Messages)
    BY <1>7, InFlightTypes
  <2>3. /\ \A j \in 1 .. Len(InFlight(down')) : InFlight(down')[j] = Numbered(cl.received + j - 1)
        /\ sv.frames + 1 = Before(cl) + cl.received + Len(InFlight(down'))
        /\ Len(InFlight(down')) = Len(InFlight(down)) + 1
        /\ Len(InFlight(down')) <= cl.sent - cl.received
    <3>1. PICK a \in Seq(Messages), q \in Seq(Messages), b \in Seq(Messages) :
              a = InFlight(down) /\ q = InFlight(up) /\ b = InFlight(down')
      BY <1>4, <2>2
    <3>2. /\ b = a \o <<Numbered(ClientSequence(sv.frames))>> /\ WireOf(cl, a, q) /\ Len(q) > 0
          /\ Numbered(ClientSequence(sv.frames)) \in Messages
      BY <3>1, <1>3, <1>6, <1>7, <2>1
    <3>3. /\ \A j \in 1 .. Len(b) : b[j] = Numbered(cl.received + j - 1)
          /\ sv.frames + 1 = Before(cl) + cl.received + Len(b)
          /\ Len(b) = Len(a) + 1 /\ Len(b) <= cl.sent - cl.received
      BY <3>2, <1>2, <2>1, RequestAnswered
    <3>. QED
      BY <3>1, <3>3
  <2>4. Len(InFlight(down')) + Len(InFlight(up')) = cl.sent - cl.received
    <3>1. PICK m \in Nat, n \in Nat : m = Len(InFlight(down)) /\ n = Len(InFlight(up))
      BY <1>4
    <3>2. m + n = cl.sent - cl.received
      BY <3>1, <2>1 DEF WireOf
    <3>3. (m + 1) + (n - 1) = m + n
      OBVIOUS
    <3>. QED
      BY <3>1, <3>2, <3>3, <1>3, <2>3
  <2>5. (\A j \in 1 .. Len(InFlight(down)) : InFlight(down)[j] = Numbered(cl.received + j - 1))'
    BY <2>3, <1>1 DEF Numbered
  <2>6. (sv.frames = Before(cl) + cl.received + Len(InFlight(down)))'
    BY <2>3, <1>1 DEF Before
  <2>. QED
    BY <2>3, <2>4, <2>5, <2>6, <1>1 DEF WireOf
<1>11. Accepted'
  <2>1. \A k \in 0 .. sv.frames : ClientSequence(k) = ExpectedSequence(k)
    <3>1. \A k \in 0 .. sv.frames - 1 : ClientSequence(k) = ExpectedSequence(k)
      BY DEF IInv, Accepted
    <3>2. ClientSequence(sv.frames) = ExpectedSequence(sv.frames)
      BY <1>6 DEF Numbered
    <3>. QED
      BY <3>1, <3>2, <1>5
  <2>2. copt.payload = sopt.payload
    BY <1>6 DEF Numbered
  <2>3. \A j \in 1 .. Len(InFlight(up')) :
            InFlight(up')[j] = Numbered(ClientSequence((sv.frames + 1) + j - 1))
    <3>. TAKE j \in 1 .. Len(InFlight(up'))
    <3>1. j + 1 \in 1 .. Len(InFlight(up)) /\ sv.frames + (j + 1) - 1 = (sv.frames + 1) + j - 1
      <4>1. PICK n \in Nat, m \in Nat, f \in Nat :
                n = Len(InFlight(up)) /\ m = Len(InFlight(up')) /\ f = sv.frames
        BY <1>4, <1>5
      <4>2. m = n - 1 /\ j \in 1 .. m
        BY <4>1, <1>3
      <4>3. PICK i \in Nat : i = j
        BY <4>2
      <4>4. i + 1 \in 1 .. n
        BY <4>2, <4>3
      <4>5. f + (i + 1) - 1 = (f + 1) + i - 1
        OBVIOUS
      <4>. QED
        BY <4>1, <4>3, <4>4, <4>5
    <3>2. InFlight(up)[j + 1] = Numbered(ClientSequence(sv.frames + (j + 1) - 1))
      BY <3>1 DEF IInv, Accepted, Follow
    <3>. QED
      BY <3>1, <3>2, <1>3
  <2>4. (\A k \in 0 .. sv.frames - 1 : ClientSequence(k) = ExpectedSequence(k))'
    <3>1. sv'.frames - 1 = sv.frames
      BY <1>5
    <3>. QED
      BY <2>1, <3>1, <1>1 DEF ClientSequence, ExpectedSequence
  <2>5. (Follow(InFlight(up)))'
    BY <2>3, <1>1 DEF Follow, Numbered, ClientSequence
  <2>. QED
    BY <2>2, <2>4, <2>5, <1>1 DEF Accepted
<1>12. TypeOK' /\ Types'
  <2>1. sv'.frames \in 0 .. Expected
    BY <1>5
  <2>. QED
    BY <2>1, <1>1, <1>2, <1>3, <1>5, <1>7 DEF IInv, TypeOK, Types, Expected
<1>13. Places'
    BY <1>1, <1>5, <1>8 DEF IInv, Places, Expected, Phasing
<1>14. Demo'
  <2>1. ASSUME demo
        PROVE  sv'.frames + Len(InFlight(up')) <= 1 /\ InFlight(up') = <<>>
    <3>1. sv.frames + Len(InFlight(up)) <= 1
      BY <2>1 DEF IInv, Demo
    <3>2. Len(InFlight(up')) = 0 /\ sv.frames = 0
      BY <3>1, <1>3, <1>4, <1>5
    <3>3. InFlight(up') = <<>>
      BY <3>2, <1>4, EmptySeq
    <3>. QED
      BY <3>2, <3>3
  <2>. QED
    BY <2>1, <1>1 DEF IInv, Demo
<1>15. DrainWillCome'
  <2>1. down.buf \in Seq(Messages) /\ HighWater \in Nat \ {0} /\ down'.buf # <<>>
    <3>1. down.buf \in Seq(Messages) /\ <<data>> \in Seq(Messages)
      BY <1>2, <1>6 DEF Directions
    <3>2. Len(down'.buf) = Len(down.buf) + 1 /\ Len(down.buf) \in Nat
      BY <3>1, <1>7
    <3>3. down'.buf # <<>>
      BY <3>2
    <3>. QED
      BY <3>1, <3>3, RoundTripAssumption
  <2>2. ASSUME sv'.paused, ~sv'.finishing PROVE down'.needDrain
    <3>1. CASE sv.paused
      BY <3>1, <1>5, <1>7 DEF IInv, DrainWillCome
    <3>2. CASE Full(down')
      BY <3>2, <1>7 DEF Full
    <3>. QED
      BY <3>1, <3>2, <2>2
  <2>3. Phasing /\ cl.result = "running" /\ cl.waiting => up.buf # <<>> /\ up.needDrain
    BY DEF IInv, DrainWillCome
  <2>. QED
    BY <2>1, <2>2, <2>3, <1>1, <1>3 DEF DrainWillCome, Phasing
<1>. QED
    BY <1>9, <1>10, <1>11, <1>12, <1>13, <1>14, <1>15 DEF IInv

\* The handler of REQUEST_EVENT ignores, rejects or answers a request.
LEMMA RequestStep ==
    ASSUME IInv, Request
    PROVE  IInv'
<1>. DEFINE data == Head(up.burst)
            answered == Writes(down, <<data>>)
            last == sv.frames + 1 = Expected
<1>1. /\ ~demo /\ up.burst # <<>> /\ up' = [up EXCEPT !.burst = Tail(@)] /\ UNCHANGED <<options, cl>>
    BY DEF Request
<1>2. sv \in Servers
    BY DEF IInv, Types
<1>3. CASE Ignores
  <2>1. conn' = conn /\ sv' = sv /\ down' = down
    BY <1>3 DEF Request
  <2>2. Ignores' /\ (sv.result = "failed" => conn = "lost")
    BY <1>3, <2>1 DEF Ignores, IInv, Places
  <2>. QED
    BY <1>1, <1>2, <2>1, <2>2, RequestDropped
<1>4. CASE ~Ignores /\ ~Expects(data)
  <2>1. sv' = [sv EXCEPT !.result = "failed"] /\ conn' = "lost" /\ down' = down
    BY <1>4 DEF Request
  <2>2. /\ sv' \in Servers /\ sv'.frames = sv.frames /\ sv'.finishing = sv.finishing
        /\ sv'.paused = sv.paused /\ sv'.result = "failed"
    BY <1>2, <2>1 DEF Servers
  <2>3. Ignores'
    BY <2>2 DEF Ignores
  <2>. QED
    BY <1>1, <2>1, <2>2, <2>3, RequestDropped
<1>5. CASE ~Ignores /\ Expects(data)
  <2>1. /\ sv' = [sv EXCEPT !.frames = @ + 1, !.finishing = last, !.paused = @ \/ (~last /\ Full(answered))]
        /\ down' = answered /\ conn' = conn
    BY <1>5 DEF Request
  <2>2. data.sequence = ExpectedSequence(sv.frames) /\ data.payload = sopt.payload
    BY <1>5 DEF Expects, Valid
  <2>. DEFINE paused == sv.paused \/ (~last /\ Full(answered))
  <2>3. paused \in BOOLEAN /\ last \in BOOLEAN
    BY <1>2 DEF Servers
  <2>4. paused => sv.paused \/ last \/ Full(down')
    BY <2>1
  <2>5. sv' = [sv EXCEPT !.frames = sv.frames + 1, !.finishing = last, !.paused = paused]
    BY <1>2, <2>1 DEF Servers
  <2>. HIDE DEF paused, last
  <2>6. /\ sv' \in Servers /\ sv'.frames = sv.frames + 1 /\ sv'.finishing = last
        /\ sv'.paused = paused /\ sv'.result = sv.result
    <3>1. sv.frames + 1 \in Nat
      BY <1>2 DEF Servers
    <3>2. PICK f \in Nat : f = sv.frames + 1
      BY <3>1
    <3>3. sv' = [sv EXCEPT !.frames = f, !.finishing = last, !.paused = paused]
      BY <2>5, <3>2
    <3>4. /\ sv' \in Servers /\ sv'.frames = f /\ sv'.finishing = last
          /\ sv'.paused = paused /\ sv'.result = sv.result
      BY <1>2, <2>3, <3>3 DEF Servers
    <3>. QED
      BY <3>2, <3>4
  <2>7. sv'.finishing = (sv.frames + 1 = Expected) /\ (sv'.paused => sv.paused \/ sv'.finishing \/ Full(down'))
    BY <2>4, <2>6 DEF last
  <2>. QED
    BY <1>1, <1>5, <2>1, <2>2, <2>6, <2>7, RequestAccepted
<1>. QED
    BY <1>3, <1>4, <1>5

-----------------------------------------------------------------------------
(***************************************************************************)
(* The demo.                                                               *)
(***************************************************************************)

\* The demo has one message and one slot.
LEMMA DemoSizes ==
    ASSUME IInv, demo
    PROVE  /\ copt.warmup = 0 /\ copt.count = 1 /\ copt.inflight = 1
           /\ sopt.warmup = 0 /\ sopt.count = 1 /\ Expected = 1
           /\ cl.phase # "warmup" => PhaseCount(cl.phase) = 1 /\ Before(cl) = 0
           /\ Slots("measured") = 1 /\ PhaseCount("measured") = 1
<1>1. copt.warmup = 0 /\ copt.count = 1 /\ copt.inflight = 1 /\ sopt.warmup = 0 /\ sopt.count = 1
    BY DEF IInv, Demo, DemoOptions
<1>2. Slots("measured") = 1
  <2>1. Min({1, 1}) = 1
    BY TheSmaller
  <2>. QED
    BY <1>1, <2>1 DEF Slots, PhaseCount
<1>. QED
    BY <1>1, <1>2 DEF Expected, PhaseCount, Before

\* The handler of PING_EVENT has its one ping, which it answers or rejects.
LEMMA PingStep ==
    ASSUME IInv, Ping
    PROVE  IInv'
<1>. DEFINE data == Head(up.burst)
<1>1. /\ demo /\ up.burst # <<>> /\ up' = [up EXCEPT !.burst = Tail(@)] /\ UNCHANGED <<options, cl>>
    BY DEF Ping
<1>2. sv \in Servers /\ up \in Directions
    BY DEF IInv, Types
<1>3. Len(InFlight(up)) > 0 /\ data = InFlight(up)[1] /\ Len(InFlight(up)) \in Nat
    BY <1>1, <1>2, TakesFirst, InFlightTypes
<1>4. ~Ignores /\ sv.frames = 0
  <2>1. InFlight(up) # <<>>
    BY <1>3
  <2>2. sv.frames + Len(InFlight(up)) <= 1 /\ (Ignores => InFlight(up) = <<>>) /\ sv.frames \in Nat
    BY <1>1, <1>2 DEF IInv, Demo, Servers
  <2>. QED
    BY <2>1, <2>2, <1>3
<1>5. /\ copt.warmup = 0 /\ sopt.warmup = 0 /\ Expected = 1
    BY <1>1, DemoSizes
<1>6. data = Numbered(0)
  <2>1. Follow(InFlight(up)) /\ 1 \in 1 .. Len(InFlight(up))
    BY <1>3, <1>4 DEF IInv, Accepted
  <2>2. ClientSequence(0) = 0
    BY <1>5 DEF ClientSequence
  <2>3. sv.frames + 1 - 1 = 0
    BY <1>4
  <2>. QED
    BY <2>1, <2>2, <2>3, <1>3 DEF Follow
<1>7. CASE data.payload = sopt.payload
  <2>1. /\ sv' = [sv EXCEPT !.frames = @ + 1, !.finishing = TRUE] /\ conn' = conn
        /\ down' = Writes(down, <<[sequence |-> 0, payload |-> sopt.payload]>>)
    BY <1>7 DEF Ping
  <2>2. data = [sequence |-> 0, payload |-> sopt.payload]
    BY <1>6, <1>7 DEF Numbered
  <2>3. data.sequence = ExpectedSequence(sv.frames)
    BY <2>2, <1>4, <1>5 DEF ExpectedSequence
  <2>4. /\ sv' \in Servers /\ sv'.frames = sv.frames + 1 /\ sv'.finishing = TRUE
        /\ sv'.paused = sv.paused /\ sv'.result = sv.result
    <3>1. sv.frames + 1 \in Nat
      BY <1>2 DEF Servers
    <3>2. PICK f \in Nat : f = sv.frames + 1
      BY <3>1
    <3>3. sv' = [sv EXCEPT !.frames = f, !.finishing = TRUE]
      BY <1>2, <2>1, <3>2 DEF Servers
    <3>4. /\ sv' \in Servers /\ sv'.frames = f /\ sv'.finishing = TRUE
          /\ sv'.paused = sv.paused /\ sv'.result = sv.result
      BY <1>2, <3>3 DEF Servers
    <3>. QED
      BY <3>2, <3>4
  <2>5. sv'.finishing = (sv.frames + 1 = Expected)
    <3>1. sv.frames + 1 = Expected
      BY <1>4, <1>5
    <3>. QED
      BY <3>1, <2>4, Zenon
  <2>6. down' = Writes(down, <<data>>)
    BY <2>1, <2>2
  <2>. QED
    BY <1>1, <1>4, <1>7, <2>1, <2>3, <2>4, <2>5, <2>6, RequestAccepted
<1>8. CASE data.payload # sopt.payload
  <2>1. sv' = [sv EXCEPT !.result = "failed"] /\ conn' = "lost" /\ down' = down
    BY <1>8 DEF Ping
  <2>2. /\ sv' \in Servers /\ sv'.frames = sv.frames /\ sv'.finishing = sv.finishing
        /\ sv'.paused = sv.paused /\ sv'.result = "failed"
    BY <1>2, <2>1 DEF Servers
  <2>3. Ignores'
    BY <2>2 DEF Ignores
  <2>. QED
    BY <1>1, <1>4, <2>1, <2>2, <2>3, RequestDropped
<1>. QED
    BY <1>7, <1>8

\* The window of one request.
LEMMA OneSlot ==
    ASSUME Slots("measured") = 1, PhaseCount("measured") = 1,
           NEW c, c.phase = "measured", c.sent = 1, c.received \in {0, 1},
           c.slots = [s \in 0 .. 0 |-> IF c.received = 0 THEN 0 ELSE -1]
    PROVE  WindowOf(c) /\ c.slots \in [0 .. 0 -> Int]
<1>1. PICK v \in {0, -1} : v = (IF c.received = 0 THEN 0 ELSE -1) /\ (v = 0 <=> c.received = 0)
    OBVIOUS
<1>2. c.slots = [s \in 0 .. 0 |-> v]
    BY <1>1
<1>3. 0 .. 0 = {0}
    OBVIOUS
<1>4. c.slots \in [0 .. 0 -> Int] /\ c.slots[0] = v
    BY <1>2, <1>3
<1>5. \A k \in c.received .. c.sent - 1 : c.slots[k % 1] = k
  <2>. TAKE k \in c.received .. c.sent - 1
  <2>1. k = 0 /\ c.received = 0
    OBVIOUS
  <2>2. k % 1 = 0
    BY <2>1
  <2>. QED
    BY <2>1, <2>2, <1>1, <1>4
<1>6. ASSUME NEW s \in 0 .. 0, c.slots[s] # -1
      PROVE  c.slots[s] \in c.received .. c.sent - 1 /\ c.slots[s] % 1 = s
  <2>1. s = 0 /\ v = 0 /\ c.received = 0
    BY <1>1, <1>3, <1>4, <1>6
  <2>2. c.slots[s] = 0 /\ 0 \in 0 .. 1 - 1 /\ 0 % 1 = 0
    BY <2>1, <1>4
  <2>. QED
    BY <2>1, <2>2
<1>7. 0 .. Slots(c.phase) - 1 = 0 .. 0 /\ Slots(c.phase) = 1 /\ PhaseCount(c.phase) = 1
    OBVIOUS
<1>8. c.received <= c.sent /\ c.sent - c.received <= 1
    OBVIOUS
<1>9. \A k \in c.received .. c.sent - 1 : c.slots[k % Slots(c.phase)] = k
    BY <1>5, <1>7
<1>10. \A s \in 0 .. Slots(c.phase) - 1 :
           c.slots[s] # -1 => c.slots[s] \in c.received .. c.sent - 1 /\ c.slots[s] % Slots(c.phase) = s
    BY <1>6, <1>7
<1>11. c.slots \in [0 .. Slots(c.phase) - 1 -> Int]
    BY <1>4, <1>7
<1>12. /\ c.received <= c.sent /\ c.sent <= PhaseCount(c.phase) /\ PhaseCount(c.phase) > 0
       /\ c.sent - c.received <= Slots(c.phase)
    BY <1>7, <1>8
<1>. QED
    BY <1>4, <1>9, <1>10, <1>11, <1>12 DEF WindowOf

\* The ping is on the wire when the client waits for its pong.
LEMMA DemoConnectStep ==
    ASSUME IInv, DemoConnect
    PROVE  IInv'
<1>. DEFINE ping == [sequence |-> 0, payload |-> copt.payload]
<1>1. /\ demo /\ conn = "connecting" /\ conn' = "open" /\ up' = Writes(up, <<ping>>)
      /\ cl' = [cl EXCEPT !.phase = "measured", !.sent = 1, !.slots = [s \in 0 .. 0 |-> 0]]
      /\ UNCHANGED <<options, sv, down>>
    BY DEF DemoConnect
<1>2. copt' = copt /\ sopt' = sopt /\ demo' = demo /\ sv' = sv /\ down' = down
    BY <1>1 DEF options
<1>3. /\ up = Idle /\ down = Idle /\ sv.frames = 0 /\ sv.result = "running"
      /\ ~sv.paused /\ ~cl.waiting /\ cl.sent = 0 /\ cl.received = 0 /\ cl.result = "running"
    BY <1>1 DEF IInv, Places
<1>4. /\ up \in Directions /\ cl \in Clients /\ sv \in Servers /\ copt \in Options /\ sopt \in Options
    BY DEF IInv, Types, TypeOK
<1>5. /\ copt.warmup = 0 /\ copt.count = 1 /\ Expected = 1
      /\ Slots("measured") = 1 /\ PhaseCount("measured") = 1
    BY <1>1, DemoSizes
<1>6. ping \in Messages /\ ping = Numbered(0)
    BY <1>4, OptionTypes DEF Messages, Numbered
<1>. HIDE DEF ping
<1>7. up' \in Directions /\ InFlight(up') = InFlight(up) \o <<ping>>
  <2>1. <<ping>> \in Seq(Messages)
    BY <1>6
  <2>2. PICK s \in Seq(Messages) : s = <<ping>>
    BY <2>1, Zenon
  <2>3. Writes(up, s) \in Directions /\ InFlight(Writes(up, s)) = InFlight(up) \o s
    BY <1>4, WritesLast
  <2>. QED
    BY <1>1, <2>2, <2>3, Zenon
<1>8. InFlight(up) = <<>> /\ InFlight(down) = <<>>
    BY <1>3 DEF InFlight, Idle
<1>9. InFlight(up') = <<ping>>
  <2>1. <<>> \o <<ping>> = <<ping>>
    OBVIOUS
  <2>. QED
    BY <2>1, <1>7, <1>8, Zenon
<1>10. /\ Len(InFlight(up')) = 1 /\ InFlight(up')[1] = ping /\ Len(InFlight(down')) = 0
    BY <1>2, <1>8, <1>9
<1>11. /\ cl'.phase = "measured" /\ cl'.sent = 1 /\ cl'.received = 0 /\ cl'.slots = [s \in 0 .. 0 |-> 0]
       /\ cl'.waiting = FALSE /\ cl'.result = "running" /\ cl'.error = cl.error
    BY <1>1, <1>3, <1>4 DEF Clients
<1>12. WindowOf(cl') /\ cl'.slots \in [0 .. 0 -> Int]
  <2>1. cl'.slots = [s \in 0 .. 0 |-> IF cl'.received = 0 THEN 0 ELSE -1]
    BY <1>11
  <2>. QED
    BY <2>1, <1>5, <1>11, OneSlot
<1>13. cl' \in Clients
  <2>1. cl'.slots \in Windows
    <3>1. 1 \in 0 .. MaxSafe /\ 1 - 1 = 0
      BY RoundTripAssumption
    <3>2. cl'.slots \in [0 .. 1 - 1 -> Int]
      BY <3>1, <1>12
    <3>. QED
      BY <3>1, <3>2 DEF Windows, Sized
  <2>2. PICK w \in Windows : w = [s \in 0 .. 0 |-> 0]
    BY <2>1, <1>11
  <2>3. cl' = [cl EXCEPT !.phase = "measured", !.sent = 1, !.slots = w]
    BY <1>1, <2>2
  <2>. QED
    BY <2>3, <1>4 DEF Clients
<1>14. Window'
  <2>1. WindowOf(cl)'
    BY <1>2, <1>12, StillWindow
  <2>2. cl'.received < PhaseCount(cl.phase)'
    BY <1>2, <1>5, <1>11 DEF PhaseCount
  <2>. QED
    BY <2>1, <2>2, <1>11 DEF Window
<1>15. Wire'
  <2>1. Before(cl') = 0
    BY <1>5, <1>11 DEF Before
  <2>2. WireOf(cl', InFlight(down'), InFlight(up'))
    BY <2>1, <1>3, <1>10, <1>11 DEF WireOf
  <2>3. WireOf(cl, InFlight(down), InFlight(up))'
    BY <2>2, <1>2, StillWire DEF Ignores
  <2>. QED
    BY <2>3 DEF Wire
<1>16. Accepted'
  <2>1. Follow(InFlight(up'))
    <3>1. ClientSequence(0) = 0
      BY <1>5 DEF ClientSequence
    <3>2. ASSUME NEW j \in 1 .. 1 PROVE InFlight(up')[j] = Numbered(ClientSequence(sv.frames + j - 1))
      <4>1. j = 1 /\ sv.frames + j - 1 = 0
        BY <1>3
      <4>. QED
        BY <4>1, <3>1, <1>6, <1>10
    <3>. QED
      BY <3>2, <1>10 DEF Follow
  <2>2. Accepted
    BY DEF IInv
  <2>. QED
    BY <2>1, <2>2, <1>2, StillAccepted DEF Ignores
<1>17. NoFalseAlarm' /\ DrainWillCome'
    BY <1>2, <1>3, <1>11 DEF IInv, NoFalseAlarm, DrainWillCome
<1>18. TypeOK' /\ Types'
    BY <1>1, <1>2, <1>7, <1>11, <1>13 DEF IInv, TypeOK, Types, Expected
<1>19. Places'
    BY <1>1, <1>2, <1>3, <1>11 DEF IInv, Places, Expected, Phasing
<1>20. Demo'
  <2>1. ~Ignores
    BY <1>3, <1>5 DEF IInv, Places, Ignores
  <2>. QED
    BY <2>1, <1>2, <1>3, <1>10, <1>11 DEF IInv, Demo, Ignores
<1>. QED
    BY <1>14, <1>15, <1>16, <1>17, <1>18, <1>19, <1>20 DEF IInv

\* onPong takes the answer to the ping.
LEMMA PongStep ==
    ASSUME IInv, Pong
    PROVE  IInv'
<1>1. /\ demo /\ down.burst # <<>> /\ down' = [down EXCEPT !.burst = Tail(@)]
      /\ UNCHANGED <<options, conn, sv, up>>
    BY DEF Pong
<1>2. CASE cl.result # "running"
    BY <1>1, <1>2, NobodyWaits DEF Pong
<1>3. CASE cl.result = "running"
  <2>. DEFINE next == [cl EXCEPT !.received = @ + 1]
  <2>1. /\ cl \in Clients /\ copt \in Options /\ sv \in Servers /\ up \in Directions /\ Accepted
    BY DEF IInv, Types, TypeOK
  <2>2. next.phase = cl.phase /\ next.sent = cl.sent /\ next.received = cl.received + 1
    BY <2>1 DEF Clients
  <2>. HIDE DEF next
  <2>3. /\ Phasing /\ Tracks(cl) /\ conn \notin {"connecting", "refused"} /\ cl.received < cl.sent
        /\ down' \in Directions /\ down'.buf = down.buf /\ down'.needDrain = down.needDrain
        /\ Head(down.burst) = Numbered(cl.received) /\ WireOf(next, InFlight(down'), InFlight(up))
    BY <1>1, <1>3, <2>2, AnswerArrives
  <2>4. Head(down.burst).payload = copt.payload
    BY <2>3 DEF Numbered
  <2>5. cl' = [cl EXCEPT !.received = 1, !.slots = [s \in 0 .. 0 |-> -1], !.result = "resolved"]
    BY <1>3, <2>4 DEF Pong
  <2>6. /\ copt' = copt /\ sopt' = sopt /\ demo' = demo /\ conn' = conn /\ sv' = sv /\ up' = up
    BY <1>1 DEF options
  <2>7. cl.phase = "measured" /\ Slots("measured") = 1 /\ PhaseCount("measured") = 1
    BY <1>1, <2>3, DemoSizes DEF IInv, Demo, Phasing
  <2>8. cl.sent = 1 /\ cl.received = 0
    <3>1. cl.sent <= 1 /\ cl.sent \in Nat /\ cl.received \in Nat
      BY <2>1, <2>3, <2>7 DEF IInv, Window, WindowOf, Clients
    <3>. QED
      BY <3>1, <2>3
  <2>9. /\ cl'.phase = "measured" /\ cl'.sent = 1 /\ cl'.received = 1 /\ cl'.slots = [s \in 0 .. 0 |-> -1]
        /\ cl'.waiting = cl.waiting /\ cl'.result = "resolved" /\ cl'.error = cl.error
    BY <2>1, <2>5, <2>7, <2>8 DEF Clients
  <2>10. WindowOf(cl') /\ cl'.slots \in [0 .. 0 -> Int]
    <3>1. cl'.slots = [s \in 0 .. 0 |-> IF cl'.received = 0 THEN 0 ELSE -1]
      BY <2>9
    <3>. QED
      BY <3>1, <2>7, <2>9, OneSlot
  <2>11. cl' \in Clients
    <3>1. cl'.slots \in Windows
      <4>1. 1 \in 0 .. MaxSafe /\ 1 - 1 = 0
        BY RoundTripAssumption
      <4>2. cl'.slots \in [0 .. 1 - 1 -> Int]
        BY <4>1, <2>10
      <4>. QED
        BY <4>1, <4>2 DEF Windows, Sized
    <3>2. PICK w \in Windows : w = [s \in 0 .. 0 |-> -1]
      BY <3>1, <2>9
    <3>3. cl' = [cl EXCEPT !.received = 1, !.slots = w, !.result = "resolved"]
      BY <2>5, <3>2
    <3>. QED
      BY <3>3, <2>1 DEF Clients
  <2>12. Window'
    <3>1. WindowOf(cl)'
      BY <2>6, <2>10, StillWindow
    <3>2. cl'.received = PhaseCount(cl.phase)'
      BY <2>6, <2>7, <2>9 DEF PhaseCount
    <3>. QED
      BY <3>1, <3>2, <2>9 DEF Window
  <2>13. Wire'
    <3>1. Before(cl') = Before(next) /\ cl'.received = next.received /\ cl'.sent = next.sent
      BY <2>2, <2>7, <2>8, <2>9 DEF Before
    <3>2. WireOf(cl', InFlight(down'), InFlight(up'))
      BY <3>1, <2>3, <2>6 DEF WireOf
    <3>3. WireOf(cl, InFlight(down), InFlight(up))'
      BY <3>2, <2>6, StillWire DEF Ignores
    <3>. QED
      BY <3>3 DEF Wire
  <2>14. Accepted'
    BY <2>1, <2>6, StillAccepted DEF Accepted, Ignores
  <2>15. NoFalseAlarm' /\ DrainWillCome'
    BY <2>3, <2>6, <2>9 DEF IInv, NoFalseAlarm, DrainWillCome
  <2>16. TypeOK' /\ Types'
    BY <2>3, <2>6, <2>9, <2>11 DEF IInv, TypeOK, Types, Expected
  <2>17. Places'
    BY <2>3, <2>6, <2>7, <2>9 DEF IInv, Places, Expected, Phasing
  <2>18. Demo'
    BY <2>6, <2>9 DEF IInv, Demo, Ignores
  <2>. QED
    BY <2>12, <2>13, <2>14, <2>15, <2>16, <2>17, <2>18 DEF IInv
<1>. QED
    BY <1>2, <1>3

-----------------------------------------------------------------------------
(***************************************************************************)
(* The theorem.                                                            *)
(***************************************************************************)

\* Nothing is on the wire before the connection.
LEMMA InitiallyNothing ==
    ASSUME Init
    PROVE  IInv
<1>1. /\ copt \in Options /\ sopt \in Options /\ demo \in BOOLEAN
      /\ (demo => {copt, sopt} \subseteq DemoOptions) /\ conn = "connecting"
      /\ cl = [phase |-> "connecting", sent |-> 0, received |-> 0, slots |-> <<>>,
               waiting |-> FALSE, result |-> "running", error |-> "none"]
      /\ sv = [frames |-> 0, finishing |-> FALSE, paused |-> FALSE, result |-> "running"]
      /\ up = Idle /\ down = Idle
    BY DEF Init
<1>2. Expected \in Nat \ {0}
    BY <1>1, SomethingExpected
<1>3. InFlight(up) = <<>> /\ Len(<<>>) = 0
    BY <1>1 DEF InFlight, Idle
<1>4. TypeOK
    BY <1>1, <1>2 DEF TypeOK
<1>5. cl \in Clients
  <2>1. <<>> \in Windows
    BY DEF Windows
  <2>2. PICK w \in Windows : w = <<>>
    BY <2>1, Zenon
  <2>3. cl = [phase |-> "connecting", sent |-> 0, received |-> 0, slots |-> w,
              waiting |-> FALSE, result |-> "running", error |-> "none"]
    BY <1>1, <2>2, Zenon
  <2>. QED
    BY <2>3 DEF Clients
<1>6. Idle \in Directions
    BY DEF Idle, Directions
<1>7. sv \in Servers
    BY <1>1 DEF Servers
<1>8. Types
    BY <1>1, <1>5, <1>6, <1>7 DEF Types
<1>9. Places
    BY <1>1, <1>2 DEF Places
<1>10. Demo
    BY <1>1, <1>3 DEF Demo
<1>11. Window /\ Wire
    BY <1>1 DEF Window, Wire, Tracks
<1>12. Accepted
  <2>1. 0 .. sv.frames - 1 = {} /\ ~(sv.frames > 0)
    BY <1>1
  <2>2. Follow(InFlight(up))
    BY <1>3 DEF Follow
  <2>. QED
    BY <2>1, <2>2 DEF Accepted
<1>13. NoFalseAlarm /\ DrainWillCome
    BY <1>1 DEF NoFalseAlarm, DrainWillCome
<1>. QED
    BY <1>4, <1>8, <1>9, <1>10, <1>11, <1>12, <1>13 DEF IInv

\* A step that changes nothing keeps the invariant.
LEMMA Stutters ==
    ASSUME IInv, UNCHANGED vars
    PROVE  IInv'
<1>1. /\ copt' = copt /\ sopt' = sopt /\ demo' = demo /\ cl' = cl /\ sv' = sv /\ up' = up /\ down' = down
      /\ conn' = conn
    BY DEF vars
<1>2. Window' /\ Wire' /\ Accepted' /\ NoFalseAlarm'
    BY <1>1, SameWire DEF options, Ignores
<1>3. TypeOK' /\ Types'
    BY <1>1 DEF IInv, TypeOK, Types, Expected
<1>4. Places'
    BY <1>1 DEF IInv, Places, Expected, Phasing
<1>5. Demo' /\ DrainWillCome'
    BY <1>1 DEF IInv, Demo, DrainWillCome, Ignores, Phasing
<1>. QED
    BY <1>2, <1>3, <1>4, <1>5 DEF IInv

\* Every step keeps the invariant.
LEMMA NextKeeps ==
    ASSUME IInv, [Next]_vars
    PROVE  IInv'
<1>1. CASE Connect
    BY <1>1, ConnectStep
<1>2. CASE ConnectFails
    BY <1>2, ConnectFailsStep
<1>3. CASE ClientReads
    BY <1>3, ClientReadsStep
<1>4. CASE OnResponse
    BY <1>4, OnResponseStep
<1>5. CASE FlushRequest
    BY <1>5, FlushRequestStep
<1>6. CASE ClientClosed
    BY <1>6, ClientClosedStep
<1>7. CASE ContinueClient
    BY <1>7, ContinueClientStep
<1>8. CASE ServerReads
    BY <1>8, ServerReadsStep
<1>9. CASE Request
    BY <1>9, RequestStep
<1>10. CASE FlushResponse
    BY <1>10, FlushResponseStep
<1>11. CASE EndCallback \/ DemoEnds
    BY <1>11, EndCallbackStep
<1>12. CASE ServerClosed \/ ServerError
    BY <1>12, ServerClosedStep
<1>13. CASE DemoConnect
    BY <1>13, DemoConnectStep
<1>14. CASE Pong
    BY <1>14, PongStep
<1>15. CASE Ping
    BY <1>15, PingStep
<1>16. CASE Lose
    BY <1>16, LoseStep
<1>17. CASE UNCHANGED vars
    BY <1>17, Stutters
<1>. QED
    BY <1>1, <1>2, <1>3, <1>4, <1>5, <1>6, <1>7, <1>8, <1>9, <1>10, <1>11, <1>12, <1>13, <1>14,
       <1>15, <1>16, <1>17 DEF Next, Steps

\* The messages of both directions, the answers in front.
LEMMA Path ==
    ASSUME NEW d \in Directions, NEW u \in Directions
    PROVE  d.burst \o d.net \o d.buf \o u.burst \o u.net \o u.buf = InFlight(d) \o InFlight(u)
<1>1. PICK s \in Seq(Messages) : s = InFlight(d)
    BY InFlightTypes
<1>2. PICK x \in Seq(Messages), y \in Seq(Messages), z \in Seq(Messages) :
          x = u.burst /\ y = u.net /\ z = u.buf
    BY InFlightTypes
<1>3. x \o y \in Seq(Messages)
    BY Joined
<1>4. (s \o x) \o y = s \o (x \o y)
    BY Associative
<1>5. (s \o (x \o y)) \o z = s \o ((x \o y) \o z)
    BY <1>3, Associative
<1>6. d.burst \o d.net \o d.buf = s
    BY <1>1 DEF InFlight
<1>7. InFlight(u) = (x \o y) \o z
    BY <1>2 DEF InFlight
<1>. QED
    BY <1>1, <1>2, <1>4, <1>5, <1>6, <1>7, Zenon

\* The invariant says that the window is what is on the wire.
LEMMA WindowOnTheWire ==
    ASSUME IInv
    PROVE  WindowIsOnTheWire
<1>. SUFFICES ASSUME conn = "open", cl.result = "running", ~sv.finishing
     PROVE  down.burst \o down.net \o down.buf \o up.burst \o up.net \o up.buf =
                [j \in 1 .. cl.sent - cl.received |->
                    [sequence |-> cl.received + j - 1, payload |-> copt.payload]]
    BY DEF WindowIsOnTheWire
<1>1. /\ cl \in Clients /\ sv \in Servers /\ up \in Directions /\ down \in Directions /\ copt \in Options
    BY DEF IInv, Types, TypeOK
<1>2. Tracks(cl) /\ ~Ignores
    BY <1>1 DEF IInv, Places, Phasing, Tracks, Ignores, Servers
<1>3. PICK a \in Seq(Messages), q \in Seq(Messages) : a = InFlight(down) /\ q = InFlight(up)
    BY <1>1, InFlightTypes
<1>4. PICK m \in Nat, n \in Nat : m = Len(a) /\ n = Len(q)
    OBVIOUS
<1>5. cl.sent \in Nat /\ cl.received \in Nat /\ sv.frames \in Nat /\ cl.sent <= PhaseCount(cl.phase)
    BY <1>1, <1>2 DEF Clients, Servers, IInv, Window, WindowOf
<1>6. PICK e \in Nat, r \in Nat, t \in Nat : e = cl.sent /\ r = cl.received /\ t = Before(cl)
    BY <1>1, <1>5, OptionTypes DEF Before
<1>7. WireOf(cl, a, q) /\ Follow(q)
    BY <1>2, <1>3 DEF IInv, Wire, Accepted
<1>8. \A j \in 1 .. m : a[j] = Numbered(r + j - 1)
    BY <1>4, <1>6, <1>7 DEF WireOf
<1>9. sv.frames = t + r + m /\ m + n = e - r
    BY <1>2, <1>4, <1>6, <1>7 DEF WireOf
<1>10. ASSUME NEW i \in 1 .. n PROVE q[i] = Numbered(r + (m + i) - 1)
  <2>1. sv.frames + i - 1 = t + (r + (m + i) - 1)
    BY <1>5, <1>9
  <2>2. r + (m + i) - 1 \in Nat /\ r + (m + i) - 1 < e
    BY <1>9
  <2>3. r + (m + i) - 1 < PhaseCount(cl.phase)
    <3>1. PhaseCount(cl.phase) \in Nat
      BY <1>1, OptionTypes DEF PhaseCount
    <3>. QED
      BY <2>2, <3>1, <1>5, <1>6
  <2>4. ClientSequence(t + (r + (m + i) - 1)) = r + (m + i) - 1
    BY <2>2, <2>3, <1>1, <1>6, PlaceOfRequest
  <2>5. q[i] = Numbered(ClientSequence(sv.frames + i - 1))
    BY <1>4, <1>7 DEF Follow
  <2>. QED
    BY <2>1, <2>4, <2>5
<1>. DEFINE path == a \o q
<1>11. /\ path \in Seq(Messages) /\ Len(path) = m + n
       /\ \A j \in 1 .. m : path[j] = a[j]
       /\ \A i \in 1 .. n : path[m + i] = q[i]
    BY <1>4, Joined
<1>. HIDE DEF path
<1>12. ASSUME NEW j \in 1 .. m + n PROVE path[j] = Numbered(r + j - 1)
  <2>1. CASE j \in 1 .. m
    BY <2>1, <1>8, <1>11
  <2>2. CASE j \notin 1 .. m
    <3>1. j - m \in 1 .. n /\ j = m + (j - m)
      BY <2>2
    <3>2. PICK i \in 1 .. n : j = m + i
      BY <3>1
    <3>. QED
      BY <3>2, <1>10, <1>11
  <2>. QED
    BY <2>1, <2>2
<1>13. path = [j \in 1 .. m + n |-> Numbered(r + j - 1)]
  <2>1. path = [j \in 1 .. Len(path) |-> path[j]]
    BY <1>11
  <2>. QED
    BY <2>1, <1>11, <1>12
<1>14. down.burst \o down.net \o down.buf \o up.burst \o up.net \o up.buf = path
    BY <1>1, <1>3, Path DEF path
<1>. QED
    BY <1>6, <1>9, <1>13, <1>14 DEF Numbered

\* A server that accepted every request of a finished client has its options.
LEMMA MismatchNoticed ==
    ASSUME IInv
    PROVE  MismatchIsNoticed
<1>. SUFFICES ASSUME cl.phase = "done", sv.result = "complete" PROVE Agree
    BY DEF MismatchIsNoticed
<1>1. cl.result = "resolved" /\ Tracks(cl) /\ sv.frames = Expected
    BY DEF IInv, Places, Tracks
<1>2. sv.frames = Before(cl) + PhaseCount(cl.phase)
    BY <1>1, NothingLeft
<1>3. Before(cl) = copt.warmup /\ PhaseCount(cl.phase) = copt.count
    BY DEF Before, PhaseCount
<1>4. copt \in Options /\ sopt \in Options
    BY DEF IInv, TypeOK
<1>5. PICK v \in Nat, n \in Nat \ {0} : v = copt.warmup /\ n = copt.count
    BY <1>4, OptionTypes
<1>6. PICK w \in Nat, m \in Nat \ {0} : w = sopt.warmup /\ m = sopt.count
    BY <1>4, OptionTypes
<1>7. sv.frames = v + n /\ v + n = w + m
    BY <1>1, <1>2, <1>3, <1>5, <1>6 DEF Expected
<1>8. \A k \in 0 .. v + n - 1 :
          (IF k < v THEN k ELSE k - v) = (IF k < w THEN k ELSE k - w)
    BY <1>5, <1>6, <1>7 DEF IInv, Accepted, ClientSequence, ExpectedSequence
<1>9. v = w
  <2>1. v \in 0 .. v + n - 1 /\ w \in 0 .. v + n - 1
    BY <1>7
  <2>2. (IF v < w THEN v ELSE v - w) = 0 /\ (IF w < v THEN w ELSE w - v) = 0
    BY <2>1, <1>8
  <2>. QED
    BY <2>2
<1>10. n = m
    BY <1>7, <1>9
<1>11. copt.payload = sopt.payload
    BY <1>7 DEF IInv, Accepted
<1>. QED
    BY <1>5, <1>6, <1>9, <1>10, <1>11 DEF Agree

\* Whatever the options, the high water mark and the capacity of the network:
\* the window of runPhase is what is on the wire, in order; neither peer ever
\* rejects a right message, so "latency slot was reused before its response"
\* and "unexpected or duplicate response" never happen; two peers with
\* different options never both succeed; and fillWindow and the server's
\* pause() never wait for a 'drain' that has passed.
THEOREM ChecksStayExact == Spec => []ChecksAreExact
<1>1. Init => IInv
    BY InitiallyNothing
<1>2. IInv /\ [Next]_vars => IInv'
    BY NextKeeps
<1>3. IInv => ChecksAreExact
    BY WindowOnTheWire, MismatchNoticed DEF IInv, ChecksAreExact
<1>. QED
    BY <1>1, <1>2, <1>3, PTL DEF Spec
=============================================================================

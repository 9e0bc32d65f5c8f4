------------------------------ MODULE Framing ------------------------------
(***************************************************************************)
(* How the three implementations cut a byte stream into messages: read()   *)
(* and push() of the parsers in entities/EventParser.js, FrameBuffer and   *)
(* read() in csharp Protocol.cs, and push_with() of Rust's codec.rs.  The  *)
(* stream arrives in chunks of any size, each reader loops over what it    *)
(* has, one step per iteration, and keeps the unfinished tail.             *)
(*                                                                         *)
(* An empty frame and one with a symbol of Invalid are not a message in    *)
(* JSON.  A symbol of CsInvalid or RsInvalid makes a frame one that        *)
(* JSON.parse and decode() take and one of the other languages does not:   *)
(* JSON nested deeper than JsonDocument reads it; to Rust, a message       *)
(* without data, or with half of a surrogate pair.  A symbol of Forbidden  *)
(* stands for an event type validateType() refuses, one of Unlisted for a  *)
(* type that is not in allowedEvents.  A reader that has failed gives up   *)
(* its connection and reads no more.                                       *)
(***************************************************************************)
EXTENDS Integers, Sequences, SequencesExt, FiniteSetsExt

CONSTANTS
    Alphabet,        \* symbols of the stream
    Invalid,         \* symbols that make a frame undecodable to everybody,
    CsInvalid,       \* to C#,
    RsInvalid,       \* to Rust,
    Forbidden,       \* forbidden to the guarded profile,
    Unlisted,        \* and to the assured profile
    Delimiter,       \* config.delimiter
    MaxMessageSize,  \* config.maxMessageSize
    MaxStream,       \* bound: length of the stream
    MaxMarked,       \* bound: symbols of these five kinds in it
    MaxChunk         \* bound: length of a chunk

ASSUME FramingAssumption ==
    /\ Delimiter \in Seq(Alphabet) /\ Delimiter # <<>>
    /\ Invalid \cup CsInvalid \cup RsInvalid \cup Forbidden \cup Unlisted \subseteq Alphabet
    /\ MaxMessageSize \in Nat \ {0} /\ MaxChunk \in Nat

VARIABLES
    stream,  \* history: everything that has arrived
    reader   \* the readers, all of the same stream

vars == <<stream, reader>>

\* The classes Parser, GuardedParser and AssuredParser.
Profiles == {"fast", "guarded", "assured"}

Limited == {"guarded", "assured"}

\* A reader is some code with a profile: read(), or push() and decode(), of the
\* JavaScript parsers; read() of C#; push_with() of Rust.
Readers == ({"read", "push"} \X Profiles) \cup ({"csharp", "rust"} \X Limited)

Fresh ==
    [pc |-> "idle",    \* the loop it is in
     out |-> <<>>,     \* frames delivered
     frames |-> <<>>,  \* frames cut, but not yet decoded
     rest |-> <<>>,    \* what is not cut yet; between chunks, the tail it keeps
     chunk |-> <<>>,   \* Rust: the new chunk, while the tail is kept apart
     at |-> <<1>>]     \* history: where in the stream each frame begins, and the rest

Init == stream = <<>> /\ reader = [r \in Readers |-> Fresh]

-----------------------------------------------------------------------------
D == Len(Delimiter)

\* combined.indexOf(delimiter, from), counted from 1; 0 when it is not found.
IndexOf(s, from) ==
    LET hits == {i \in from .. Len(s) - D + 1 : SubSeq(s, i, i + D - 1) = Delimiter}
    IN  IF hits = {} THEN 0 ELSE Min(hits)

\* assertFrameSize() / check_frame_size(); the fast profile has no limit.
Fits(p, frame) == p = "fast" \/ Len(frame) <= MaxMessageSize

\* validateType()
Refused(p) ==
    IF p = "fast" THEN {} ELSE IF p = "guarded" THEN Forbidden ELSE Forbidden \cup Unlisted

\* What JSON.parse(), JsonDocument.Parse() or Event::from_json() does not take.
Unreadable(code) ==
    Invalid \cup (IF code = "csharp" THEN CsInvalid ELSE IF code = "rust" THEN RsInvalid ELSE {})

Parses(code, frame) == frame # <<>> /\ Range(frame) \cap Unreadable(code) = {}

\* decode() of a reader: its code and its profile.
Decodes(r, frame) ==
    Fits(r[2], frame) /\ Parses(r[1], frame) /\ Range(frame) \cap Refused(r[2]) = {}

\* encode(): the type is validated, then the size; JSON.stringify always gives
\* valid JSON, and leaves out data that is a function.
Encodes(p, frame) == Parses("read", frame) /\ Range(frame) \cap Refused(p) = {} /\ Fits(p, frame)

-----------------------------------------------------------------------------
\* The exception of a reader ends its connection.
Fail(d) == [d EXCEPT !.pc = "failed", !.frames = <<>>, !.rest = <<>>, !.chunk = <<>>]

\* Faulty variant: off by one.
KeepStrictly(p, d) ==
    IF p = "fast" \/ Len(d.rest) < MaxMessageSize THEN [d EXCEPT !.pc = "idle"] ELSE Fail(d)

\* What is left after the last frame is kept if it fits.
Keep(p, d) == IF Fits(p, d.rest) THEN [d EXCEPT !.pc = "idle"] ELSE Fail(d)

\* A frame and the delimiter after it are taken off, rest is left.
Cut(d, frame, rest) == [d EXCEPT !.rest = rest, !.at = Append(@, Last(@) + Len(frame) + D)]

Deliver(d, frame) == [d EXCEPT !.out = Append(@, frame)]

\* read(buffer, data, receive)
JsRead(d, data) == [d EXCEPT !.pc = "read", !.rest = @ \o data]

\* An iteration of its loop, or what comes after it.
ReadFrame(r, d) ==
    LET end == IndexOf(d.rest, 1)
        frame == SubSeq(d.rest, 1, end - 1)
    IN  IF end = 0
        THEN Keep(r[2], d)
        ELSE IF Decodes(r, frame)
             THEN Deliver(Cut(d, frame, SubSeq(d.rest, end + D, Len(d.rest))), frame)
             ELSE Fail(d)

\* Faulty variant: the tail is lost.
PushReadDropsTail(d, data) == [d EXCEPT !.pc = "split", !.rest = data]

\* read() in terms of push() and decode(), as TracingParser has it.
PushRead(d, data) == [d EXCEPT !.pc = "split", !.rest = @ \o data]

\* An iteration of the loop of push().  After it push() of the guarded profile
\* checks all sizes.
Split(p, d) ==
    LET end == IndexOf(d.rest, 1)
        frame == SubSeq(d.rest, 1, end - 1)
    IN  IF end # 0
        THEN [Cut(d, frame, SubSeq(d.rest, end + D, Len(d.rest))) EXCEPT !.frames = Append(@, frame)]
        ELSE IF Fits(p, d.rest) /\ \A i \in DOMAIN d.frames : Fits(p, d.frames[i])
             THEN [d EXCEPT !.pc = "decode"]
             ELSE Fail(d)

\* The frames of a buffer are decoded one after another, up to the first failure.
DecodeNext(r, d) ==
    IF d.frames = <<>>
    THEN Keep(r[2], d)
    ELSE IF Decodes(r, Head(d.frames))
         THEN Deliver([d EXCEPT !.frames = Tail(@)], Head(d.frames))
         ELSE Fail(d)

-----------------------------------------------------------------------------
\* GuardedParser.read of Protocol.cs: append and extract, then check and deliver.
CsRead(d, data) == [d EXCEPT !.pc = "extract", !.rest = @ \o data]

\* An iteration of the loop of FrameBuffer.extract.
Extract(d) ==
    LET end == IndexOf(d.rest, 1)
        frame == SubSeq(d.rest, 1, end - 1)
    IN  IF Len(d.rest) < D \/ end = 0
        THEN [d EXCEPT !.pc = "decode"]
        ELSE [Cut(d, frame, SubSeq(d.rest, end + D, Len(d.rest))) EXCEPT !.frames = Append(@, frame)]

-----------------------------------------------------------------------------
\* decode_direct: the loop of read() over what is left of the chunk.
DecodeDirect(r, d) == ReadFrame(r, d)

\* crossing_delimiter_prefix: how many symbols of a delimiter that begins in
\* pending and ends in chunk.
Crossings(pending, chunk) ==
    {k \in 1 .. Min({Len(pending), D - 1}) :
        /\ Len(chunk) >= D - k
        /\ SubSeq(pending, Len(pending) - k + 1, Len(pending)) = SubSeq(Delimiter, 1, k)
        /\ SubSeq(chunk, 1, D - k) = SubSeq(Delimiter, k + 1, D)}

\* Faulty variant: the shortest match is taken.
CrossingPrefixShort(pending, chunk) ==
    LET ks == Crossings(pending, chunk) IN IF ks = {} THEN 0 ELSE Min(ks)

\* The longest match, tried first.
CrossingPrefix(pending, chunk) ==
    LET ks == Crossings(pending, chunk) IN IF ks = {} THEN 0 ELSE Max(ks)

\* complete_partial_then_direct
CompletePartial(r, d) ==
    LET pending == d.rest
        k == CrossingPrefix(pending, d.chunk)
        end == IndexOf(d.chunk, 1)
        frame == IF k > 0
                 THEN SubSeq(pending, 1, Len(pending) - k)
                 ELSE pending \o SubSeq(d.chunk, 1, end - 1)
        consumed == IF k > 0 THEN D - k ELSE end - 1 + D
        after == [d EXCEPT !.pc = "direct", !.chunk = <<>>]
    IN  IF k = 0 /\ end = 0
        THEN Keep(r[2], [after EXCEPT !.rest = pending \o d.chunk])
        ELSE IF Decodes(r, frame)
             THEN Deliver(Cut(after, frame, SubSeq(d.chunk, consumed + 1, Len(d.chunk))), frame)
             ELSE Fail(d)

\* push_with
RsPush(d, chunk) ==
    IF d.rest = <<>>
    THEN [d EXCEPT !.pc = "direct", !.rest = chunk]
    ELSE [d EXCEPT !.pc = "complete", !.chunk = chunk]

-----------------------------------------------------------------------------
Busy(d) == d.pc \notin {"idle", "failed"}

Settled == \A r \in Readers : ~Busy(reader[r])

Marked(s) == {i \in DOMAIN s : s[i] \in Invalid \cup CsInvalid \cup RsInvalid \cup Forbidden \cup Unlisted}

Words == {w \in [1 .. MaxChunk -> Alphabet] : Cardinality(Marked(w)) <= MaxMarked}

Chunks == {SubSeq(w, 1, n) : w \in Words, n \in 1 .. MaxChunk}

\* The code of a reader gets a chunk.
Take(code, d, chunk) ==
    IF code = "read" THEN JsRead(d, chunk)
    ELSE IF code = "push" THEN PushRead(d, chunk)
    ELSE IF code = "csharp" THEN CsRead(d, chunk)
    ELSE RsPush(d, chunk)

\* More of the stream, while a reader is left to read it.
Arrive ==
    /\ Settled /\ Len(stream) < MaxStream
    /\ \E r \in Readers : reader[r].pc # "failed"
    /\ \E chunk \in Chunks :
        /\ Len(stream) + Len(chunk) <= MaxStream
        /\ Cardinality(Marked(stream \o chunk)) <= MaxMarked
        /\ stream' = stream \o chunk
        /\ reader' = [r \in Readers |->
                         IF reader[r].pc = "idle" THEN Take(r[1], reader[r], chunk) ELSE reader[r]]

\* The next iteration of the loop a reader is in.
Step(r, d) ==
    IF d.pc = "read" THEN ReadFrame(r, d)
    ELSE IF d.pc = "split" THEN Split(r[2], d)
    ELSE IF d.pc = "decode" THEN DecodeNext(r, d)
    ELSE IF d.pc = "extract" THEN Extract(d)
    ELSE IF d.pc = "complete" THEN CompletePartial(r, d)
    ELSE IF d.pc = "direct" THEN DecodeDirect(r, d)
    ELSE d

\* The readers share nothing but the stream: they iterate side by side.
Iterate ==
    /\ ~Settled
    /\ reader' = [r \in Readers |-> Step(r, reader[r])]
    /\ UNCHANGED stream

Next == Arrive \/ Iterate

Spec == Init /\ [][Next]_vars

-----------------------------------------------------------------------------
\* What a reader has cut are the frames of the whole stream from its beginning
\* on, and between chunks all of them, however the stream was cut into chunks:
\* nothing is lost, repeated or moved, no delimiter is overlooked and none is
\* found that the stream does not have.
CutOf(d) ==
    /\ d.at[1] = 1 /\ Len(d.out) < Len(d.at)
    /\ \A i \in 1 .. Len(d.at) - 1 :
        IndexOf(stream, d.at[i]) # 0 /\ d.at[i + 1] = IndexOf(stream, d.at[i]) + D
    /\ \A i \in DOMAIN d.out : d.out[i] = SubSeq(stream, d.at[i], d.at[i + 1] - D - 1)
    /\ d.pc = "idle" =>
        /\ Len(d.out) = Len(d.at) - 1
        /\ d.rest = SubSeq(stream, Last(d.at), Len(stream))
        /\ IndexOf(stream, Last(d.at)) = 0

ChunksDoNotMatter == \A r \in Readers : CutOf(reader[r])

\* Two readers have delivered the same and kept the same, or both have failed.
Same(d, e) == d.out = e.out /\ d.rest = e.rest /\ d.pc = e.pc

\* The three implementations deliver the same frames and refuse the same
\* streams at the same point, up to a frame that decode() of one of them alone
\* refuses: there it stops, and the JavaScript parser goes on.
ImplementationsAgree ==
    \A code \in {"csharp", "rust"}, p \in Limited :
        LET js == reader[<<"read", p>>]  other == reader[<<code, p>>]
        IN  \/ Same(js, other)
            \/ /\ other.pc = "failed"
               /\ Len(other.out) < Len(js.out) /\ IsPrefix(other.out, js.out)
               /\ ~Parses(code, js.out[Len(other.out) + 1])

\* push() and decode() accept the streams read() accepts; push() may deliver
\* less of a stream that both refuse, never more.
PushAgreesWithRead ==
    \A p \in Profiles :
        LET push == reader[<<"push", p>>]  read == reader[<<"read", p>>]
        IN  /\ push.pc = read.pc
            /\ IF p = "fast" \/ read.pc = "idle" THEN Same(push, read)
               ELSE IsPrefix(push.out, read.out)

\* A stricter profile only refuses: up to its failure it delivers what the
\* laxer one delivers, and nothing after it.
ProfilesNest ==
    \A pair \in {<<"assured", "guarded">>, <<"guarded", "fast">>} :
        LET strict == reader[<<"read", pair[1]>>]  lax == reader[<<"read", pair[2]>>]
        IN  IF strict.pc = "idle" THEN Same(strict, lax) ELSE IsPrefix(strict.out, lax.out)

\* Whichever parser reads a stream, the frames are the same: those of the three
\* languages, where what they take for a message is the same, of push() and
\* read(), and of the profiles.
ParsersAgree == Settled => ImplementationsAgree /\ PushAgreesWithRead /\ ProfilesNest

\* A reader never delivers a message its profile refuses and never retains
\* more than maxMessageSize.
NothingOversized ==
    \A r \in Readers :
        /\ \A i \in DOMAIN reader[r].out : Decodes(r, reader[r].out[i])
        /\ ~Busy(reader[r]) => Fits(r[2], reader[r].rest)

\* The frame ends at the first delimiter after its start.
IsFrame(f) == IndexOf(f \o Delimiter, 1) = Len(f) + 1

\* A frame that is read even when the beginning of its delimiter is still part
\* of the tail: read() measures the tail, not the frame in it.
HasRoom(frame) == Fits("guarded", frame \o Tail(Delimiter))

\* The tail of a stream of such frames.
IsEncodedPrefix(t) ==
    \E n \in 0 .. Len(t) :
        /\ HasRoom(SubSeq(t, 1, n))
        /\ IsFrame(SubSeq(t, 1, n))
        /\ \E k \in 0 .. D - 1 : SubSeq(t, n + 1, Len(t)) = SubSeq(Delimiter, 1, k)

\* What encode() of a peer with the same configuration accepts is read,
\* however the network cuts it, if the frame leaves room for all but one
\* symbol of the delimiter (for the default one-symbol delimiter: always) and
\* is a message to the reader's language.
\* The frames of the stream are those the fast profile has delivered.
EncodedIsAccepted ==
    LET all == reader[<<"read", "fast">>]
    IN  /\ Settled /\ all.pc = "idle"
        /\ \A i \in DOMAIN all.out : Encodes("guarded", all.out[i]) /\ HasRoom(all.out[i])
        /\ IsEncodedPrefix(all.rest)
        => \A r \in Readers :
               r[2] = "guarded" /\ (\A i \in DOMAIN all.out : Parses(r[1], all.out[i]))
               => reader[r].pc = "idle"

\* maxMessageSize is respected by what is delivered and retained, and what a
\* peer with the same limit has encoded is not refused for it.
SizesAreExact == NothingOversized /\ EncodedIsAccepted
=============================================================================

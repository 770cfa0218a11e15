----------------------------- MODULE SseDecoder -----------------------------
(***************************************************************************)
(* The incremental SSE decoder (onpar-gateway/src/sse.rs), fed a stream in  *)
(* arbitrary chunks, against a line-by-line reading of the whole stream.    *)
(*                                                                          *)
(* Bytes are "n" (line feed), "r" (carriage return), "d" (at the start of a *)
(* line: the field name data:) and "x" (any other byte).  An event is the   *)
(* payload of a frame; the [DONE] payload is not told apart.                *)
(***************************************************************************)
EXTENDS Integers, Sequences, SequencesExt, FiniteSetsExt

CONSTANTS MaxFrameBytes, \* MAX_FRAME_BYTES
          MaxStream,     \* bound on the bytes of the whole stream
          MaxChunk       \* bound on the bytes of one push

ResyncTail == 2
Bytes == {"n", "r", "d", "x"}

ASSUME BoundsAssumption == MaxFrameBytes \in Nat /\ MaxFrameBytes >= ResyncTail

VARIABLES buf, desynced, dropped_frames, \* Decoder
          out,                           \* every event push has returned
          sent                           \* observation: every byte pushed

decoderVars == <<buf, desynced, dropped_frames, out, sent>>

DecoderTypeOK ==
    /\ buf \in Seq(Bytes) /\ Len(buf) <= MaxFrameBytes
    /\ desynced \in BOOLEAN
    /\ dropped_frames \in 0..MaxStream
    /\ out \in Seq(Seq(Bytes))
    /\ sent \in Seq(Bytes)

DecoderInit == /\ buf = <<>> /\ desynced = FALSE /\ dropped_frames = 0
        /\ out = <<>> /\ sent = <<>>
-----------------------------------------------------------------------------
(* find_frame_end and parse_frame *)

\* The line feeds after which a blank line is complete.
FrameEnds(b) ==
    {i \in 1..(Len(b) - 1) : b[i] = "n" /\ (\/ b[i+1] = "n"
                                            \/ /\ i + 2 <= Len(b)
                                               /\ b[i+1] = "r" /\ b[i+2] = "n")}

StripCR(line) == IF line # <<>> /\ Last(line) = "r" THEN Front(line) ELSE line

\* text.split('\n')
LinesOf(b) ==
    LET add(acc, c) == IF c = "n" THEN Append(acc, <<>>)
                       ELSE Append(Front(acc), Append(Last(acc), c))
    IN FoldLeft(add, <<<<>>>>, b)

\* The data fields of some lines, joined; the empty payload is no event.
Payload(lines) ==
    LET add(acc, l) ==
          LET line == StripCR(l) IN
          IF line = <<>> \/ line[1] # "d" THEN acc
          ELSE (IF acc = <<>> THEN acc ELSE Append(acc, "n")) \o Tail(line)
    IN FoldLeft(add, <<>>, lines)
EventsOf(lines) == IF Payload(lines) = <<>> THEN <<>> ELSE <<Payload(lines)>>
-----------------------------------------------------------------------------
(* push *)

\* Variant: the rest of a discarded frame is emitted as if it were whole.
TakeFrameAlways(s) ==
    IF FrameEnds(s.buf) = {} THEN s
    ELSE LET i == Min(FrameEnds(s.buf))
             frameLen == IF s.buf[i+1] = "n" THEN i + 1 ELSE i + 2
         IN [buf |-> SubSeq(s.buf, frameLen + 1, Len(s.buf)), desynced |-> FALSE,
             out |-> s.out \o EventsOf(LinesOf(SubSeq(s.buf, 1, i - 1)))]
\* One turn of the loop: consume the first complete frame, emit its event
\* unless its head was discarded.
TakeFrame(s) ==
    IF FrameEnds(s.buf) = {} THEN s
    ELSE LET i == Min(FrameEnds(s.buf))
             frameLen == IF s.buf[i+1] = "n" THEN i + 1 ELSE i + 2
             body == SubSeq(s.buf, 1, i - 1)
         IN [buf |-> SubSeq(s.buf, frameLen + 1, Len(s.buf)), desynced |-> FALSE,
             out |-> s.out \o (IF s.desynced THEN <<>> ELSE EventsOf(LinesOf(body)))]

\* Every turn that finds a frame consumes two bytes or more.
Drain(s) ==
    LET turn[k \in Nat] == IF k = 0 THEN s ELSE TakeFrame(turn[k - 1])
    IN turn[Len(s.buf)]

\* What is left of a partial frame once the cap is enforced.
EnforceCap(b) ==
    IF Len(b) > MaxFrameBytes THEN SubSeq(b, Len(b) - ResyncTail + 1, Len(b)) ELSE b

Push(chunk) ==
    LET s == Drain([buf |-> buf \o chunk, desynced |-> desynced, out |-> out])
        over == Len(s.buf) > MaxFrameBytes
    IN /\ out' = s.out
       /\ buf' = EnforceCap(s.buf)
       /\ desynced' = (s.desynced \/ over)
       /\ dropped_frames' = dropped_frames + (IF over THEN 1 ELSE 0)
       /\ sent' = sent \o chunk

DecoderNext == \E chunk \in SeqOf(Bytes, MaxChunk) \ {<<>>} :
            Len(sent) + Len(chunk) <= MaxStream /\ Push(chunk)

DecoderSpec == DecoderInit /\ [][DecoderNext]_decoderVars
-----------------------------------------------------------------------------
(* Properties *)

\* The event stream standard, read line by line: a blank line ends a frame.
Reference(b) ==
    LET step(s, c) ==
          IF c # "n" THEN [s EXCEPT !.line = Append(@, c)]
          ELSE IF StripCR(s.line) = <<>> /\ s.some
               THEN [line |-> <<>>, lines |-> <<>>, some |-> FALSE,
                     events |-> s.events \o EventsOf(s.lines)]
               ELSE [s EXCEPT !.lines = Append(@, s.line), !.line = <<>>, !.some = TRUE]
        start == [line |-> <<>>, lines |-> <<>>, some |-> FALSE, events |-> <<>>]
    IN FoldLeft(step, start, b).events

\* However the network cuts the stream into chunks, the decoder returns exactly
\* the events of the whole stream as long as it discarded nothing.
ChunkingInvisible == dropped_frames = 0 => out = Reference(sent)

\* t is what is left of s when some of its elements are taken out.
IsSubsequence(t, s) ==
    \E f \in [DOMAIN t -> DOMAIN s] :
        /\ \A i \in DOMAIN t : t[i] = s[f[i]]
        /\ \A i, j \in DOMAIN t : i < j => f[i] < f[j]

\* After a discard too: no corrupt event is emitted, the events come in order,
\* and each discard costs at most one of them.
DiscardCostsOneFrame ==
    LET ref == Reference(sent) IN
    /\ IsSubsequence(out, ref)
    /\ Len(ref) - Len(out) <= dropped_frames

\* What push returns is the stream: all of it, or all but what was discarded.
DecodingFaithful == DecoderTypeOK /\ ChunkingInvisible /\ DiscardCostsOneFrame
=============================================================================

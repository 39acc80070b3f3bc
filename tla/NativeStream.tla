---------------------------- MODULE NativeStream ----------------------------
(***************************************************************************)
(* decode_stream of crates/rook-native: the reader that decides whether a  *)
(* native stream is a recording at all.  It walks the stream once, frame   *)
(* by frame, and either accepts all of it or refuses it with the first     *)
(* error it meets.  One step of this module is one turn of the reader's    *)
(* loop, or the checks after the loop.                                     *)
(***************************************************************************)
EXTENDS NativeFrames, FiniteSets, SequencesExt

CONSTANTS
    Actor,     \* actor ids a frame may name
    Channel,   \* channel ids a frame may name
    Body,      \* frame bodies
    Streams,   \* the streams the reader may be handed
    Written    \* the streams recorders set out to write

\* What the byte-level reader finds in a frame, in the order it looks.
Damage == {"none", "short_header", "magic", "version", "unknown_kind", "short_payload",
           "hash", "payload"}

Frame == [type : EventTypes, kind : {kind(t) : t \in EventTypes}, ordinal : Nat,
          src : Actor, dst : Actor, channel : Channel, seq : Nat,
          flags : SUBSET {"ATTEMPTED", "CONFIRMED", "COUNT_UNKNOWN"},
          body : Body, observed_ns : Nat, damage : Damage]

ASSUME StreamsAssumption == Streams \cup Written \subseteq Seq(Frame)

VARIABLES
    stream,      \* the bytes, as the frames they hold
    cursor,      \* frames decoded so far (frames.len())
    sequences,   \* next src_seq expected per (source, channel)
    session,     \* the body of the Session marker once read: {} or a singleton
    ended,       \* the End marker was read
    status       \* "reading", "accepted", or the error returned

vars == <<stream, cursor, sequences, session, ended, status>>

Init ==
    /\ stream \in Streams
    /\ cursor = 0
    /\ sequences = [source \in Actor \X Channel |-> 0]
    /\ session = {}
    /\ ended = FALSE
    /\ status = "reading"

-----------------------------------------------------------------------------
(***************************************************************************)
(* The checks on one frame, in the order of the code's early returns.      *)
(***************************************************************************)

\* The 80-byte header up to the ordinal, then the payload's extent and hash,
\* then decode_payload (type, schema, flags, body layout: one error stands for
\* its five) and the kind.
EnvelopeError(f) ==
    IF f.damage = "short_header" THEN "Truncated"
    ELSE IF f.damage = "magic" THEN "BadMagic"
    ELSE IF f.damage = "version" THEN "WrongEnvelopeVersion"
    ELSE IF f.damage = "unknown_kind" THEN "UnknownKind"
    ELSE IF f.ordinal # cursor THEN "NonContiguousOrdinal"
    ELSE IF f.damage = "short_payload" THEN "Truncated"
    ELSE IF f.damage = "hash" THEN "PayloadHashMismatch"
    ELSE IF f.damage = "payload" THEN "MalformedPayload"
    ELSE IF kind(f.type) # f.kind THEN "KindMismatch"
    ELSE "none"

EndMatchesUuid(f) == \E s \in session : f.body.uuid = s.uuid
EndMatches(f) == \E s \in session : /\ f.body.uuid = s.uuid
                                    /\ f.body.frame_count = f.ordinal

\* The per-type rules.  A Gap is the one type that needs no session first.
EventError(f) ==
    IF f.type = "Session" THEN IF f.ordinal # 0 THEN "UnexpectedSession" ELSE "none"
    ELSE IF f.type = "Gap" THEN IF GapFlagMatches(f) THEN "none" ELSE "MalformedMarker"
    ELSE IF session = {} THEN "MissingSession"
    ELSE IF f.type = "End" /\ ~EndMatches(f) THEN "EndMismatch"
    ELSE "none"

\* src_seq counts from zero per (source, channel), without holes or repeats.
NotAhead(f)   == f.seq <= sequences[Source(f)]
InSequence(f) == f.seq = sequences[Source(f)]

FrameError(f) ==
    IF ended THEN "UnexpectedEnd"
    ELSE IF EnvelopeError(f) # "none" THEN EnvelopeError(f)
    ELSE IF ~InSequence(f) THEN "SequenceGap"
    ELSE IF ~HasMarkerTuple(f) THEN "MalformedMarker"
    ELSE EventError(f)

-----------------------------------------------------------------------------
\* The loop has a frame to read.
HasFrame == status = "reading" /\ cursor < Len(stream)

CountedDown(f) == [sequences EXCEPT ![Source(f)] = @ - 1]
Counted(f)     == [sequences EXCEPT ![Source(f)] = @ + 1]

\* The frame passes every check and is pushed.
ReadFrame ==
    /\ HasFrame
    /\ LET f == stream[cursor + 1] IN
         /\ FrameError(f) = "none"
         /\ cursor' = cursor + 1
         /\ sequences' = Counted(f)
         /\ session' = IF f.type = "Session" THEN {f.body} ELSE session
         /\ ended' = (f.type = "End")
    /\ UNCHANGED <<stream, status>>

\* The frame fails a check: the whole stream is refused.
RefuseFrame ==
    /\ HasFrame
    /\ FrameError(stream[cursor + 1]) # "none"
    /\ status' = FrameError(stream[cursor + 1])
    /\ UNCHANGED <<stream, cursor, sequences, session, ended>>

CloseUnended ==
    /\ status = "reading" /\ cursor = Len(stream)
    /\ status' = IF session = {} THEN "MissingSession" ELSE "accepted"
    /\ UNCHANGED <<stream, cursor, sequences, session, ended>>

\* After the last frame: the session must have been opened and closed.
CloseStream ==
    /\ status = "reading" /\ cursor = Len(stream)
    /\ status' = IF session = {} THEN "MissingSession"
                 ELSE IF ~ended THEN "MissingEnd"
                 ELSE "accepted"
    /\ UNCHANGED <<stream, cursor, sequences, session, ended>>

Next == ReadFrame \/ RefuseFrame \/ CloseStream

Spec == Init /\ [][Next]_vars

-----------------------------------------------------------------------------
\* Every state component stays in its type.
TypeOK ==
    /\ stream \in Seq(Frame)
    /\ cursor \in 0..Len(stream)
    /\ sequences \in [Actor \X Channel -> Nat]
    /\ session \in SUBSET Body
    /\ ended \in BOOLEAN
    /\ status \in {"reading", "accepted", "UnexpectedEnd", "Truncated", "BadMagic",
                   "WrongEnvelopeVersion", "UnknownKind", "NonContiguousOrdinal",
                   "PayloadHashMismatch", "MalformedPayload", "KindMismatch", "SequenceGap",
                   "MalformedMarker", "UnexpectedSession", "MissingSession", "EndMismatch",
                   "MissingEnd"}

\* The reader accepts only recordings: one session, opened first and closed
\* last, contiguous ordinals, and each source's events counted from zero with
\* none missing before the last one it shows (decode_stream's checks together).
AcceptedIsWellFormed == status = "accepted" => WellFormed(stream)

\* The reader's one-pass state loses nothing: it refuses no recording, so a
\* refusal is evidence that the stream is not one.
RefusedIsIllFormed == status \notin {"reading", "accepted"} => ~WellFormed(stream)

\* Together: decode_stream decides what a recording is.
DecidesWellFormed == AcceptedIsWellFormed /\ RefusedIsIllFormed

\* A recorder that dies leaves a prefix of what it would have written.  An
\* accepted stream is never a proper prefix of a recording, so a crash is never
\* "a shorter successful recording" (native-contract.md section 6).
NeverAShorterRecording ==
    status = "accepted" =>
        \A t \in Written : (Len(stream) < Len(t) /\ stream = SubSeq(t, 1, Len(stream)))
                              => ~WellFormed(t)

-----------------------------------------------------------------------------
(***************************************************************************)
(* What can happen to events before they are numbered.  The recorder       *)
(* numbers what reaches it, so ordinals and the End count agree with the   *)
(* file whatever was lost, repeated or reordered on the way.               *)
(***************************************************************************)
Renumbered(s) ==
    [i \in DOMAIN s |->
        [s[i] EXCEPT !.ordinal = i - 1,
                     !.body = IF s[i].type = "End" THEN [@ EXCEPT !.frame_count = i - 1] ELSE @]]

Lose(s, i)      == Renumbered(RemoveAt(s, i))
Duplicate(s, i) == Renumbered(InsertAt(s, i, s[i]))
Swapped(s, i)   == [s EXCEPT ![i] = s[i + 1], ![i + 1] = s[i]]
Overtake(s, i)  == Renumbered(Swapped(s, i))

SameSourceLater(s, i) == \E j \in (i + 1)..Len(s) : Source(s[j]) = Source(s[i])

\* An event that was duplicated, that overtook an event of its own source, or
\* that went missing before a later event of its source, never gets past the
\* reader, although the recorder numbered the frames it did receive without a
\* hole ("a missing or duplicated event from one endpoint a refusal at decode
\* time", native-contract.md section 3).
TamperedIsRefused ==
    status = "accepted" =>
        \A s \in Written : WellFormed(s) =>
            /\ \A i \in 1..Len(s) : stream # Duplicate(s, i)
            /\ \A i \in 1..Len(s) : SameSourceLater(s, i) => stream # Lose(s, i)
            /\ \A i \in 1..(Len(s) - 1) :
                 Source(s[i]) = Source(s[i + 1]) => stream # Overtake(s, i)

\* What a frame says when its ordinal is not looked at.
Payloads(s) == [i \in DOMAIN s |-> [envelope(s[i]) EXCEPT !.ordinal = 0]]

\* Two recordings of the same inputs and the same effects that interleave them
\* differently differ on all three execution hashes (hash_frames; the
\* interleaved.bin and grouped.bin fixtures of native-contract.md section 1).
InterleavingCommitted ==
    status = "accepted" =>
        \A t \in Written :
            (/\ WellFormed(t)
             /\ Keep(Payloads(t), EmitPlaces(t)) = Keep(Payloads(stream), EmitPlaces(stream))
             /\ Keep(Payloads(t), InputPlaces(t)) = Keep(Payloads(stream), InputPlaces(stream))
             /\ Envelopes(t) # Envelopes(stream))
            => /\ trace_hash(t) # trace_hash(stream)
               /\ run_hash(t) # run_hash(stream)
               /\ output_digest(t) # output_digest(stream)
=============================================================================

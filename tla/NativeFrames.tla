---------------------------- MODULE NativeFrames ----------------------------
(***************************************************************************)
(* The frames of a native recording (crates/rook-native): the event types, *)
(* the envelope kind each type must carry, the fixed actors and channel,   *)
(* and the execution hashes taken over a sequence of frames.               *)
(*                                                                         *)
(* A frame is a record.  Bytes are abstracted: a body is a value, and      *)
(* "damage" names what a byte-level reader would find wrong with the frame *)
(* ("none" when its bytes are intact).                                     *)
(***************************************************************************)
EXTENDS Naturals, Sequences, FiniteSets, Subsequences

\* Actors 0 and 1 and channel 0 are fixed by the contract.
SESSION_ACTOR_ID   == 0
COMPONENT_ACTOR_ID == 1
SESSION_CHANNEL_ID == 0

MarkerTypes  == {"Session", "End", "StartingState"}
DeliverTypes == {"Lifecycle", "Message", "Clock", "ServiceResponse", "GoalResponse",
                 "Feedback", "Result", "CancelResponse", "ServiceRequest"}
EmitTypes    == {"Publish", "ServiceCall", "GoalSend", "CancelSend", "ServiceResponseSend",
                 "LifecycleResult", "Status", "TimerControl"}
EventTypes   == MarkerTypes \cup {"Gap", "Timer"} \cup DeliverTypes \cup EmitTypes

\* The only envelope kind a frame of this type may carry.
kind(type) ==
    IF type \in MarkerTypes THEN "Marker"
    ELSE IF type \in DeliverTypes THEN "Deliver"
    ELSE IF type \in EmitTypes THEN "Emit"
    ELSE type   \* "Gap" and "Timer" are their own kinds

IsEmit(f) == kind(f.type) = "Emit"

\* (source, destination, channel) that a marker or a gap must carry.
HasMarkerTuple(f) ==
    /\ f.type \in {"Session", "End", "Gap"} =>
         <<f.src, f.dst, f.channel>> =
            <<SESSION_ACTOR_ID, SESSION_ACTOR_ID, SESSION_CHANNEL_ID>>
    /\ f.type = "StartingState" =>
         <<f.src, f.dst, f.channel>> =
            <<SESSION_ACTOR_ID, COMPONENT_ACTOR_ID, SESSION_CHANNEL_ID>>

(***************************************************************************)
(* Execution hashes.  BLAKE3 is taken as collision free, so a chain is     *)
(* represented by what it commits: its seed and the sequence of envelopes. *)
(* An envelope holds the ordinal and the payload, never the observed time. *)
(***************************************************************************)
envelope_unordered(f) == [ordinal |-> 0, src |-> f.src, dst |-> f.dst, channel |-> f.channel,
                          seq |-> f.seq, type |-> f.type, flags |-> f.flags, body |-> f.body]
envelope(f) == [ordinal |-> f.ordinal, src |-> f.src, dst |-> f.dst, channel |-> f.channel,
                seq |-> f.seq, type |-> f.type, flags |-> f.flags, body |-> f.body]

Envelopes(frames) == [i \in DOMAIN frames |-> envelope(frames[i])]

EmitPlaces(frames)  == {i \in DOMAIN frames : IsEmit(frames[i])}
InputPlaces(frames) == DOMAIN frames \ EmitPlaces(frames)

trace_hash(frames)    == Keep(Envelopes(frames), InputPlaces(frames))
run_hash(frames)      == <<trace_hash(frames), Envelopes(frames)>>
output_digest(frames) == Keep(Envelopes(frames), EmitPlaces(frames))
-----------------------------------------------------------------------------
(***************************************************************************)
(* What a recording is, said without a reader: the rules decode_stream     *)
(* enforces, as a predicate on whole streams.                              *)
(***************************************************************************)
\* Events are counted per endpoint and channel.
Source(f) == <<f.src, f.channel>>

\* The Gap's "count unknown" flag must agree with its body.
GapFlagMatches(f) == ("COUNT_UNKNOWN" \in f.flags) <=> ~f.body.lost_known

\* How many frames the source of frame i sent before it.
SentBefore(s, i) == Cardinality({j \in 1..(i - 1) : Source(s[j]) = Source(s[i])})

FrameWellFormed(s, i) ==
    /\ s[i].damage = "none"
    /\ s[i].kind = kind(s[i].type)
    /\ s[i].ordinal = i - 1
    /\ s[i].seq = SentBefore(s, i)
    /\ HasMarkerTuple(s[i])
    /\ s[i].type = "Gap" => GapFlagMatches(s[i])
    /\ (s[i].type = "Session") <=> (i = 1)
    /\ (s[i].type = "End") <=> (i = Len(s))

WellFormed(s) ==
    /\ s # <<>>
    /\ \A i \in 1..Len(s) : FrameWellFormed(s, i)
    /\ s[Len(s)].body.uuid = s[1].body.uuid
    /\ s[Len(s)].body.frame_count = Len(s) - 1
=============================================================================

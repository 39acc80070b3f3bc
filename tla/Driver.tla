------------------------------- MODULE Driver --------------------------------
(***************************************************************************)
(* The reference driver: replay of crates/rook-adapter-ref/src/driver.rs,  *)
(* against an adapter that may answer anything.  "The adapter's claim is   *)
(* checked against this, never trusted": whatever lines come, a run that   *)
(* the driver returns is a stream the reader accepts, made of the recorded *)
(* inputs up to where it stopped and of effects with a cause.              *)
(*                                                                         *)
(* The recording is any well-formed stream of a few frames.  A line is     *)
(* received when the driver reads it, so an adapter is a choice of lines.  *)
(***************************************************************************)
EXTENDS NativeFrames, Integers, SequencesExt, Subsequences

CONSTANTS
    MaxRecorded,   \* frames of a recording besides its markers
    MaxEffects     \* effects of a run

ASSUME DriverAssumption == MaxRecorded \in Nat /\ MaxEffects \in Nat

VARIABLES
    recording,
    phase,              \* "recording", "starting", "delivering", "stepping", "finishing", "done", "error"
    cursor,             \* the frame the loop is at
    frames,             \* the replayed stream
    steps,              \* <<recorded ordinal, replayed ordinal or Nothing if refused>>
    effects,            \* <<callback, replayed ordinal>>
    authorized,         \* callbacks an effect of this step may belong to
    session_sequence,
    effect_sequences,   \* next sequence of each effect channel
    stop                \* "Exhausted", "Gap" or "Refused"

run == <<frames, steps, effects, authorized, session_sequence, effect_sequences, stop>>
vars == <<recording, phase, cursor, run>>

Nothing == -1
Channels == {1, 2}
Bodies == {1, 2}
PEER == 2

Frame(n, source, dst, seq, type, body) ==
    [ordinal |-> n, src |-> source[1], dst |-> dst, channel |-> source[2], seq |-> seq,
     type |-> type, kind |-> kind(type), flags |-> {}, body |-> body, damage |-> "none"]

SessionSource == <<SESSION_ACTOR_ID, SESSION_CHANNEL_ID>>
SessionFrame == Frame(0, SessionSource, SESSION_ACTOR_ID, 0, "Session", [uuid |-> 1])
StartingState == Frame(1, SessionSource, COMPONENT_ACTOR_ID, 1, "StartingState", [value |-> 1])

Init ==
    /\ recording = <<SessionFrame, StartingState>> /\ phase = "recording" /\ cursor = 1
    /\ frames = <<>> /\ steps = <<>> /\ effects = <<>> /\ authorized = {}
    /\ session_sequence = 0 /\ effect_sequences = [c \in Channels |-> 0] /\ stop = "Exhausted"

-----------------------------------------------------------------------------
(***************************************************************************)
(* The recording.                                                          *)
(***************************************************************************)
IsInput(f) == ~IsEmit(f) /\ f.type \notin {"Session", "End", "Gap"}

\* The next frame of a source.
NextFrame(source, dst, type, body) ==
    Frame(Len(recording), source, dst,
          Cardinality({i \in DOMAIN recording : Source(recording[i]) = source}), type, body)

Write(f) == recording' = Append(recording, f) /\ UNCHANGED <<phase, cursor, run>>

WriteFrame ==
    /\ phase = "recording" /\ Len(recording) < MaxRecorded + 2
    /\ Last(recording).type # "Gap"
    /\ LET earlier == {f.ordinal : f \in {g \in ToSet(recording) : IsInput(g)}} IN
       \/ \E source \in {<<PEER, 3>>, SessionSource} :
             Write(NextFrame(source, COMPONENT_ACTOR_ID, "Message", [value |-> 1]))
       \/ \E c \in earlier :
             Write(NextFrame(<<PEER, 4>>, COMPONENT_ACTOR_ID, "Clock", [callback |-> c]))
       \/ \E n \in 1..Len(recording) :
             Write(NextFrame(<<PEER, 5>>, COMPONENT_ACTOR_ID, "GoalResponse", [request |-> n]))
       \/ \E c \in Channels, b \in Bodies :
             Write(NextFrame(<<COMPONENT_ACTOR_ID, c>>, PEER, "GoalSend", [value |-> b]))
       \/ Write(NextFrame(SessionSource, SESSION_ACTOR_ID, "Gap", [lost_known |-> TRUE]))

EndFrame(s, seq) ==
    Frame(Len(s), SessionSource, SESSION_ACTOR_ID, seq, "End", [uuid |-> 1, frame_count |-> Len(s)])

Close ==
    /\ phase = "recording" /\ phase' = "starting"
    /\ recording' = Append(recording, EndFrame(recording,
           Cardinality({i \in DOMAIN recording : Source(recording[i]) = SessionSource})))
    /\ UNCHANGED <<cursor, run>>

-----------------------------------------------------------------------------
(***************************************************************************)
(* replay.                                                                 *)
(***************************************************************************)
Error == phase' = "error" /\ UNCHANGED <<recording, cursor, run>>

\* The adapter's first line: started in the requested state, or anything else.
Start ==
    /\ phase = "starting"
    /\ \E started \in BOOLEAN :
          IF started THEN phase' = "delivering" /\ UNCHANGED <<recording, cursor, run>> ELSE Error

Recorded == recording[cursor]
push(f) == Append(frames, [f EXCEPT !.ordinal = Len(frames)])

DeliverSession ==
    /\ phase = "delivering" /\ Recorded.type = "Session"
    /\ frames' = push(Recorded) /\ session_sequence' = Recorded.seq + 1 /\ cursor' = cursor + 1
    /\ UNCHANGED <<recording, phase, steps, effects, authorized, effect_sequences, stop>>

SkipEffect ==
    /\ phase = "delivering" /\ IsEmit(Recorded) /\ cursor' = cursor + 1
    /\ UNCHANGED <<recording, phase, run>>

StopAtMarker ==
    /\ phase = "delivering" /\ Recorded.type \in {"End", "Gap"}
    /\ stop' = (IF Recorded.type = "Gap" THEN "Gap" ELSE "Exhausted") /\ phase' = "finishing"
    /\ UNCHANGED <<recording, cursor, frames, steps, effects, authorized,
                   session_sequence, effect_sequences>>

\* The request a response names, by its index; it must be an earlier effect.
NamesRequest == Recorded.type = "GoalResponse"
request_ref == Recorded.body.request + 1
RequestIsEffect ==
    /\ request_ref \in DOMAIN recording /\ IsEmit(recording[request_ref])
    /\ recording[request_ref].src = COMPONENT_ACTOR_ID /\ request_ref < cursor

\* This run's requests with the channel and sequence of the recorded one.
Issued ==
    {i \in DOMAIN frames : /\ IsEmit(frames[i]) /\ frames[i].src = COMPONENT_ACTOR_ID
                           /\ frames[i].channel = recording[request_ref].channel
                           /\ frames[i].seq = recording[request_ref].seq}
equivalent(i) ==
    /\ frames[i].dst = recording[request_ref].dst
    /\ frames[i].type = recording[request_ref].type
    /\ frames[i].body = recording[request_ref].body

RefuseUnissued ==
    /\ NamesRequest /\ ~\E i \in Issued : equivalent(i)
    /\ steps' = Append(steps, <<Recorded.ordinal, Nothing>>)
    /\ stop' = "Refused" /\ phase' = "finishing"
    /\ UNCHANGED <<recording, cursor, frames, effects, authorized,
                   session_sequence, effect_sequences>>

\* The input's own callback, the one a clock observation names, the one that issued
\* the request a response answers.
Authorized ==
    {Recorded.ordinal}
    \cup (IF Recorded.type = "Clock" THEN {Recorded.body.callback} ELSE {})
    \cup (IF NamesRequest
          THEN {e[1] : e \in {e \in ToSet(effects) : \E i \in Issued : e[2] = i - 1}} ELSE {})

SendStep ==
    /\ NamesRequest => \E i \in Issued : equivalent(i)
    /\ authorized' = Authorized /\ frames' = push(Recorded) /\ phase' = "stepping"
    /\ UNCHANGED <<recording, cursor, steps, effects, session_sequence,
                   effect_sequences, stop>>

DeliverInput ==
    /\ phase = "delivering" /\ IsInput(Recorded)
    /\ IF NamesRequest /\ ~RequestIsEffect THEN Error ELSE RefuseUnissued \/ SendStep

\* Lines of the adapter during a step.  Claimed step and callback must be this
\* step's and one of those authorized.
OfThisStep(step, callback) == step = Recorded.ordinal
OfThisCallback(step, callback) == step = Recorded.ordinal /\ callback \in authorized
Attributed(step, callback) == OfThisCallback(step, callback)
Ordinals == (Recorded.ordinal - 1)..Recorded.ordinal \cup authorized \cup {0}

\* A frame of the adapter: of the component or not, an effect or not, with the next
\* sequence of its channel or another.
Wired(src, c, ahead, type, b) ==
    Frame(0, <<src, c>>, PEER, effect_sequences[c] + ahead, type, [value |-> b])
EffectAllowed(f) ==
    /\ f.src = COMPONENT_ACTOR_ID /\ IsEmit(f) /\ f.seq = effect_sequences[f.channel]

ReceiveEffect ==
    /\ phase = "stepping" /\ Len(effects) < MaxEffects
    /\ \E step, callback \in Ordinals, src \in {COMPONENT_ACTOR_ID, PEER}, c \in Channels,
          ahead \in {0, 1}, type \in {"GoalSend", "Message"}, b \in Bodies :
          LET f == Wired(src, c, ahead, type, b) IN
          IF Attributed(step, callback) /\ EffectAllowed(f)
          THEN /\ frames' = push(f)
               /\ effects' = Append(effects, <<callback, Len(frames)>>)
               /\ effect_sequences' = [effect_sequences EXCEPT ![f.channel] = @ + 1]
               /\ UNCHANGED <<recording, phase, cursor, steps, authorized,
                              session_sequence, stop>>
          ELSE Error

\* Progress is kept for the property program; the driver only checks whose it is.
ReceiveProgress ==
    /\ phase = "stepping"
    /\ \E step, callback \in Ordinals :
          IF Attributed(step, callback) THEN UNCHANGED vars ELSE Error

\* The replayed ordinal of the input being processed.
Inputs == {i \in DOMAIN frames : ~IsEmit(frames[i])}
replayed_ordinal == (CHOOSE i \in Inputs : \A j \in Inputs : j <= i) - 1

\* A refused input is taken out of the stream again, unless effects followed it.
Kept == frames
Popped == Front(frames)
AfterRefusal == Popped

ReceiveRefused ==
    /\ phase = "stepping"
    /\ IF Len(frames) # replayed_ordinal + 1 THEN Error
       ELSE /\ frames' = AfterRefusal /\ stop' = "Refused" /\ phase' = "finishing"
            /\ steps' = Append(steps, <<Recorded.ordinal, Nothing>>)
            /\ UNCHANGED <<recording, cursor, effects, authorized, session_sequence,
                           effect_sequences>>

\* Consumed or not, the input stays in the stream; only such an input advances the
\* session counter.
CountedSession == IF Source(Recorded) = SessionSource THEN Recorded.seq + 1 ELSE session_sequence
CountedOnce == session_sequence
AfterInput == CountedSession

ReceiveStepped ==
    /\ phase = "stepping" /\ phase' = "delivering" /\ cursor' = cursor + 1
    /\ steps' = Append(steps, <<Recorded.ordinal, replayed_ordinal>>)
    /\ session_sequence' = AfterInput
    /\ UNCHANGED <<recording, frames, effects, authorized, effect_sequences, stop>>

\* Another ordinal, another line, or no line at all.
ReceiveOther == phase = "stepping" /\ Error

\* The adapter must repeat the reason and count the effects the driver collected.
Finish ==
    /\ phase = "finishing"
    /\ \E reason \in {"Exhausted", "Scope"}, reported \in 0..MaxEffects :
          IF /\ reason = (IF stop = "Exhausted" THEN "Exhausted" ELSE "Scope")
             /\ reported = Len(effects)
          THEN /\ phase' = "done" /\ frames' = Append(frames, EndFrame(frames, session_sequence))
               /\ UNCHANGED <<recording, cursor, steps, effects, authorized,
                              session_sequence, effect_sequences, stop>>
          ELSE Error

Next ==
    \/ WriteFrame \/ Close \/ Start
    \/ DeliverSession \/ SkipEffect \/ StopAtMarker \/ DeliverInput
    \/ ReceiveEffect \/ ReceiveProgress \/ ReceiveRefused \/ ReceiveStepped \/ ReceiveOther
    \/ Finish

Spec == Init /\ [][Next]_vars

-----------------------------------------------------------------------------
\* "the replayed stream decodes under the same rules as a recording": whatever the
\* adapter answers, and wherever it refuses, a run that is returned is well formed.
RunDecodes == phase = "done" => WellFormed(frames)

Unnumbered(f) == [f EXCEPT !.ordinal = 0]
InputsOf(s) == Keep([i \in DOMAIN s |-> Unnumbered(s[i])],
                    {i \in DOMAIN s : ~IsEmit(s[i]) /\ s[i].type # "End"})

\* Every response in the stream answers a request that this run made before it
\* and that is, byte for byte, the recorded one.
ResponsesAnswerThisRun ==
    \A i \in DOMAIN frames : frames[i].type = "GoalResponse" =>
        LET recorded == recording[frames[i].body.request + 1] IN
        \E j \in 1..(i - 1) : Unnumbered(frames[j]) = Unnumbered(recorded)

\* The inputs of a returned run are the recorded ones before the frame it stopped
\* at, each once and in order: an input that was refused, by the driver or by the
\* adapter, is not evidence, nor is anything behind it, nor a response to a
\* request this run did not make.
InputsAreTheConsumedPrefix ==
    phase = "done" =>
        /\ InputsOf(frames) = InputsOf(SubSeq(recording, 1, cursor - 1))
        /\ ResponsesAnswerThisRun

\* Every effect has a cause in its own run: the callback it is attributed to was
\* started by an input that is in the replayed stream before the effect.
EffectsHaveACause ==
    phase = "done" =>
        \A i \in DOMAIN effects : \E s \in ToSet(steps) :
            s[1] = effects[i][1] /\ s[2] # Nothing /\ s[2] < effects[i][2]
=============================================================================

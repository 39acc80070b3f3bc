------------------------------ MODULE Recorder ------------------------------
(***************************************************************************)
(* Recording (crates/rook-adapter-ref/src/fixture.rs): a scripted          *)
(* environment drives a component in process and writes down every input   *)
(* it served and every effect that came out, numbered as they are pushed.  *)
(* The script is any sequence of at most MaxServed environment actions.    *)
(***************************************************************************)
EXTENDS GoalClient

CONSTANTS
    ClockValue,   \* values the scripted clock may read
    MaxServed     \* bound: environment actions of a script

VARIABLES
    phase,         \* "recording", "bailed" (record returned an error) or "closed"
    recording,     \* the frames written so far
    counters,      \* next src_seq per (source, channel)
    last_goal,     \* the last goal send seen: {} or a singleton frame
    last_cancel,   \* the last cancel send seen: {} or a singleton frame
    served         \* script actions performed

recorder == <<phase, recording, counters, last_goal, last_cancel, served>>

Endpoint == {SESSION_ACTOR_ID, COMPONENT_ACTOR_ID, ACTOR_CLOCK, ACTOR_ACTION_SERVER, ACTOR_COMMAND}
ChannelId == {SESSION_CHANNEL_ID, CH_GOAL_COMMAND, CH_CLOCK, CH_ACTION_RESPONSE} \cup EffectChannel

\* The frame Recorder::push appends as frame number n, given its sequence.
frame(n, src, dst, channel, seq, type, flags, body) ==
    [ordinal |-> n, src |-> src, dst |-> dst, channel |-> channel, seq |-> seq, type |-> type,
     kind |-> kind(type), flags |-> flags, body |-> body, observed_ns |-> n, damage |-> "none"]

session_frame(n, dst, seq, type, body) ==
    frame(n, SESSION_ACTOR_ID, dst, SESSION_CHANNEL_ID, seq, type, {}, body)

Opening == <<session_frame(0, SESSION_ACTOR_ID, 0, "Session", [uuid |-> "u"]),
             session_frame(1, COMPONENT_ACTOR_ID, 1, "StartingState", [method |-> "fresh"])>>

RecordInit ==
    /\ \E v \in Variant : NewComponent(v)
    /\ phase = "recording"
    /\ recording = Opening
    /\ counters = [source \in Endpoint \X ChannelId |->
                      IF source = <<SESSION_ACTOR_ID, SESSION_CHANNEL_ID>> THEN 2 ELSE 0]
    /\ last_goal = {} /\ last_cancel = {} /\ served = 0

-----------------------------------------------------------------------------
\* What the component is stepped with: the frame's fields and the request.
Input(f, request) ==
    [ordinal |-> f.ordinal, src |-> f.src, dst |-> f.dst, channel |-> f.channel,
     type |-> f.type, body |-> f.body, request |-> request]

\* The effects of one step, pushed after frame n.
EffectFrames(n, effects) ==
    [i \in DOMAIN effects |->
        frame(n + i, COMPONENT_ACTOR_ID, effects[i].dst, effects[i].channel,
              counters[<<COMPONENT_ACTOR_ID, effects[i].channel>>], effects[i].type,
              effects[i].flags, effects[i].body)]

Seen(frames, type) == {frames[i] : i \in {j \in DOMAIN frames : frames[j].type = type}}

\* last_goal and last_cancel follow the effects.
Latest(seen, before) == IF seen = {} THEN before ELSE seen

\* One turn of record's loop for an input: push it, step the component, and
\* push the effects.  An input that is not consumed, or an effect whose
\* sequence the recorder counts differently, ends the recording in an error.
Serve(src, channel, type, body, request) ==
    LET n      == Len(recording)
        input  == frame(n, src, COMPONENT_ACTOR_ID, channel, counters[<<src, channel>>], type, {}, body)
        pushed == EffectFrames(n, outcome'.effects)
    IN  /\ phase = "recording" /\ served < MaxServed
        /\ served' = served + 1
        /\ Step(Input(input, request))
        /\ IF /\ outcome'.consumed = "Yes"
              /\ \A i \in DOMAIN pushed : pushed[i].seq = outcome'.effects[i].seq
           THEN /\ recording' = Append(recording, input) \o pushed
                /\ counters' = [s \in DOMAIN counters |->
                      IF s = <<src, channel>> \/ \E i \in DOMAIN pushed : Source(pushed[i]) = s
                      THEN counters[s] + 1 ELSE counters[s]]
                /\ last_goal' = Latest(Seen(pushed, "GoalSend"), last_goal)
                /\ last_cancel' = Latest(Seen(pushed, "CancelSend"), last_cancel)
                /\ UNCHANGED phase
           ELSE /\ phase' = "bailed"
                /\ UNCHANGED <<recording, counters, last_goal, last_cancel>>

RequestOf(f) == <<f.channel, f.seq>>

ServeCommand(goal) ==
    Serve(ACTOR_COMMAND, CH_GOAL_COMMAND, "Message", [raw |-> TRUE, goal |-> goal], <<>>)

\* A clock value is scripted for a read the component waits for, a response for a
\* request already seen; a script that asks for more records nothing.
ServeClock(value) ==
    \E w \in waits(state) :
        /\ w.kind = "clock_read" /\ w.what = CLOCK_ROS
        /\ Serve(ACTOR_CLOCK, CH_CLOCK, "Clock",
                 [clock_id |-> w.what, value_ns |-> value, callback |-> w.callback], <<>>)

ServeGoalResponse(accepted) ==
    \E g \in last_goal :
        Serve(ACTOR_ACTION_SERVER, CH_ACTION_RESPONSE, "GoalResponse",
              [request |-> g.ordinal, goal_id |-> g.body.goal_id, accepted |-> accepted],
              RequestOf(g))

ServeResult ==
    \E g \in last_goal :
        Serve(ACTOR_ACTION_SERVER, CH_ACTION_RESPONSE, "Result",
              [request |-> g.ordinal, goal_id |-> g.body.goal_id], RequestOf(g))

ServeCancelResponse ==
    \E c \in last_cancel :
        Serve(ACTOR_ACTION_SERVER, CH_ACTION_RESPONSE, "CancelResponse",
              [request |-> c.ordinal, goals |-> {c.body.goal_id}], RequestOf(c))

SessionCount == counters[<<SESSION_ACTOR_ID, SESSION_CHANNEL_ID>>]

EndMarker(n, seq) ==
    session_frame(n, SESSION_ACTOR_ID, seq, "End", [uuid |-> "u", frame_count |-> n])

Close(frames, seq) ==
    /\ recording' = Append(frames, EndMarker(Len(frames), seq))
    /\ counters' = [counters EXCEPT ![<<SESSION_ACTOR_ID, SESSION_CHANNEL_ID>>] = seq + 1]
    /\ phase' = "closed"
    /\ UNCHANGED <<last_goal, last_cancel, served, component>>

\* The script ends, with the admission of lost events or without.
RecordGap ==
    /\ phase = "recording"
    /\ Close(Append(recording, session_frame(Len(recording), SESSION_ACTOR_ID, SessionCount, "Gap",
                                             [lost_known |-> TRUE])), SessionCount + 1)

RecordEnd == phase = "recording" /\ Close(recording, SessionCount)

RecordNext ==
    \/ \E goal \in Goal : ServeCommand(goal)
    \/ \E value \in ClockValue : ServeClock(value)
    \/ \E accepted \in BOOLEAN : ServeGoalResponse(accepted)
    \/ ServeResult \/ ServeCancelResponse \/ RecordGap \/ RecordEnd
=============================================================================

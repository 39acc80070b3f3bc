----------------------------- MODULE GoalClient -----------------------------
(***************************************************************************)
(* The reference component of crates/rook-adapter-ref/src/component.rs: a  *)
(* goal client in four variants.  It takes one input at a time and never   *)
(* reads anything live: a callback that needs a clock value or a response  *)
(* waits until a recorded input supplies it.                               *)
(*                                                                         *)
(* One action per handler.  A handler either consumes its input, or        *)
(* reports "No" (nothing waits for it) or "Refused" (a recorded response   *)
(* this run's cancel has made impossible); outcome holds what it reported. *)
(***************************************************************************)
EXTENDS NativeFrames, Integers

CONSTANTS
    Deadline,   \* GOAL_RESPONSE_DEADLINE_NS
    MaxI64,     \* the largest clock value
    Goal        \* goal payloads

ASSUME DeadlineAssumption == Deadline \in Nat \ {0} /\ MaxI64 \in Nat

Variant == {"old", "fixed", "noop", "always-cancel"}

ACTOR_CLOCK         == 2
ACTOR_ACTION_SERVER == 3
ACTOR_COMMAND       == 4
ACTOR_DIAGNOSTICS   == 5

CH_GOAL_COMMAND    == 10
CH_CLOCK           == 11
CH_ACTION_RESPONSE == 12
CH_ACTION_GOAL     == 20
CH_ACTION_CANCEL   == 21
CH_STATUS          == 22
EffectChannel      == {CH_ACTION_GOAL, CH_ACTION_CANCEL, CH_STATUS}

CLOCK_ROS == 1

VARIABLES
    variant,        \* which build of the component runs
    state,          \* where its one callback is
    goals_issued,   \* goals sent so far
    sequences,      \* next src_seq per effect channel
    outcome         \* what the last step reported

component == <<variant, state, goals_issued, sequences, outcome>>

Idle == [tag |-> "Idle"]

\* The generated goal id: derived from issuance order, injective.
goal_id_reused(index)   == 0
goal_id_shifted(index)  == index - 1
goal_id(index)          == index

\* Component::new.
NewComponent(v) ==
    /\ variant = v
    /\ state = Idle
    /\ goals_issued = 0
    /\ sequences = [c \in EffectChannel |-> 0]
    /\ outcome = [consumed |-> "Yes", callback |-> 0, effects |-> <<>>, progress |-> <<>>]

-----------------------------------------------------------------------------
ClockRead(cb)    == [kind |-> "clock_read", callback |-> cb, what |-> CLOCK_ROS]
Future(cb, name) == [kind |-> "future", callback |-> cb, what |-> name]

\* What the component waits on; reported as pending.
waits(s) ==
    CASE s.tag = "Idle"                -> {}
      [] s.tag = "AwaitClockForSend"   -> {ClockRead(s.callback)}
      [] s.tag = "AwaitGoalResponse"   -> {Future(s.callback, "goal_response"),
                                           ClockRead(s.callback)}
      [] s.tag = "AwaitResult"         -> {Future(s.callback, "result")}
      [] s.tag = "AwaitCancelResponse" -> {Future(s.callback, "cancel_response")}

\* The component counts its own issuance on each channel.
effect(dst, channel, type, body) ==
    [dst |-> dst, channel |-> channel, seq |-> sequences[channel], type |-> type,
     flags |-> {"ATTEMPTED", "CONFIRMED"}, body |-> body]

status_effect(text) == effect(ACTOR_DIAGNOSTICS, CH_STATUS, "Status", [text |-> text])

goal_send(id, goal) ==
    effect(ACTOR_ACTION_SERVER, CH_ACTION_GOAL, "GoalSend", [goal_id |-> id, goal |-> goal])

cancel_send(id, now) ==
    effect(ACTOR_ACTION_SERVER, CH_ACTION_CANCEL, "CancelSend", [goal_id |-> id, stamp_ns |-> now])

\* The handler consumed the input in callback cb.  No handler emits twice on
\* one channel.
Consume(cb, effects, progress) ==
    /\ outcome' = [consumed |-> "Yes", callback |-> cb, effects |-> effects,
                   progress |-> progress]
    /\ sequences' = [c \in EffectChannel |->
                        IF \E i \in DOMAIN effects : effects[i].channel = c
                        THEN sequences[c] + 1 ELSE sequences[c]]
    /\ UNCHANGED variant

\* The handler applied nothing.  An outcome without a callback is attributed to
\* the input itself.
NotApplied(in, how) ==
    /\ outcome' = [consumed |-> how, callback |-> in.ordinal, effects |-> <<>>,
                   progress |-> <<>>]
    /\ UNCHANGED <<variant, state, goals_issued, sequences>>

-----------------------------------------------------------------------------
(***************************************************************************)
(* The handlers.  An input carries the frame's fields and, for a response, *)
(* the (channel, seq) of the request it answers as the runner resolved it  *)
(* ("request").  decode_stream has checked every body's layout, so the     *)
(* only body a handler may still fail to decode is a Message whose         *)
(* serialization is not raw.                                               *)
(***************************************************************************)
OnGoalCommand(in) ==
    IF in.src = ACTOR_COMMAND /\ variant = "noop"
    THEN Consume(in.ordinal, <<>>, <<>>) /\ UNCHANGED <<state, goals_issued>>
    ELSE IF in.src = ACTOR_COMMAND /\ state = Idle /\ in.body.raw
    THEN /\ Consume(in.ordinal, <<>>, <<>>)
         /\ state' = [tag |-> "AwaitClockForSend", callback |-> in.ordinal,
                      goal |-> in.body.goal]
         /\ UNCHANGED goals_issued
    ELSE NotApplied(in, "No")

\* The observation is for the read that is pending: same callback, same clock,
\* from the clock endpoint.
AnswersPendingRead(in) ==
    /\ in.src = ACTOR_CLOCK
    /\ [kind |-> "clock_read", callback |-> in.body.callback, what |-> in.body.clock_id]
          \in waits(state)

\* The clock read before the send: the goal goes out, and always-cancel cancels
\* it in the same callback without waiting.
SendGoal(in) ==
    LET now == in.body.value_ns
        cb  == state.callback
        id  == goal_id(goals_issued)
    IN  /\ goals_issued' = goals_issued + 1
        /\ IF variant = "always-cancel"
           THEN /\ Consume(cb, <<goal_send(id, state.goal), cancel_send(id, now)>>,
                           <<"goal_submitted", "cancel_requested">>)
                /\ state' = [tag |-> "AwaitCancelResponse", callback |-> cb, goal_id |-> id,
                             cancel_seq |-> sequences[CH_ACTION_CANCEL]]
           ELSE /\ Consume(cb, <<goal_send(id, state.goal)>>, <<"goal_submitted">>)
                /\ state' = [tag |-> "AwaitGoalResponse", callback |-> cb, goal_id |-> id,
                             send_seq |-> sequences[CH_ACTION_GOAL],
                             deadline_ns |-> now + Deadline]

\* The deadline itself counts as passed.
DeadlinePassedLate(now) == now > state.deadline_ns
DeadlinePassed(now)     == now >= state.deadline_ns

\* A clock read while the goal response is outstanding: the timeout check.
PollDeadline(in) ==
    LET now == in.body.value_ns
        cb  == state.callback
    IN  /\ UNCHANGED goals_issued
        /\ IF ~DeadlinePassed(now)
           THEN Consume(cb, <<>>, <<>>) /\ UNCHANGED state
           ELSE IF variant = "fixed"
           THEN /\ Consume(cb, <<cancel_send(state.goal_id, now)>>,
                           <<"deadline_expired", "cancel_requested">>)
                /\ state' = [tag |-> "AwaitCancelResponse", callback |-> cb,
                             goal_id |-> state.goal_id,
                             cancel_seq |-> sequences[CH_ACTION_CANCEL]]
           ELSE /\ Consume(cb, <<status_effect("timed out")>>, <<"deadline_expired">>)
                /\ state' = Idle

\* The deadline is computed with checked_add.
LeavesNoRoom(in) == variant # "always-cancel" /\ in.body.value_ns + Deadline > MaxI64

OnClock(in) ==
    IF ~AnswersPendingRead(in) THEN NotApplied(in, "No")
    ELSE IF state.tag = "AwaitGoalResponse" THEN PollDeadline(in)
    ELSE IF LeavesNoRoom(in) THEN NotApplied(in, "No")
    ELSE SendGoal(in)

\* A response is bound by the resolved request and must come from the server.
bound_by_goal_only(in, channel, seq) == in.src = ACTOR_ACTION_SERVER
bound(in, channel, seq) ==
    in.src = ACTOR_ACTION_SERVER /\ in.request = <<channel, seq>>

\* A response for the goal this run has asked to cancel.
AfterCancel(in) ==
    state.tag = "AwaitCancelResponse" /\ state.goal_id = in.body.goal_id

\* An accepted goal stops waiting for its deadline.
StillAwaitsResponse(in) == IF in.body.accepted THEN state ELSE Idle
AfterResponse(in) ==
    IF in.body.accepted
    THEN [tag |-> "AwaitResult", callback |-> state.callback, goal_id |-> state.goal_id,
          send_seq |-> state.send_seq]
    ELSE Idle

OnGoalResponse(in) ==
    IF /\ state.tag = "AwaitGoalResponse"
       /\ state.goal_id = in.body.goal_id /\ bound(in, CH_ACTION_GOAL, state.send_seq)
    THEN /\ Consume(state.callback,
                    <<status_effect(IF in.body.accepted THEN "accepted" ELSE "rejected")>>,
                    <<"goal_acknowledged">>)
         /\ state' = AfterResponse(in)
         /\ UNCHANGED goals_issued
    ELSE NotApplied(in, IF AfterCancel(in) THEN "Refused" ELSE "No")

OnResult(in) ==
    IF /\ state.tag = "AwaitResult"
       /\ state.goal_id = in.body.goal_id /\ bound(in, CH_ACTION_GOAL, state.send_seq)
    THEN /\ Consume(state.callback, <<status_effect("finished")>>, <<"goal_terminated">>)
         /\ state' = Idle
         /\ UNCHANGED goals_issued
    ELSE NotApplied(in, IF AfterCancel(in) THEN "Refused" ELSE "No")

OnCancelResponse(in) ==
    IF /\ state.tag = "AwaitCancelResponse"
       /\ state.goal_id \in in.body.goals /\ bound(in, CH_ACTION_CANCEL, state.cancel_seq)
    THEN /\ Consume(state.callback, <<status_effect("cancel acknowledged")>>,
                    <<"cancel_acknowledged">>)
         /\ state' = Idle
         /\ UNCHANGED goals_issued
    ELSE NotApplied(in, "No")

\* Component::step: the dispatch on channel and type.
Handles(in, channel, type) ==
    in.dst = COMPONENT_ACTOR_ID /\ in.channel = channel /\ in.type = type

Unhandled(in) ==
    ~ \/ Handles(in, CH_GOAL_COMMAND, "Message")
      \/ Handles(in, CH_CLOCK, "Clock")
      \/ Handles(in, CH_ACTION_RESPONSE, "GoalResponse")
      \/ Handles(in, CH_ACTION_RESPONSE, "Result")
      \/ Handles(in, CH_ACTION_RESPONSE, "CancelResponse")

Step(in) ==
    \/ Handles(in, CH_GOAL_COMMAND, "Message") /\ OnGoalCommand(in)
    \/ Handles(in, CH_CLOCK, "Clock") /\ OnClock(in)
    \/ Handles(in, CH_ACTION_RESPONSE, "GoalResponse") /\ OnGoalResponse(in)
    \/ Handles(in, CH_ACTION_RESPONSE, "Result") /\ OnResult(in)
    \/ Handles(in, CH_ACTION_RESPONSE, "CancelResponse") /\ OnCancelResponse(in)
    \/ /\ Unhandled(in)
       /\ IF in.dst = COMPONENT_ACTOR_ID /\ in.type = "StartingState"
          THEN Consume(in.ordinal, <<>>, <<>>) /\ UNCHANGED <<state, goals_issued>>
          ELSE NotApplied(in, "No")
=============================================================================

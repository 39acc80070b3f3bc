---------------------------- MODULE MCGoalClient ----------------------------
(***************************************************************************)
(* Inputs for the reference component: right and wrong endpoints, clocks,  *)
(* callbacks, goal ids and request references, at every ordinal up to a    *)
(* bound.                                                                  *)
(***************************************************************************)
EXTENDS GoalClientEnv

CONSTANT MaxOrdinal

At(ordinal, type, src, dst, channel, body, request) ==
    [ordinal |-> ordinal, type |-> type, src |-> src, dst |-> dst, channel |-> channel,
     body |-> body, request |-> request]

Ordinals == 0..MaxOrdinal
NoRequest == <<>>
Requests == {CH_ACTION_GOAL, CH_ACTION_CANCEL} \X (0..1)

Commands ==
    {At(n, "Message", src, dst, CH_GOAL_COMMAND, [raw |-> raw, goal |-> "g"], NoRequest) :
        n \in Ordinals, src \in {ACTOR_COMMAND, ACTOR_CLOCK}, dst \in {1, 2}, raw \in BOOLEAN}

Clocks ==
    {At(n, "Clock", src, 1, CH_CLOCK,
        [clock_id |-> clock, value_ns |-> value, callback |-> cb], NoRequest) :
        n \in Ordinals, src \in {ACTOR_CLOCK, ACTOR_COMMAND}, clock \in {CLOCK_ROS, 2},
        value \in {-1, 0, Deadline, MaxI64}, cb \in Ordinals}

Responses ==
    {At(n, type, src, 1, CH_ACTION_RESPONSE, [goal_id |-> id, accepted |-> ok], request) :
        n \in Ordinals, type \in {"GoalResponse", "Result"}, id \in 0..1, ok \in BOOLEAN,
        src \in {ACTOR_ACTION_SERVER, ACTOR_COMMAND}, request \in Requests}
    \cup
    {At(n, "CancelResponse", ACTOR_ACTION_SERVER, 1, CH_ACTION_RESPONSE, [goals |-> ids], request) :
        n \in Ordinals, ids \in SUBSET (0..1), request \in Requests}

Others ==
    {At(n, type, 0, 1, 0, [method |-> "fresh"], NoRequest) :
        n \in Ordinals, type \in {"StartingState", "Lifecycle"}}

MCInput == Commands \cup Clocks \cup Responses \cup Others
=============================================================================

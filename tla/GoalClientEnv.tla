---------------------------- MODULE GoalClientEnv ----------------------------
(***************************************************************************)
(* The reference component under any sequence of inputs: late, repeated,   *)
(* misaddressed or misattributed ones included.  Next to the component run *)
(* the observations of a bystander at its boundary, who sees the inputs    *)
(* that were consumed and the effects that came out, and nothing else.     *)
(***************************************************************************)
EXTENDS GoalClient, FiniteSets

CONSTANT Input   \* the inputs that may be delivered

ResponseTypes == {"GoalResponse", "Result", "CancelResponse"}

ASSUME InputAssumption ==
    \A in \in Input : /\ in.ordinal \in Nat
                      /\ in.type = "Message" => in.body.goal \in Goal
                      /\ in.type = "Clock" => in.body.value_ns \in Int

VARIABLES
    next_ordinal,   \* recorded ordinals only grow
    last,           \* the input of the last step: {} or a singleton
    sent,           \* goals seen going out, with callback, sequence and send time
    cancels,        \* cancels seen going out: goal and sequence
    acked,          \* goals whose response was consumed
    expired,        \* goals for which a consumed clock read reached the deadline
    answered        \* cancelled goals named by a cancel response that was consumed

observer == <<next_ordinal, last, sent, cancels, acked, expired, answered>>
vars == <<component, observer>>

Init ==
    /\ \E v \in Variant : NewComponent(v)
    /\ next_ordinal = 0
    /\ last = {} /\ sent = {} /\ cancels = {} /\ acked = {} /\ expired = {} /\ answered = {}

OfType(effects, type) == {effects[i] : i \in {j \in DOMAIN effects : effects[j].type = type}}

Emitted(type) == OfType(outcome'.effects, type)

\* The bystander's notes on a step.
Observe(in) ==
    /\ next_ordinal' = in.ordinal + 1
    /\ last' = {in}
    /\ sent' = sent \cup {[goal_id |-> e.body.goal_id, seq |-> e.seq,
                           callback |-> outcome'.callback, sent_ns |-> in.body.value_ns] :
                              e \in Emitted("GoalSend")}
    /\ cancels' = cancels \cup {[goal_id |-> e.body.goal_id, seq |-> e.seq] :
                                    e \in Emitted("CancelSend")}
    /\ acked' = acked \cup (IF in.type = "GoalResponse" /\ outcome'.consumed = "Yes"
                            THEN {in.body.goal_id} ELSE {})
    /\ expired' = expired \cup
         (IF in.type = "Clock" /\ outcome'.consumed = "Yes"
          THEN {s.goal_id : s \in {g \in sent : /\ g.callback = in.body.callback
                                                /\ in.body.value_ns >= g.sent_ns + Deadline}}
          ELSE {})
    /\ answered' = answered \cup
         (IF in.type = "CancelResponse" /\ outcome'.consumed = "Yes"
          THEN in.body.goals \cap {c.goal_id : c \in cancels} ELSE {})

Deliver(in) ==
    /\ in.ordinal >= next_ordinal
    /\ Step(in)
    /\ Observe(in)

Next == \E in \in Input : Deliver(in)

Spec == Init /\ [][Next]_vars

-----------------------------------------------------------------------------
AwaitClockForSend   == [tag : {"AwaitClockForSend"}, callback : Nat, goal : Goal]
AwaitGoalResponse   == [tag : {"AwaitGoalResponse"}, callback : Nat, goal_id : Nat,
                        send_seq : Nat, deadline_ns : Int]
AwaitResult         == [tag : {"AwaitResult"}, callback : Nat, goal_id : Nat, send_seq : Nat]
AwaitCancelResponse == [tag : {"AwaitCancelResponse"}, callback : Nat, goal_id : Nat,
                        cancel_seq : Nat]

\* Every state component stays in its type.
TypeOK ==
    /\ variant \in Variant
    /\ state \in {Idle} \cup AwaitClockForSend \cup AwaitGoalResponse \cup AwaitResult
                    \cup AwaitCancelResponse
    /\ goals_issued \in Nat
    /\ sequences \in [EffectChannel -> Nat]
    /\ next_ordinal \in Nat
    /\ sent \subseteq [goal_id : Nat, seq : Nat, callback : Nat, sent_ns : Int]
    /\ cancels \subseteq [goal_id : Nat, seq : Nat]
    /\ acked \subseteq Nat /\ expired \subseteq Nat /\ answered \subseteq Nat

SentIds == {s.goal_id : s \in sent}
CancelledIds == {c.goal_id : c \in cancels}

\* The behaviour the fix is about (on_clock): the fixed component cancels
\* exactly the goals whose response deadline was seen to pass, the recorded
\* bug (old) and noop cancel none, always-cancel cancels all.
TimeoutCancels ==
    CASE variant = "fixed"         -> CancelledIds = expired
      [] variant = "always-cancel" -> CancelledIds = SentIds
      [] OTHER                     -> cancels = {}

\* A goal is settled one way only: an acknowledged goal is never cancelled and
\* never times out, whatever late or repeated responses and clock reads follow.
AckExcludesTimeout == acked \cap (CancelledIds \cup expired) = {}

\* Requests can be told apart by what a response is bound to: no goal id and no
\* sequence is used by two sends or two cancels, and only sent goals are
\* acknowledged or cancelled.
RequestsDistinct ==
    /\ \A a, b \in sent : (a.goal_id = b.goal_id \/ a.seq = b.seq) => a = b
    /\ \A a, b \in cancels : (a.goal_id = b.goal_id \/ a.seq = b.seq) => a = b
    /\ acked \cup CancelledIds \subseteq SentIds

\* A consumed response came from the action server and names, by channel and
\* sequence, a request this run issued for that very goal ("neither does the
\* goal we are currently expecting", native-contract.md section 5).
ResponseBound ==
    \A in \in last : (in.type \in ResponseTypes /\ outcome.consumed = "Yes") =>
        /\ in.src = ACTOR_ACTION_SERVER
        /\ IF in.type = "CancelResponse"
           THEN \E c \in cancels : /\ c.goal_id \in in.body.goals
                                   /\ in.request = <<CH_ACTION_CANCEL, c.seq>>
           ELSE \E s \in sent : /\ s.goal_id = in.body.goal_id
                                /\ in.request = <<CH_ACTION_GOAL, s.seq>>

\* The component refuses a recorded response exactly when it cannot follow this
\* run's cancel: it answers a goal this run has cancelled and has not heard from
\* since.  Every such response must be refused, and no other may be.
RefusedExactlyAfterCancel ==
    \A in \in last : outcome.consumed = "Refused" <=>
        /\ \E type \in {"GoalResponse", "Result"} : Handles(in, CH_ACTION_RESPONSE, type)
        /\ in.body.goal_id \in CancelledIds \ answered

\* What the component says of a response is right: it takes the one it asked for
\* and refuses what its own cancel has made impossible, all of it and nothing else.
ResponsesCorrelate == ResponseBound /\ RefusedExactlyAfterCancel
=============================================================================

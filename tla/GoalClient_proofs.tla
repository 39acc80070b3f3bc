-------------------------- MODULE GoalClient_proofs --------------------------
(***************************************************************************)
(* Proofs about the reference component, for every deadline, every set of  *)
(* goals and every set of inputs.                                          *)
(*                                                                         *)
(* The argument: a callback is named by the ordinal that started it, goal  *)
(* ids and sequences are counted, so nothing the component is waiting for  *)
(* can be confused with anything it sent before (Fresh, SentDistinct);     *)
(* where it waits tells what has happened to the goal in flight (InFlight).*)
(***************************************************************************)
EXTENDS GoalClientEnv, TLAPS

\* Everything sent so far is below the counters.
Fresh ==
    /\ \A s \in sent : /\ s.goal_id < goals_issued /\ s.seq < sequences[CH_ACTION_GOAL]
                       /\ s.callback < next_ordinal
    /\ \A c \in cancels : c.seq < sequences[CH_ACTION_CANCEL]
    /\ state # Idle => state.callback < next_ordinal

SentDistinct ==
    \A a, b \in sent : (a.goal_id = b.goal_id \/ a.seq = b.seq \/ a.callback = b.callback) => a = b

CancelsDistinct ==
    \A a, b \in cancels : (a.goal_id = b.goal_id \/ a.seq = b.seq) => a = b

OnlySent == acked \cup CancelledIds \cup expired \subseteq SentIds

\* The goal in flight, by the state the component waits in.
InFlight ==
    /\ state.tag = "AwaitClockForSend" => \A s \in sent : s.callback # state.callback
    /\ state.tag = "AwaitGoalResponse" =>
         /\ [goal_id |-> state.goal_id, seq |-> state.send_seq, callback |-> state.callback,
             sent_ns |-> state.deadline_ns - Deadline] \in sent
         /\ state.goal_id \notin acked \cup CancelledIds \cup expired
    /\ state.tag = "AwaitResult" =>
         \E s \in sent : s.goal_id = state.goal_id /\ s.seq = state.send_seq
    /\ state.tag = "AwaitCancelResponse" =>
         /\ [goal_id |-> state.goal_id, seq |-> state.cancel_seq] \in cancels
         /\ state.goal_id \notin acked

\* What the variant rules out.
ByVariant ==
    /\ variant = "noop" => state = Idle
    /\ variant = "always-cancel" => state.tag \notin {"AwaitGoalResponse", "AwaitResult"}
    /\ variant = "old" => state.tag # "AwaitCancelResponse"

\* A cancel without its response is the one the component waits for.
OneCancelOpen ==
    /\ answered \subseteq CancelledIds
    /\ state.tag = "AwaitCancelResponse" => state.goal_id \notin answered
    /\ \A id \in CancelledIds \ answered :
          state.tag = "AwaitCancelResponse" /\ state.goal_id = id

IInv == /\ TypeOK /\ Fresh /\ SentDistinct /\ CancelsDistinct /\ OnlySent /\ InFlight
        /\ ByVariant /\ TimeoutCancels /\ AckExcludesTimeout

-----------------------------------------------------------------------------
(***************************************************************************)
(* Every delivery is one of eight transitions of what the invariant is     *)
(* about; the handlers are reduced to these first.                         *)
(***************************************************************************)
Advance(in) ==
    /\ in.ordinal \in Nat /\ in.ordinal >= next_ordinal /\ next_ordinal' = in.ordinal + 1
    /\ variant' = variant
    /\ sequences' \in [EffectChannel -> Nat]

SameSends   == /\ sent' = sent /\ goals_issued' = goals_issued
               /\ sequences'[CH_ACTION_GOAL] = sequences[CH_ACTION_GOAL]
SameCancels == /\ cancels' = cancels
               /\ sequences'[CH_ACTION_CANCEL] = sequences[CH_ACTION_CANCEL]

Quiet(in) ==
    /\ Advance(in) /\ SameSends /\ SameCancels
    /\ acked' = acked /\ expired' = expired /\ answered' = answered /\ state' = state

\* The response to the open cancel.
CancelAnswered(in) ==
    /\ state.tag = "AwaitCancelResponse" /\ state.goal_id \in in.body.goals
    /\ answered' = answered \cup (in.body.goals \cap CancelledIds)

Settle(in) ==
    /\ Advance(in) /\ SameSends /\ SameCancels
    /\ acked' = acked /\ expired' = expired /\ state' = Idle
    /\ \/ answered' = answered /\ state.tag # "AwaitCancelResponse"
       \/ CancelAnswered(in)

Start(in) ==
    /\ Advance(in) /\ SameSends /\ SameCancels
    /\ acked' = acked /\ expired' = expired /\ answered' = answered
    /\ variant # "noop" /\ state = Idle
    /\ state' \in AwaitClockForSend /\ state'.callback = in.ordinal

Issued(in) == [goal_id |-> goals_issued, seq |-> sequences[CH_ACTION_GOAL],
               callback |-> state.callback, sent_ns |-> in.body.value_ns]

Send(in) ==
    /\ Advance(in) /\ in.body.value_ns \in Int
    /\ state.tag = "AwaitClockForSend"
    /\ sent' = sent \cup {Issued(in)} /\ goals_issued' = goals_issued + 1
    /\ sequences'[CH_ACTION_GOAL] = sequences[CH_ACTION_GOAL] + 1
    /\ acked' = acked /\ expired' = expired /\ answered' = answered

SendAndWait(in) ==
    /\ Send(in) /\ SameCancels /\ variant # "always-cancel"
    /\ state' = [tag |-> "AwaitGoalResponse", callback |-> state.callback,
                 goal_id |-> goals_issued, send_seq |-> sequences[CH_ACTION_GOAL],
                 deadline_ns |-> in.body.value_ns + Deadline]

\* A cancel for goal id goes out.
Cancel(id) ==
    /\ cancels' = cancels \cup {[goal_id |-> id, seq |-> sequences[CH_ACTION_CANCEL]]}
    /\ sequences'[CH_ACTION_CANCEL] = sequences[CH_ACTION_CANCEL] + 1
    /\ state' = [tag |-> "AwaitCancelResponse", callback |-> state.callback, goal_id |-> id,
                 cancel_seq |-> sequences[CH_ACTION_CANCEL]]

SendAndCancel(in) ==
    Send(in) /\ variant = "always-cancel" /\ Cancel(goals_issued)

Expire(in) ==
    /\ Advance(in) /\ SameSends
    /\ state.tag = "AwaitGoalResponse"
    /\ acked' = acked /\ expired' = expired \cup {state.goal_id} /\ answered' = answered

ExpireAndCancel(in) == Expire(in) /\ variant = "fixed" /\ Cancel(state.goal_id)

ExpireOnly(in) == Expire(in) /\ variant # "fixed" /\ SameCancels /\ state' = Idle

Acknowledge(in) ==
    /\ Advance(in) /\ SameSends /\ SameCancels
    /\ state.tag = "AwaitGoalResponse"
    /\ acked' = acked \cup {state.goal_id} /\ expired' = expired /\ answered' = answered
    /\ \/ state' = Idle
       \/ state' = [tag |-> "AwaitResult", callback |-> state.callback,
                    goal_id |-> state.goal_id, send_seq |-> state.send_seq]

Transition(in) ==
    \/ Quiet(in) \/ Settle(in) \/ Start(in) \/ SendAndWait(in) \/ SendAndCancel(in)
    \/ ExpireAndCancel(in) \/ ExpireOnly(in) \/ Acknowledge(in)

-----------------------------------------------------------------------------
\* The state's fields have their types, by tag.
LEMMA StateFields ==
    ASSUME TypeOK
    PROVE  /\ state = Idle <=> state.tag = "Idle"
           /\ state # Idle => state.callback \in Nat
           /\ state.tag = "AwaitClockForSend" => state \in AwaitClockForSend
           /\ state.tag = "AwaitGoalResponse" => state \in AwaitGoalResponse
           /\ state.tag = "AwaitResult" => state \in AwaitResult
           /\ state.tag = "AwaitCancelResponse" => state \in AwaitCancelResponse
  BY DEF TypeOK, Idle, AwaitClockForSend, AwaitGoalResponse, AwaitResult, AwaitCancelResponse

\* Adding one request adds its goal id.
LEMMA AddedId ==
    ASSUME NEW S, NEW e
    PROVE  {x.goal_id : x \in S \cup {e}} = {x.goal_id : x \in S} \cup {e.goal_id}
  OBVIOUS

\* A transition keeps the types.
LEMMA TransitionType ==
    ASSUME IInv, NEW in, Transition(in)
    PROVE  TypeOK'
  <1>. USE DEF IInv, Advance, SameSends, SameCancels, EffectChannel, CH_ACTION_GOAL,
               CH_ACTION_CANCEL, CH_STATUS
  <1>0. Deadline \in Nat
    BY DeadlineAssumption
  <1>1. CASE Quiet(in)
    BY <1>1 DEF TypeOK, Quiet
  <1>2. CASE Settle(in)
    <2>1. CancelledIds \subseteq Nat
      BY DEF TypeOK, CancelledIds
    <2>2. answered' \subseteq Nat
      BY <1>2, <2>1 DEF TypeOK, Settle, CancelAnswered
    <2>. QED  BY <1>2, <2>2 DEF TypeOK, Settle
  <1>3. CASE Start(in)
    BY <1>3 DEF TypeOK, Start
  <1>4. CASE SendAndWait(in)
    <2>1. state \in AwaitClockForSend
      BY <1>4, StateFields DEF SendAndWait, Send
    <2>2. Issued(in) \in [goal_id : Nat, seq : Nat, callback : Nat, sent_ns : Int]
      BY <1>4, <2>1 DEF SendAndWait, Send, Issued, TypeOK, AwaitClockForSend
    <2>3. state' \in AwaitGoalResponse
      BY <1>0, <1>4, <2>1 DEF SendAndWait, Send, TypeOK, AwaitClockForSend, AwaitGoalResponse
    <2>. QED  BY <1>4, <2>2, <2>3 DEF SendAndWait, Send, TypeOK
  <1>5. CASE SendAndCancel(in)
    <2>1. state \in AwaitClockForSend
      BY <1>5, StateFields DEF SendAndCancel, Send
    <2>2. Issued(in) \in [goal_id : Nat, seq : Nat, callback : Nat, sent_ns : Int]
      BY <1>5, <2>1 DEF SendAndCancel, Send, Issued, TypeOK, AwaitClockForSend
    <2>3. state' \in AwaitCancelResponse
      BY <1>5, <2>1 DEF SendAndCancel, Send, Cancel, TypeOK, AwaitClockForSend,
                       AwaitCancelResponse
    <2>4. cancels' \subseteq [goal_id : Nat, seq : Nat]
      BY <1>5 DEF SendAndCancel, Cancel, TypeOK
    <2>5. sent' \subseteq [goal_id : Nat, seq : Nat, callback : Nat, sent_ns : Int]
      BY <1>5, <2>2 DEF SendAndCancel, Send, TypeOK
    <2>. QED  BY <1>5, <2>3, <2>4, <2>5 DEF SendAndCancel, Send, TypeOK
  <1>6. CASE ExpireAndCancel(in)
    <2>1. state \in AwaitGoalResponse
      BY <1>6, StateFields DEF ExpireAndCancel, Expire
    <2>2. state' \in AwaitCancelResponse
      BY <1>6, <2>1 DEF ExpireAndCancel, Cancel, TypeOK, AwaitGoalResponse, AwaitCancelResponse
    <2>3. state.goal_id \in Nat
      BY <2>1 DEF AwaitGoalResponse
    <2>4. cancels' \subseteq [goal_id : Nat, seq : Nat]
      BY <1>6, <2>3 DEF ExpireAndCancel, Cancel, TypeOK
    <2>5. acked' \subseteq Nat /\ expired' \subseteq Nat
      BY <1>6, <2>3 DEF ExpireAndCancel, Expire, TypeOK
    <2>6. variant' \in Variant /\ goals_issued' \in Nat /\ next_ordinal' \in Nat
      BY <1>6 DEF ExpireAndCancel, Expire, TypeOK
    <2>7. sent' \subseteq [goal_id : Nat, seq : Nat, callback : Nat, sent_ns : Int]
      BY <1>6 DEF ExpireAndCancel, Expire, TypeOK
    <2>. QED  BY <1>6, <2>2, <2>4, <2>5, <2>6, <2>7 DEF ExpireAndCancel, Expire, TypeOK
  <1>7. CASE ExpireOnly(in)
    <2>1. state \in AwaitGoalResponse
      BY <1>7, StateFields DEF ExpireOnly, Expire
    <2>2. state.goal_id \in Nat
      BY <2>1 DEF AwaitGoalResponse
    <2>3. acked' \subseteq Nat /\ expired' \subseteq Nat
      BY <1>7, <2>2 DEF ExpireOnly, Expire, TypeOK
    <2>4. variant' \in Variant /\ goals_issued' \in Nat /\ next_ordinal' \in Nat
      BY <1>7 DEF ExpireOnly, Expire, TypeOK
    <2>. QED  BY <1>7, <2>3, <2>4 DEF ExpireOnly, Expire, TypeOK
  <1>8. CASE Acknowledge(in)
    <2>1. state \in AwaitGoalResponse
      BY <1>8, StateFields DEF Acknowledge
    <2>2. state' \in {Idle} \cup AwaitResult
      BY <1>8, <2>1 DEF Acknowledge, AwaitGoalResponse, AwaitResult
    <2>3. state.goal_id \in Nat
      BY <2>1 DEF AwaitGoalResponse
    <2>. QED  BY <1>8, <2>2, <2>3 DEF Acknowledge, TypeOK
  <1>. QED
    BY <1>1, <1>2, <1>3, <1>4, <1>5, <1>6, <1>7, <1>8 DEF Transition

\* A step that leaves sends, cancels and settlements alone keeps everything but
\* what is said about the state.
LEMMA SameRequestsInv ==
    ASSUME IInv, TypeOK', NEW in, Advance(in), SameSends, SameCancels,
           acked' = acked, expired' = expired,
           state' # Idle => state'.callback < next_ordinal', InFlight', ByVariant'
    PROVE  IInv'
  <1>1. Fresh'
    <2>1. \A s \in sent : s.callback \in Nat
      BY DEF IInv, TypeOK
    <2>. QED  BY <2>1 DEF IInv, Fresh, Advance, SameSends, SameCancels, TypeOK
  <1>2. SentDistinct' /\ CancelsDistinct' /\ OnlySent' /\ TimeoutCancels' /\ AckExcludesTimeout'
    BY DEF IInv, SentDistinct, CancelsDistinct, OnlySent, TimeoutCancels, AckExcludesTimeout,
           CancelledIds, SentIds, Advance, SameSends, SameCancels
  <1>. QED  BY <1>1, <1>2 DEF IInv

\* A step that changes neither the state nor the requests keeps the invariant.
LEMMA QuietInv ==
    ASSUME IInv, NEW in, Quiet(in)
    PROVE  IInv'
  <1>1. TypeOK'
    BY TransitionType DEF Transition
  <1>2. state' # Idle => state'.callback < next_ordinal'
    BY StateFields DEF Quiet, Advance, IInv, Fresh, TypeOK
  <1>3. InFlight' /\ ByVariant'
    BY DEF Quiet, Advance, SameSends, SameCancels, IInv, InFlight, ByVariant, CancelledIds
  <1>. QED  BY <1>1, <1>2, <1>3, SameRequestsInv DEF Quiet

\* Returning to Idle keeps the invariant.
LEMMA SettleInv ==
    ASSUME IInv, NEW in, Settle(in)
    PROVE  IInv'
  <1>1. TypeOK'
    BY TransitionType DEF Transition
  <1>2. InFlight' /\ ByVariant'
    BY DEF Settle, InFlight, ByVariant, Idle
  <1>. QED  BY <1>1, <1>2, SameRequestsInv DEF Settle

\* A command that starts a callback keeps the invariant.
LEMMA StartInv ==
    ASSUME IInv, NEW in, Start(in)
    PROVE  IInv'
  <1>1. TypeOK'
    BY TransitionType DEF Transition
  <1>2. state'.callback < next_ordinal'
    BY DEF Start, Advance
  <1>3. state'.tag = "AwaitClockForSend"
    BY DEF Start, AwaitClockForSend
  <1>4. \A s \in sent' : s.callback # state'.callback
    <2>1. \A s \in sent : s.callback \in Nat /\ s.callback < next_ordinal
      BY DEF IInv, TypeOK, Fresh
    <2>. QED  BY <2>1 DEF Start, Advance, SameSends, IInv, TypeOK
  <1>5. InFlight' /\ ByVariant'
    BY <1>3, <1>4 DEF Start, Advance, InFlight, ByVariant
  <1>. QED  BY <1>1, <1>2, <1>5, SameRequestsInv DEF Start

\* What the send of a fresh goal does to the sets of goals.
LEMMA SendFacts ==
    ASSUME IInv, NEW in, Send(in)
    PROVE  /\ goals_issued \notin SentIds
           /\ goals_issued \notin acked \cup CancelledIds \cup expired
           /\ SentIds' = SentIds \cup {goals_issued}
           /\ SentDistinct'
           /\ \A s \in sent' : /\ s.goal_id < goals_issued'
                               /\ s.seq < sequences'[CH_ACTION_GOAL]
                               /\ s.callback < next_ordinal'
           /\ state.callback \in Nat /\ state.callback < next_ordinal'
  <1>1. state.callback \in Nat /\ state.callback < next_ordinal'
    BY StateFields DEF IInv, Fresh, Send, Advance, Idle, TypeOK
  <1>2. \A s \in sent : /\ s.goal_id \in Nat /\ s.seq \in Nat /\ s.callback \in Nat
                        /\ s.goal_id < goals_issued /\ s.seq < sequences[CH_ACTION_GOAL]
                        /\ s.callback < next_ordinal /\ s.callback # state.callback
    BY DEF IInv, TypeOK, Fresh, InFlight, Send
  <1>3. goals_issued \in Nat /\ sequences[CH_ACTION_GOAL] \in Nat /\ next_ordinal \in Nat
    BY DEF IInv, TypeOK, EffectChannel
  <1>4. goals_issued \notin SentIds
    BY <1>2, <1>3 DEF SentIds
  <1>5. goals_issued \notin acked \cup CancelledIds \cup expired
    BY <1>4 DEF IInv, OnlySent
  <1>6. SentIds' = SentIds \cup {goals_issued}
    <2>1. Issued(in).goal_id = goals_issued
      BY DEF Issued
    <2>. QED  BY <2>1, AddedId DEF Send, SentIds
  <1>7. SentDistinct'
    <2>1. sent' = sent \cup {Issued(in)}
      BY DEF Send
    <2>2. \A s \in sent : /\ s.goal_id # Issued(in).goal_id /\ s.seq # Issued(in).seq
                          /\ s.callback # Issued(in).callback
      BY <1>2, <1>3 DEF Issued
    <2>. QED  BY <2>1, <2>2 DEF SentDistinct, IInv
  <1>8. \A s \in sent' : /\ s.goal_id < goals_issued' /\ s.seq < sequences'[CH_ACTION_GOAL]
                         /\ s.callback < next_ordinal'
    BY <1>1, <1>2, <1>3 DEF Send, Issued, Advance
  <1>. QED  BY <1>1, <1>4, <1>5, <1>6, <1>7, <1>8

\* Sending a goal and waiting for its response keeps the invariant.
LEMMA SendAndWaitInv ==
    ASSUME IInv, NEW in, SendAndWait(in)
    PROVE  IInv'
  <1>1. TypeOK'
    BY TransitionType DEF Transition
  <1>2. Send(in) /\ SameCancels /\ variant' = variant /\ acked' = acked /\ expired' = expired
    BY DEF SendAndWait, Send, Advance
  <1>3. CancelledIds' = CancelledIds
    BY <1>2 DEF SameCancels, CancelledIds
  <1>4. Fresh'
    BY <1>2, SendFacts DEF SendAndWait, Fresh, SameCancels, IInv
  <1>5. SentDistinct' /\ CancelsDistinct' /\ OnlySent'
    BY <1>2, <1>3, SendFacts DEF SameCancels, CancelsDistinct, OnlySent, IInv
  <1>6. InFlight'
    <2>1. in.body.value_ns \in Int /\ Deadline \in Int
      BY <1>2, DeadlineAssumption DEF Send
    <2>2. Issued(in) \in sent'
      BY <1>2 DEF Send
    <2>3. state'.tag = "AwaitGoalResponse" /\ state'.goal_id = goals_issued
      BY DEF SendAndWait
    <2>. state'.deadline_ns - Deadline = in.body.value_ns
      <3>1. state'.deadline_ns = in.body.value_ns + Deadline
        BY DEF SendAndWait
      <3>. QED  BY <2>1, <3>1
    <2>4. Issued(in) = [goal_id |-> state'.goal_id, seq |-> state'.send_seq,
                        callback |-> state'.callback, sent_ns |-> state'.deadline_ns - Deadline]
      BY DEF SendAndWait, Issued
    <2>5. goals_issued \notin acked' \cup CancelledIds' \cup expired'
      BY <1>2, <1>3, SendFacts
    <2>. QED  BY <2>2, <2>3, <2>4, <2>5 DEF InFlight
  <1>7. ByVariant'
    BY <1>2 DEF SendAndWait, ByVariant, IInv, Send, Idle
  <1>8. TimeoutCancels' /\ AckExcludesTimeout'
    BY <1>2, <1>3 DEF SendAndWait, SameCancels, TimeoutCancels, AckExcludesTimeout, IInv
  <1>. QED  BY <1>1, <1>4, <1>5, <1>6, <1>7, <1>8 DEF IInv

\* Sending a goal and cancelling it at once keeps the invariant (always-cancel).
LEMMA SendAndCancelInv ==
    ASSUME IInv, NEW in, SendAndCancel(in)
    PROVE  IInv'
  <1>1. TypeOK'
    BY TransitionType DEF Transition
  <1>2. /\ Send(in) /\ Cancel(goals_issued) /\ variant' = variant /\ variant = "always-cancel"
        /\ acked' = acked /\ expired' = expired
    BY DEF SendAndCancel, Send, Advance
  <1>3. CancelledIds' = CancelledIds \cup {goals_issued}
    <2>. DEFINE c == [goal_id |-> goals_issued, seq |-> sequences[CH_ACTION_CANCEL]]
    <2>1. cancels' = cancels \cup {c} /\ c.goal_id = goals_issued
      BY <1>2 DEF Cancel
    <2>. QED  BY <2>1, AddedId DEF CancelledIds
  <1>4. \A c \in cancels : /\ c.goal_id # goals_issued /\ c.seq \in Nat
                           /\ c.seq < sequences[CH_ACTION_CANCEL]
    <2>1. \A c \in cancels : c.goal_id \in CancelledIds
      BY DEF CancelledIds
    <2>2. goals_issued \notin CancelledIds
      BY <1>2, SendFacts
    <2>. QED  BY <2>1, <2>2 DEF IInv, Fresh, TypeOK
  <1>5. sequences[CH_ACTION_CANCEL] \in Nat
    BY DEF IInv, TypeOK, EffectChannel
  <1>6. CancelsDistinct'
    BY <1>2, <1>4, <1>5 DEF Cancel, CancelsDistinct, IInv
  <1>7. Fresh'
    <2>1. \A c \in cancels' : c.seq < sequences'[CH_ACTION_CANCEL]
      BY <1>2, <1>4, <1>5 DEF Cancel
    <2>2. state'.callback = state.callback
      BY <1>2 DEF Cancel
    <2>. QED  BY <1>2, <2>1, <2>2, SendFacts DEF Fresh
  <1>8. SentDistinct' /\ OnlySent'
    BY <1>2, <1>3, SendFacts DEF OnlySent, IInv
  <1>9. InFlight' /\ ByVariant'
    BY <1>2, SendFacts DEF Cancel, InFlight, ByVariant
  <1>10. TimeoutCancels' /\ AckExcludesTimeout'
    <2>1. AckExcludesTimeout'
      BY <1>2, <1>3, SendFacts DEF AckExcludesTimeout, IInv
    <2>2. TimeoutCancels'
      BY <1>2, <1>3, SendFacts DEF TimeoutCancels, IInv
    <2>. QED  BY <2>1, <2>2
  <1>. QED  BY <1>1, <1>6, <1>7, <1>8, <1>9, <1>10 DEF IInv

\* What the expiry of the goal in flight rests on.
LEMMA ExpireFacts ==
    ASSUME IInv, NEW in, Expire(in)
    PROVE  /\ state.goal_id \in SentIds
           /\ state.goal_id \notin acked /\ state.goal_id \notin CancelledIds
           /\ Advance(in) /\ SentIds' = SentIds /\ SentDistinct'
           /\ \A s \in sent' : /\ s.goal_id < goals_issued'
                               /\ s.seq < sequences'[CH_ACTION_GOAL]
                               /\ s.callback < next_ordinal'
           /\ state.callback \in Nat /\ state.callback < next_ordinal'
           /\ variant' = variant /\ acked' = acked /\ expired' = expired \cup {state.goal_id}
           /\ variant \in {"old", "fixed"}
  <1>1. state \in AwaitGoalResponse
    BY StateFields DEF IInv, Expire
  <1>2. state.callback \in Nat /\ state.callback < next_ordinal'
    BY <1>1, StateFields DEF IInv, Fresh, Expire, Advance, Idle, TypeOK
  <1>3. state.goal_id \notin acked /\ state.goal_id \notin CancelledIds
    BY DEF IInv, InFlight, Expire
  <1>4. state.goal_id \in SentIds
    <2>. DEFINE s == [goal_id |-> state.goal_id, seq |-> state.send_seq,
                      callback |-> state.callback, sent_ns |-> state.deadline_ns - Deadline]
    <2>1. s \in sent /\ s.goal_id = state.goal_id
      BY DEF IInv, InFlight, Expire
    <2>. QED  BY <2>1 DEF SentIds
  <1>5. SentIds' = SentIds /\ SentDistinct'
    BY DEF Expire, SameSends, SentIds, SentDistinct, IInv
  <1>6. \A s \in sent' : /\ s.goal_id < goals_issued' /\ s.seq < sequences'[CH_ACTION_GOAL]
                         /\ s.callback < next_ordinal'
    <2>1. \A s \in sent : s.callback \in Nat
      BY DEF IInv, TypeOK
    <2>. QED  BY <2>1 DEF Expire, SameSends, Advance, IInv, Fresh, TypeOK
  <1>7. variant \in {"old", "fixed"}
    BY DEF IInv, TypeOK, Variant, ByVariant, Expire, Idle
  <1>. QED  BY <1>2, <1>3, <1>4, <1>5, <1>6, <1>7 DEF Expire, Advance

\* Cancelling the goal whose deadline passed keeps the invariant (fixed).
LEMMA ExpireAndCancelInv ==
    ASSUME IInv, NEW in, ExpireAndCancel(in)
    PROVE  IInv'
  <1>1. TypeOK'
    BY TransitionType DEF Transition
  <1>2. Expire(in) /\ Cancel(state.goal_id) /\ variant = "fixed"
    BY DEF ExpireAndCancel
  <1>3. CancelledIds' = CancelledIds \cup {state.goal_id}
    <2>. DEFINE c == [goal_id |-> state.goal_id, seq |-> sequences[CH_ACTION_CANCEL]]
    <2>1. cancels' = cancels \cup {c} /\ c.goal_id = state.goal_id
      BY <1>2 DEF Cancel
    <2>. QED  BY <2>1, AddedId DEF CancelledIds
  <1>4. \A c \in cancels : /\ c.goal_id # state.goal_id /\ c.seq \in Nat
                           /\ c.seq < sequences[CH_ACTION_CANCEL]
    <2>1. \A c \in cancels : c.goal_id \in CancelledIds
      BY DEF CancelledIds
    <2>2. state.goal_id \notin CancelledIds
      BY <1>2, ExpireFacts
    <2>. QED  BY <2>1, <2>2 DEF IInv, Fresh, TypeOK
  <1>5. sequences[CH_ACTION_CANCEL] \in Nat
    BY DEF IInv, TypeOK, EffectChannel
  <1>6. CancelsDistinct'
    BY <1>2, <1>4, <1>5 DEF Cancel, CancelsDistinct, IInv
  <1>7. Fresh'
    <2>1. \A c \in cancels' : c.seq < sequences'[CH_ACTION_CANCEL]
      BY <1>2, <1>4, <1>5 DEF Cancel
    <2>2. state'.callback = state.callback
      BY <1>2 DEF Cancel
    <2>. QED  BY <1>2, <2>1, <2>2, ExpireFacts DEF Fresh
  <1>8. SentDistinct' /\ OnlySent'
    BY <1>2, <1>3, ExpireFacts DEF OnlySent, IInv
  <1>9. InFlight' /\ ByVariant'
    BY <1>2, ExpireFacts DEF Cancel, InFlight, ByVariant
  <1>10. AckExcludesTimeout'
    BY <1>2, <1>3, ExpireFacts DEF AckExcludesTimeout, IInv
  <1>11. TimeoutCancels'
    BY <1>2, <1>3, ExpireFacts DEF TimeoutCancels, IInv
  <1>. QED  BY <1>1, <1>6, <1>7, <1>8, <1>9, <1>10, <1>11 DEF IInv

\* Giving up on the goal whose deadline passed keeps the invariant (old).
LEMMA ExpireOnlyInv ==
    ASSUME IInv, NEW in, ExpireOnly(in)
    PROVE  IInv'
  <1>1. TypeOK'
    BY TransitionType DEF Transition
  <1>2. Expire(in) /\ SameCancels /\ state' = Idle /\ variant # "fixed"
    BY DEF ExpireOnly
  <1>3. CancelledIds' = CancelledIds
    BY <1>2 DEF SameCancels, CancelledIds
  <1>4. Fresh'
    BY <1>2, ExpireFacts DEF Fresh, SameCancels, IInv
  <1>5. SentDistinct' /\ CancelsDistinct' /\ OnlySent'
    BY <1>2, <1>3, ExpireFacts DEF SameCancels, CancelsDistinct, OnlySent, IInv
  <1>6. InFlight' /\ ByVariant'
    BY <1>2 DEF InFlight, ByVariant, Idle
  <1>7. AckExcludesTimeout'
    BY <1>2, <1>3, ExpireFacts DEF AckExcludesTimeout, IInv
  <1>8. TimeoutCancels'
    BY <1>2, <1>3, ExpireFacts DEF SameCancels, TimeoutCancels, IInv
  <1>. QED  BY <1>1, <1>4, <1>5, <1>6, <1>7, <1>8 DEF IInv

\* Acknowledging the goal in flight keeps the invariant.
LEMMA AcknowledgeInv ==
    ASSUME IInv, NEW in, Acknowledge(in)
    PROVE  IInv'
  <1>1. TypeOK'
    BY TransitionType DEF Transition
  <1>. DEFINE s == [goal_id |-> state.goal_id, seq |-> state.send_seq,
                    callback |-> state.callback, sent_ns |-> state.deadline_ns - Deadline]
  <1>2. /\ s \in sent /\ s.goal_id = state.goal_id /\ s.seq = state.send_seq
        /\ state.goal_id \notin CancelledIds \cup expired
    BY DEF IInv, InFlight, Acknowledge
  <1>. HIDE DEF s
  <1>3. /\ Advance(in) /\ SameSends /\ SameCancels /\ variant' = variant
        /\ acked' = acked \cup {state.goal_id} /\ expired' = expired
    BY DEF Acknowledge, Advance
  <1>4. CancelledIds' = CancelledIds /\ SentIds' = SentIds /\ state.goal_id \in SentIds
    BY <1>2, <1>3 DEF SameSends, SameCancels, CancelledIds, SentIds
  <1>5. Fresh'
    <2>1. state' = Idle \/ state'.callback < next_ordinal'
      BY StateFields DEF Acknowledge, IInv, Fresh, TypeOK, Advance, Idle
    <2>2. \A t \in sent : t.callback \in Nat
      BY DEF IInv, TypeOK
    <2>. QED  BY <1>3, <2>1, <2>2 DEF Fresh, IInv, SameSends, SameCancels, Advance, TypeOK
  <1>6. SentDistinct' /\ CancelsDistinct' /\ OnlySent'
    BY <1>3, <1>4 DEF SameSends, SameCancels, SentDistinct, CancelsDistinct, OnlySent, IInv
  <1>7. InFlight'
    <2>1. CASE state' = Idle
      BY <2>1 DEF InFlight, Idle
    <2>2. CASE state' # Idle
      <3>1. state'.tag = "AwaitResult" /\ state'.goal_id = s.goal_id /\ state'.send_seq = s.seq
        BY <1>2, <2>2 DEF Acknowledge
      <3>2. s \in sent'
        BY <1>2, <1>3 DEF SameSends
      <3>. QED  BY <3>1, <3>2 DEF InFlight
    <2>. QED  BY <2>1, <2>2
  <1>8. ByVariant'
    BY <1>3 DEF Acknowledge, ByVariant, IInv, Idle
  <1>9. AckExcludesTimeout'
    BY <1>2, <1>3, <1>4 DEF AckExcludesTimeout, IInv
  <1>10. TimeoutCancels'
    BY <1>3, <1>4 DEF SameCancels, TimeoutCancels, IInv
  <1>. QED  BY <1>1, <1>5, <1>6, <1>7, <1>8, <1>9, <1>10 DEF IInv

\* Every kind of transition keeps the invariant.
LEMMA TransitionInv ==
    ASSUME IInv, NEW in, Transition(in)
    PROVE  IInv'
  BY QuietInv, SettleInv, StartInv, SendAndWaitInv, SendAndCancelInv, ExpireAndCancelInv,
     ExpireOnlyInv, AcknowledgeInv DEF Transition

\* At most one cancel is without its response, the one the component waits for:
\* it starts nothing else before.
LEMMA TransitionCancel ==
    ASSUME IInv, OneCancelOpen, NEW in, Transition(in)
    PROVE  OneCancelOpen'
  <1>1. CASE \/ Quiet(in) \/ Settle(in) \/ Start(in) \/ SendAndWait(in) \/ ExpireOnly(in)
             \/ Acknowledge(in)
    <2>1. CancelledIds' = CancelledIds
      BY <1>1 DEF Quiet, Settle, Start, SendAndWait, ExpireOnly, Acknowledge, SameCancels,
                  CancelledIds
    <2>2. CASE Quiet(in)
      BY <2>1, <2>2 DEF Quiet, OneCancelOpen
    <2>3. CASE Settle(in)
      BY <2>1, <2>3 DEF Settle, CancelAnswered, OneCancelOpen, Idle
    <2>4. CASE Start(in)
      BY <2>1, <2>4 DEF Start, OneCancelOpen, Idle, AwaitClockForSend
    <2>5. CASE SendAndWait(in) \/ ExpireOnly(in) \/ Acknowledge(in)
      <3>1. state.tag # "AwaitCancelResponse" /\ answered' = answered
        BY <2>5 DEF SendAndWait, Send, ExpireOnly, Expire, Acknowledge
      <3>2. state'.tag # "AwaitCancelResponse"
        BY <2>5 DEF SendAndWait, ExpireOnly, Acknowledge, Idle
      <3>. QED  BY <2>1, <3>1, <3>2 DEF OneCancelOpen
    <2>. QED  BY <1>1, <2>2, <2>3, <2>4, <2>5
  <1>2. ASSUME NEW id, Cancel(id), id \notin CancelledIds, answered' = answered,
               state.tag # "AwaitCancelResponse"
        PROVE  OneCancelOpen'
    <2>. DEFINE c == [goal_id |-> id, seq |-> sequences[CH_ACTION_CANCEL]]
    <2>1. cancels' = cancels \cup {c} /\ c.goal_id = id
      BY <1>2 DEF Cancel
    <2>2. CancelledIds' = CancelledIds \cup {id}
      BY <2>1, AddedId DEF CancelledIds
    <2>3. state'.tag = "AwaitCancelResponse" /\ state'.goal_id = id
      BY <1>2 DEF Cancel
    <2>. QED  BY <1>2, <2>2, <2>3 DEF OneCancelOpen
  <1>3. CASE SendAndCancel(in)
    BY <1>2, <1>3, SendFacts DEF SendAndCancel, Send
  <1>4. CASE ExpireAndCancel(in)
    BY <1>2, <1>4, ExpireFacts DEF ExpireAndCancel, Expire
  <1>. QED  BY <1>1, <1>3, <1>4 DEF Transition

-----------------------------------------------------------------------------
(***************************************************************************)
(* From the handlers to the transitions.                                   *)
(***************************************************************************)

\* The effects of one type among none, one or two.
LEMMA OfTypeNone ==
    ASSUME NEW t
    PROVE  OfType(<<>>, t) = {}
  BY DEF OfType

\* Among one effect.
LEMMA OfTypeOne ==
    ASSUME NEW e, NEW t
    PROVE  OfType(<<e>>, t) = IF e.type = t THEN {e} ELSE {}
  BY DEF OfType

\* Among two effects.
LEMMA OfTypeTwo ==
    ASSUME NEW e, NEW f, NEW t, e.type # f.type
    PROVE  OfType(<<e, f>>, t) = IF e.type = t THEN {e} ELSE IF f.type = t THEN {f} ELSE {}
  <1>. DEFINE s == <<e, f>>
  <1>1. DOMAIN s = {1, 2} /\ s[1] = e /\ s[2] = f
    OBVIOUS
  <1>. HIDE DEF s
  <1>2. OfType(s, t) = IF e.type = t THEN {e} ELSE IF f.type = t THEN {f} ELSE {}
    BY <1>1 DEF OfType
  <1>. QED  BY <1>2 DEF s

\* A consumed input counts its effects, and no channel it does not use.
LEMMA ConsumeSequences ==
    ASSUME TypeOK, NEW cb, NEW effects, NEW progress, Consume(cb, effects, progress)
    PROVE  /\ sequences' \in [EffectChannel -> Nat]
           /\ variant' = variant
           /\ outcome'.consumed = "Yes" /\ outcome'.callback = cb /\ outcome'.effects = effects
           /\ \A c \in EffectChannel :
                sequences'[c] = IF \E i \in DOMAIN effects : effects[i].channel = c
                                THEN sequences[c] + 1 ELSE sequences[c]
  BY DEF TypeOK, Consume

\* An input that is not applied is a quiet step.
LEMMA NotAppliedQuiet ==
    ASSUME IInv, NEW in \in Input, in.ordinal >= next_ordinal, NEW how \in {"No", "Refused"},
           NotApplied(in, how), Observe(in)
    PROVE  Quiet(in)
  <1>1. outcome'.effects = <<>> /\ outcome'.consumed # "Yes"
    BY DEF NotApplied
  <1>2. Emitted("GoalSend") = {} /\ Emitted("CancelSend") = {}
    BY <1>1, OfTypeNone DEF Emitted
  <1>3. /\ sent' = sent /\ cancels' = cancels /\ acked' = acked /\ expired' = expired
        /\ answered' = answered
    BY <1>1, <1>2 DEF Observe
  <1>. QED
    BY <1>3, InputAssumption DEF NotApplied, Observe, Quiet, Advance, SameSends, SameCancels,
                                 IInv, TypeOK

\* An input consumed with no request among its effects leaves the requests alone.
LEMMA NoRequests ==
    ASSUME IInv, NEW in \in Input, in.ordinal >= next_ordinal, NEW cb, NEW effects, NEW progress,
           Consume(cb, effects, progress), Observe(in), goals_issued' = goals_issued,
           effects = <<>> \/ (\E text : effects = <<status_effect(text)>>)
    PROVE  /\ Advance(in) /\ SameSends /\ SameCancels
           /\ in.type # "GoalResponse" => acked' = acked
           /\ in.type # "Clock" => expired' = expired
           /\ in.type # "CancelResponse" => answered' = answered
  <1>1. Emitted("GoalSend") = {} /\ Emitted("CancelSend") = {}
    <2>1. CASE effects = <<>>
      BY <2>1, OfTypeNone, ConsumeSequences DEF Emitted, IInv
    <2>2. CASE \E text : effects = <<status_effect(text)>>
      <3>1. PICK text : effects = <<status_effect(text)>>
        BY <2>2
      <3>2. status_effect(text).type = "Status"
        BY DEF status_effect, effect
      <3>3. outcome'.effects = <<status_effect(text)>>
        BY <3>1, ConsumeSequences DEF IInv
      <3>4. \A t : t # "Status" => OfType(<<status_effect(text)>>, t) = {}
        BY <3>2, OfTypeOne
      <3>. QED  BY <3>3, <3>4 DEF Emitted
    <2>. QED  BY <2>1, <2>2
  <1>2. sent' = sent /\ cancels' = cancels
    BY <1>1 DEF Observe
  <1>3. \A i \in DOMAIN effects : effects[i].channel = CH_STATUS
    BY DEF status_effect, effect
  <1>4. /\ sequences'[CH_ACTION_GOAL] = sequences[CH_ACTION_GOAL]
        /\ sequences'[CH_ACTION_CANCEL] = sequences[CH_ACTION_CANCEL]
    BY <1>3, ConsumeSequences DEF IInv, EffectChannel, CH_STATUS, CH_ACTION_GOAL,
                                  CH_ACTION_CANCEL
  <1>5. in.ordinal \in Nat
    BY InputAssumption
  <1>6. Advance(in)
    BY <1>5, ConsumeSequences DEF Advance, Observe, IInv
  <1>. QED  BY <1>2, <1>4, <1>6 DEF SameSends, SameCancels, Observe

\* on_goal_command takes one of the transitions.
LEMMA GoalCommandTransition ==
    ASSUME IInv, NEW in \in Input, in.ordinal >= next_ordinal, in.type = "Message",
           OnGoalCommand(in), Observe(in)
    PROVE  Transition(in)
  <1>1. CASE in.src = ACTOR_COMMAND /\ variant = "noop"
    <2>1. Consume(in.ordinal, <<>>, <<>>) /\ state' = state /\ goals_issued' = goals_issued
      BY <1>1 DEF OnGoalCommand
    <2>2. Quiet(in)
      BY <2>1, NoRequests DEF Quiet
    <2>. QED  BY <2>2 DEF Transition
  <1>2. CASE in.src = ACTOR_COMMAND /\ variant # "noop" /\ state = Idle /\ in.body.raw
    <2>1. /\ Consume(in.ordinal, <<>>, <<>>) /\ goals_issued' = goals_issued
          /\ state' = [tag |-> "AwaitClockForSend", callback |-> in.ordinal,
                       goal |-> in.body.goal]
      BY <1>2 DEF OnGoalCommand
    <2>2. in.ordinal \in Nat /\ in.body.goal \in Goal
      BY InputAssumption
    <2>3. state' \in AwaitClockForSend /\ state'.callback = in.ordinal
      BY <2>1, <2>2 DEF AwaitClockForSend
    <2>4. Start(in)
      BY <1>2, <2>1, <2>3, NoRequests DEF Start
    <2>. QED  BY <2>4 DEF Transition
  <1>3. CASE ~ (in.src = ACTOR_COMMAND /\ (variant = "noop" \/ (state = Idle /\ in.body.raw)))
    <2>1. NotApplied(in, "No")
      BY <1>3 DEF OnGoalCommand
    <2>. QED  BY <2>1, NotAppliedQuiet DEF Transition
  <1>. QED  BY <1>1, <1>2, <1>3

\* A pending clock read is answered in one of the two states that read the clock,
\* in the callback that waits there.
LEMMA PendingRead ==
    ASSUME TypeOK, NEW in, AnswersPendingRead(in)
    PROVE  /\ state.tag \in {"AwaitClockForSend", "AwaitGoalResponse"}
           /\ in.body.callback = state.callback
  <1>1. state.tag \in {"Idle", "AwaitClockForSend", "AwaitGoalResponse", "AwaitResult",
                       "AwaitCancelResponse"}
    BY DEF TypeOK, Idle, AwaitClockForSend, AwaitGoalResponse, AwaitResult, AwaitCancelResponse
  <1>2. \A cb, name : Future(cb, name) # [kind |-> "clock_read", callback |-> in.body.callback,
                                          what |-> in.body.clock_id]
    BY DEF Future
  <1>. QED  BY <1>1, <1>2 DEF AnswersPendingRead, waits, ClockRead

\* The goals whose deadline a consumed clock read shows to have passed.
Passed(in) == {g \in sent : g.callback = in.body.callback
                              /\ in.body.value_ns >= g.sent_ns + Deadline}

\* Only the goal in flight shares the callback of the read, so nothing else
\* expires with it.
LEMMA PassedGoals ==
    ASSUME IInv, NEW in, in.body.value_ns \in Int, in.body.callback = state.callback
    PROVE  /\ state.tag = "AwaitClockForSend" => Passed(in) = {}
           /\ state.tag = "AwaitGoalResponse" =>
                {g.goal_id : g \in Passed(in)} =
                    IF DeadlinePassed(in.body.value_ns) THEN {state.goal_id} ELSE {}
  <1>1. CASE state.tag = "AwaitClockForSend"
    BY <1>1 DEF Passed, IInv, InFlight
  <1>2. CASE state.tag = "AwaitGoalResponse"
    <2>. DEFINE s == [goal_id |-> state.goal_id, seq |-> state.send_seq,
                      callback |-> state.callback, sent_ns |-> state.deadline_ns - Deadline]
    <2>1. /\ s \in sent /\ s.goal_id = state.goal_id /\ s.callback = state.callback
          /\ s.sent_ns = state.deadline_ns - Deadline
      BY <1>2 DEF IInv, InFlight
    <2>2. state.deadline_ns \in Int /\ Deadline \in Int
      BY <1>2, StateFields, DeadlineAssumption DEF IInv, AwaitGoalResponse
    <2>3. s.sent_ns + Deadline = state.deadline_ns
      BY <2>1, <2>2
    <2>. HIDE DEF s
    <2>4. \A g \in sent : g.callback = state.callback => g = s
      BY <2>1 DEF IInv, SentDistinct
    <2>5. Passed(in) = IF DeadlinePassed(in.body.value_ns) THEN {s} ELSE {}
      BY <2>1, <2>3, <2>4 DEF Passed, DeadlinePassed
    <2>. QED  BY <1>2, <2>1, <2>5
  <1>. QED  BY <1>1, <1>2

\* What the observer notes of a consumed clock read.
LEMMA ClockObserved ==
    ASSUME NEW in, in.type = "Clock", Observe(in), outcome'.consumed = "Yes"
    PROVE  /\ expired' = expired \cup {g.goal_id : g \in Passed(in)}
           /\ acked' = acked /\ answered' = answered
  BY DEF Observe, Passed

\* The send branch of on_clock takes one of the transitions.
LEMMA SendGoalTransition ==
    ASSUME IInv, NEW in \in Input, in.ordinal >= next_ordinal, in.type = "Clock",
           AnswersPendingRead(in), state.tag # "AwaitGoalResponse", SendGoal(in), Observe(in)
    PROVE  Transition(in)
  <1>. DEFINE send == goal_send(goals_issued, state.goal)
              cancel == cancel_send(goals_issued, in.body.value_ns)
  <1>1. state.tag = "AwaitClockForSend" /\ in.body.callback = state.callback
    BY PendingRead DEF IInv
  <1>2. in.ordinal \in Nat /\ in.body.value_ns \in Int
    BY InputAssumption
  <1>3. Passed(in) = {}
    BY <1>1, <1>2, PassedGoals
  <1>4. /\ send.type = "GoalSend" /\ send.channel = CH_ACTION_GOAL
        /\ send.seq = sequences[CH_ACTION_GOAL] /\ send.body.goal_id = goals_issued
    BY DEF goal_send, effect
  <1>5. /\ cancel.type = "CancelSend" /\ cancel.channel = CH_ACTION_CANCEL
        /\ cancel.seq = sequences[CH_ACTION_CANCEL] /\ cancel.body.goal_id = goals_issued
    BY DEF cancel_send, effect
  <1>6. CASE variant = "always-cancel"
    <2>1. /\ goals_issued' = goals_issued + 1
          /\ Consume(state.callback, <<send, cancel>>, <<"goal_submitted", "cancel_requested">>)
          /\ state' = [tag |-> "AwaitCancelResponse", callback |-> state.callback,
                       goal_id |-> goals_issued, cancel_seq |-> sequences[CH_ACTION_CANCEL]]
      BY <1>6 DEF SendGoal, goal_id
    <2>. HIDE DEF send, cancel
    <2>2. /\ sequences' \in [EffectChannel -> Nat] /\ variant' = variant
          /\ outcome'.consumed = "Yes" /\ outcome'.callback = state.callback
          /\ outcome'.effects = <<send, cancel>>
      BY <2>1, ConsumeSequences DEF IInv
    <2>3. /\ sequences'[CH_ACTION_GOAL] = sequences[CH_ACTION_GOAL] + 1
          /\ sequences'[CH_ACTION_CANCEL] = sequences[CH_ACTION_CANCEL] + 1
      <3>. DEFINE es == <<send, cancel>>
      <3>1. DOMAIN es = {1, 2} /\ es[1] = send /\ es[2] = cancel
        OBVIOUS
      <3>2. \A c \in EffectChannel :
                sequences'[c] = IF \E i \in DOMAIN es : es[i].channel = c
                                THEN sequences[c] + 1 ELSE sequences[c]
        BY <2>1, ConsumeSequences DEF IInv
      <3>. HIDE DEF es
      <3>. QED  BY <1>4, <1>5, <3>1, <3>2 DEF EffectChannel
    <2>4. Emitted("GoalSend") = {send} /\ Emitted("CancelSend") = {cancel}
      <3>1. send.type # cancel.type
        BY <1>4, <1>5
      <3>2. \A t : OfType(<<send, cancel>>, t) =
                     IF send.type = t THEN {send} ELSE IF cancel.type = t THEN {cancel} ELSE {}
        BY <3>1, OfTypeTwo
      <3>. QED  BY <1>4, <1>5, <2>2, <3>2 DEF Emitted
    <2>5. sent' = sent \cup {Issued(in)}
      BY <1>4, <2>2, <2>4 DEF Observe, Issued
    <2>6. cancels' = cancels \cup {[goal_id |-> goals_issued, seq |-> sequences[CH_ACTION_CANCEL]]}
      BY <1>5, <2>4 DEF Observe
    <2>7. expired' = expired /\ acked' = acked /\ answered' = answered
      BY <1>3, <2>2, ClockObserved
    <2>8. Advance(in)
      BY <1>2, <2>2 DEF Advance, Observe
    <2>9. SendAndCancel(in)
      BY <1>1, <1>2, <1>6, <2>1, <2>3, <2>5, <2>6, <2>7, <2>8 DEF SendAndCancel, Send, Cancel
    <2>. QED  BY <2>9 DEF Transition
  <1>7. CASE variant # "always-cancel"
    <2>1. /\ goals_issued' = goals_issued + 1
          /\ Consume(state.callback, <<send>>, <<"goal_submitted">>)
          /\ state' = [tag |-> "AwaitGoalResponse", callback |-> state.callback,
                       goal_id |-> goals_issued, send_seq |-> sequences[CH_ACTION_GOAL],
                       deadline_ns |-> in.body.value_ns + Deadline]
      BY <1>7 DEF SendGoal, goal_id
    <2>. HIDE DEF send, cancel
    <2>2. /\ sequences' \in [EffectChannel -> Nat] /\ variant' = variant
          /\ outcome'.consumed = "Yes" /\ outcome'.callback = state.callback
          /\ outcome'.effects = <<send>>
      BY <2>1, ConsumeSequences DEF IInv
    <2>3. /\ sequences'[CH_ACTION_GOAL] = sequences[CH_ACTION_GOAL] + 1
          /\ sequences'[CH_ACTION_CANCEL] = sequences[CH_ACTION_CANCEL]
      <3>. DEFINE es == <<send>>
      <3>1. DOMAIN es = {1} /\ es[1] = send
        OBVIOUS
      <3>2. \A c \in EffectChannel :
                sequences'[c] = IF \E i \in DOMAIN es : es[i].channel = c
                                THEN sequences[c] + 1 ELSE sequences[c]
        BY <2>1, ConsumeSequences DEF IInv
      <3>. HIDE DEF es
      <3>. QED  BY <1>4, <3>1, <3>2 DEF EffectChannel, CH_ACTION_GOAL, CH_ACTION_CANCEL
    <2>4. Emitted("GoalSend") = {send} /\ Emitted("CancelSend") = {}
      BY <1>4, <2>2, OfTypeOne DEF Emitted
    <2>5. sent' = sent \cup {Issued(in)}
      BY <1>4, <2>2, <2>4 DEF Observe, Issued
    <2>6. cancels' = cancels
      BY <2>4 DEF Observe
    <2>7. expired' = expired /\ acked' = acked /\ answered' = answered
      BY <1>3, <2>2, ClockObserved
    <2>8. Advance(in)
      BY <1>2, <2>2 DEF Advance, Observe
    <2>9. SendAndWait(in)
      BY <1>1, <1>2, <1>7, <2>1, <2>3, <2>5, <2>6, <2>7, <2>8
         DEF SendAndWait, Send, SameCancels
    <2>. QED  BY <2>9 DEF Transition
  <1>. QED  BY <1>6, <1>7

\* The timeout check of on_clock takes one of the transitions.
LEMMA PollDeadlineTransition ==
    ASSUME IInv, NEW in \in Input, in.ordinal >= next_ordinal, in.type = "Clock",
           AnswersPendingRead(in), state.tag = "AwaitGoalResponse", PollDeadline(in), Observe(in)
    PROVE  Transition(in)
  <1>. DEFINE cancel == cancel_send(state.goal_id, in.body.value_ns)
  <1>1. in.body.callback = state.callback
    BY PendingRead DEF IInv
  <1>2. in.ordinal \in Nat /\ in.body.value_ns \in Int
    BY InputAssumption
  <1>3. {g.goal_id : g \in Passed(in)} =
            IF DeadlinePassed(in.body.value_ns) THEN {state.goal_id} ELSE {}
    BY <1>1, <1>2, PassedGoals
  <1>4. /\ cancel.type = "CancelSend" /\ cancel.channel = CH_ACTION_CANCEL
        /\ cancel.seq = sequences[CH_ACTION_CANCEL] /\ cancel.body.goal_id = state.goal_id
    BY DEF cancel_send, effect
  <1>5. goals_issued' = goals_issued
    BY DEF PollDeadline
  <1>6. CASE ~DeadlinePassed(in.body.value_ns)
    <2>1. Consume(state.callback, <<>>, <<>>) /\ state' = state
      BY <1>6 DEF PollDeadline
    <2>2. outcome'.consumed = "Yes"
      BY <2>1, ConsumeSequences DEF IInv
    <2>3. acked' = acked /\ expired' = expired /\ answered' = answered
      BY <1>3, <1>6, <2>2, ClockObserved
    <2>4. Quiet(in)
      BY <1>5, <2>1, <2>3, NoRequests DEF Quiet
    <2>. QED  BY <2>4 DEF Transition
  <1>7. CASE DeadlinePassed(in.body.value_ns) /\ variant = "fixed"
    <2>1. /\ Consume(state.callback, <<cancel>>, <<"deadline_expired", "cancel_requested">>)
          /\ state' = [tag |-> "AwaitCancelResponse", callback |-> state.callback,
                       goal_id |-> state.goal_id, cancel_seq |-> sequences[CH_ACTION_CANCEL]]
      BY <1>7 DEF PollDeadline
    <2>. HIDE DEF cancel
    <2>2. /\ sequences' \in [EffectChannel -> Nat] /\ variant' = variant
          /\ outcome'.consumed = "Yes" /\ outcome'.effects = <<cancel>>
      BY <2>1, ConsumeSequences DEF IInv
    <2>3. /\ sequences'[CH_ACTION_GOAL] = sequences[CH_ACTION_GOAL]
          /\ sequences'[CH_ACTION_CANCEL] = sequences[CH_ACTION_CANCEL] + 1
      <3>. DEFINE es == <<cancel>>
      <3>1. DOMAIN es = {1} /\ es[1] = cancel
        OBVIOUS
      <3>2. \A c \in EffectChannel :
                sequences'[c] = IF \E i \in DOMAIN es : es[i].channel = c
                                THEN sequences[c] + 1 ELSE sequences[c]
        BY <2>1, ConsumeSequences DEF IInv
      <3>. HIDE DEF es
      <3>. QED  BY <1>4, <3>1, <3>2 DEF EffectChannel, CH_ACTION_GOAL, CH_ACTION_CANCEL
    <2>4. Emitted("GoalSend") = {} /\ Emitted("CancelSend") = {cancel}
      BY <1>4, <2>2, OfTypeOne DEF Emitted
    <2>5. sent' = sent
      BY <2>4 DEF Observe
    <2>6. cancels' = cancels \cup {[goal_id |-> state.goal_id, seq |-> sequences[CH_ACTION_CANCEL]]}
      BY <1>4, <2>4 DEF Observe
    <2>7. expired' = expired \cup {state.goal_id} /\ acked' = acked /\ answered' = answered
      BY <1>3, <1>7, <2>2, ClockObserved
    <2>8. Advance(in)
      BY <1>2, <2>2 DEF Advance, Observe
    <2>9. ExpireAndCancel(in)
      BY <1>5, <1>7, <2>1, <2>3, <2>5, <2>6, <2>7, <2>8
         DEF ExpireAndCancel, Expire, Cancel, SameSends
    <2>. QED  BY <2>9 DEF Transition
  <1>8. CASE DeadlinePassed(in.body.value_ns) /\ variant # "fixed"
    <2>1. /\ Consume(state.callback, <<status_effect("timed out")>>, <<"deadline_expired">>)
          /\ state' = Idle
      BY <1>8 DEF PollDeadline
    <2>2. outcome'.consumed = "Yes"
      BY <2>1, ConsumeSequences DEF IInv
    <2>3. expired' = expired \cup {state.goal_id} /\ acked' = acked /\ answered' = answered
      BY <1>3, <1>8, <2>2, ClockObserved
    <2>4. Advance(in) /\ SameSends /\ SameCancels
      BY <1>5, <2>1, NoRequests
    <2>5. ExpireOnly(in)
      BY <1>8, <2>1, <2>3, <2>4 DEF ExpireOnly, Expire
    <2>. QED  BY <2>5 DEF Transition
  <1>. QED  BY <1>6, <1>7, <1>8

\* on_clock takes one of the transitions.
LEMMA ClockTransition ==
    ASSUME IInv, NEW in \in Input, in.ordinal >= next_ordinal, in.type = "Clock",
           OnClock(in), Observe(in)
    PROVE  Transition(in)
  <1>1. CASE ~AnswersPendingRead(in)
    BY <1>1, NotAppliedQuiet DEF OnClock, Transition
  <1>2. CASE AnswersPendingRead(in) /\ state.tag = "AwaitGoalResponse"
    BY <1>2, PollDeadlineTransition DEF OnClock
  <1>3. CASE AnswersPendingRead(in) /\ state.tag # "AwaitGoalResponse" /\ LeavesNoRoom(in)
    BY <1>3, NotAppliedQuiet DEF OnClock, Transition
  <1>4. CASE AnswersPendingRead(in) /\ state.tag # "AwaitGoalResponse" /\ ~LeavesNoRoom(in)
    BY <1>4, SendGoalTransition DEF OnClock
  <1>. QED  BY <1>1, <1>2, <1>3, <1>4

\* on_goal_response takes one of the transitions.
LEMMA GoalResponseTransition ==
    ASSUME IInv, NEW in \in Input, in.ordinal >= next_ordinal, in.type = "GoalResponse",
           OnGoalResponse(in), Observe(in)
    PROVE  Transition(in)
  <1>1. CASE /\ state.tag = "AwaitGoalResponse"
             /\ state.goal_id = in.body.goal_id /\ bound(in, CH_ACTION_GOAL, state.send_seq)
    <2>. DEFINE text == IF in.body.accepted THEN "accepted" ELSE "rejected"
    <2>1. /\ Consume(state.callback, <<status_effect(text)>>, <<"goal_acknowledged">>)
          /\ goals_issued' = goals_issued /\ state' = AfterResponse(in)
      BY <1>1 DEF OnGoalResponse
    <2>2. Advance(in) /\ SameSends /\ SameCancels /\ expired' = expired /\ answered' = answered
      BY <2>1, NoRequests
    <2>3. outcome'.consumed = "Yes"
      BY <2>1, ConsumeSequences DEF IInv
    <2>4. acked' = acked \cup {state.goal_id}
      BY <1>1, <2>3 DEF Observe
    <2>5. Acknowledge(in)
      BY <1>1, <2>1, <2>2, <2>4 DEF Acknowledge, AfterResponse
    <2>. QED  BY <2>5 DEF Transition
  <1>2. CASE ~ /\ state.tag = "AwaitGoalResponse"
               /\ state.goal_id = in.body.goal_id /\ bound(in, CH_ACTION_GOAL, state.send_seq)
    <2>. DEFINE how == IF AfterCancel(in) THEN "Refused" ELSE "No"
    <2>1. NotApplied(in, how) /\ how \in {"No", "Refused"}
      BY <1>2 DEF OnGoalResponse
    <2>. QED  BY <2>1, NotAppliedQuiet DEF Transition
  <1>. QED  BY <1>1, <1>2

\* on_result takes one of the transitions.
LEMMA ResultTransition ==
    ASSUME IInv, NEW in \in Input, in.ordinal >= next_ordinal, in.type = "Result",
           OnResult(in), Observe(in)
    PROVE  Transition(in)
  <1>1. CASE /\ state.tag = "AwaitResult"
             /\ state.goal_id = in.body.goal_id /\ bound(in, CH_ACTION_GOAL, state.send_seq)
    <2>1. /\ Consume(state.callback, <<status_effect("finished")>>, <<"goal_terminated">>)
          /\ goals_issued' = goals_issued /\ state' = Idle
      BY <1>1 DEF OnResult
    <2>2. Settle(in)
      BY <1>1, <2>1, NoRequests DEF Settle
    <2>. QED  BY <2>2 DEF Transition
  <1>2. CASE ~ /\ state.tag = "AwaitResult"
               /\ state.goal_id = in.body.goal_id /\ bound(in, CH_ACTION_GOAL, state.send_seq)
    <2>. DEFINE how == IF AfterCancel(in) THEN "Refused" ELSE "No"
    <2>1. NotApplied(in, how) /\ how \in {"No", "Refused"}
      BY <1>2 DEF OnResult
    <2>. QED  BY <2>1, NotAppliedQuiet DEF Transition
  <1>. QED  BY <1>1, <1>2

\* on_cancel_response takes one of the transitions.
LEMMA CancelResponseTransition ==
    ASSUME IInv, NEW in \in Input, in.ordinal >= next_ordinal, in.type = "CancelResponse",
           OnCancelResponse(in), Observe(in)
    PROVE  Transition(in)
  <1>1. CASE /\ state.tag = "AwaitCancelResponse"
             /\ state.goal_id \in in.body.goals /\ bound(in, CH_ACTION_CANCEL, state.cancel_seq)
    <2>1. /\ Consume(state.callback, <<status_effect("cancel acknowledged")>>,
                     <<"cancel_acknowledged">>)
          /\ goals_issued' = goals_issued /\ state' = Idle
      BY <1>1 DEF OnCancelResponse
    <2>2. outcome'.consumed = "Yes"
      BY <2>1, ConsumeSequences DEF IInv
    <2>3. CancelAnswered(in)
      BY <1>1, <2>2 DEF Observe, CancelAnswered, CancelledIds
    <2>4. Settle(in)
      BY <2>1, <2>3, NoRequests DEF Settle
    <2>. QED  BY <2>4 DEF Transition
  <1>2. CASE ~ /\ state.tag = "AwaitCancelResponse"
               /\ state.goal_id \in in.body.goals /\ bound(in, CH_ACTION_CANCEL, state.cancel_seq)
    <2>1. NotApplied(in, "No")
      BY <1>2 DEF OnCancelResponse
    <2>. QED  BY <2>1, NotAppliedQuiet DEF Transition
  <1>. QED  BY <1>1, <1>2

\* An input no handler takes is a quiet step.
LEMMA UnhandledTransition ==
    ASSUME IInv, NEW in \in Input, in.ordinal >= next_ordinal, Observe(in),
           IF in.dst = COMPONENT_ACTOR_ID /\ in.type = "StartingState"
           THEN Consume(in.ordinal, <<>>, <<>>) /\ UNCHANGED <<state, goals_issued>>
           ELSE NotApplied(in, "No")
    PROVE  Transition(in)
  <1>1. CASE in.dst = COMPONENT_ACTOR_ID /\ in.type = "StartingState"
    <2>1. Consume(in.ordinal, <<>>, <<>>) /\ state' = state /\ goals_issued' = goals_issued
      BY <1>1
    <2>2. Quiet(in)
      BY <1>1, <2>1, NoRequests DEF Quiet
    <2>. QED  BY <2>2 DEF Transition
  <1>2. CASE ~ (in.dst = COMPONENT_ACTOR_ID /\ in.type = "StartingState")
    BY <1>2, NotAppliedQuiet DEF Transition
  <1>. QED  BY <1>1, <1>2

\* Every delivered input is one of the transitions.
LEMMA DeliverTransition ==
    ASSUME IInv, NEW in \in Input, Deliver(in)
    PROVE  Transition(in)
  <1>1. in.ordinal >= next_ordinal /\ Step(in) /\ Observe(in)
    BY DEF Deliver
  <1>2. CASE Handles(in, CH_GOAL_COMMAND, "Message") /\ OnGoalCommand(in)
    BY <1>1, <1>2, GoalCommandTransition DEF Handles
  <1>3. CASE Handles(in, CH_CLOCK, "Clock") /\ OnClock(in)
    BY <1>1, <1>3, ClockTransition DEF Handles
  <1>4. CASE Handles(in, CH_ACTION_RESPONSE, "GoalResponse") /\ OnGoalResponse(in)
    BY <1>1, <1>4, GoalResponseTransition DEF Handles
  <1>5. CASE Handles(in, CH_ACTION_RESPONSE, "Result") /\ OnResult(in)
    BY <1>1, <1>5, ResultTransition DEF Handles
  <1>6. CASE Handles(in, CH_ACTION_RESPONSE, "CancelResponse") /\ OnCancelResponse(in)
    BY <1>1, <1>6, CancelResponseTransition DEF Handles
  <1>7. CASE /\ Unhandled(in)
             /\ IF in.dst = COMPONENT_ACTOR_ID /\ in.type = "StartingState"
                THEN Consume(in.ordinal, <<>>, <<>>) /\ UNCHANGED <<state, goals_issued>>
                ELSE NotApplied(in, "No")
    BY <1>1, <1>7, UnhandledTransition
  <1>. QED  BY <1>1, <1>2, <1>3, <1>4, <1>5, <1>6, <1>7 DEF Step

\* Requests are never forgotten.
LEMMA RequestsGrow ==
    ASSUME NEW in, Observe(in)
    PROVE  sent \subseteq sent' /\ cancels \subseteq cancels'
  BY DEF Observe

\* What a handler reports.
LEMMA Reported ==
    /\ \A cb, effects, progress : Consume(cb, effects, progress) => outcome'.consumed = "Yes"
    /\ \A in, how : NotApplied(in, how) => outcome'.consumed = how
  BY DEF Consume, NotApplied

\* A delivery that consumes a response does so for a request in flight.
LEMMA DeliverAnswers ==
    ASSUME IInv, NEW in \in Input, Deliver(in)
    PROVE  ResponseBound'
  <1>1. Step(in) /\ Observe(in) /\ last' = {in}
    BY DEF Deliver, Observe
  <1>2. sent \subseteq sent' /\ cancels \subseteq cancels'
    BY <1>1, RequestsGrow
  <1>3. CASE Handles(in, CH_ACTION_RESPONSE, "GoalResponse") /\ OnGoalResponse(in)
    <2>0. in.type = "GoalResponse"
      BY <1>3 DEF Handles
    <2>1. CASE /\ state.tag = "AwaitGoalResponse"
               /\ state.goal_id = in.body.goal_id /\ bound(in, CH_ACTION_GOAL, state.send_seq)
      <3>. DEFINE s == [goal_id |-> state.goal_id, seq |-> state.send_seq,
                        callback |-> state.callback, sent_ns |-> state.deadline_ns - Deadline]
      <3>1. s \in sent' /\ s.goal_id = in.body.goal_id /\ in.request = <<CH_ACTION_GOAL, s.seq>>
        BY <1>2, <2>1 DEF IInv, InFlight, bound
      <3>2. in.src = ACTOR_ACTION_SERVER
        BY <2>1 DEF bound
      <3>. HIDE DEF s
      <3>. QED  BY <1>1, <2>0, <3>1, <3>2 DEF ResponseBound
    <2>2. CASE ~ /\ state.tag = "AwaitGoalResponse"
                 /\ state.goal_id = in.body.goal_id /\ bound(in, CH_ACTION_GOAL, state.send_seq)
      <3>1. outcome'.consumed # "Yes"
        BY <1>3, <2>2, Reported DEF OnGoalResponse
      <3>. QED  BY <1>1, <3>1 DEF ResponseBound
    <2>. QED  BY <2>1, <2>2
  <1>4. CASE Handles(in, CH_ACTION_RESPONSE, "Result") /\ OnResult(in)
    <2>0. in.type = "Result"
      BY <1>4 DEF Handles
    <2>1. CASE /\ state.tag = "AwaitResult"
               /\ state.goal_id = in.body.goal_id /\ bound(in, CH_ACTION_GOAL, state.send_seq)
      <3>1. PICK s \in sent : s.goal_id = state.goal_id /\ s.seq = state.send_seq
        BY <2>1 DEF IInv, InFlight
      <3>2. s \in sent' /\ s.goal_id = in.body.goal_id /\ in.request = <<CH_ACTION_GOAL, s.seq>>
        BY <1>2, <2>1, <3>1 DEF bound
      <3>3. in.src = ACTOR_ACTION_SERVER
        BY <2>1 DEF bound
      <3>. QED  BY <1>1, <2>0, <3>2, <3>3 DEF ResponseBound
    <2>2. CASE ~ /\ state.tag = "AwaitResult"
                 /\ state.goal_id = in.body.goal_id /\ bound(in, CH_ACTION_GOAL, state.send_seq)
      <3>1. outcome'.consumed # "Yes"
        BY <1>4, <2>2, Reported DEF OnResult
      <3>. QED  BY <1>1, <3>1 DEF ResponseBound
    <2>. QED  BY <2>1, <2>2
  <1>5. CASE Handles(in, CH_ACTION_RESPONSE, "CancelResponse") /\ OnCancelResponse(in)
    <2>0. in.type = "CancelResponse"
      BY <1>5 DEF Handles
    <2>1. CASE /\ state.tag = "AwaitCancelResponse"
               /\ state.goal_id \in in.body.goals /\ bound(in, CH_ACTION_CANCEL, state.cancel_seq)
      <3>. DEFINE c == [goal_id |-> state.goal_id, seq |-> state.cancel_seq]
      <3>1. c \in cancels' /\ c.goal_id \in in.body.goals /\ in.request = <<CH_ACTION_CANCEL, c.seq>>
        BY <1>2, <2>1 DEF IInv, InFlight, bound
      <3>2. in.src = ACTOR_ACTION_SERVER
        BY <2>1 DEF bound
      <3>. HIDE DEF c
      <3>. QED  BY <1>1, <2>0, <3>1, <3>2 DEF ResponseBound
    <2>2. CASE ~ /\ state.tag = "AwaitCancelResponse"
                 /\ state.goal_id \in in.body.goals
                 /\ bound(in, CH_ACTION_CANCEL, state.cancel_seq)
      <3>1. outcome'.consumed = "No"
        BY <1>5, <2>2, Reported DEF OnCancelResponse
      <3>. QED  BY <1>1, <3>1 DEF ResponseBound
    <2>. QED  BY <2>1, <2>2
  <1>6. CASE \/ Handles(in, CH_GOAL_COMMAND, "Message") /\ OnGoalCommand(in)
             \/ Handles(in, CH_CLOCK, "Clock") /\ OnClock(in)
    <2>1. in.type \notin ResponseTypes
      BY <1>6 DEF Handles, ResponseTypes
    <2>. QED  BY <1>1, <2>1 DEF ResponseBound
  <1>7. CASE IF in.dst = COMPONENT_ACTOR_ID /\ in.type = "StartingState"
             THEN Consume(in.ordinal, <<>>, <<>>) /\ UNCHANGED <<state, goals_issued>>
             ELSE NotApplied(in, "No")
    <2>1. in.type \notin ResponseTypes \/ outcome'.consumed = "No"
      BY <1>7 DEF ResponseTypes, NotApplied
    <2>. QED  BY <1>1, <2>1 DEF ResponseBound
  <1>. QED  BY <1>1, <1>3, <1>4, <1>5, <1>6, <1>7 DEF Step

\* The response to a goal, or its result, is refused exactly while the cancel of the
\* goal it names is open.
LEMMA AnswerRefused ==
    ASSUME IInv, OneCancelOpen, NEW in \in Input, in.ordinal >= next_ordinal, Observe(in),
           \/ in.type = "GoalResponse" /\ OnGoalResponse(in)
           \/ in.type = "Result" /\ OnResult(in)
    PROVE  outcome'.consumed = "Refused" <=> in.body.goal_id \in CancelledIds' \ answered'
  <1>1. answered' = answered
    BY DEF Observe
  <1>2. CASE \E how \in {"No", "Refused"} :
                NotApplied(in, how) /\ (how = "Refused" <=> AfterCancel(in))
    <2>1. PICK how \in {"No", "Refused"} :
                NotApplied(in, how) /\ (how = "Refused" <=> AfterCancel(in))
      BY <1>2
    <2>2. outcome'.consumed = how
      BY <2>1, Reported
    <2>3. CancelledIds' = CancelledIds
      BY <2>1, NotAppliedQuiet DEF Quiet, SameCancels, CancelledIds
    <2>4. AfterCancel(in) => in.body.goal_id \in CancelledIds \ answered
      <3>. DEFINE c == [goal_id |-> state.goal_id, seq |-> state.cancel_seq]
      <3>1. AfterCancel(in) => c \in cancels /\ c.goal_id = in.body.goal_id
        BY DEF AfterCancel, IInv, InFlight
      <3>. HIDE DEF c
      <3>2. AfterCancel(in) => in.body.goal_id \notin answered
        BY DEF AfterCancel, OneCancelOpen
      <3>. QED  BY <3>1, <3>2 DEF CancelledIds
    <2>5. in.body.goal_id \in CancelledIds \ answered => AfterCancel(in)
      BY DEF AfterCancel, OneCancelOpen
    <2>. QED  BY <1>1, <2>1, <2>2, <2>3, <2>4, <2>5
  <1>3. CASE \E text, progress :
                /\ Consume(state.callback, <<status_effect(text)>>, progress)
                /\ goals_issued' = goals_issued /\ state.tag # "AwaitCancelResponse"
    <2>1. PICK text, progress :
                /\ Consume(state.callback, <<status_effect(text)>>, progress)
                /\ goals_issued' = goals_issued
      BY <1>3
    <2>2. outcome'.consumed = "Yes"
      BY <2>1, Reported
    <2>3. CancelledIds' = CancelledIds
      BY <2>1, NoRequests DEF SameCancels, CancelledIds
    <2>4. CancelledIds \ answered = {}
      BY <1>3 DEF OneCancelOpen
    <2>. QED  BY <1>1, <2>2, <2>3, <2>4
  <1>4. CASE in.type = "GoalResponse" /\ OnGoalResponse(in)
    <2>1. CASE /\ state.tag = "AwaitGoalResponse"
               /\ state.goal_id = in.body.goal_id /\ bound(in, CH_ACTION_GOAL, state.send_seq)
      BY <1>3, <1>4, <2>1 DEF OnGoalResponse
    <2>2. CASE ~ /\ state.tag = "AwaitGoalResponse"
                 /\ state.goal_id = in.body.goal_id /\ bound(in, CH_ACTION_GOAL, state.send_seq)
      <3>. DEFINE how == IF AfterCancel(in) THEN "Refused" ELSE "No"
      <3>1. NotApplied(in, how)
        BY <1>4, <2>2 DEF OnGoalResponse
      <3>2. how \in {"No", "Refused"} /\ (how = "Refused" <=> AfterCancel(in))
        OBVIOUS
      <3>. HIDE DEF how
      <3>. QED  BY <1>2, <3>1, <3>2
    <2>. QED  BY <2>1, <2>2
  <1>5. CASE in.type = "Result" /\ OnResult(in)
    <2>1. CASE /\ state.tag = "AwaitResult"
               /\ state.goal_id = in.body.goal_id /\ bound(in, CH_ACTION_GOAL, state.send_seq)
      BY <1>3, <1>5, <2>1 DEF OnResult
    <2>2. CASE ~ /\ state.tag = "AwaitResult"
                 /\ state.goal_id = in.body.goal_id /\ bound(in, CH_ACTION_GOAL, state.send_seq)
      <3>. DEFINE how == IF AfterCancel(in) THEN "Refused" ELSE "No"
      <3>1. NotApplied(in, how)
        BY <1>5, <2>2 DEF OnResult
      <3>2. how \in {"No", "Refused"} /\ (how = "Refused" <=> AfterCancel(in))
        OBVIOUS
      <3>. HIDE DEF how
      <3>. QED  BY <1>2, <3>1, <3>2
    <2>. QED  BY <2>1, <2>2
  <1>. QED  BY <1>4, <1>5

\* A delivery is refused exactly when it answers a goal whose cancel is open.
LEMMA DeliverRefusals ==
    ASSUME IInv, OneCancelOpen, NEW in \in Input, Deliver(in)
    PROVE  RefusedExactlyAfterCancel'
  <1>1. Step(in) /\ Observe(in) /\ last' = {in} /\ in.ordinal >= next_ordinal
    BY DEF Deliver, Observe
  <1>2. CASE \/ Handles(in, CH_ACTION_RESPONSE, "GoalResponse") /\ OnGoalResponse(in)
             \/ Handles(in, CH_ACTION_RESPONSE, "Result") /\ OnResult(in)
    <2>1. \E type \in {"GoalResponse", "Result"} : Handles(in, CH_ACTION_RESPONSE, type)
      BY <1>2
    <2>2. outcome'.consumed = "Refused" <=> in.body.goal_id \in CancelledIds' \ answered'
      BY <1>1, <1>2, AnswerRefused DEF Handles
    <2>. QED  BY <1>1, <2>1, <2>2 DEF RefusedExactlyAfterCancel
  <1>3. CASE /\ \A type \in {"GoalResponse", "Result"} : ~Handles(in, CH_ACTION_RESPONSE, type)
             /\ outcome'.consumed # "Refused"
    BY <1>1, <1>3 DEF RefusedExactlyAfterCancel
  <1>4. CASE \/ Handles(in, CH_GOAL_COMMAND, "Message") /\ OnGoalCommand(in)
             \/ Handles(in, CH_CLOCK, "Clock") /\ OnClock(in)
             \/ Handles(in, CH_ACTION_RESPONSE, "CancelResponse") /\ OnCancelResponse(in)
    <2>1. outcome'.consumed # "Refused"
      BY <1>4, Reported DEF OnGoalCommand, OnClock, PollDeadline, SendGoal, OnCancelResponse
    <2>2. \A type \in {"GoalResponse", "Result"} : ~Handles(in, CH_ACTION_RESPONSE, type)
      BY <1>4 DEF Handles
    <2>. QED  BY <1>3, <2>1, <2>2
  <1>5. CASE /\ Unhandled(in)
             /\ IF in.dst = COMPONENT_ACTOR_ID /\ in.type = "StartingState"
                THEN Consume(in.ordinal, <<>>, <<>>) /\ UNCHANGED <<state, goals_issued>>
                ELSE NotApplied(in, "No")
    <2>1. outcome'.consumed # "Refused"
      BY <1>5 DEF Consume, NotApplied
    <2>2. \A type \in {"GoalResponse", "Result"} : ~Handles(in, CH_ACTION_RESPONSE, type)
      BY <1>5 DEF Unhandled
    <2>. QED  BY <1>3, <2>1, <2>2
  <1>. QED  BY <1>1, <1>2, <1>4, <1>5 DEF Step

-----------------------------------------------------------------------------
\* A new component satisfies the invariant.
LEMMA InitInv ==
    ASSUME Init
    PROVE  IInv /\ OneCancelOpen /\ ResponseBound /\ RefusedExactlyAfterCancel
  <1>1. PICK v \in Variant : NewComponent(v)
    BY DEF Init
  <1>2. TypeOK
    BY <1>1 DEF Init, NewComponent, TypeOK
  <1>3. Fresh /\ SentDistinct /\ CancelsDistinct /\ OnlySent /\ InFlight /\ ByVariant
    BY <1>1 DEF Init, NewComponent, Fresh, SentDistinct, CancelsDistinct, OnlySent, InFlight,
                ByVariant, Idle, CancelledIds, SentIds
  <1>4. TimeoutCancels /\ AckExcludesTimeout
    BY <1>1 DEF Init, TimeoutCancels, AckExcludesTimeout, CancelledIds, SentIds
  <1>5. OneCancelOpen
    BY <1>1 DEF Init, NewComponent, OneCancelOpen, CancelledIds, Idle
  <1>. QED  BY <1>2, <1>3, <1>4, <1>5 DEF Init, IInv, ResponseBound, RefusedExactlyAfterCancel

\* The inductive invariant holds in every reachable state of the component.
THEOREM Invariance == Spec => [](IInv /\ OneCancelOpen /\ ResponseBound /\ RefusedExactlyAfterCancel)
  <1>. DEFINE Inv == IInv /\ OneCancelOpen /\ ResponseBound /\ RefusedExactlyAfterCancel
  <1>1. Init => Inv
    BY InitInv
  <1>2. Inv /\ [Next]_vars => Inv'
    <2>. SUFFICES ASSUME Inv, [Next]_vars PROVE Inv'
      OBVIOUS
    <2>1. CASE Next
      <3>1. PICK in \in Input : Deliver(in)
        BY <2>1 DEF Next
      <3>. QED  BY <3>1, DeliverTransition, TransitionInv, TransitionCancel, DeliverAnswers, DeliverRefusals
    <2>2. CASE UNCHANGED vars
      <3>1. IInv'
        BY <2>2 DEF IInv, TypeOK, Fresh, SentDistinct, CancelsDistinct, OnlySent, InFlight,
                    ByVariant, TimeoutCancels, AckExcludesTimeout, CancelledIds, SentIds,
                    vars, component, observer
      <3>2. ResponseBound' /\ RefusedExactlyAfterCancel'
        BY <2>2 DEF ResponseBound, RefusedExactlyAfterCancel, CancelledIds, vars, component, observer
      <3>3. OneCancelOpen'
        BY <2>2 DEF OneCancelOpen, CancelledIds, vars, component, observer
      <3>. QED  BY <3>1, <3>2, <3>3
    <2>. QED  BY <2>1, <2>2
  <1>. QED  BY <1>1, <1>2, PTL DEF Spec

\* Every state component stays in its type.
THEOREM TypeCorrect == Spec => []TypeOK
  <1>1. IInv => TypeOK
    BY DEF IInv
  <1>. QED  BY <1>1, Invariance, PTL

\* For every deadline, every clock and every order of inputs: the fixed component
\* cancels exactly the goals whose deadline was seen to pass, old and noop
\* cancel none, always-cancel cancels all (component.rs, on_clock).
THEOREM CancelOnTimeout == Spec => []TimeoutCancels
  <1>1. IInv => TimeoutCancels
    BY DEF IInv
  <1>. QED  BY <1>1, Invariance, PTL

\* No goal is both acknowledged and timed out or cancelled, whatever late or
\* repeated inputs arrive (component.rs, on_goal_response against on_clock).
THEOREM AckXorTimeout == Spec => []AckExcludesTimeout
  <1>1. IInv => AckExcludesTimeout
    BY DEF IInv
  <1>. QED  BY <1>1, Invariance, PTL

\* No two sends and no two cancels share a goal id or a sequence, and only sent
\* goals are acknowledged or cancelled (component.rs, effect and goal_id).
THEOREM DistinctRequests == Spec => []RequestsDistinct
  <1>1. IInv => RequestsDistinct
    BY DEF IInv, SentDistinct, CancelsDistinct, OnlySent, RequestsDistinct
  <1>. QED  BY <1>1, Invariance, PTL

\* A consumed response names a request this run issued for that goal (component.rs,
\* bound), and a response to a goal, or its result, is refused as contradicting the run
\* exactly while that goal's cancel by this run is without its response, whatever late,
\* repeated or crossed responses arrive (component.rs, on_goal_response, on_result).
THEOREM ResponsesBelong == Spec => []ResponsesCorrelate
  <1>1. ResponseBound /\ RefusedExactlyAfterCancel => ResponsesCorrelate
    BY DEF ResponsesCorrelate
  <1>. QED  BY <1>1, Invariance, PTL
=============================================================================

------------------------------ MODULE Property ------------------------------
(***************************************************************************)
(* The property program (crates/rook-adapter-ref/src/property.rs): what it *)
(* says of a run.  A run is the runner's record of one replay:             *)
(*   frames    the replayed stream                                         *)
(*   steps     delivered inputs: recorded and replayed ordinal, status     *)
(*   effects   <<callback, ordinal>> of each effect                        *)
(*   pending   what the component waited for at the end                    *)
(*   stop      "Exhausted", "Gap" or "Refused"                             *)
(*   reason    the finish reason: "Exhausted" or "Scope"                   *)
(* An error of the program ("Error") is not a verdict.                     *)
(***************************************************************************)
EXTENDS GoalClient, SequencesExt

PROPERTY_TIMEOUT_CANCEL == "timeout_cancel"
PROPERTY_TIMELY_ACK     == "timely_ack"
PropertyName == {PROPERTY_TIMEOUT_CANCEL, PROPERTY_TIMELY_ACK}

WILDCARD == -1   \* the all-zero goal id of a cancel

Answer(result, predicate) == [result |-> result, predicate |-> predicate]

\* What the program is given: the events of the run, the steps and effects they are
\* annotated with, and how the evidence ended.
property_input(run) ==
    [events |-> ToSet(run.frames), steps |-> ToSet(run.steps), effects |-> ToSet(run.effects),
     pending |-> run.pending, stop |-> run.stop, reason |-> run.reason]

\* Events are scanned from the front; ordinals are places in the stream, so the
\* first of several is the one of the least ordinal.
Only(set) == CHOOSE x \in set : TRUE
FirstOf(events) == CHOOSE e \in events : \A f \in events : e.ordinal <= f.ordinal
LastOf(events)  == CHOOSE e \in events : \A f \in events : e.ordinal >= f.ordinal

Consumed(input) == {s.replayed : s \in {t \in input.steps : t.status = "Ok"}}
ConsumedInputs(input, type) ==
    LET consumed == Consumed(input)
    IN  {e \in input.events : e.type = type /\ e.ordinal \in consumed}

\* Effects the component handed to its transport.
Attempts(input, type) ==
    {e \in input.events : e.type = type /\ "ATTEMPTED" \in e.flags}

\* A run that ended at a gap, a refusal or the runner's own bound proves no
\* absence.
evidence_stopped(input) == input.stop # "Exhausted" \/ input.reason = "Scope"

pending_for(input, callback) == \E p \in input.pending : p.callback = callback

\* Clock observations this callback consumed.
clocks_of(input, callback) == {e \in ConsumedInputs(input, "Clock") : e.body.callback = callback}

-----------------------------------------------------------------------------
\* The first consumed command, the callback it started and the goal it sent.
Commands(input) == ConsumedInputs(input, "Message")
Command(input) == FirstOf(Commands(input)).ordinal
StepsAt(input, ordinal) == {s \in input.steps : s.replayed = ordinal}
CommandCallback(input) ==
    LET command == Command(input) IN Only(StepsAt(input, command)).recorded

Sends(input) ==
    LET command  == Command(input)
        callback == CommandCallback(input)
    IN  {e \in Attempts(input, "GoalSend") :
            e.ordinal > command /\ <<callback, e.ordinal>> \in input.effects}

ClocksBefore(input, send) ==
    LET callback == CommandCallback(input)
    IN  {c \in clocks_of(input, callback) : c.ordinal < send.ordinal}

\* The goal that is judged.
submission(input) ==
    LET send == FirstOf(Sends(input))
    IN  [callback |-> CommandCallback(input), ordinal |-> send.ordinal,
         goal_id |-> send.body.goal_id, server |-> send.dst,
         deadline_ns |-> LastOf(ClocksBefore(input, send)).body.value_ns + Deadline]

cancels_for(input, s) ==
    {e \in Attempts(input, "CancelSend") :
        /\ e.ordinal > s.ordinal /\ e.dst = s.server
        /\ e.body.goal_id \in {s.goal_id, WILDCARD}}

\* The first of these is the acknowledgment.
acknowledgment(input, s) ==
    {e \in ConsumedInputs(input, "GoalResponse") :
        e.ordinal > s.ordinal /\ e.body.goal_id = s.goal_id}

\* Reads the goal's callback consumed after the send and before the
\* acknowledgment, if there is one.
ReadsInTime(input, s) ==
    LET acks == acknowledgment(input, s)
    IN  {c \in clocks_of(input, s.callback) :
            c.ordinal > s.ordinal /\ \A ack \in acks : c.ordinal < ack.ordinal}

\* The ones at or past the deadline.
ExpiriesPast(input, s) == {c \in ReadsInTime(input, s) : c.body.value_ns > s.deadline_ns}
Expiries(input, s) == {c \in ReadsInTime(input, s) : c.body.value_ns >= s.deadline_ns}

timeout_cancel(input, s) ==
    LET cancels  == cancels_for(input, s)
        expiries == Expiries(input, s)
    IN  IF expiries = {}
        THEN IF cancels # {} THEN Answer("Fail", "cancel_after_deadline_expiry")
             ELSE Answer("Inconclusive", "deadline_expired")
        ELSE IF cancels = {}
        THEN Answer(IF evidence_stopped(input) THEN "Inconclusive" ELSE "Fail",
                    "cancel_request_issued")
        ELSE IF FirstOf(cancels).ordinal < FirstOf(expiries).ordinal
        THEN Answer("Fail", "cancel_after_deadline_expiry")
        ELSE Answer("Pass", "none")

timely_ack(input, s) ==
    LET acks == acknowledgment(input, s)
    IN  IF cancels_for(input, s) # {} THEN Answer("Fail", "no_cancel_in_interval")
        ELSE IF acks = {} \/ ~FirstOf(acks).body.accepted \/ Expiries(input, s) # {}
        THEN Answer("Inconclusive", "acknowledged_before_deadline")
        ELSE IF evidence_stopped(input) THEN Answer("Inconclusive", "observation_interval_elapsed")
        ELSE Answer("Pass", "none")

\* The answer about a goal that was sent at a clock value with a deadline.
judged(property, input, s) ==
    IF s.deadline_ns > MaxI64 THEN Answer("Error", "overflow")
    ELSE IF property = PROPERTY_TIMEOUT_CANCEL THEN timeout_cancel(input, s)
    ELSE timely_ack(input, s)

\* The answer when the command sent none: a callback that was still waiting was
\* never given the chance.
unsent(input) ==
    Answer(IF pending_for(input, CommandCallback(input)) THEN "Inconclusive" ELSE "Fail",
           "goal_submitted")

answered(property, input) ==
    IF Commands(input) = {} THEN Answer("Inconclusive", "goal_command_delivered")
    ELSE IF Sends(input) = {} THEN unsent(input)
    ELSE IF ClocksBefore(input, FirstOf(Sends(input))) = {} THEN Answer("Error", "no clock")
    ELSE Only({judged(property, input, s) : s \in {submission(input)}})

evaluate(property, run) ==
    Only({answered(property, input) : input \in {property_input(run)}})
=============================================================================

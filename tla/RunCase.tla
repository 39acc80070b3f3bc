------------------------------- MODULE RunCase -------------------------------
(***************************************************************************)
(* rook verify CASE and rook test CASE --candidate BUILD: run_case of      *)
(* crates/rook-verify/src/lib.rs with the comparison of                    *)
(* crates/rook-adapter-ref/src/driver.rs.  The baseline build is replayed  *)
(* first, then, for a test, the candidate; the exit code is decided from   *)
(* what both did.                                                          *)
(*                                                                         *)
(* A recording is a sequence of inputs, effects and at most one gap.  The  *)
(* builds are external adapters: what they do at an input is arbitrary, so *)
(* a baseline need not do what was recorded.  Module Runner models the     *)
(* replay itself; here a replay is what it leaves behind.  The property    *)
(* program answers anything.                                               *)
(***************************************************************************)
EXTENDS Integers, Sequences, SequencesExt, FiniteSets, Subsequences

CONSTANTS
    Value,         \* what an effect may say
    MaxRecorded,   \* frames of a recording
    MaxEffects     \* effects of a run

ASSUME RunCaseAssumption == MaxRecorded \in Nat /\ MaxEffects \in Nat

\* An input that answers a request names the effect by its position among the
\* effects, 0 when it answers none.
input(k)  == [kind |-> "input", request |-> k]
effect(v) == [kind |-> "effect", value |-> v]
gap       == [kind |-> "gap"]
IsEffect(f) == f.kind = "effect"
Effects(s) == Keep(s, {i \in DOMAIN s : IsEffect(s[i])})

Verdict == {"Pass", "Fail", "Invalid", "Inconclusive"}

VARIABLES
    command,     \* "verify" or "test"
    recording,
    phase,       \* "recording", "baseline", "candidate", "reported" or "error"
    cursor,      \* the replay's position in the recording
    waiting,     \* an input was sent and not answered
    frames,      \* the replayed stream
    stop,        \* why the delivery ended: "none", "Exhausted", "Gap", "Refused"
    baseline,    \* what the baseline's replay left: <<>> or a record
    code         \* the exit code

vars == <<command, recording, phase, cursor, waiting, frames, stop, baseline, code>>
case == <<command, recording>>
replay == <<cursor, waiting, frames, stop>>

NoCode == -1

Init ==
    /\ command \in {"verify", "test"} /\ recording = <<>> /\ phase = "recording"
    /\ cursor = 1 /\ waiting = FALSE /\ frames = <<>> /\ stop = "none"
    /\ baseline = <<>> /\ code = NoCode

\* The recording: an effect follows an input, a response follows its request.
Record ==
    /\ phase = "recording" /\ Len(recording) < MaxRecorded
    /\ \/ \E k \in 0..Len(Effects(recording)) : recording' = Append(recording, input(k))
       \/ /\ recording # <<>> /\ \E v \in Value : recording' = Append(recording, effect(v))
       \/ /\ gap \notin ToSet(recording) /\ recording' = Append(recording, gap)
    /\ UNCHANGED <<command, phase, replay, baseline, code>>

Load ==
    /\ phase = "recording" /\ phase' = "baseline"
    /\ UNCHANGED <<case, replay, baseline, code>>

-----------------------------------------------------------------------------
(***************************************************************************)
(* A replay, of either build.                                              *)
(***************************************************************************)
Replaying == phase \in {"baseline", "candidate"} /\ stop = "none"
Recorded == recording[cursor]
Reads(kind) == Replaying /\ ~waiting /\ cursor <= Len(recording) /\ Recorded.kind = kind

Stops(why) == stop' = why /\ UNCHANGED <<case, phase, cursor, waiting, frames, baseline, code>>

Skip ==
    /\ Reads("effect") /\ cursor' = cursor + 1
    /\ UNCHANGED <<case, phase, waiting, frames, stop, baseline, code>>

AtGap == Reads("gap") /\ Stops("Gap")
AtEnd == Replaying /\ ~waiting /\ cursor > Len(recording) /\ Stops("Exhausted")

\* The request a response answers must be among this run's effects, unchanged.
Equivalent(k) ==
    \/ k = 0
    \/ k \in DOMAIN Effects(frames) /\ Effects(frames)[k] = Effects(recording)[k]

RefuseUnsent == Reads("input") /\ ~Equivalent(Recorded.request) /\ Stops("Refused")

Deliver ==
    /\ Reads("input") /\ Equivalent(Recorded.request)
    /\ frames' = Append(frames, Recorded) /\ waiting' = TRUE
    /\ UNCHANGED <<case, phase, cursor, stop, baseline, code>>

\* The build answers: effects, then the end of the step, or a refusal, which takes
\* the input out of the stream again and which nothing precedes.
Effect ==
    /\ Replaying /\ waiting /\ Len(Effects(frames)) < MaxEffects
    /\ \E v \in Value : frames' = Append(frames, effect(v))
    /\ UNCHANGED <<case, phase, cursor, waiting, stop, baseline, code>>

Stepped ==
    /\ Replaying /\ waiting
    /\ cursor' = cursor + 1 /\ waiting' = FALSE
    /\ UNCHANGED <<case, phase, frames, stop, baseline, code>>

Refuse ==
    /\ Replaying /\ waiting /\ ~IsEffect(Last(frames))
    /\ frames' = Front(frames) /\ waiting' = FALSE /\ stop' = "Refused"
    /\ UNCHANGED <<case, phase, cursor, baseline, code>>

\* The property has its answer at an effect of the candidate.
Complete ==
    /\ Replaying /\ phase = "candidate" /\ waiting /\ IsEffect(Last(frames))
    /\ waiting' = FALSE /\ stop' = "Exhausted"
    /\ UNCHANGED <<case, phase, cursor, frames, baseline, code>>

\* An adapter that cannot execute the protocol is refused, one that reuses a goal
\* identity or cancels an unknown goal has failed.
Breaks ==
    /\ Replaying /\ waiting
    /\ phase' = "error" /\ code' \in {1, 2}
    /\ UNCHANGED <<case, replay, baseline>>

Replay == Skip \/ AtGap \/ AtEnd \/ RefuseUnsent \/ Deliver \/ Effect \/ Stepped \/ Refuse
          \/ Complete \/ Breaks

-----------------------------------------------------------------------------
(***************************************************************************)
(* What the two replays come to.                                           *)
(***************************************************************************)
effects_agree(recorded, run) == Effects(recorded) = Effects(run)
run_agrees(recorded, run) == recorded = run

\* The recording up to the ordinal a replay stopped at.
Consumed(n) == SubSeq(recording, 1, n - 1)

execution_agreement(run) ==
    IF run.stop = "Gap"
    THEN IF effects_agree(Consumed(run.at), run.frames) THEN "unavailable" ELSE "diverged"
    ELSE IF effects_agree(recording, run.frames) /\ run_agrees(recording, run.frames)
         THEN "measured agreement" ELSE "diverged"

reproduced(run) == execution_agreement(run) = "measured agreement"

\* A mismatch in the consumed prefix counts although a gap follows.
mismatch_if_complete(run) == run.stop = "Exhausted" /\ ~reproduced(run)
baseline_mismatch(run) ==
    IF run.stop = "Exhausted" THEN ~reproduced(run)
    ELSE ~effects_agree(Consumed(run.at), run.frames)

exit_code(verdict) == CASE verdict = "Pass" -> 0 [] verdict = "Fail" -> 1
                        [] verdict = "Invalid" -> 2 [] OTHER -> 3

code_for_any_refusal(run) == IF reproduced(run) THEN 0 ELSE IF run.stop = "Exhausted" THEN 1 ELSE 2
verify_code(run) ==
    IF reproduced(run) THEN 0
    ELSE IF run.stop \in {"Exhausted", "Refused"} \/ baseline_mismatch(run) THEN 1 ELSE 2

test_code(verdict) == IF baseline_mismatch(baseline[1]) THEN 1 ELSE exit_code(verdict)

Outcome == [frames |-> frames, stop |-> stop, at |-> cursor]

\* The baseline's replay is over.  An invalid property input ends the command.
EndBaseline ==
    /\ phase = "baseline" /\ stop # "none"
    /\ \E verdict \in Verdict :
          IF verdict = "Invalid"
          THEN phase' = "error" /\ code' = 2 /\ UNCHANGED <<replay, baseline>>
          ELSE /\ baseline' = <<Outcome>>
               /\ IF command = "verify"
                  THEN phase' = "reported" /\ code' = verify_code(Outcome) /\ UNCHANGED replay
                  ELSE /\ phase' = "candidate" /\ UNCHANGED code
                       /\ cursor' = 1 /\ waiting' = FALSE /\ frames' = <<>> /\ stop' = "none"
    /\ UNCHANGED case

EndCandidate ==
    /\ phase = "candidate" /\ stop # "none"
    /\ \E verdict \in Verdict : code' = test_code(verdict)
    /\ phase' = "reported"
    /\ UNCHANGED <<case, replay, baseline>>

Next == Record \/ Load \/ Replay \/ EndBaseline \/ EndCandidate

Spec == Init /\ [][Next]_vars

-----------------------------------------------------------------------------
Was(run, why) == run # <<>> /\ run[1].stop = why
RecordedEffectsBefore(n) == Effects(SubSeq(recording, 1, n - 1))

\* rook verify exits 0 exactly when the baseline repeated the whole recording, the
\* places of its effects among the inputs included; 2 only when a gap kept it from
\* saying so, with every effect before the gap as recorded.
VerifyCodeMeansAgreement ==
    (phase = "reported" /\ command = "verify") =>
        /\ code = 0 <=> baseline[1].frames = recording
        /\ code = 2 <=> /\ Was(baseline, "Gap")
                        /\ Effects(baseline[1].frames) = RecordedEffectsBefore(baseline[1].at)

\* "A refused input was never applied, so it is not evidence": the inputs of the
\* baseline's stream are the recorded ones before the frame it stopped at.
Inputs(s) == Keep(s, {i \in DOMAIN s : s[i].kind = "input"})
BaselineIsEvidence ==
    Inputs(baseline[1].frames) = Inputs(SubSeq(recording, 1, baseline[1].at - 1))

\* "A later evidence gap cannot erase a mismatch already established in the
\* consumed prefix": a test comes to anything but a failure only over a baseline
\* whose effects, as far as it got, are the recorded ones, however its replay
\* ended, and whose inputs were all applied.
PassRestsOnTheBaseline ==
    (phase = "reported" /\ command = "test" /\ code \in {0, 2, 3}) =>
        /\ BaselineIsEvidence
        /\ Effects(baseline[1].frames) = RecordedEffectsBefore(
              IF Was(baseline, "Exhausted") THEN Len(recording) + 1 ELSE baseline[1].at)
        /\ Was(baseline, "Exhausted") => baseline[1].frames = recording
=============================================================================

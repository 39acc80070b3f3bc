--------------------------- MODULE RunCase_proofs ---------------------------
(***************************************************************************)
(* Proofs about rook verify and rook test, for every recording, every      *)
(* alphabet of effects and every behaviour of the builds.                  *)
(*                                                                         *)
(* The argument: while the baseline is replayed its stream holds the       *)
(* inputs the cursor has passed, and the one that is being answered        *)
(* (Evidence); where the replay stops tells what the recording has there   *)
(* (StopsWhere); the outcome that is kept repeats both (KeptOutcome), and  *)
(* the exit code is a function of it (CodeDecided).                        *)
(***************************************************************************)
EXTENDS RunCase, Subsequences_proofs, TLAPS

Frame == {input(k) : k \in Nat} \cup {effect(v) : v \in Value} \cup {gap}
Spoken == {input(k) : k \in Nat} \cup {effect(v) : v \in Value}   \* what a replay holds

Types ==
    /\ command \in {"verify", "test"}
    /\ recording \in Seq(Frame) /\ frames \in Seq(Spoken)
    /\ phase \in {"recording", "baseline", "candidate", "reported", "error"}
    /\ cursor \in 1..(Len(recording) + 1) /\ (waiting => cursor <= Len(recording))
    /\ stop \in {"none", "Exhausted", "Gap", "Refused"}
    /\ phase = "recording" => cursor = 1 /\ frames = <<>> /\ stop = "none" /\ ~waiting
    /\ phase \in {"recording", "baseline"} => baseline = <<>>
    /\ phase = "candidate" => command = "test"

\* The inputs of the recording before position n.
InputsBefore(n) == Inputs(SubSeq(recording, 1, n - 1))

\* The baseline's stream holds the inputs the cursor has passed, and the one that
\* is being answered.
Evidence ==
    phase = "baseline" =>
        IF waiting
        THEN /\ recording[cursor].kind = "input"
             /\ Inputs(frames) = Append(InputsBefore(cursor), recording[cursor])
        ELSE Inputs(frames) = InputsBefore(cursor)

\* What the recording has where a replay of the baseline stops.
StoppedAt(why, at) ==
    /\ why = "Exhausted" => at = Len(recording) + 1
    /\ why = "Gap" => at <= Len(recording) /\ recording[at] = gap
StopsWhere == phase = "baseline" => StoppedAt(stop, cursor) /\ (stop # "none" => ~waiting)

\* The outcome that is kept of the baseline's replay.
Outcomes == [frames : Seq(Spoken), stop : {"Exhausted", "Gap", "Refused"},
             at : 1..(Len(recording) + 1)]
KeptOutcome ==
    phase \in {"candidate", "reported"} =>
        /\ baseline # <<>> /\ baseline[1] \in Outcomes
        /\ StoppedAt(baseline[1].stop, baseline[1].at)
        /\ Inputs(baseline[1].frames) = InputsBefore(baseline[1].at)

\* The exit code is decided by that outcome, for a test with the verdict.
CodeDecided ==
    phase = "reported" =>
        IF command = "verify" THEN code = verify_code(baseline[1])
        ELSE \E verdict \in Verdict : code = test_code(verdict)

IInv == Types /\ Evidence /\ StopsWhere /\ KeptOutcome /\ CodeDecided

-----------------------------------------------------------------------------
LEMMA FrameKinds ==
    /\ \A k : input(k).kind = "input" /\ \A v : effect(v).kind = "effect" /\ gap.kind = "gap"
    /\ \A f \in Frame : f.kind = "gap" => f = gap
    /\ \A f \in Frame : f.kind # "gap" => f \in Spoken
    /\ \A f \in Spoken : f.kind \in {"input", "effect"} /\ f \in Frame
  BY DEF Frame, Spoken, input, effect, gap

\* The inputs of a stream that grows by a frame.
LEMMA InputsAppend ==
    ASSUME NEW S, NEW s \in Seq(S), NEW f \in S
    PROVE  Inputs(Append(s, f)) = IF f.kind = "input" THEN Append(Inputs(s), f) ELSE Inputs(s)
  <1>. DEFINE t == Append(s, f)
              I == {i \in DOMAIN s : s[i].kind = "input"}
              J == {i \in DOMAIN t : t[i].kind = "input"}
  <1>1. DOMAIN s = 1..Len(s) /\ DOMAIN t = 1..(Len(s) + 1) /\ Len(s) \in Nat
    OBVIOUS
  <1>2. t[Len(s) + 1] = f /\ \A k \in 1..Len(s) : t[k] = s[k]
    OBVIOUS
  <1>3. \A k \in 1..Len(s) : k \in I <=> k \in J
    BY <1>1, <1>2
  <1>4. Len(s) + 1 \in J <=> f.kind = "input"
    BY <1>1, <1>2
  <1>5. Keep(t, J) = IF Len(s) + 1 \in J THEN Append(Keep(s, I), f) ELSE Keep(s, I)
    <2>. HIDE DEF I, J
    <2>. QED  BY <1>3, KeepAppend
  <1>6. Inputs(t) = Keep(t, J) /\ Inputs(s) = Keep(s, I)
    BY DEF Inputs
  <1>. QED  BY <1>4, <1>5, <1>6

LEMMA InputsType == ASSUME NEW S, NEW s \in Seq(S) PROVE Inputs(s) \in Seq(S)
  BY KeepType DEF Inputs

\* The inputs before the next position.
LEMMA InputsBeforeNext ==
    ASSUME Types, NEW n \in 1..Len(recording)
    PROVE  /\ InputsBefore(n + 1) = IF recording[n].kind = "input"
                                    THEN Append(InputsBefore(n), recording[n]) ELSE InputsBefore(n)
           /\ InputsBefore(n) \in Seq(Frame)
  <1>1. recording \in Seq(Frame) /\ recording[n] \in Frame /\ (n + 1) - 1 = n
    BY DEF Types
  <1>2. /\ SubSeq(recording, 1, n - 1) \in Seq(Frame)
        /\ SubSeq(recording, 1, n) = Append(SubSeq(recording, 1, n - 1), recording[n])
    BY <1>1, PrefixStep
  <1>3. Inputs(SubSeq(recording, 1, n)) =
            IF recording[n].kind = "input" THEN Append(Inputs(SubSeq(recording, 1, n - 1)), recording[n])
            ELSE Inputs(SubSeq(recording, 1, n - 1))
    BY <1>1, <1>2, InputsAppend
  <1>. QED  BY <1>1, <1>2, <1>3, InputsType DEF InputsBefore

-----------------------------------------------------------------------------
LEMMA InitInv == Init => IInv
  <1>. SUFFICES ASSUME Init PROVE IInv
    OBVIOUS
  <1>1. Types
    BY EmptySeq DEF Init, Types
  <1>. QED  BY <1>1 DEF Init, IInv, Evidence, StopsWhere, KeptOutcome, CodeDecided

\* A step that leaves the case and the kept outcome alone and reports nothing keeps
\* what is known of the outcome.
LEMMA OutcomeStays ==
    ASSUME IInv, UNCHANGED <<case, baseline>>, phase' # "reported",
           phase' = "candidate" => phase = "candidate"
    PROVE  KeptOutcome' /\ CodeDecided'
  BY DEF IInv, KeptOutcome, CodeDecided, case, Outcomes, StoppedAt, InputsBefore

\* Recording and loading the case.
LEMMA RecordStep == ASSUME IInv, Record PROVE IInv'
  <1>1. recording' \in Seq(Frame)
    <2>0. recording \in Seq(Frame)
      BY DEF IInv, Types
    <2>1. CASE \E k \in 0..Len(Effects(recording)) : recording' = Append(recording, input(k))
      <3>1. PICK k \in 0..Len(Effects(recording)) : recording' = Append(recording, input(k))
        BY <2>1
      <3>2. k \in Nat
        <4>1. Effects(recording) \in Seq(Frame)
          BY <2>0, KeepType DEF Effects
        <4>. QED  BY <4>1
      <3>. QED  BY <2>0, <3>1, <3>2 DEF Frame
    <2>2. CASE \E v \in Value : recording' = Append(recording, effect(v))
      BY <2>0, <2>2 DEF Frame
    <2>3. CASE recording' = Append(recording, gap)
      BY <2>0, <2>3 DEF Frame
    <2>. QED  BY <2>1, <2>2, <2>3 DEF Record
  <1>2. /\ phase = "recording" /\ phase' = phase /\ command' = command /\ cursor' = cursor
        /\ waiting' = waiting /\ frames' = frames /\ stop' = stop /\ baseline' = baseline
    BY DEF Record, replay
  <1>3. cursor' \in 1..(Len(recording') + 1)
    BY <1>1, <1>2 DEF IInv, Types
  <1>. QED
    BY <1>1, <1>2, <1>3 DEF IInv, Types, Evidence, StopsWhere, KeptOutcome, CodeDecided

LEMMA LoadStep == ASSUME IInv, Load PROVE IInv'
  <1>1. Types'
    BY DEF IInv, Types, Load, case, replay
  <1>2. Evidence'
    <2>1. frames' = <<>> /\ cursor' = 1 /\ ~waiting' /\ recording' = recording
      BY DEF IInv, Types, Load, case, replay
    <2>2. SubSeq(recording, 1, 1 - 1) = <<>>
      BY SubSeqEmpty
    <2>. QED  BY <2>1, <2>2 DEF Evidence, InputsBefore
  <1>3. StopsWhere'
    BY DEF IInv, Types, Load, case, replay, StopsWhere, StoppedAt
  <1>4. KeptOutcome' /\ CodeDecided'
    BY OutcomeStays DEF Load
  <1>. QED  BY <1>1, <1>2, <1>3, <1>4 DEF IInv

-----------------------------------------------------------------------------
(***************************************************************************)
(* The replay.                                                             *)
(***************************************************************************)
\* What every step of a replay leaves alone.
LEMMA ReplayKeeps ==
    ASSUME IInv, Replay
    PROVE  /\ phase \in {"baseline", "candidate"} /\ stop = "none"
           /\ UNCHANGED <<case, baseline>>
           /\ phase' = phase \/ phase' = "error"
           /\ KeptOutcome' /\ CodeDecided'
  <1>1. /\ phase \in {"baseline", "candidate"} /\ stop = "none"
        /\ UNCHANGED <<case, baseline>>
        /\ phase' = phase \/ phase' = "error"
    BY DEF Replay, Skip, AtGap, AtEnd, RefuseUnsent, Deliver, Effect, Stepped, Refuse, Complete,
           Breaks, Replaying, Reads, Stops
  <1>2. phase' # "reported" /\ (phase' = "candidate" => phase = "candidate")
    BY <1>1
  <1>. QED  BY <1>1, <1>2, OutcomeStays

LEMMA SkipStep == ASSUME IInv, Skip PROVE IInv'
  <1>1. /\ ~waiting /\ cursor \in 1..Len(recording) /\ recording[cursor].kind = "effect"
        /\ cursor' = cursor + 1 /\ phase' = phase /\ stop = "none" /\ phase # "recording"
        /\ UNCHANGED <<command, recording, waiting, frames, stop, baseline>>
    BY DEF IInv, Types, Skip, Reads, Recorded, Replaying, case
  <1>2. Types'
    BY <1>1 DEF IInv, Types
  <1>3. InputsBefore(cursor + 1) = InputsBefore(cursor)
    BY <1>1, InputsBeforeNext DEF IInv
  <1>4. Evidence'
    BY <1>1, <1>3 DEF IInv, Evidence, InputsBefore
  <1>5. StopsWhere'
    BY <1>1 DEF StopsWhere, StoppedAt
  <1>. QED  BY <1>2, <1>4, <1>5, ReplayKeeps DEF IInv, Replay

LEMMA StopStep == ASSUME IInv, AtGap \/ AtEnd \/ RefuseUnsent PROVE IInv'
  <1>1. /\ ~waiting /\ phase' = phase /\ phase # "recording"
        /\ UNCHANGED <<command, recording, waiting, frames, cursor, baseline>>
        /\ stop' \in {"Exhausted", "Gap", "Refused"}
    BY DEF AtGap, AtEnd, RefuseUnsent, Stops, Reads, Replaying, case
  <1>2. Types'
    BY <1>1 DEF IInv, Types
  <1>3. Evidence'
    BY <1>1 DEF IInv, Evidence, InputsBefore
  <1>4. StopsWhere'
    <2>1. stop' = "Exhausted" => cursor = Len(recording) + 1
      BY DEF AtGap, AtEnd, RefuseUnsent, Stops, IInv, Types
    <2>2. stop' = "Gap" => cursor <= Len(recording) /\ recording[cursor] = gap
      <3>. SUFFICES ASSUME stop' = "Gap"
                    PROVE  cursor <= Len(recording) /\ recording[cursor] = gap
        OBVIOUS
      <3>1. Reads("gap")
        BY DEF AtGap, AtEnd, RefuseUnsent, Stops
      <3>2. cursor \in 1..Len(recording) /\ recording[cursor].kind = "gap"
        BY <3>1 DEF Reads, Recorded, IInv, Types
      <3>3. recording[cursor] \in Frame
        BY <3>2 DEF IInv, Types
      <3>. QED  BY <3>2, <3>3, FrameKinds
    <2>. QED  BY <1>1, <2>1, <2>2 DEF StopsWhere, StoppedAt
  <1>. QED  BY <1>2, <1>3, <1>4, ReplayKeeps DEF IInv, Replay

LEMMA DeliverStep == ASSUME IInv, Deliver PROVE IInv'
  <1>1. /\ ~waiting /\ waiting' /\ cursor \in 1..Len(recording)
        /\ recording[cursor].kind = "input" /\ phase' = phase /\ phase # "recording"
        /\ stop = "none" /\ frames' = Append(frames, recording[cursor])
        /\ UNCHANGED <<command, recording, cursor, stop, baseline>>
    BY DEF IInv, Types, Deliver, Reads, Recorded, Replaying, case
  <1>2. recording[cursor] \in Spoken /\ frames \in Seq(Spoken)
    BY <1>1, FrameKinds DEF IInv, Types
  <1>3. Types'
    BY <1>1, <1>2 DEF IInv, Types
  <1>4. Inputs(frames') = Append(Inputs(frames), recording[cursor])
    BY <1>1, <1>2, InputsAppend
  <1>5. Evidence'
    BY <1>1, <1>4 DEF IInv, Evidence, InputsBefore, Types
  <1>6. StopsWhere'
    BY <1>1 DEF StopsWhere, StoppedAt
  <1>. QED  BY <1>3, <1>5, <1>6, ReplayKeeps DEF IInv, Replay

LEMMA EffectStep == ASSUME IInv, Effect PROVE IInv'
  <1>1. PICK v \in Value : frames' = Append(frames, effect(v))
    BY DEF Effect
  <1>2. /\ waiting /\ phase' = phase /\ phase # "recording" /\ stop = "none"
        /\ UNCHANGED <<command, recording, waiting, cursor, stop, baseline>>
    BY DEF Effect, Replaying, case
  <1>3. effect(v) \in Spoken /\ frames \in Seq(Spoken) /\ effect(v).kind # "input"
    BY FrameKinds DEF IInv, Types, Spoken
  <1>4. Types'
    BY <1>1, <1>2, <1>3 DEF IInv, Types
  <1>5. Inputs(frames') = Inputs(frames)
    BY <1>1, <1>3, InputsAppend
  <1>6. Evidence' /\ StopsWhere'
    BY <1>2, <1>5 DEF IInv, Evidence, InputsBefore, StopsWhere, StoppedAt
  <1>. QED  BY <1>4, <1>6, ReplayKeeps DEF IInv, Replay

LEMMA SteppedStep == ASSUME IInv, Stepped PROVE IInv'
  <1>1. /\ waiting /\ ~waiting' /\ cursor' = cursor + 1 /\ phase' = phase /\ stop = "none"
        /\ phase # "recording"
        /\ UNCHANGED <<command, recording, frames, stop, baseline>>
    BY DEF Stepped, Replaying, case
  <1>2. Types'
    BY <1>1 DEF IInv, Types
  <1>3. ASSUME phase = "baseline" PROVE Inputs(frames) = InputsBefore(cursor + 1)
    <2>1. cursor \in 1..Len(recording)
      BY <1>1 DEF IInv, Types
    <2>2. /\ recording[cursor].kind = "input"
          /\ Inputs(frames) = Append(InputsBefore(cursor), recording[cursor])
      BY <1>1, <1>3 DEF IInv, Evidence
    <2>. QED  BY <2>1, <2>2, InputsBeforeNext DEF IInv
  <1>4. Evidence'
    BY <1>1, <1>3 DEF Evidence, InputsBefore
  <1>5. StopsWhere'
    BY <1>1 DEF StopsWhere, StoppedAt
  <1>. QED  BY <1>2, <1>4, <1>5, ReplayKeeps DEF IInv, Replay

\* A refused input, which nothing follows, leaves the stream again.
LEMMA RefuseStep == ASSUME IInv, Refuse PROVE IInv'
  <1>1. /\ waiting /\ ~waiting' /\ phase' = phase /\ phase \in {"baseline", "candidate"}
        /\ frames' = Front(frames) /\ stop' = "Refused" /\ ~IsEffect(Last(frames))
        /\ UNCHANGED <<command, recording, cursor, baseline>>
    BY DEF Refuse, Replaying, case
  <1>2. Front(frames) \in Seq(Spoken)
    BY DEF IInv, Types, Front
  <1>3. Types'
    BY <1>1, <1>2 DEF IInv, Types
  <1>4. ASSUME phase = "baseline" PROVE Inputs(Front(frames)) = InputsBefore(cursor)
    <2>1. cursor \in 1..Len(recording)
      BY <1>1 DEF IInv, Types
    <2>2. Inputs(frames) = Append(InputsBefore(cursor), recording[cursor])
      BY <1>1, <1>4 DEF IInv, Evidence
    <2>3. InputsBefore(cursor) \in Seq(Frame) /\ recording[cursor] \in Frame
      BY <2>1, InputsBeforeNext DEF IInv, Types
    <2>4. frames # <<>>
      <3>1. Inputs(<<>>) = <<>>
        BY KeepEmpty DEF Inputs
      <3>2. Append(InputsBefore(cursor), recording[cursor]) # <<>>
        BY <2>3, AppendProperties
      <3>. QED  BY <2>2, <3>1, <3>2
    <2>5. /\ Last(frames) \in Spoken /\ Last(frames) \in Frame
          /\ frames = Append(Front(frames), Last(frames)) /\ Front(frames) \in Seq(Frame)
      <3>1. frames \in Seq(Spoken) /\ Len(frames) \in 1..Len(frames)
        BY <2>4, EmptySeq DEF IInv, Types
      <3>2. SubSeq(frames, 1, Len(frames)) = frames
        BY <3>1, SubSeqFull
      <3>3. frames = Append(Front(frames), Last(frames)) /\ Last(frames) \in Spoken
        BY <3>1, <3>2, PrefixStep DEF Front, Last
      <3>4. Spoken \subseteq Frame
        BY FrameKinds
      <3>. QED  BY <1>2, <3>3, <3>4, SeqMonotonic
    <2>6. Last(frames).kind = "input"
      BY <1>1, <2>5, FrameKinds DEF IsEffect
    <2>7. Inputs(frames) = Append(Inputs(Front(frames)), Last(frames))
      BY <2>5, <2>6, InputsAppend
    <2>8. Inputs(Front(frames)) \in Seq(Frame)
      BY <2>5, InputsType
    <2>9. Append(Inputs(Front(frames)), Last(frames)) = Append(InputsBefore(cursor), recording[cursor])
      BY <2>2, <2>7
    <2>. QED  BY <2>3, <2>5, <2>8, <2>9, AppendInjective
  <1>5. Evidence'
    BY <1>1, <1>4 DEF Evidence, InputsBefore
  <1>6. StopsWhere'
    BY <1>1 DEF StopsWhere, StoppedAt
  <1>. QED  BY <1>3, <1>5, <1>6, ReplayKeeps DEF IInv, Replay

LEMMA CompleteStep == ASSUME IInv, Complete PROVE IInv'
  <1>1. /\ ~waiting' /\ phase = "candidate" /\ phase' = phase /\ stop' = "Exhausted"
        /\ UNCHANGED <<command, recording, cursor, frames, baseline>>
    BY DEF Complete, case
  <1>2. Types' /\ Evidence' /\ StopsWhere'
    BY <1>1 DEF IInv, Types, Evidence, StopsWhere
  <1>. QED  BY <1>2, ReplayKeeps DEF IInv, Replay

LEMMA BreaksStep == ASSUME IInv, Breaks PROVE IInv'
  <1>1. /\ phase' = "error"
        /\ UNCHANGED <<command, recording, cursor, waiting, frames, stop, baseline>>
    BY DEF Breaks, case, replay
  <1>2. Types' /\ Evidence' /\ StopsWhere'
    BY <1>1 DEF IInv, Types, Evidence, StopsWhere
  <1>. QED  BY <1>2, ReplayKeeps DEF IInv, Replay

LEMMA ReplayStep == ASSUME IInv, Replay PROVE IInv'
  BY SkipStep, StopStep, DeliverStep, EffectStep, SteppedStep, RefuseStep, CompleteStep, BreaksStep
     DEF Replay

-----------------------------------------------------------------------------
(***************************************************************************)
(* The ends of the two replays.                                            *)
(***************************************************************************)
LEMMA EndBaselineStep == ASSUME IInv, EndBaseline PROVE IInv'
  <1>1. /\ phase = "baseline" /\ stop # "none" /\ ~waiting
        /\ command' = command /\ recording' = recording
    BY DEF EndBaseline, case, IInv, StopsWhere
  <1>2. CASE phase' = "error" /\ UNCHANGED <<replay, baseline>>
    BY <1>1, <1>2 DEF IInv, Types, Evidence, StopsWhere, KeptOutcome, CodeDecided, replay
  <1>3. CASE baseline' = <<Outcome>> /\ phase' \in {"reported", "candidate"}
    <2>1. /\ Outcome \in Outcomes /\ StoppedAt(Outcome.stop, Outcome.at)
          /\ Inputs(Outcome.frames) = InputsBefore(Outcome.at)
      BY <1>1 DEF IInv, Types, Evidence, StopsWhere, Outcomes, Outcome
    <2>2. KeptOutcome'
      BY <1>1, <1>3, <2>1 DEF KeptOutcome, Outcomes, StoppedAt, InputsBefore
    <2>3. CASE /\ command = "verify" /\ phase' = "reported" /\ code' = verify_code(Outcome)
               /\ UNCHANGED replay
      <3>1. Types' /\ Evidence' /\ StopsWhere'
        BY <1>1, <2>3 DEF IInv, Types, Evidence, StopsWhere, replay
      <3>2. CodeDecided'
        BY <1>1, <1>3, <2>3 DEF CodeDecided, verify_code, reproduced, execution_agreement,
               baseline_mismatch, Consumed
      <3>. QED  BY <2>2, <3>1, <3>2 DEF IInv
    <2>4. CASE /\ phase' = "candidate" /\ cursor' = 1 /\ ~waiting' /\ frames' = <<>>
               /\ stop' = "none" /\ command # "verify"
      <3>1. Types'
        BY <1>1, <2>4, EmptySeq DEF IInv, Types
      <3>2. Evidence' /\ StopsWhere' /\ CodeDecided'
        BY <2>4 DEF Evidence, StopsWhere, CodeDecided
      <3>. QED  BY <2>2, <3>1, <3>2 DEF IInv
    <2>. QED  BY <1>3, <2>3, <2>4 DEF EndBaseline
  <1>. QED  BY <1>2, <1>3 DEF EndBaseline

LEMMA EndCandidateStep == ASSUME IInv, EndCandidate PROVE IInv'
  <1>1. /\ phase = "candidate" /\ phase' = "reported"
        /\ UNCHANGED <<command, recording, cursor, waiting, frames, stop, baseline>>
    BY DEF EndCandidate, case, replay
  <1>2. Types' /\ Evidence' /\ StopsWhere'
    BY <1>1 DEF IInv, Types, Evidence, StopsWhere
  <1>3. KeptOutcome'
    BY <1>1 DEF IInv, KeptOutcome, Outcomes, StoppedAt, InputsBefore
  <1>4. command = "test"
    BY <1>1 DEF IInv, Types
  <1>5. \E verdict \in Verdict : code' = test_code(verdict)
    BY DEF EndCandidate
  <1>6. CodeDecided'
    BY <1>1, <1>4, <1>5 DEF CodeDecided, test_code, exit_code, reproduced, execution_agreement,
           baseline_mismatch, Consumed
  <1>. QED  BY <1>2, <1>3, <1>6 DEF IInv

\* The invariant holds always.
LEMMA Invariance == Spec => []IInv
  <1>1. IInv /\ [Next]_vars => IInv'
    <2>. SUFFICES ASSUME IInv, [Next]_vars PROVE IInv'
      OBVIOUS
    <2>1. CASE UNCHANGED vars
      BY <2>1 DEF vars, IInv, Types, Evidence, StopsWhere, KeptOutcome, CodeDecided, Outcomes,
             StoppedAt, InputsBefore, verify_code, test_code, exit_code, reproduced,
             execution_agreement, baseline_mismatch, Consumed
    <2>. QED  BY <2>1, RecordStep, LoadStep, ReplayStep, EndBaselineStep, EndCandidateStep DEF Next
  <1>. QED  BY <1>1, InitInv, PTL DEF Spec

-----------------------------------------------------------------------------
\* A stream that stopped at a gap is not the recording: it holds no gap.
LEMMA GapIsNotReplayed ==
    ASSUME IInv, phase \in {"candidate", "reported"}, baseline[1].stop = "Gap"
    PROVE  baseline[1].frames # recording
  <1>1. /\ baseline[1].frames \in Seq(Spoken) /\ baseline[1].at \in 1..(Len(recording) + 1)
        /\ baseline[1].at <= Len(recording) /\ recording[baseline[1].at] = gap
    BY DEF IInv, KeptOutcome, Outcomes, StoppedAt
  <1>2. gap \notin Spoken
    BY FrameKinds
  <1>3. SUFFICES ASSUME baseline[1].frames = recording PROVE FALSE
    OBVIOUS
  <1>4. baseline[1].at \in 1..Len(recording) /\ recording \in Seq(Spoken)
    BY <1>1, <1>3 DEF IInv, Types
  <1>. QED  BY <1>1, <1>2, <1>4, ElementOfSeq

\* rook verify's exit code: 0 exactly when the baseline repeated the whole
\* recording, 2 only when a gap kept it from saying so with every effect before
\* the gap as recorded (run_case, execution_agreement).
THEOREM VerifyCode == Spec => []VerifyCodeMeansAgreement
  <1>1. IInv => VerifyCodeMeansAgreement
    <2>. SUFFICES ASSUME IInv, phase = "reported", command = "verify"
                  PROVE  /\ code = 0 <=> baseline[1].frames = recording
                         /\ code = 2 <=> /\ Was(baseline, "Gap")
                                         /\ Effects(baseline[1].frames) =
                                                RecordedEffectsBefore(baseline[1].at)
      BY DEF VerifyCodeMeansAgreement
    <2>. DEFINE run == baseline[1]
    <2>1. code = verify_code(run) /\ run.stop \in {"Exhausted", "Gap", "Refused"} /\ baseline # <<>>
      BY DEF IInv, CodeDecided, KeptOutcome, Outcomes
    <2>2. run.stop = "Gap" => run.frames # recording
      BY GapIsNotReplayed
    <2>3. reproduced(run) <=> run.frames = recording
      BY <2>1, <2>2 DEF reproduced, execution_agreement, effects_agree, run_agrees
    <2>4. run.stop = "Gap" =>
              (baseline_mismatch(run) <=> Effects(run.frames) # RecordedEffectsBefore(run.at))
      BY DEF baseline_mismatch, effects_agree, Consumed, RecordedEffectsBefore
    <2>. QED  BY <2>1, <2>2, <2>3, <2>4 DEF verify_code, Was
  <1>. QED  BY <1>1, Invariance, PTL

\* rook test comes to anything but a failure only over a baseline that did what was
\* recorded as far as it got, whose inputs were all applied, and which repeated
\* the whole recording if it reached its end (run_case, baseline_mismatch).
THEOREM PassOverBaseline == Spec => []PassRestsOnTheBaseline
  <1>1. IInv => PassRestsOnTheBaseline
    <2>. SUFFICES ASSUME IInv, phase = "reported", command = "test", code \in {0, 2, 3}
                  PROVE  /\ BaselineIsEvidence
                         /\ Effects(baseline[1].frames) = RecordedEffectsBefore(
                                IF Was(baseline, "Exhausted") THEN Len(recording) + 1
                                ELSE baseline[1].at)
                         /\ Was(baseline, "Exhausted") => baseline[1].frames = recording
      BY DEF PassRestsOnTheBaseline
    <2>. DEFINE run == baseline[1]
    <2>1. /\ \E verdict \in Verdict : code = test_code(verdict)
          /\ run.stop \in {"Exhausted", "Gap", "Refused"} /\ baseline # <<>>
      BY DEF IInv, CodeDecided, KeptOutcome, Outcomes
    <2>2. ~baseline_mismatch(run)
      BY <2>1 DEF test_code
    <2>3. BaselineIsEvidence
      BY DEF IInv, KeptOutcome, InputsBefore, BaselineIsEvidence
    <2>4. CASE run.stop = "Exhausted"
      <3>1. run.frames = recording
        BY <2>2, <2>4 DEF baseline_mismatch, reproduced, execution_agreement, run_agrees
      <3>2. SubSeq(recording, 1, (Len(recording) + 1) - 1) = recording
        <4>1. recording \in Seq(Frame) /\ (Len(recording) + 1) - 1 = Len(recording)
          BY DEF IInv, Types
        <4>. QED  BY <4>1, SubSeqFull
      <3>. QED  BY <2>1, <2>3, <2>4, <3>1, <3>2 DEF Was, RecordedEffectsBefore
    <2>5. CASE run.stop # "Exhausted"
      BY <2>2, <2>3, <2>5 DEF baseline_mismatch, effects_agree, Consumed, Was, RecordedEffectsBefore
    <2>. QED  BY <2>4, <2>5
  <1>. QED  BY <1>1, Invariance, PTL
=============================================================================

------------------------------- MODULE Runner -------------------------------
(***************************************************************************)
(* Record, then replay (crates/rook-verify/src/runner.rs): a recording is  *)
(* made with one build of the component and replayed through an adapter    *)
(* process (crates/rook-adapter-ref/src/adapter.rs) that wraps another.    *)
(* Runner and adapter exchange lines over two pipes; the adapter may die   *)
(* or stop answering at any point.  The comparison policy is               *)
(* raw-bytes-in-order@1.                                                   *)
(***************************************************************************)
EXTENDS Recorder, Property, Subsequences

VARIABLES
    \* the case
    recorded_with,   \* the variant the recording was made with
    declared,        \* the variant the case's identity names for this run
    property,        \* the property the case is about
    candidate,       \* whether the property is evaluated after every effect
    \* the runner
    cursor,             \* the loop's position in the recording
    run,                \* what the run has recorded so far (struct Run)
    authorized,         \* callbacks an effect of the current step may claim
    session_sequence,   \* the sequence the End marker will continue
    effect_sequences,   \* next sequence expected per effect channel
    verdict,            \* the property's answer: {} or a singleton
    \* the adapter process
    adapter,      \* "unstarted", "running", "leaving", "exited" or "dead"
    requests,     \* lines on its stdin
    responses,    \* lines on its stdout, not yet received
    reported      \* effects it has counted

case == <<recorded_with, declared, property, candidate>>
runner == <<cursor, run, authorized, session_sequence, effect_sequences, verdict>>
pipes == <<adapter, requests, responses, reported>>
vars == <<component, recorder, case, runner, pipes>>

NoOrdinal == -1

Init ==
    /\ RecordInit
    /\ recorded_with = variant /\ declared = variant
    /\ property = PROPERTY_TIMEOUT_CANCEL /\ candidate = FALSE
    /\ cursor = 1 /\ authorized = {} /\ session_sequence = 0 /\ verdict = {}
    /\ run = [frames |-> <<>>, steps |-> <<>>, effects |-> <<>>, pending_after |-> {},
              pending |-> {}, stop |-> "Exhausted", reason |-> "Exhausted"]
    /\ effect_sequences = [c \in EffectChannel |-> 0]
    /\ adapter = "unstarted" /\ requests = <<>> /\ responses = <<>> /\ reported = 0

Record == RecordNext /\ UNCHANGED <<case, runner, pipes>>

-----------------------------------------------------------------------------
(***************************************************************************)
(* The adapter: serve.  It answers one request line with the lines of a    *)
(* whole step.  It writes them one by one, but nothing it reads or changes *)
(* depends on the runner meanwhile, so a step is one action; a process     *)
(* that stops between two lines is a death that loses the later ones.      *)
(***************************************************************************)
Request == Head(requests)
Reply(lines) == requests' = Tail(requests) /\ responses' = responses \o lines
AdapterReads(op) == adapter = "running" /\ requests # <<>> /\ Request.op = op

\* The component is constructed when the adapter is asked to start.
AdapterStart ==
    /\ AdapterReads("start")
    /\ state' = Idle /\ goals_issued' = 0 /\ sequences' = [c \in EffectChannel |-> 0]
    /\ UNCHANGED <<variant, outcome>>
    /\ Reply(<<[line |-> "started", variant |-> variant]>>)
    /\ UNCHANGED <<adapter, reported>>

Status(consumed) == CASE consumed = "Yes" -> "Ok" [] consumed = "No" -> "NotConsumed"
                      [] consumed = "Refused" -> "Refused"

AdapterStep ==
    /\ AdapterReads("step")
    /\ Step(Request.input)
    /\ LET n == Request.input.ordinal
           o == outcome'
       IN  /\ Reply([i \in DOMAIN o.effects |->
                        [line |-> "effect", step |-> n, callback |-> o.callback,
                         effect |-> o.effects[i]]]
                    \o [i \in DOMAIN o.progress |->
                        [line |-> "progress", step |-> n, callback |-> o.callback]]
                    \o <<[line |-> "stepped", ordinal |-> n, status |-> Status(o.consumed),
                          pending |-> waits(state')]>>)
           /\ reported' = reported + Len(o.effects)
    /\ UNCHANGED adapter

AdapterFinish ==
    /\ AdapterReads("finish")
    /\ Reply(<<[line |-> "finished", reason |-> Request.reason, pending |-> waits(state),
                effects |-> reported]>>)
    /\ adapter' = "leaving"
    /\ UNCHANGED <<component, reported>>

AdapterExit ==
    /\ adapter = "leaving" /\ adapter' = "exited"
    /\ UNCHANGED <<component, requests, responses, reported>>

\* The process ends abnormally: lines it had not written yet never are.
AdapterDies ==
    /\ adapter \in {"running", "leaving"}
    /\ adapter' = "dead"
    /\ \E n \in 0..Len(responses) : responses' = SubSeq(responses, 1, n)
    /\ UNCHANGED <<component, requests, reported>>

Adapter ==
    /\ AdapterStart \/ AdapterStep \/ AdapterFinish \/ AdapterExit \/ AdapterDies
    /\ UNCHANGED <<recorder, case, runner>>

-----------------------------------------------------------------------------
(***************************************************************************)
(* The runner: replay.                                                     *)
(***************************************************************************)
Send(request) == requests' = Append(requests, request) /\ UNCHANGED <<adapter, responses, reported>>
Goto(p) == phase' = p /\ UNCHANGED <<recording, counters, last_goal, last_cancel, served>>

\* replay returns an error; dropping the AdapterProcess kills and reaps the child.
Abort(p) ==
    /\ Goto(p)
    /\ adapter' = "dead" /\ requests' = <<>> /\ responses' = <<>>
    /\ UNCHANGED <<component, case, runner, reported>>
Fail == Abort("error")

\* Spawns the adapter with some build of the component and asks it to start.  The
\* baseline run declares the build the case was recorded with, a candidate's run
\* declares any; what the spawned program really is shows at startup.
Launch ==
    /\ phase = "closed"
    /\ variant' \in Variant /\ UNCHANGED <<state, goals_issued, sequences, outcome>>
    /\ declared' \in Variant /\ property' \in PropertyName /\ candidate' \in BOOLEAN
    /\ ~candidate' => declared' = recorded_with
    /\ UNCHANGED recorded_with
    /\ requests' = <<[op |-> "start"]>> /\ adapter' = "running"
    /\ Goto("starting")
    /\ UNCHANGED <<runner, responses, reported>>

Received(line) == responses # <<>> /\ Head(responses).line = line
Line == Head(responses)
Consumes == responses' = Tail(responses) /\ UNCHANGED <<adapter, requests, reported>>

\* The started identity must be the declared one.
ReceiveStarted ==
    /\ phase = "starting" /\ Received("started")
    /\ IF Line.variant = declared
       THEN Goto("delivering") /\ Consumes /\ UNCHANGED <<component, case, runner>>
       ELSE Fail

push_verbatim(frames, f) == Append(frames, [f EXCEPT !.observed_ns = 0])
push(frames, f) == Append(frames, [f EXCEPT !.ordinal = Len(frames), !.observed_ns = 0])

Recorded == recording[cursor]

\* The frame a response names, which must be an earlier effect of the component
\* towards the endpoint the response comes from.
NamesRequest(f) == f.type \in {"GoalResponse", "Feedback", "Result", "CancelResponse",
                               "ServiceResponse"}
request_ref(f) ==
    {r \in ToSet(recording) : /\ r.ordinal = f.body.request /\ r.ordinal < f.ordinal
                              /\ IsEmit(r) /\ r.src = COMPONENT_ACTOR_ID
                              /\ f.src = r.dst /\ f.dst = r.src}

Issued(r) == {f \in ToSet(run.frames) : /\ IsEmit(f) /\ f.src = COMPONENT_ACTOR_ID
                                        /\ f.channel = r.channel /\ f.seq = r.seq}

EquivalentInRecording(r) == r \in ToSet(recording)
Equivalent(r) == \E f \in Issued(r) : /\ f.dst = r.dst /\ f.type = r.type
                                      /\ f.flags = r.flags /\ f.body = r.body

\* Goals correspond by issuance: the k-th goal of the run to the k-th recorded.
Goals(frames) == Keep(frames, {i \in DOMAIN frames : frames[i].type = "GoalSend"})
PairedBy(shift) ==
    LET there == Goals(recording)
        here  == Goals(run.frames)
    IN  {<<there[k + shift].ordinal, there[k + shift].body.goal_id>> :
            k \in {j \in DOMAIN here : /\ j + shift \in DOMAIN there
                                       /\ there[j + shift].body.goal_id = here[j].body.goal_id}}
PairedLate == PairedBy(1)
PairedIds == PairedBy(0)

Correlated(f, r) ==
    CASE f.type \in {"GoalResponse", "Feedback", "Result"} ->
            r.type = "GoalSend" /\ <<r.ordinal, f.body.goal_id>> \in PairedIds
      [] f.type = "CancelResponse" ->
            /\ r.type = "CancelSend"
            /\ \A id \in f.body.goals : \E p \in PairedIds : p[2] = id
      [] OTHER -> TRUE

SkipFrame ==
    /\ phase = "delivering" /\ (Recorded.type = "Session" \/ IsEmit(Recorded))
    /\ cursor' = cursor + 1
    /\ IF Recorded.type = "Session"
       THEN /\ run' = [run EXCEPT !.frames = push(@, Recorded)]
            /\ session_sequence' = Recorded.seq + 1
       ELSE UNCHANGED <<run, session_sequence>>
    /\ UNCHANGED <<component, recorder, case, pipes, authorized, effect_sequences, verdict>>

\* The loop ends at the End marker, or at a gap.
MarkersWithoutGap == {"End"}
Markers == {"End", "Gap"}

StopAtMarker ==
    /\ phase = "delivering" /\ Recorded.type \in Markers
    /\ run' = [run EXCEPT !.stop = IF Recorded.type = "Gap" THEN "Gap" ELSE @]
    /\ Goto("stopping")
    /\ UNCHANGED <<component, case, pipes, cursor, authorized, session_sequence,
                   effect_sequences, verdict>>

IsInput == ~IsEmit(Recorded) /\ Recorded.type \notin {"Session"} \cup Markers

step(recorded, replayed, status) == [recorded |-> recorded, replayed |-> replayed, status |-> status]

\* A recorded response whose request this run did not make is refused unseen.
RefuseInput ==
    /\ phase = "delivering" /\ IsInput /\ NamesRequest(Recorded)
    /\ \E r \in request_ref(Recorded) : ~Equivalent(r) \/ ~Correlated(Recorded, r)
    /\ run' = [run EXCEPT !.steps = Append(@, step(Recorded.ordinal, NoOrdinal, "Refused")),
                          !.stop = "Refused"]
    /\ Goto("stopping")
    /\ UNCHANGED <<component, case, pipes, cursor, authorized, session_sequence,
                   effect_sequences, verdict>>

CallbacksOf(frames) == {e[1] : e \in {d \in ToSet(run.effects) :
                                         \E f \in frames : f.ordinal = d[2]}}

\* The callbacks an effect of this step may belong to: the input's own, the one
\* a clock observation names, the one that issued the request it answers.
AuthorizedOwn(f, refs) == {f.ordinal} \cup UNION {CallbacksOf(Issued(r)) : r \in refs}
Authorized(f, refs) ==
    {f.ordinal} \cup (IF f.type = "Clock" THEN {f.body.callback} ELSE {})
                \cup UNION {CallbacksOf(Issued(r)) : r \in refs}

\* An input is delivered.  A response that names no request of the component in
\* the recording ends the run in an error.
DeliverInput ==
    LET refs    == IF NamesRequest(Recorded) THEN request_ref(Recorded) ELSE {}
        request == IF refs = {} THEN <<>> ELSE RequestOf(CHOOSE r \in refs : TRUE)
    IN
    /\ phase = "delivering" /\ IsInput
    /\ \A r \in refs : Equivalent(r) /\ Correlated(Recorded, r)
    /\ IF NamesRequest(Recorded) /\ refs = {} THEN Fail
       ELSE /\ Send([op |-> "step", input |-> Input(Recorded, request)])
            /\ authorized' = Authorized(Recorded, refs)
            /\ run' = [run EXCEPT !.frames = push(@, Recorded)]
            /\ Goto("stepping")
            /\ UNCHANGED <<component, case, cursor, session_sequence, effect_sequences, verdict>>

\* The input of the current step is the last frame that is not an effect.
Delivered == {i \in DOMAIN run.frames : ~IsEmit(run.frames[i])}
ReplayedOrdinal == run.frames[CHOOSE i \in Delivered : \A j \in Delivered : j <= i].ordinal

EffectFrame(e) ==
    frame(0, COMPONENT_ACTOR_ID, e.dst, e.channel, e.seq, e.type, e.flags, e.body)

\* goals.effect: a goal id is issued once, a cancel names an issued goal.
KnownGoals == {f.body.goal_id : f \in ToSet(Goals(run.frames))}
GoalsAllow(e) == CASE e.type = "GoalSend"   -> e.body.goal_id \notin KnownGoals \cup {WILDCARD}
                   [] e.type = "CancelSend" -> e.body.goal_id \in KnownGoals \cup {WILDCARD}
                   [] OTHER -> TRUE

\* The declared channels: which effect may go out on which.
channels == {<<CH_ACTION_GOAL, "GoalSend">>, <<CH_ACTION_CANCEL, "CancelSend">>,
             <<CH_STATUS, "Status">>}
validate_event(e) == <<e.channel, e.type>> \in channels

\* The checks on an effect line: whose step and callback it claims, its type and
\* channel, its sequence.
EffectAllowed(l) ==
    /\ l.step = Recorded.ordinal /\ l.callback \in authorized
    /\ kind(l.effect.type) = "Emit" /\ validate_event(l.effect)
    /\ l.effect.seq = effect_sequences[l.effect.channel]
    /\ GoalsAllow(l.effect)

WithEffect(l) ==
    [run EXCEPT !.frames = push(@, EffectFrame(l.effect)),
                !.effects = Append(@, <<l.callback, Len(run.frames)>>)]

Counting(l) == [effect_sequences EXCEPT ![l.effect.channel] = @ + 1]

Terminal == {"Pass", "Fail", "Invalid"}

\* The evidence at an effect: pending operations are those of the step before,
\* and the recording has not ended.
EvidenceAsEnded(now) == [now EXCEPT !.pending = now.pending_after]
EvidenceNow(now)     == [now EXCEPT !.pending = now.pending_after, !.reason = "Scope"]

\* An effect arrives.  For a candidate the property is evaluated at once; a final
\* answer ends the delivery.
ReceiveEffect ==
    LET l       == Line
        now     == WithEffect(l)
        steps   == Append(run.steps, step(Recorded.ordinal, ReplayedOrdinal, "Ok"))
        answer  == evaluate(property, EvidenceNow([now EXCEPT !.steps = steps]))
    IN  /\ phase = "stepping" /\ Received("effect")
        /\ IF ~EffectAllowed(l) \/ (candidate /\ answer.result = "Error") THEN Fail
           ELSE /\ Consumes
                /\ effect_sequences' = Counting(l)
                /\ IF candidate /\ answer.result \in Terminal
                   THEN verdict' = {answer} /\ run' = [now EXCEPT !.steps = steps] /\ Goto("stopping")
                   ELSE run' = now /\ UNCHANGED <<verdict, recorder>>
                /\ UNCHANGED <<component, case, cursor, authorized, session_sequence>>

ReceiveProgress ==
    /\ phase = "stepping" /\ Received("progress")
    /\ IF Line.step = Recorded.ordinal /\ Line.callback \in authorized
       THEN Consumes /\ UNCHANGED <<component, recorder, case, runner>>
       ELSE Fail

\* The step's last line.  Effects only follow a consumed input; a refused input
\* is taken back out of the evidence and ends the delivery.
ReceiveStepped ==
    LET s == Line.status IN
    /\ phase = "stepping" /\ Received("stepped")
    /\ IF \/ Line.ordinal # Recorded.ordinal
          \/ s # "Ok" /\ Len(run.frames) # ReplayedOrdinal + 1
       THEN Fail
       ELSE /\ Consumes
            /\ IF s = "Refused"
               THEN /\ run' = [run EXCEPT !.frames = Front(@), !.pending_after = Line.pending,
                                 !.steps = Append(@, step(Recorded.ordinal, NoOrdinal, s)),
                                 !.stop = "Refused"]
                    /\ Goto("stopping")
                    /\ UNCHANGED <<cursor, session_sequence>>
               ELSE /\ run' = [run EXCEPT !.pending_after = Line.pending,
                                 !.steps = Append(@, step(Recorded.ordinal, ReplayedOrdinal, s))]
                    /\ session_sequence' =
                         IF Source(Recorded) = <<SESSION_ACTOR_ID, SESSION_CHANNEL_ID>>
                         THEN Recorded.seq + 1 ELSE session_sequence
                    /\ cursor' = cursor + 1
                    /\ Goto("delivering")
            /\ UNCHANGED <<component, case, authorized, effect_sequences, verdict>>

SendFinish ==
    LET reason == IF run.stop = "Exhausted" /\ verdict = {} THEN "Exhausted" ELSE "Scope" IN
    /\ phase = "stopping"
    /\ Send([op |-> "finish", reason |-> reason])
    /\ run' = [run EXCEPT !.reason = reason]
    /\ Goto("finishing")
    /\ UNCHANGED <<component, case, cursor, authorized, session_sequence, effect_sequences, verdict>>

\* Lines of the step that a final answer cut short are still on their way; they
\* are checked and counted.
ReceiveLate ==
    LET l == Line IN
    /\ phase = "finishing" /\ responses # <<>> /\ l.line \in {"effect", "progress", "stepped"}
    /\ IF \/ verdict = {}
          \/ l.line = "effect" /\ ~EffectAllowed(l)
          \/ l.line = "progress" /\ (l.step # Recorded.ordinal \/ l.callback \notin authorized)
          \/ l.line = "stepped" /\ (l.ordinal # Recorded.ordinal \/ l.status # "Ok")
       THEN Fail
       ELSE /\ Consumes
            /\ run' = CASE l.line = "effect" -> WithEffect(l)
                        [] l.line = "stepped" -> [run EXCEPT !.pending_after = l.pending]
                        [] OTHER -> run
            /\ effect_sequences' = IF l.line = "effect" THEN Counting(l) ELSE effect_sequences
            /\ UNCHANGED <<component, recorder, case, cursor, authorized, session_sequence, verdict>>

ReceiveFinished ==
    /\ phase = "finishing" /\ Received("finished")
    /\ IF Line.reason # run.reason \/ Line.effects # Len(run.effects) THEN Fail
       ELSE /\ Consumes
            /\ run' = [run EXCEPT !.pending = Line.pending]
            /\ Goto("reaping")
            /\ UNCHANGED <<component, case, cursor, authorized, session_sequence,
                           effect_sequences, verdict>>

\* The adapter has exited with success: close the replayed stream and answer.
Conclude ==
    LET n      == Len(run.frames)
        closed == [run EXCEPT !.frames = Append(@, [EndMarker(n, session_sequence)
                                                      EXCEPT !.observed_ns = 0])]
        answer == evaluate(property, closed)
    IN  /\ phase = "reaping" /\ adapter = "exited"
        /\ IF verdict = {} /\ answer.result = "Error" THEN Fail
           ELSE /\ run' = closed
                /\ verdict' = IF verdict = {} THEN {answer} ELSE verdict
                /\ Goto("done")
                /\ UNCHANGED <<component, case, pipes, cursor, authorized, session_sequence,
                               effect_sequences>>

\* Nothing arrives within ten seconds, or the pipe is closed and drained, or the
\* process does not exit with success.  A line sent to a process that is gone
\* fails at the write; here it fails at the answer that never comes.
WaitingForLine  == phase \in {"starting", "stepping"} /\ responses = <<>>
WaitingInVain ==
    \/ phase \in {"starting", "stepping", "finishing"} /\ responses = <<>>
    \/ phase = "reaping" /\ adapter # "exited"

GiveUp == WaitingInVain /\ Abort("lost")

RunnerNext ==
    \/ Launch \/ ReceiveStarted \/ SkipFrame \/ StopAtMarker \/ RefuseInput
    \/ DeliverInput \/ ReceiveEffect \/ ReceiveProgress \/ ReceiveStepped \/ SendFinish
    \/ ReceiveLate \/ ReceiveFinished \/ Conclude \/ GiveUp

Next == Record \/ Adapter \/ RunnerNext

Spec == Init /\ [][Next]_vars

\* The runner is a sequential program that never waits more than ten seconds for
\* a line; nothing is assumed of the adapter or of the script.
FairSpec == Spec /\ WF_vars(RunnerNext)

-----------------------------------------------------------------------------
Ended == phase \in {"done", "error", "lost"}

\* What record writes and what replay concludes with are both streams the reader
\* accepts ("so the replayed stream decodes under the same rules as a recording").
StreamsDecode ==
    /\ phase \notin {"recording", "bailed"} => WellFormed(recording)
    /\ phase = "done" => WellFormed(run.frames)

\* The build that made a recording reproduces it: the replay is never refused
\* and its envelopes are those of the recording, all of them when the run went
\* to the end, up to the gap or the early answer otherwise.
SelfReplay ==
    (phase = "done" /\ variant = recorded_with) =>
        LET n == Len(run.frames) - 1
        IN  /\ run.stop # "Refused"
            /\ Envelopes(SubSeq(run.frames, 1, n)) = Envelopes(SubSeq(recording, 1, n))
            /\ run.stop = "Gap" => recording[n + 1].type = "Gap"
            /\ run.reason = "Exhausted" => Envelopes(run.frames) = Envelopes(recording)

\* What the inputs of a stream say, without their ordinals.
Content(f) == <<Source(f), f.seq, f.type, f.body>>
Inputs(frames) == Keep([i \in DOMAIN frames |-> Content(frames[i])],
                       {i \in DOMAIN frames : ~IsEmit(frames[i]) /\ frames[i].type # "End"})

\* The evidence of a run is the recorded inputs in their order up to where the
\* delivery stopped: nothing is skipped, nothing past a gap is used, and an input
\* that was refused is not evidence.
EvidenceIsPrefix ==
    LET seen  == Inputs(run.frames)
        given == Inputs(recording)
    IN  /\ Len(seen) <= Len(given)
        /\ \A i \in DOMAIN seen : seen[i] = given[i] /\ seen[i][3] # "Gap"
        /\ \A s \in ToSet(run.steps) : s.status = "Refused" =>
              \A i \in DOMAIN seen : seen[i] # Content(recording[s.recorded + 1])

\* A response counts for the run only where the run had made the very request the
\* recorded response answered, in everything but its place in the stream.
AnswersThisRun ==
    \A f \in ToSet(run.frames) : NamesRequest(f) =>
        \E r \in ToSet(recording), g \in ToSet(run.frames) :
            /\ r.ordinal = f.body.request /\ g.ordinal < f.ordinal
            /\ [envelope(g) EXCEPT !.ordinal = r.ordinal] = envelope(r)

\* The evidence of a run is its own: recorded inputs up to where the delivery stopped,
\* and no response that another build was given.
EvidenceBelongs == EvidenceIsPrefix /\ AnswersThisRun

\* The answer tells the builds apart, whatever recording is replayed and wherever
\* it is cut: only the fixed build passes timeout_cancel and it never fails it,
\* and only a build that waits for the acknowledgment passes timely_ack.
VerdictMatchesBuild ==
    phase = "done" => \A v \in verdict :
        /\ property = PROPERTY_TIMEOUT_CANCEL =>
             /\ v.result = "Pass" => variant = "fixed"
             /\ v.result = "Fail" => variant # "fixed"
        /\ property = PROPERTY_TIMELY_ACK /\ v.result = "Pass" => variant \in {"old", "fixed"}

\* An answer given before the run ended is the one the complete evidence gives,
\* the lines that were still on their way included.
EarlyVerdictIsFinal ==
    phase = "done" => verdict = {evaluate(property, run)}

\* The runner's checks on an adapter's lines never reject the reference adapter
\* of the declared build.  An error that is not the adapter's silence is a wrong
\* identity, or always-cancel sending at a clock that leaves the property no deadline.
HealthyAdapterAccepted ==
    phase = "error" =>
        \/ declared # variant
        \/ /\ variant = "always-cancel"
           /\ \E f \in ToSet(recording) : f.type = "Clock" /\ f.body.value_ns + Deadline > MaxI64

\* Whatever the adapter does, a replay ends, and leaves no adapter running.
Settles == (phase = "closed") ~> (Ended /\ adapter \in {"exited", "dead"})
=============================================================================

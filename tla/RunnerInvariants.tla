------------------------- MODULE RunnerInvariants -------------------------
(***************************************************************************)
(* The inductive invariants of record and replay, and the words they and   *)
(* their proofs in Runner_proofs are said in: IInv about the streams,      *)
(* AnswerInv about the answers of the property program, SelfInv about the  *)
(* replay of a recording by the build that made it.                        *)
(***************************************************************************)
EXTENDS Runner, Subsequences_proofs

(***************************************************************************)
(* The streams: what is recorded, and what of it has been replayed.        *)
(***************************************************************************)
InputTypes == {"StartingState", "Message", "Clock", "GoalResponse", "Result", "CancelResponse"}
EffectTypes == {"GoalSend", "CancelSend", "Status"}
UsedTypes == {"Session", "Gap", "End"} \cup InputTypes \cup EffectTypes
SessionSource == <<SESSION_ACTOR_ID, SESSION_CHANNEL_ID>>

\* A record with the fields of a frame.
FrameFields == {"ordinal", "src", "dst", "channel", "seq", "type", "kind", "flags", "body",
                "observed_ns", "damage"}
IsFrame(f) == f = [x \in FrameFields |-> f[x]]

\* Frames of a source among the first n.
CountUpTo(s, n, source) == Cardinality({j \in 1..n : Source(s[j]) = source})

\* What holds of a frame of a recording or of a run wherever it stands.
Sound(f) ==
    /\ IsFrame(f) /\ f.type \in UsedTypes /\ f.kind = kind(f.type) /\ f.damage = "none"
    /\ HasMarkerTuple(f) /\ (f.type = "Gap" => GapFlagMatches(f))
    /\ f.type \in EffectTypes <=> f.src = COMPONENT_ACTOR_ID
    /\ f.type \in EffectTypes => f.channel \in EffectChannel

\* And at its place.
FitsAt(s, i) ==
    /\ Sound(s[i]) /\ s[i].ordinal = i - 1 /\ s[i].seq = CountUpTo(s, i - 1, Source(s[i]))
    /\ s[i].type = "Session" <=> i = 1

Recording == phase \in {"recording", "bailed"}
Started == phase \in {"delivering", "stepping", "stopping", "finishing", "reaping"}
Over == phase \in {"done", "error", "lost"}

\* A stream of frames that fit, begun by the session and the starting state, which
\* alone among the inputs shares the session's source.
Begun(s) ==
    /\ IsSeq(s) /\ Len(s) >= 2 /\ \A i \in 1..Len(s) : FitsAt(s, i)
    /\ s[1].body = [uuid |-> "u"] /\ s[2].type = "StartingState"
    /\ \A i \in 3..Len(s) : s[i].type \in InputTypes => s[i].src # SESSION_ACTOR_ID

\* Still being written: its counters count.
Written(s, c) ==
    /\ Begun(s) /\ \A i \in 1..Len(s) : s[i].type # "End"
    /\ DOMAIN c = Endpoint \X ChannelId
    /\ \A source \in Endpoint \X ChannelId : c[source] = CountUpTo(s, Len(s), source)

\* Closed: the end is the last frame and tells the length.
Closed(s) ==
    /\ Begun(s) /\ \A i \in 1..Len(s) : s[i].type = "End" <=> i = Len(s)
    /\ s[Len(s)].body = [uuid |-> "u", frame_count |-> Len(s) - 1]

RecordingInv == IF Recording THEN Written(recording, counters) ELSE Closed(recording)

\* The recorded frames the replay has put behind it or has in work.
Reached == IF phase = "stepping" \/ verdict # {} THEN cursor ELSE cursor - 1

RunFields == {"frames", "steps", "effects", "pending_after", "pending", "stop", "reason"}
IsRun(r) == r = [x \in RunFields |-> r[x]]

Fresh ==
    /\ cursor = 1 /\ run.frames = <<>> /\ run.steps = <<>> /\ session_sequence = 0
    /\ effect_sequences = [c \in EffectChannel |-> 0] /\ verdict = {}

CursorInv ==
    /\ Recording \/ Started \/ Over \/ phase \in {"closed", "starting"}
    /\ IsRun(run) /\ cursor \in 1..Len(recording)
    /\ \A j \in 1..(cursor - 1) : recording[j].type \notin {"Gap", "End"}
    /\ ~Started /\ ~Over => Fresh
    /\ Started /\ phase # "delivering" => cursor > 1
    /\ Started /\ verdict # {} =>
          /\ phase \in {"stopping", "finishing", "reaping"}
          /\ recording[cursor].type \in InputTypes /\ recording[cursor].src # SESSION_ACTOR_ID

\* The inputs of the first n frames.
InputsTo(s, n) == Inputs(SubSeq(s, 1, n))

\* Frames that are a stream by themselves, without a gap and an end.
Streams(frames) ==
    /\ IsSeq(frames)
    /\ \A i \in 1..Len(frames) : FitsAt(frames, i) /\ frames[i].type \notin {"Gap", "End"}

\* Sources count in the frames as in the first n of the recording s, the component
\* by the counters es.
Counted(s, frames, n, es) ==
    /\ \A src, channel : src # COMPONENT_ACTOR_ID =>
          CountUpTo(frames, Len(frames), <<src, channel>>) = CountUpTo(s, n, <<src, channel>>)
    /\ es \in [EffectChannel -> Nat]
    /\ \A c \in EffectChannel :
          CountUpTo(frames, Len(frames), <<COMPONENT_ACTOR_ID, c>>) = es[c]

\* The inputs among the frames are those of the first n of the recording.
Passed(s, frames, n) ==
    /\ Inputs(frames) = InputsTo(s, n)
    /\ \A i \in 1..Len(frames) : frames[i].type \notin EffectTypes =>
          \E j \in 1..n : Content(frames[i]) = Content(s[j])
    /\ IF n = 0 THEN frames = <<>>
       ELSE frames # <<>> /\ frames[1].body = [uuid |-> "u"]

Aligned(s, frames, n, es) == Streams(frames) /\ Counted(s, frames, n, es) /\ Passed(s, frames, n)

ReplayInv ==
    Started => /\ Aligned(recording, run.frames, Reached, effect_sequences)
               /\ session_sequence = CountUpTo(recording, cursor - 1, SessionSource)

\* The frame k of the recording is in the stream and only effects follow it.
InWork(s, k, frames) ==
    /\ s[k].type \in InputTypes
    /\ \E p \in 1..Len(frames) :
          /\ Content(frames[p]) = Content(s[k])
          /\ \A j \in (p + 1)..Len(frames) : frames[j].type \in EffectTypes

Working == phase = "stepping" => InWork(recording, cursor, run.frames)

\* A refusal ends the delivery at the frame that was refused.
Refusals ==
    /\ IsSeq(run.steps)
    /\ Started => \A i \in 1..Len(run.steps) : run.steps[i].status = "Refused" =>
          /\ phase \in {"stopping", "finishing", "reaping"} /\ verdict = {}
          /\ run.steps[i].recorded = cursor - 1

\* The inductive invariant.
IInv == /\ RecordingInv /\ CursorInv /\ ReplayInv /\ Working /\ Refusals
        /\ (phase = "done" => WellFormed(run.frames))
        /\ (Over => EvidenceIsPrefix)

\* What frame makes.
Made(f, n, src, dst, channel, seq, type, flags, body) ==
    /\ IsFrame(f) /\ f.ordinal = n /\ f.src = src /\ f.dst = dst /\ f.channel = channel
    /\ f.seq = seq /\ f.type = type /\ f.kind = kind(type) /\ f.flags = flags
    /\ f.body = body /\ f.damage = "none" /\ Source(f) = <<src, channel>>

\* A frame under another ordinal and another observed time is otherwise the same.
Relabelled(g, f) ==
    /\ g.src = f.src /\ g.dst = f.dst /\ g.channel = f.channel /\ g.seq = f.seq
    /\ g.type = f.type /\ g.body = f.body
    /\ Source(g) = Source(f) /\ Content(g) = Content(f)

\* a is a prefix of b.
Begins(a, b) ==
    IsSeq(a) /\ IsSeq(b) /\ Len(a) <= Len(b) /\ \A i \in 1..Len(a) : a[i] = b[i]

\* Each of them is what one of the frames says.
Told(a, s, n) == \A i \in 1..Len(a) : \E j \in 1..n : a[i] = Content(s[j])

\* EvidenceIsPrefix, of any recording, stream and steps.
Evidence(s, frames, steps) ==
    LET seen  == Inputs(frames)
        given == Inputs(s)
    IN  /\ Len(seen) <= Len(given)
        /\ \A i \in DOMAIN seen : seen[i] = given[i] /\ seen[i][3] # "Gap"
        /\ \A p \in ToSet(steps) : p.status = "Refused" =>
              \A i \in DOMAIN seen : seen[i] # Content(s[p.recorded + 1])

\* One frame more.
Counts(d, c, source) ==
    /\ DOMAIN d = Endpoint \X ChannelId
    /\ \A o \in Endpoint \X ChannelId : d[o] = IF o = source THEN c[o] + 1 ELSE c[o]

\* What a handler sends: nothing, one effect, or two on different channels.
Emission(e) == e.type \in EffectTypes /\ e.channel \in EffectChannel
Emitted(es) ==
    \/ es = <<>>
    \/ \E a : Emission(a) /\ es = <<a>>
    \/ \E a, b : Emission(a) /\ Emission(b) /\ a.channel # b.channel /\ es = <<a, b>>

\* What Serve pushes for the effects of its input.
PushedAs(s, c, e, i) ==
    frame(Len(s) + i, COMPONENT_ACTOR_ID, e.dst, e.channel, c[<<COMPONENT_ACTOR_ID, e.channel>>],
          e.type, e.flags, e.body)
PushedFor(s, c, es) == [i \in DOMAIN es |-> PushedAs(s, c, es[i], i)]

PushedCounts(c, source, pushed) ==
    [o \in DOMAIN c |-> IF o = source \/ \E i \in DOMAIN pushed : Source(pushed[i]) = o
                        THEN c[o] + 1 ELSE c[o]]

Counting1(c, source) == [o \in DOMAIN c |-> IF o = source THEN c[o] + 1 ELSE c[o]]

-----------------------------------------------------------------------------
(***************************************************************************)
(* What the property program reads of a run.                               *)
(***************************************************************************)
\* Ordinals are places: each event has its own.
Ordered(events) ==
    /\ \A e \in events : e.ordinal \in Nat
    /\ \A e, f \in events : e.ordinal = f.ordinal => e = f

\* The first of some events, and the last.
Leads(e, events) == e \in events /\ \A f \in events : f = e \/ e.ordinal < f.ordinal
Trails(e, events) == e \in events /\ \A f \in events : f = e \/ f.ordinal < e.ordinal

\* c is the command the property is about, the first that was consumed, and
\* callback the one its step started.
Opened(I, c, callback) ==
    /\ Leads(c, Commands(I))
    /\ \E s : StepsAt(I, c.ordinal) = {s} /\ s.recorded = callback

\* s is the first goal sent, in the callback of c, and k the clock read before.
FirstSend(I, c, callback, s, k) ==
    /\ Opened(I, c, callback) /\ Leads(s, Attempts(I, "GoalSend"))
    /\ c.ordinal < s.ordinal /\ <<callback, s.ordinal>> \in I.effects
    /\ s.body.goal_id = 0 /\ s.dst = ACTOR_ACTION_SERVER
    /\ Trails(k, {x \in clocks_of(I, callback) : x.ordinal < s.ordinal})

\* What submission finds then.
FirstGoal(callback, s, k) ==
    [callback |-> callback, ordinal |-> s.ordinal, goal_id |-> 0, server |-> ACTOR_ACTION_SERVER,
     deadline_ns |-> k.body.value_ns + Deadline]

\* The answer v about an input that the cancel has settled.
Final(name, I, v) ==
    /\ Commands(I) # {} /\ Sends(I) # {} /\ ClocksBefore(I, FirstOf(Sends(I))) # {}
    /\ ~(submission(I).deadline_ns > MaxI64) /\ cancels_for(I, submission(I)) # {}
    /\ v = judged(name, I, submission(I))

\* J is I with later effects, and whatever it says of the end.
Later(J, I) ==
    /\ J.steps = I.steps /\ I.events \subseteq J.events /\ I.effects \subseteq J.effects
    /\ \A e \in J.events : e \in I.events \/
          /\ e.type \notin {"Message", "Clock", "GoalResponse"}
          /\ \A f \in I.events : f.ordinal < e.ordinal
    /\ \A callback : \A e \in I.events :
          <<callback, e.ordinal>> \in J.effects => <<callback, e.ordinal>> \in I.effects

(***************************************************************************)
(* What the build v, in state st with g goals issued, has left behind in   *)
(* an input.                                                               *)
(***************************************************************************)
NoneSent(I, v, st, g) ==
    /\ g = 0 /\ I.effects = {}
    /\ Attempts(I, "GoalSend") = {} /\ Attempts(I, "CancelSend") = {}
    /\ \/ st = Idle /\ (Commands(I) = {} \/ v = "noop")
       \/ st.tag = "AwaitClockForSend" /\ v # "noop" /\ \E c : Opened(I, c, st.callback)

\* The first goal's fate in the fixed build, if a is what submission finds: its
\* response is awaited, or it was cancelled after its deadline, or answered before.
Elsewhere(st) == st.tag = "AwaitGoalResponse" => st.goal_id \in Nat \ {0}

Underway(I, st, a) ==
    /\ st.tag = "AwaitGoalResponse" /\ st.callback = a.callback /\ st.goal_id = 0
    /\ st.deadline_ns = a.deadline_ns
    /\ cancels_for(I, a) = {} /\ acknowledgment(I, a) = {} /\ Expiries(I, a) = {}
TimedOut(I, st, a) ==
    /\ Elsewhere(st) /\ cancels_for(I, a) # {}
    /\ \E x \in Expiries(I, a) : \A y \in cancels_for(I, a) : x.ordinal < y.ordinal
Acknowledged(I, st, a) ==
    /\ Elsewhere(st) /\ acknowledgment(I, a) # {}
    /\ Expiries(I, a) = {} /\ cancels_for(I, a) = {}

\* always-cancel cancels before it reads another clock, old never cancels.
CancelledAtOnce(I, a) ==
    \E x \in cancels_for(I, a) : \A y \in clocks_of(I, a.callback) :
        y.ordinal > a.ordinal => x.ordinal < y.ordinal

Course(I, v, st, a) ==
    \/ v = "old" /\ Attempts(I, "CancelSend") = {}
    \/ v = "always-cancel" /\ CancelledAtOnce(I, a)
    \/ v = "fixed" /\ (Underway(I, st, a) \/ TimedOut(I, st, a) \/ Acknowledged(I, st, a))

OneSent(I, v, st, g) ==
    /\ g \in Nat \ {0}
    /\ \E c, callback, s, k : /\ FirstSend(I, c, callback, s, k)
                              /\ Course(I, v, st, FirstGoal(callback, s, k))

Follows(I, v, st, g) == NoneSent(I, v, st, g) \/ OneSent(I, v, st, g)

\* The answer a is one that the build v may be given.
Matches(name, v, a) ==
    /\ name = PROPERTY_TIMEOUT_CANCEL =>
         /\ a.result = "Pass" => v = "fixed"
         /\ a.result = "Fail" => v # "fixed"
    /\ name = PROPERTY_TIMELY_ACK /\ a.result = "Pass" => v \in {"old", "fixed"}

(***************************************************************************)
(* What a step of the component may do, as far as the first goal goes.     *)
(***************************************************************************)
Applied == outcome'.consumed = "Yes"
Silent == outcome'.effects = <<>>
Stays == state' = state /\ goals_issued' = goals_issued

\* The command starts the callback, and the clock read in it sends the goal.
StartsCallback(in) ==
    /\ Applied /\ Silent /\ goals_issued' = goals_issued
    /\ in.type = "Message" /\ variant # "noop" /\ state = Idle
    /\ state'.tag = "AwaitClockForSend" /\ state'.callback = in.ordinal

SendsGoal(in) ==
    /\ Applied /\ state.tag = "AwaitClockForSend" /\ goals_issued' = goals_issued + 1
    /\ in.type = "Clock" /\ in.body.callback = state.callback /\ outcome'.callback = state.callback
    /\ \/ /\ variant # "always-cancel"
          /\ outcome'.effects = <<goal_send(goals_issued, state.goal)>>
          /\ state'.tag = "AwaitGoalResponse" /\ state'.callback = state.callback
          /\ state'.goal_id = goals_issued /\ state'.deadline_ns = in.body.value_ns + Deadline
       \/ /\ variant = "always-cancel"
          /\ outcome'.effects = <<goal_send(goals_issued, state.goal),
                                  cancel_send(goals_issued, in.body.value_ns)>>

\* The cancels among the effects.
Cancels(es) == {es[i] : i \in {j \in DOMAIN es : es[j].type = "CancelSend"}}

\* The first goal's response is awaited: what may happen to it.
OutOfTime(in) ==
    /\ Applied /\ in.type = "Clock" /\ in.body.callback = state.callback
    /\ in.body.value_ns >= state.deadline_ns
    /\ outcome'.effects = <<cancel_send(state.goal_id, in.body.value_ns)>>
    /\ state'.tag = "AwaitCancelResponse"
Responds(in) ==
    /\ Applied /\ in.type = "GoalResponse" /\ in.body.goal_id = state.goal_id
    /\ Cancels(outcome'.effects) = {} /\ state'.tag # "AwaitGoalResponse"
Passes(in) ==
    /\ Silent /\ state' = state
    /\ Applied => \/ in.type \notin {"Clock", "GoalResponse"}
                  \/ in.type = "Clock" /\ ~(in.body.value_ns >= state.deadline_ns)

(***************************************************************************)
(* What a step adds to the input: the event w, delivered before, counts as *)
(* consumed if ok, and the frames of the effects come after it.            *)
(***************************************************************************)
Arrived(e, n) == [EffectFrame(e) EXCEPT !.ordinal = n, !.observed_ns = 0]
Arrivals(es, n) == {Arrived(es[i], n + i - 1) : i \in DOMAIN es}

Grows(J, I, w, ok, callback, F) ==
    /\ w.ordinal \in Nat
    /\ \A type : ConsumedInputs(J, type) =
                    ConsumedInputs(I, type) \cup {e \in {w} : ok /\ e.type = type}
    /\ \A type : Attempts(J, type) = Attempts(I, type) \cup {f \in F : f.type = type}
    /\ J.effects = I.effects \cup {<<callback, f.ordinal>> : f \in F}
    /\ \A n : n # w.ordinal => StepsAt(J, n) = StepsAt(I, n)
    /\ \A type : \A e \in ConsumedInputs(I, type) \cup Attempts(I, "GoalSend")
                                                 \cup Attempts(I, "CancelSend") :
          e.ordinal \in Nat /\ e.ordinal < w.ordinal
    /\ \A f \in F : f.ordinal \in Nat /\ w.ordinal < f.ordinal

\* Every effect is attempted, and a goal is sent before anything else in its step.
SentInOrder(es) ==
    \A i \in DOMAIN es : "ATTEMPTED" \in es[i].flags /\ (es[i].type = "GoalSend" => i = 1)

EffectsOf(lines) == {i \in 1..Len(lines) : lines[i].line = "effect"}
Ending(lines) == lines[Len(lines)]

StepLines(lines) ==
    /\ IsSeq(lines) /\ Len(lines) # 0 /\ Ending(lines).line = "stepped"
    /\ \A i \in 1..Len(lines) : lines[i].line = "stepped" => i = Len(lines)
    /\ \A i \in EffectsOf(lines) :
          /\ Ending(lines).status = "Ok" /\ Emission(lines[i].effect)
          /\ lines[i].effect.type = "GoalSend" => i = 1
          /\ \A j \in 1..i : j \in EffectsOf(lines)

\* The frames they become, the first of them at n, and the callbacks these belong to.
Incoming(lines, n) == {Arrived(lines[i].effect, n + i - 1) : i \in EffectsOf(lines)}
IncomingCalls(lines, n) == {<<lines[i].callback, n + i - 1>> : i \in EffectsOf(lines)}

\* The input with the step x and what is still to come of it.
Ahead(I, x, lines, n) ==
    [events |-> I.events \cup Incoming(lines, n), steps |-> I.steps \cup {x},
     effects |-> I.effects \cup IncomingCalls(lines, n)]

\* The lines a step is answered with.
EffectLines(a, es, callback) ==
    /\ a = [i \in DOMAIN es |-> a[i]]
    /\ \A i \in DOMAIN es : a[i].line = "effect" /\ a[i].callback = callback /\ a[i].effect = es[i]
ProgressLines(b, progress) ==
    /\ b = [i \in DOMAIN progress |-> b[i]]
    /\ \A i \in DOMAIN progress : b[i].line = "progress"
Tells(lines, es, callback) ==
    /\ EffectsOf(lines) = DOMAIN es
    /\ \A i \in DOMAIN es : lines[i].effect = es[i] /\ lines[i].callback = callback
Calls(callback, F) == {<<callback, f.ordinal>> : f \in F}

\* Steps of events before n, or of none.
Placed(steps, n) ==
    \A s \in steps : s.replayed \in Int /\ s.replayed < n /\ (s.status = "Ok" => s.replayed \in Nat)

\* J reads as I does.
Unread(J, I) ==
    /\ \A type : ConsumedInputs(J, type) = ConsumedInputs(I, type)
    /\ Attempts(J, "GoalSend") = Attempts(I, "GoalSend")
    /\ Attempts(J, "CancelSend") = Attempts(I, "CancelSend")
    /\ J.effects = I.effects
    /\ \A n \in Consumed(I) : StepsAt(J, n) = StepsAt(I, n)

-----------------------------------------------------------------------------
(***************************************************************************)
(* The invariant of the answers.  While no answer is given, what has been  *)
(* replayed follows the build's state, or will once the lines under way    *)
(* are received; an answer that was given is final.  Nothing is claimed of *)
(* a replay whose adapter has died: it ends without an answer.             *)
(***************************************************************************)
Now == property_input(run)
Quiet == requests = <<>> /\ responses = <<>>
Asked(op) == responses = <<>> /\ \E q : requests = <<q>> /\ q.op = op
Behind(n) == Placed(ToSet(run.steps), n)

\* The input is asked for, or its answer is on its way.
AskedStep ==
    /\ responses = <<>> /\ Len(run.frames) = ReplayedOrdinal + 1
    /\ \E q : /\ requests = <<q>> /\ q.op = "step"
              /\ q.input.type = Recorded.type /\ q.input.body = Recorded.body
              /\ q.input.ordinal = Recorded.ordinal
    /\ Follows(Now, variant, state, goals_issued)
Answering ==
    /\ requests = <<>> /\ StepLines(responses)
    /\ Follows(Ahead(Now, step(Recorded.ordinal, ReplayedOrdinal, Ending(responses).status),
                     responses, Len(run.frames)), variant, state, goals_issued)

Following ==
    /\ phase \in {"delivering", "stopping"} => Quiet
    /\ phase = "stepping" => AskedStep \/ Answering
    /\ phase = "finishing" =>
          \/ Asked("finish")
          \/ requests = <<>> /\ \E l : responses = <<l>> /\ (l.line = "finished" => l.pending = waits(state))
    /\ phase = "reaping" => requests = <<>> /\ run.pending = waits(state)
    /\ phase # "stepping" => Follows(Now, variant, state, goals_issued)

Settled ==
    \E v : verdict = {v} /\ Final(property, Now, v) /\ Matches(property, variant, v)

Healthy ==
    /\ variant \in Variant
    /\ phase = "starting" =>
          /\ run.effects = <<>>
          /\ \/ Asked("start")
             \/ requests = <<>> /\ state = Idle /\ goals_issued = 0 /\ \E l : responses = <<l>>
    /\ Started => IsSeq(run.effects) /\ Behind(IF phase = "stepping" THEN ReplayedOrdinal ELSE Len(run.frames))
    /\ Started /\ verdict = {} => Following
    /\ Started /\ verdict # {} => Settled

AnswerInv ==
    /\ phase \in {"recording", "bailed", "closed"} =>
          adapter = "unstarted" /\ Quiet /\ run.effects = <<>>
    /\ Started \/ phase = "starting" => adapter = "dead" \/ Healthy
    /\ phase = "done" => adapter = "exited" /\ EarlyVerdictIsFinal /\ VerdictMatchesBuild

\* The input of the current step, among any frames.
OrdinalIn(frames) ==
    LET delivered == {i \in DOMAIN frames : ~IsEmit(frames[i])}
    IN  frames[CHOOSE i \in delivered : \A j \in delivered : j <= i].ordinal

\* What an effect adds to a run.
Evidenced(l, steps) == [WithEffect(l) EXCEPT !.steps = steps]
Records(r, l, n) ==
    /\ ToSet(r.frames) = ToSet(run.frames) \cup {Arrived(l.effect, n)}
    /\ Len(r.frames) = n + 1 /\ r.frames[n + 1] = Arrived(l.effect, n)
    /\ \A i \in 1..n : r.frames[i] = run.frames[i]
    /\ IsSeq(r.effects) /\ ToSet(r.effects) = ToSet(run.effects) \cup {<<l.callback, n>>}

-----------------------------------------------------------------------------
(***************************************************************************)
(* The component as a function: what a build makes of its memory and an    *)
(* input, and what it says of it.                                          *)
(***************************************************************************)
Memory == [state |-> state, goals |-> goals_issued, sequences |-> sequences]
Blank == [state |-> Idle, goals |-> 0, sequences |-> [c \in EffectChannel |-> 0]]

EffectIn(m, dst, channel, type, body) ==
    [dst |-> dst, channel |-> channel, seq |-> m.sequences[channel], type |-> type,
     flags |-> {"ATTEMPTED", "CONFIRMED"}, body |-> body]
StatusIn(m, text) == EffectIn(m, ACTOR_DIAGNOSTICS, CH_STATUS, "Status", [text |-> text])
SendIn(m, id, goal) ==
    EffectIn(m, ACTOR_ACTION_SERVER, CH_ACTION_GOAL, "GoalSend", [goal_id |-> id, goal |-> goal])
CancelIn(m, id, now) ==
    EffectIn(m, ACTOR_ACTION_SERVER, CH_ACTION_CANCEL, "CancelSend", [goal_id |-> id, stamp_ns |-> now])

Used(m, st, goals, cb, es, progress) ==
    [to |-> [state |-> st, goals |-> goals,
             sequences |-> [c \in EffectChannel |-> IF \E i \in DOMAIN es : es[i].channel = c
                                                    THEN m.sequences[c] + 1 ELSE m.sequences[c]]],
     says |-> [consumed |-> "Yes", callback |-> cb, effects |-> es, progress |-> progress]]
Unused(m, in, how) ==
    [to |-> m, says |-> [consumed |-> how, callback |-> in.ordinal, effects |-> <<>>, progress |-> <<>>]]

AfterCommand(v, m, in) ==
    IF in.src = ACTOR_COMMAND /\ v = "noop" THEN Used(m, m.state, m.goals, in.ordinal, <<>>, <<>>)
    ELSE IF in.src = ACTOR_COMMAND /\ m.state = Idle /\ in.body.raw
    THEN Used(m, [tag |-> "AwaitClockForSend", callback |-> in.ordinal, goal |-> in.body.goal],
              m.goals, in.ordinal, <<>>, <<>>)
    ELSE Unused(m, in, "No")

AfterPoll(v, m, in) ==
    LET now == in.body.value_ns
        cb  == m.state.callback
    IN  IF ~(now >= m.state.deadline_ns) THEN Used(m, m.state, m.goals, cb, <<>>, <<>>)
        ELSE IF v = "fixed"
        THEN Used(m, [tag |-> "AwaitCancelResponse", callback |-> cb, goal_id |-> m.state.goal_id,
                      cancel_seq |-> m.sequences[CH_ACTION_CANCEL]],
                  m.goals, cb, <<CancelIn(m, m.state.goal_id, now)>>,
                  <<"deadline_expired", "cancel_requested">>)
        ELSE Used(m, Idle, m.goals, cb, <<StatusIn(m, "timed out")>>, <<"deadline_expired">>)

AfterSend(v, m, in) ==
    LET now == in.body.value_ns
        cb  == m.state.callback
        id  == m.goals
    IN  IF v = "always-cancel"
        THEN Used(m, [tag |-> "AwaitCancelResponse", callback |-> cb, goal_id |-> id,
                      cancel_seq |-> m.sequences[CH_ACTION_CANCEL]],
                  id + 1, cb, <<SendIn(m, id, m.state.goal), CancelIn(m, id, now)>>,
                  <<"goal_submitted", "cancel_requested">>)
        ELSE Used(m, [tag |-> "AwaitGoalResponse", callback |-> cb, goal_id |-> id,
                      send_seq |-> m.sequences[CH_ACTION_GOAL], deadline_ns |-> now + Deadline],
                  id + 1, cb, <<SendIn(m, id, m.state.goal)>>, <<"goal_submitted">>)

ReadPending(m, in) ==
    /\ in.src = ACTOR_CLOCK
    /\ [kind |-> "clock_read", callback |-> in.body.callback, what |-> in.body.clock_id] \in waits(m.state)
AfterClock(v, m, in) ==
    IF ~ReadPending(m, in) THEN Unused(m, in, "No")
    ELSE IF m.state.tag = "AwaitGoalResponse" THEN AfterPoll(v, m, in)
    ELSE IF v # "always-cancel" /\ in.body.value_ns + Deadline > MaxI64 THEN Unused(m, in, "No")
    ELSE AfterSend(v, m, in)

Unusable(m, in) ==
    Unused(m, in, IF m.state.tag = "AwaitCancelResponse" /\ m.state.goal_id = in.body.goal_id
                  THEN "Refused" ELSE "No")

AfterGoalResponse(v, m, in) ==
    IF /\ m.state.tag = "AwaitGoalResponse"
       /\ m.state.goal_id = in.body.goal_id /\ bound(in, CH_ACTION_GOAL, m.state.send_seq)
    THEN Used(m, IF in.body.accepted
                 THEN [tag |-> "AwaitResult", callback |-> m.state.callback,
                       goal_id |-> m.state.goal_id, send_seq |-> m.state.send_seq]
                 ELSE Idle,
              m.goals, m.state.callback,
              <<StatusIn(m, IF in.body.accepted THEN "accepted" ELSE "rejected")>>,
              <<"goal_acknowledged">>)
    ELSE Unusable(m, in)

AfterResult(v, m, in) ==
    IF /\ m.state.tag = "AwaitResult"
       /\ m.state.goal_id = in.body.goal_id /\ bound(in, CH_ACTION_GOAL, m.state.send_seq)
    THEN Used(m, Idle, m.goals, m.state.callback, <<StatusIn(m, "finished")>>, <<"goal_terminated">>)
    ELSE Unusable(m, in)

AfterCancelResponse(v, m, in) ==
    IF /\ m.state.tag = "AwaitCancelResponse"
       /\ m.state.goal_id \in in.body.goals /\ bound(in, CH_ACTION_CANCEL, m.state.cancel_seq)
    THEN Used(m, Idle, m.goals, m.state.callback, <<StatusIn(m, "cancel acknowledged")>>,
              <<"cancel_acknowledged">>)
    ELSE Unused(m, in, "No")

After(v, m, in) ==
    IF Handles(in, CH_GOAL_COMMAND, "Message") THEN AfterCommand(v, m, in)
    ELSE IF Handles(in, CH_CLOCK, "Clock") THEN AfterClock(v, m, in)
    ELSE IF Handles(in, CH_ACTION_RESPONSE, "GoalResponse") THEN AfterGoalResponse(v, m, in)
    ELSE IF Handles(in, CH_ACTION_RESPONSE, "Result") THEN AfterResult(v, m, in)
    ELSE IF Handles(in, CH_ACTION_RESPONSE, "CancelResponse") THEN AfterCancelResponse(v, m, in)
    ELSE IF in.dst = COMPONENT_ACTOR_ID /\ in.type = "StartingState"
    THEN Used(m, m.state, m.goals, in.ordinal, <<>>, <<>>)
    ELSE Unused(m, in, "No")

-----------------------------------------------------------------------------
(***************************************************************************)
(* What a recording says of the build that made it.                        *)
(***************************************************************************)
\* The input at place j as the build was stepped with it: a response with the
\* request it names.
RequestIn(s, f) == IF NamesRequest(f) THEN RequestOf(s[f.body.request + 1]) ELSE <<>>
InputAt(s, j) == Input(s[j], RequestIn(s, s[j]))

Shows(f, e) ==
    /\ f.type \in EffectTypes /\ f.src = COMPONENT_ACTOR_ID
    /\ f.dst = e.dst /\ f.channel = e.channel /\ f.seq = e.seq
    /\ f.type = e.type /\ f.flags = e.flags /\ f.body = e.body

\* The effects es, and no others, stand after place n.
ShownAfter(s, n, es) ==
    /\ Len(es) \in Nat /\ n + Len(es) <= Len(s) /\ \A i \in 1..Len(es) : Shows(s[n + i], es[i])
    /\ n + Len(es) < Len(s) => s[n + Len(es) + 1].type \notin EffectTypes

\* The goals sent by place n.
SentBy(s, n) == {s[k].body.goal_id : k \in {i \in 1..n : s[i].type = "GoalSend"}}

\* A response answers an effect before it.
Answers(f, r, sent) ==
    /\ f.dst = COMPONENT_ACTOR_ID /\ r.type \in EffectTypes /\ f.src = r.dst
    /\ IF f.type = "CancelResponse" THEN r.type = "CancelSend" /\ f.body.goals \subseteq sent
       ELSE r.type = "GoalSend" /\ r.body.goal_id = f.body.goal_id
Refers(s, j) ==
    NamesRequest(s[j]) =>
        \E k \in 1..(j - 1) : s[j].body.request = k - 1 /\ Answers(s[j], s[k], SentBy(s, j - 1))

\* The input at j takes the build v from memory a to memory b, by the effects that
\* stand after it.
Serves(s, v, a, b, j) ==
    LET after == After(v, a, InputAt(s, j))
    IN  /\ after.to = b /\ after.says.consumed = "Yes"
        /\ ShownAfter(s, j, after.says.effects) /\ Refers(s, j)
Explains(s, v, a, b, j) == IF s[j].type \in InputTypes THEN Serves(s, v, a, b, j) ELSE b = a

\* c[j] is the memory of the build v when the first j frames are written.
Traced(s, v, c) ==
    c[0] = Blank /\ \A j \in 1..Len(s) : Explains(s, v, c[j - 1], c[j], j)
Reaches(s, v, m) == \E c : Traced(s, v, c) /\ c[Len(s)] = m

Extends(t, s) ==
    /\ Len(t) >= Len(s) /\ \A i \in 1..Len(s) : t[i] = s[i]
    /\ Len(t) > Len(s) => t[Len(s) + 1].type \notin EffectTypes

\* The goals that effects send, and what is known of those a build waits for or
\* cancels: they were sent.
GoalsIn(es) == {es[i].body.goal_id : i \in {j \in DOMAIN es : es[j].type = "GoalSend"}}
KnownGoal(m, sent) == m.state.tag = "AwaitGoalResponse" => m.state.goal_id \in sent
SendsTo(es, sent) ==
    /\ \A i \in DOMAIN es : es[i].type \in {"GoalSend", "CancelSend"} => es[i].dst = ACTOR_ACTION_SERVER
    /\ \A i \in DOMAIN es : es[i].type = "CancelSend" => es[i].body.goal_id \in sent

-----------------------------------------------------------------------------
\* What the recorder holds: the goal and the cancel it will answer are written, and
\* the component is where the recording says.
Held(s, last, type) ==
    \A g \in last : g.type = type /\ g.dst = ACTOR_ACTION_SERVER /\ \E k \in 1..Len(s) : s[k] = g
Writing ==
    /\ recorded_with = variant /\ Reaches(recording, variant, Memory)
    /\ KnownGoal(Memory, SentBy(recording, Len(recording)))
    /\ Held(recording, last_goal, "GoalSend") /\ Held(recording, last_cancel, "CancelSend")
    /\ \A g \in last_cancel : g.body.goal_id \in SentBy(recording, Len(recording))

\* The request of a scripted input.
Scripted(s, f, request) ==
    IF NamesRequest(f)
    THEN \E k \in 1..Len(s) : /\ f.body.request = k - 1 /\ request = RequestOf(s[k])
                              /\ Answers(f, s[k], SentBy(s, Len(s)))
    ELSE request = <<>>

\* A recording that is closed tells all of the build that made it.
Explained ==
    /\ \E c : Traced(recording, recorded_with, c)
    /\ recording[Len(recording)].flags = {}

-----------------------------------------------------------------------------
(***************************************************************************)
(* A replay that is a beginning of the recording.                          *)
(***************************************************************************)
Mirrors(s, frames) ==
    Len(frames) <= Len(s) /\ \A i \in 1..Len(frames) : envelope(frames[i]) = envelope(s[i])

\* The goals sent so far are the first ones recorded.
GoalBefore(a, b, f, g) == \E j \in 1..Len(b) : j \in 1..Len(a) /\ a[j] = f /\ b[j] = g

-----------------------------------------------------------------------------
(***************************************************************************)
(* The build that made a recording replays it.                             *)
(***************************************************************************)
Trace == CHOOSE c : Traced(recording, recorded_with, c)

\* What is on its way shows what is recorded after place n, all of it.
Owing(s, lines, n) ==
    /\ IsSeq(lines)
    /\ \E e \in Nat :
          /\ EffectsOf(lines) = 1..e /\ \A i \in 1..e : Shows(s[n + i], lines[i].effect)
          /\ n + e + 1 <= Len(s) /\ s[n + e + 1].type \notin EffectTypes

\* Between two steps the replay has the effects of the last one, and the build the
\* memory it had.
AtRest(s, c, j, n, m) ==
    /\ j - 1 <= n /\ n < Len(s) /\ m = c[j - 1]
    /\ \A i \in j..n : s[i].type \in EffectTypes
    /\ s[n + 1].type \notin EffectTypes

\* The input at j is asked for, or its effects are on their way.
InStep(s, c, j, n, m, asked, lines) ==
    /\ j <= n /\ s[j].type \in InputTypes /\ \A i \in (j + 1)..n : s[i].type \in EffectTypes
    /\ \/ n = j /\ m = c[j - 1] /\ asked = <<[op |-> "step", input |-> InputAt(s, j)]>>
       \/ asked = <<>> /\ m = c[j] /\ Owing(s, lines, n) /\ Ending(lines).status = "Ok"

\* The delivery is over: never by a refusal, at the gap or the end unless an answer
\* came before.
Stopped(s, j, n, stop, answer) ==
    /\ stop # "Refused"
    /\ stop = "Gap" => answer = {} /\ s[n + 1].type = "Gap"
    /\ answer = {} => j = n + 1 /\ (stop = "Exhausted" => s[n + 1].type = "End")

Repeating ==
    LET n == Len(run.frames)
    IN  /\ phase = "starting" => (requests = <<>> => Memory = Blank)
        /\ Started => Mirrors(recording, run.frames)
        /\ phase \in {"delivering", "stepping"} => run.stop = "Exhausted"
        /\ phase = "delivering" => AtRest(recording, Trace, cursor, n, Memory)
        /\ phase = "stepping" => InStep(recording, Trace, cursor, n, Memory, requests, responses)
        /\ phase \in {"stopping", "finishing", "reaping"} =>
              Stopped(recording, cursor, n, run.stop, verdict)
        /\ phase \in {"stopping", "finishing"} => Owing(recording, responses, n)
        /\ phase = "stopping" => requests = <<>>
        /\ phase = "finishing" => requests = <<>> \/ \E q : requests = <<q>> /\ q.op = "finish"
        /\ phase \in {"finishing", "reaping"} =>
              (run.reason = "Exhausted" => verdict = {} /\ run.stop = "Exhausted")

SelfInv ==
    /\ phase = "recording" => Writing
    /\ phase \notin {"recording", "bailed"} => Explained
    /\ ~Started /\ ~Over => run.stop = "Exhausted"
    /\ (Started \/ phase = "starting") /\ adapter # "dead" /\ variant = recorded_with => Repeating
    /\ SelfReplay

\* f is the frame to mirror next.
Due(s, frames, f) == Len(frames) + 1 <= Len(s) /\ f = s[Len(frames) + 1]

=============================================================================

-------------------------------- MODULE Goals --------------------------------
(***************************************************************************)
(* struct Goals of crates/rook-verify/src/normalization.rs: goals of a run *)
(* correspond to the recorded ones by issuance, and under the policy       *)
(* goal-ids-in-order@1 effects are compared, and recorded responses        *)
(* delivered, through that correspondence.                                 *)
(*                                                                         *)
(* A frame is an effect of the component: a goal or a cancel, its client   *)
(* and a goal id.  The wildcard is the zero id.  A client stands for its   *)
(* two channels, so the n-th cancel of a client is the one with sequence n.*)
(***************************************************************************)
EXTENDS Integers, Sequences, FiniteSets

CONSTANTS Client, Id, Zero,
          MaxRecorded,   \* effects of the recording
          MaxReplayed    \* effects of the run

ASSUME GoalsAssumption == Zero \notin Id /\ MaxRecorded \in Nat /\ MaxReplayed \in Nat

Effect == [type : {"GoalSend", "CancelSend"}, client : Client, id : Id \cup {Zero}]

VARIABLES
    enabled,     \* normalization is goal-ids-by-issuance@1
    recording,   \* the recorded effects
    counts,      \* goals this run has issued, per client
    pairs,       \* the correspondence: recorded ordinal, recorded id, replayed id, client
    seen,        \* client and id of the goals this run has issued
    frames,      \* the run's effects
    normalized,  \* the same, translated
    phase        \* "loading", "running", "refused" or "mismatch"

goalVars == <<enabled, recording, counts, pairs, seen, frames, normalized, phase>>

GoalsInit ==
    /\ enabled \in BOOLEAN /\ recording = <<>> /\ phase = "loading"
    /\ counts = [c \in Client |-> 0] /\ pairs = {} /\ seen = {}
    /\ frames = <<>> /\ normalized = <<>>

IsGoal(f) == f.type = "GoalSend"

\* The recording is whatever the case holds; a recorded cancel names every goal
\* or one the component had sent.
Load ==
    /\ phase = "loading" /\ Len(recording) < MaxRecorded
    /\ \E e \in Effect :
          /\ IsGoal(e) \/ e.id = Zero \/ (\E i \in DOMAIN recording : recording[i] = [e EXCEPT !.type = "GoalSend"])
          /\ recording' = Append(recording, e)
    /\ UNCHANGED <<enabled, counts, pairs, seen, frames, normalized, phase>>

\* The recorded goals of a client.
issuances(c) == {i \in DOMAIN recording : IsGoal(recording[i]) /\ recording[i].client = c}

\* The position of a frame among those of its channel.
SameChannel(f, g) == f.type = g.type /\ f.client = g.client
src_seq(s, i) == Cardinality({j \in 1..(i - 1) : SameChannel(s[j], s[i])})

RecordingAllowed ==
    \A i \in DOMAIN recording : IsGoal(recording[i]) =>
        /\ recording[i].id # Zero
        /\ \A j \in 1..(i - 1) : recording[j] # recording[i]

\* Goals::new: a recorded goal has an id of its own.
New ==
    /\ phase = "loading"
    /\ phase' = IF RecordingAllowed THEN "running" ELSE "refused"
    /\ UNCHANGED <<enabled, recording, counts, pairs, seen, frames, normalized>>

-----------------------------------------------------------------------------
(***************************************************************************)
(* effect: an effect of the run.                                           *)
(***************************************************************************)
Mismatch == phase' = "mismatch" /\ UNCHANGED <<enabled, recording, counts, pairs, seen, frames, normalized>>

Emits(e, canonical) ==
    /\ frames' = Append(frames, e) /\ normalized' = Append(normalized, canonical)
    /\ UNCHANGED <<enabled, recording, phase>>

RenamedAlways(e, id) == [e EXCEPT !.id = id]
Renamed(e, id) == IF enabled THEN [e EXCEPT !.id = id] ELSE e

\* The correspondence of the next goal of a client, with the recorded goal that
\* has as many before it: none for an extra one.
PairOf(c, id) ==
    {[request |-> r, recorded |-> recording[r].id, replayed |-> id, client |-> c] :
        r \in {i \in issuances(c) : src_seq(recording, i) = counts[c]}}

DuplicateIds(e) == e.id = Zero \/ <<e.client, e.id>> \in seen

EmitGoal(e) ==
    /\ IsGoal(e)
    /\ IF DuplicateIds(e) THEN Mismatch
       ELSE LET pair == PairOf(e.client, e.id)
            IN  /\ seen' = seen \cup {<<e.client, e.id>>}
                /\ counts' = [counts EXCEPT ![e.client] = @ + 1]
                /\ pairs' = pairs \cup pair
                /\ Emits(e, IF pair = {} THEN e
                            ELSE Renamed(e, (CHOOSE p \in pair : TRUE).recorded))

Replaying(c, id) == {p \in pairs : p.client = c /\ p.replayed = id}

\* A cancel names every goal, a goal with a correspondence, or an extra goal.
EmitCancel(e) ==
    LET pair == Replaying(e.client, e.id)
    IN
    /\ ~IsGoal(e)
    /\ IF e.id # Zero /\ pair = {} /\ <<e.client, e.id>> \notin seen THEN Mismatch
       ELSE /\ Emits(e, IF pair = {} THEN e ELSE Renamed(e, (CHOOSE p \in pair : TRUE).recorded))
            /\ UNCHANGED <<counts, pairs, seen>>

Emit ==
    /\ phase = "running" /\ Len(frames) < MaxReplayed
    /\ \E e \in Effect : EmitGoal(e) \/ EmitCancel(e)

GoalsNext == Load \/ New \/ Emit

GoalsSpec == GoalsInit /\ [][GoalsNext]_goalVars

-----------------------------------------------------------------------------
(***************************************************************************)
(* input: the translation of a recorded response, {} when it is refused.   *)
(* It changes nothing, so it is an operator of the state: what a response  *)
(* at this point of the run would be turned into.                          *)
(***************************************************************************)
PairFor(r) == {p \in pairs : p.request = r}
AnyAnswer(r, id) == PairFor(r)
Answers(r, id) == {p \in PairFor(r) : p.recorded = id}

goal_response(r, id) ==
    {p.replayed : p \in {q \in Answers(r, id) : enabled \/ q.recorded = q.replayed}}

cancel_response(r, ids) ==
    LET named == {p \in pairs : p.client = recording[r].client /\ p.recorded \in ids}
    IN  IF {p.recorded : p \in named} = ids /\ (enabled \/ \A p \in named : p.recorded = p.replayed)
        THEN {{p.replayed : p \in named}} ELSE {}

\* The frame of this run at the place of a recorded one: replay's request by
\* channel and sequence.
Issued(r) == {i \in DOMAIN frames : SameChannel(frames[i], recording[r])
                                    /\ src_seq(frames, i) = src_seq(recording, r)}
Equivalent(r) == \E i \in Issued(r) : normalized[i] = recording[r]

-----------------------------------------------------------------------------
\* The goals a recorded cancel response names stay apart: they become as many
\* goals, all of that client.
GoalsStayApart ==
    \A r \in DOMAIN recording : ~IsGoal(recording[r]) =>
        \A ids \in SUBSET Id : \A out \in cancel_response(r, ids) :
            /\ Cardinality(out) = Cardinality(ids)
            /\ \A id \in out : <<recording[r].client, id>> \in seen

\* A cancel that is taken for a recorded one cancels the goal that corresponds to
\* the recorded goal, or a goal beyond the recorded ones whose id, which is not
\* translated, happens to be the recorded id.
CancelsItsGoal ==
    enabled => \A r \in DOMAIN recording :
        ~IsGoal(recording[r]) /\ recording[r].id # Zero /\ Equivalent(r) =>
        \A i \in Issued(r) :
            \/ \E p \in pairs : /\ p.client = frames[i].client /\ p.recorded = recording[r].id
                                /\ p.replayed = frames[i].id
            \/ /\ frames[i].id = recording[r].id /\ <<frames[i].client, frames[i].id>> \in seen
               /\ Replaying(frames[i].client, frames[i].id) = {}

\* A recorded response is delivered to the goal this run issued at the place of
\* the goal it answered, and to no other, with its own id: whatever ids the run
\* uses, whatever goals overlap, and whichever client they belong to.  The goals
\* named in cancels and in their responses keep to the same correspondence.
ResponseReachesItsGoal ==
    phase = "running" =>
    /\ GoalsStayApart /\ CancelsItsGoal
    /\ \A r \in DOMAIN recording : IsGoal(recording[r]) =>
          \A id \in Id : \A out \in goal_response(r, id) :
              id = recording[r].id /\ {frames[i].id : i \in Issued(r)} = {out}

\* A run is a renaming of the recording: the same effects, with the ids of each
\* client's goals replaced one for one and the wildcard kept.
IsRenaming ==
    /\ Len(frames) = Len(recording)
    /\ \A i \in DOMAIN frames :
          /\ SameChannel(frames[i], recording[i])
          /\ (frames[i].id = Zero) <=> (recording[i].id = Zero)
    /\ \A i, j \in DOMAIN frames : frames[i].client = frames[j].client =>
          ((frames[i].id = frames[j].id) <=> (recording[i].id = recording[j].id))

\* Normalized effects agree with the recording exactly when the run is a renaming
\* of it, and raw effects when it is the same: the policy hides the ids and
\* nothing else.
AgreementIsRenaming ==
    phase = "running" =>
        (normalized = recording) <=> (IF enabled THEN IsRenaming ELSE frames = recording)

=============================================================================

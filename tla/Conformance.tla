----------------------------- MODULE Conformance -----------------------------
(***************************************************************************)
(* How crates/rook-host/src/rmf_bag.rs scores a replay against the         *)
(* recorded node: distinct decision states, their longest common           *)
(* subsequence, and the same per participant.                              *)
(*                                                                         *)
(* A heartbeat is a function from the participants it reports on to their  *)
(* status; the recorded node and the cell publish any heartbeats.          *)
(***************************************************************************)
EXTENDS Integers, Sequences, SequencesExt, FiniteSetsExt, Functions

CONSTANTS
    Participant, Status,
    MaxPublished, MaxEmitted    \* heartbeats of the node and of the cell

Heartbeat == UNION {[s -> Status] : s \in SUBSET Participant}
EmptyState == [p \in {} |-> CHOOSE s \in Status : TRUE]

VARIABLES
    recorded,       \* heartbeats the node published
    replayed        \* heartbeats the cell emitted

vars == <<recorded, replayed>>

Init == recorded = <<>> /\ replayed = <<>>
Publish ==
    /\ Len(recorded) < MaxPublished /\ \E h \in Heartbeat : recorded' = Append(recorded, h)
    /\ UNCHANGED replayed
Emit ==
    /\ Len(replayed) < MaxEmitted /\ \E h \in Heartbeat : replayed' = Append(replayed, h)
    /\ UNCHANGED recorded
Next == Publish \/ Emit
Spec == Init /\ [][Next]_vars

-----------------------------------------------------------------------------
AppendIfNew(s, e) == IF s # <<>> /\ Last(s) = e THEN s ELSE Append(s, e)

distinct_states(payloads) == FoldLeft(AppendIfNew, <<EmptyState>>, payloads)

\* lcs_len: one row of the table per element of a, from the last to the first;
\* the row is computed from its end, and its last cell stays 0.
LcsCell(here, next, diagonal, a, b) == IF a = b THEN diagonal + 1 ELSE Max({here, next})

LcsRow(previous, a, b) ==
    LET current[j \in 1..(Len(b) + 1)] ==
            IF j = Len(b) + 1 THEN 0
            ELSE LcsCell(previous[j], current[j + 1], previous[j + 1], a, b[j])
    IN  current

lcs_len(a, b) ==
    FoldLeft(LAMBDA previous, e : LcsRow(previous, e, b),
             [j \in 1..(Len(b) + 1) |-> 0], Reverse(a))[1]

\* The statuses of one participant, repetitions dropped.
Reporting(states, p) == SelectSeq(states, LAMBDA h : p \in DOMAIN h)
StatusesOf(states, p) ==
    LET reports == Reporting(states, p) IN
    FoldLeft(AppendIfNew, <<>>, [i \in DOMAIN reports |-> reports[i][p]])
EveryStatusOf(states, p) ==
    LET reports == Reporting(states, p) IN [i \in DOMAIN reports |-> reports[i][p]]
split_per_participant(states, p) == StatusesOf(states, p)

Reported(states) == UNION {DOMAIN states[i] : i \in DOMAIN states}

per_participant_lcs(a, b) ==
    LET matched == [p \in Reported(a) |->
                        lcs_len(split_per_participant(a, p), split_per_participant(b, p))]
        total == [p \in Reported(a) |-> Len(split_per_participant(a, p))]
    IN  <<SumFunction(matched), SumFunction(total)>>

recorded_states == distinct_states(recorded)
replay_states == distinct_states(replayed)

-----------------------------------------------------------------------------
\* Every sequence that is left of s when some of its elements are taken out.
Subsequences(s) ==
    {LET kept == SetToSortSeq(I, <) IN [k \in DOMAIN kept |-> s[kept[k]]] : I \in SUBSET DOMAIN s}

\* lcs_len is the length of the longest common subsequence.
LcsIsLongest ==
    lcs_len(recorded_states, replay_states) =
        Max({Len(c) : c \in Subsequences(recorded_states) \cap Subsequences(replay_states)})

\* Full marks mean agreement: when the score says that as many states were
\* recorded as replayed and all were matched, the cell went through the node's
\* states; and then every participant was matched in full.
FullMarksMeanAgreement ==
    /\ (recorded_states = replay_states) <=>
           /\ Len(recorded_states) = Len(replay_states)
           /\ lcs_len(recorded_states, replay_states) = Len(recorded_states)
    /\ recorded_states = replay_states =>
           LET score == per_participant_lcs(recorded_states, replay_states) IN score[1] = score[2]

\* The score per participant is full exactly when every recorded participant
\* went through its recorded statuses, in order, in the replay: what the others
\* did in between, and how often a status was repeated, does not count.
ParticipantScoreIgnoresOthers ==
    LET score == per_participant_lcs(recorded_states, replay_states) IN
    score[1] = score[2] <=>
        \A p \in Reported(recorded_states) :
            StatusesOf(recorded_states, p) \in Subsequences(StatusesOf(replay_states, p))
=============================================================================

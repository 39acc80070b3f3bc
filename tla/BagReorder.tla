------------------------------ MODULE BagReorder ------------------------------
(***************************************************************************)
(* The recorded bag of crates/rook-host/src/rmf_bag.rs: its deliveries are *)
(* read and checked, and the P1_lifecycle reorder moves every cancel that  *)
(* raced with a set back in front of that set, one pass of the loop per    *)
(* move, before the ticks are rewritten for replay.                        *)
(*                                                                         *)
(* A delivery is its tick, its channel, its participant and the position   *)
(* it was read at, which stands for the rest of its payload.               *)
(***************************************************************************)
EXTENDS ReplayCore

CONSTANTS
    Participant,
    Gaps,           \* how far the next tick of a file may lie from the last
    MaxRecords      \* deliveries of a file

CH_SET == 10
CH_READY == 11
CH_REACHED == 12
CH_RELEASE == 13
CH_CANCEL == 14
CH_HEARTBEAT_TIMER == 15
NoParticipant == "none"

VARIABLES
    deliveries,     \* as read
    messages,       \* as reordered so far
    was_moved,      \* the read positions of the messages moved so far
    moved,          \* how many moves were made
    phase           \* "reading", "reordering", "done" or "failed"

vars == <<deliveries, messages, was_moved, moved, phase>>

Init ==
    /\ deliveries = <<>> /\ messages = <<>> /\ was_moved = {} /\ moved = 0 /\ phase = "reading"

-----------------------------------------------------------------------------
(***************************************************************************)
(* read_deliveries, one record of the file at a time.                      *)
(***************************************************************************)
LastTick == IF deliveries = <<>> THEN 0 ELSE Last(deliveries).tick

\* The record's payload is empty for the timer and names a participant for the
\* others; ticks rise from record to record.
Acceptable(tick, channel, participant) ==
    /\ (channel = CH_HEARTBEAT_TIMER) <=> (participant = NoParticipant)
    /\ deliveries # <<>> => tick > LastTick

ReadRecord ==
    /\ phase = "reading" /\ Len(deliveries) < MaxRecords
    /\ \E channel \in CH_SET..CH_HEARTBEAT_TIMER,
          participant \in Participant \cup {NoParticipant}, gap \in Gaps :
          LET tick == LastTick + gap IN
          \/ /\ Acceptable(tick, channel, participant)
             /\ deliveries' = Append(deliveries,
                    [tick |-> tick, channel_id |-> channel, participant |-> participant,
                     read_at |-> Len(deliveries) + 1])
             /\ UNCHANGED phase
          \/ /\ ~Acceptable(tick, channel, participant)
             /\ phase' = "failed" /\ UNCHANGED deliveries
    /\ UNCHANGED <<messages, was_moved, moved>>

EndOfFile ==
    /\ phase = "reading"
    /\ phase' = IF deliveries = <<>> THEN "failed" ELSE "reordering"
    /\ messages' = deliveries
    /\ UNCHANGED <<deliveries, was_moved, moved>>

-----------------------------------------------------------------------------
(***************************************************************************)
(* reorder_lifecycle.                                                      *)
(***************************************************************************)
Progress(m) == m.channel_id \in {CH_READY, CH_REACHED}

\* The sets of the participant of the message at position c, before it.
SetsBefore(s, c) ==
    {i \in 1..(c - 1) : s[i].channel_id = CH_SET /\ s[i].participant = s[c].participant}

\* A ready or reached of the same participant since its last set.
BlockedAt(s, c) ==
    \E i \in (Max(SetsBefore(s, c)) + 1)..(c - 1) :
        Progress(s[i]) /\ s[i].participant = s[c].participant
NeverBlocked(s, c) == FALSE
blocked(s, c) == BlockedAt(s, c)

Raced(s, c) ==
    /\ s[c].channel_id = CH_CANCEL /\ s[c].read_at \notin was_moved
    /\ SetsBefore(s, c) # {} /\ ~blocked(s, c)

RacingCancels == {c \in DOMAIN messages : Raced(messages, c)}

\* The cancel is taken out and put in front of the set.
MoveTo(s, from, to) == InsertAt(RemoveAt(s, from), to, s[from])

MoveCancel ==
    /\ phase = "reordering" /\ RacingCancels # {}
    /\ LET c == Min(RacingCancels) IN
       /\ messages' = MoveTo(messages, c, Max(SetsBefore(messages, c)))
       /\ was_moved' = was_moved \cup {messages[c].read_at}
    /\ moved' = moved + 1
    /\ UNCHANGED <<deliveries, phase>>

\* Every tick at least one past the one before it.
AsRecorded(s) == s
Risen(s) ==
    LET tick[i \in 0..Len(s)] == IF i = 0 THEN 0 ELSE Max({s[i].tick, tick[i - 1] + 1})
    IN  [i \in DOMAIN s |-> [s[i] EXCEPT !.tick = tick[i]]]

Restamp ==
    /\ phase = "reordering" /\ RacingCancels = {}
    /\ phase' = "done" /\ messages' = Risen(messages)
    /\ UNCHANGED <<deliveries, was_moved, moved>>

Next == ReadRecord \/ EndOfFile \/ MoveCancel \/ Restamp

Spec == Init /\ [][Next]_vars

\* bag_hashes: the envelopes that are hashed for a replay of the messages.
DeliveryEnvelopes ==
    [i \in DOMAIN messages |->
        envelope("Deliver", messages[i].tick, messages[i].channel_id, CELL_ACTOR_ID,
                 messages[i].channel_id, i - 1, messages[i].read_at)]

-----------------------------------------------------------------------------
Positions(s) == [i \in DOMAIN s |-> s[i].read_at]

\* What the lifecycle rule says of a whole recording, without the loop: the
\* cancels with no ready or reached between them and their participant's last
\* set stand directly in front of that set, in the order they were recorded, and
\* everything else keeps its order.
RacesWith(c, s) ==
    /\ deliveries[c].channel_id = CH_CANCEL /\ SetsBefore(deliveries, c) # {}
    /\ s = Max(SetsBefore(deliveries, c)) /\ ~BlockedAt(deliveries, c)
Lifecycle ==
    LET racing(s) == {c \in DOMAIN deliveries : RacesWith(c, s)}
        moves == UNION {racing(s) : s \in DOMAIN deliveries}
        with(s) == IF s \in moves THEN <<>> ELSE Append(SetToSortSeq(racing(s), <), s)
    IN  FlattenSeq([s \in DOMAIN deliveries |-> with(s)])

\* The loop computes exactly that order.
ReorderIsLifecycle == phase = "done" => Positions(messages) = Lifecycle

\* The messages hash in the order in which the cell is stepped over them, and no
\* two share a key: hash_observed sorts by tick, so a moved cancel must carry a
\* tick that still rises.
HashOrderIsReplayOrder ==
    phase = "done" => Ordered(DeliveryEnvelopes) = DeliveryEnvelopes /\ ~DuplicateKey(DeliveryEnvelopes)
=============================================================================

------------------------------- MODULE RookHost -------------------------------
(***************************************************************************)
(* The rook-host program, crates/rook-host/src/main.rs.  Its first         *)
(* argument chooses the command; a command runs one stage after another    *)
(* and the stages share nothing but what the one hands to the next:        *)
(*                                                                         *)
(*    (a cell)   the echo cell over the generated corpus                   *)
(*    rmf        record with scripted robots, then replay the recording    *)
(*    rmf-bag    read and reorder a recorded bag, replay, then score       *)
(*                                                                         *)
(* A stage is started here on any input of the form the stage before it    *)
(* hands on, so that one behaviour is one stage of one command.  The       *)
(* variables of the stages that do not run stay empty.                     *)
(***************************************************************************)
EXTENDS ReplayCore

CONSTANTS
    Delivery, MaxDeliveries, MemorySize, MaxTransfer, MaxEmittedBytes,
    MaxLogLines, MaxLogBytes, MaxDraws,
    MaxEvents, PerTick, EchoBytes,
    Fleets, LastIndex, TravelTicks, Delay, Threshold, MaxCycles,
    ScenarioTicks, HeartbeatPeriod,
    Participant, Gaps, MaxRecords,
    Status, MaxPublished, MaxEmitted

ASSUME RookHostAssumption ==
    /\ {MaxDeliveries, MemorySize, MaxTransfer, MaxEmittedBytes, MaxLogLines, MaxLogBytes,
        MaxDraws, MaxEvents, EchoBytes, MaxCycles, ScenarioTicks, MaxRecords,
        MaxPublished, MaxEmitted} \cup Gaps \subseteq Nat
    /\ {PerTick, HeartbeatPeriod} \subseteq Nat \ {0} /\ EchoBytes <= MaxTransfer
    /\ \A d \in Delivery : d.kind = "Deliver" /\ scheduling_key(d) \in Nat \X Nat \X Nat \X Nat \X Nat
    /\ UNION Fleets \subseteq Nat \cap DOMAIN LastIndex \cap DOMAIN TravelTicks
    /\ \A p \in DOMAIN LastIndex : LastIndex[p] \in Nat \ {0}
    /\ \A p \in DOMAIN TravelTicks : TravelTicks[p] \in Nat
    /\ Delay \in [jump : Nat, release : Nat, stale : Nat, cancel : Nat, set : Nat,
                   arrive : Nat, ready : Nat]

VARIABLES
    stage,
    deliveries, phase, tick, inbox,                         \* of several stages
    cursor, emitted, emitted_bytes, emit_limit, emit_sequence, draws,
    log_lines, log_bytes, accepted, early,                  \* of the ABI
    event_count, COUNT, index, verdict,                     \* of the echo cell
    robots, timer_seq, turn, handled, moderator,            \* of the robots
    messages, was_moved, moved,                             \* of the bag
    recorded, replayed                                      \* of the score

cellVars == <<cursor, emitted, emitted_bytes, emit_limit, emit_sequence, draws,
              log_lines, log_bytes, accepted, early>>
echoVars == <<event_count, COUNT, index, verdict>>
robotVars == <<robots, timer_seq, turn, handled, moderator>>
bagVars == <<messages, was_moved, moved>>
scoreVars == <<recorded, replayed>>
hostVars == <<stage, deliveries, phase, tick, inbox, cellVars, echoVars, robotVars,
          bagVars, scoreVars>>

Host == INSTANCE EchoRun
Robots == INSTANCE RobotRun
Bag == INSTANCE BagReorder
Score == INSTANCE Conformance

-----------------------------------------------------------------------------
\* What a stage that does not run leaves empty.
NoCell ==
    /\ cursor = 0 /\ emitted = <<>> /\ emitted_bytes = 0 /\ emit_limit = 0 /\ emit_sequence = 0
    /\ draws = 0 /\ log_lines = 0 /\ log_bytes = 0 /\ accepted = 0 /\ early = 0
NoEcho == event_count = 0 /\ COUNT = 0 /\ index = 0 /\ verdict = "none"
NoRobots == robots = <<>> /\ timer_seq = 0 /\ turn = {} /\ handled = 0 /\ moderator = <<>>
NoBag == messages = <<>> /\ was_moved = {} /\ moved = 0
NoScore == recorded = <<>> /\ replayed = <<>>
NoStep == tick = 0 /\ inbox = <<>>

main ==
    \/ stage = "echo" /\ Host!EchoInit /\ NoRobots /\ NoBag /\ NoScore
    \/ stage = "record" /\ Robots!Init /\ deliveries = <<>> /\ NoCell /\ NoEcho /\ NoBag /\ NoScore
    \/ stage = "replay" /\ Host!Init /\ NoEcho /\ NoRobots /\ NoBag /\ NoScore
    \/ stage = "reorder" /\ Bag!Init /\ NoStep /\ NoCell /\ NoEcho /\ NoRobots /\ NoScore
    \/ /\ stage = "score" /\ Score!Init /\ deliveries = <<>> /\ phase = "score"
       /\ NoStep /\ NoCell /\ NoEcho /\ NoRobots /\ NoBag

Echo == stage = "echo" /\ Host!EchoNext /\ UNCHANGED <<stage, robotVars, bagVars, scoreVars>>
Record ==
    /\ stage = "record" /\ Robots!Next
    /\ UNCHANGED <<stage, deliveries, cellVars, echoVars, bagVars, scoreVars>>
Replay ==
    /\ stage = "replay" /\ Host!Next
    /\ UNCHANGED <<stage, echoVars, robotVars, bagVars, scoreVars>>
Reorder ==
    /\ stage = "reorder" /\ Bag!Next
    /\ UNCHANGED <<stage, tick, inbox, cellVars, echoVars, robotVars, scoreVars>>
Compare ==
    /\ stage = "score" /\ Score!Next
    /\ UNCHANGED <<stage, deliveries, phase, tick, inbox, cellVars, echoVars, robotVars, bagVars>>

HostNext == Echo \/ Record \/ Replay \/ Reorder \/ Compare

HostSpec == main /\ [][HostNext]_hostVars

-----------------------------------------------------------------------------
\* A replay of any recording by any cell commits every delivery and every emit
\* the cell was told was taken, once each and in one order; the host's captured
\* emits are refused only where the recording has two deliveries of one key or
\* the cell emitted before its first tick (abi.rs, replay_recording, hash_observed).
ReplayCommitsTheRun == stage = "replay" => Host!CapturedEmitsHash /\ Host!RunCommitsEverything

\* None of this depends on the order in which the deliveries arrived: the hashes
\* of a replay are those of every permutation of its recording, and a recording is
\* refused in every order or in none (sort_by_key and the duplicate check in
\* hash_observed).
ArrivalOrderIrrelevant == stage = "replay" => Host!ArrivalOrderIrrelevant

\* Cell, host, native replay and Wasm core agree on every generated corpus the
\* host has room for, also when its last tick is not full, and a run that agrees
\* was observed in full (main.rs, run_cell_replay).
FourWayAgreement == stage = "echo" => Host!FourWayAgreement /\ Host!AgreementIsObserved

\* A robot moves on only into a range granted to the reservation it holds, at a
\* checkpoint it told the moderator it was ready at (robot_messages,
\* apply_heartbeat).
AdvancesWithinGrant == Robots!AdvancesWithinGrant

\* The loop of reorder_lifecycle computes what the lifecycle rule says of the
\* whole recording.
ReorderIsLifecycle == stage = "reorder" => Bag!ReorderIsLifecycle

\* The ticks that reorder_lifecycle rewrites make bag_hashes hash the messages in
\* the order in which the cell is stepped over them, with no two of one key.
HashOrderIsReplayOrder == stage = "reorder" => Bag!HashOrderIsReplayOrder

\* The score of a replay means what the report says: the matched states are a
\* longest common subsequence, full marks are agreement, and a participant is
\* scored on its own statuses alone (lcs_len, per_participant_lcs).
ScoreMeansAgreement ==
    stage = "score" =>
        Score!LcsIsLongest /\ Score!FullMarksMeanAgreement /\ Score!ParticipantScoreIgnoresOthers
=============================================================================

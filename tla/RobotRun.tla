------------------------------- MODULE RobotRun -------------------------------
(***************************************************************************)
(* The synthetic recording of crates/rook-host/src/rmf.rs: scripted robots *)
(* in a closed loop with the blockade moderator's cell.  In every tick the *)
(* timer and then each robot may send one message; the messages go to the  *)
(* cell in scheduling-key order, and the heartbeats it emits while it      *)
(* handles them grant the robots their ranges.                             *)
(*                                                                         *)
(* The moderator is vendored code and external here: it keeps the          *)
(* reservation, the readiness and the granted end of every participant it  *)
(* was told of and may change any grant whenever it publishes.  A robot    *)
(* does not act while the cell runs, so a heartbeat is applied where it is *)
(* emitted instead of after the step.  The direction of travel only        *)
(* changes the geometry in a set message and is left out.                  *)
(***************************************************************************)
EXTENDS ReplayCore

CONSTANTS
    Fleets,           \* the sets of participants to run
    LastIndex,        \* the last checkpoint of a path, by participant
    TravelTicks,      \* travel_ticks, by participant
    Delay,            \* the pause after each kind of action
    Threshold,        \* the tick from which each misbehaviour is due
    MaxCycles,        \* 200 in the code
    ScenarioTicks, HeartbeatPeriod

Channel == [set |-> 10, ready |-> 11, reached |-> 12, release |-> 13, cancel |-> 14, timer |-> 15]
TIMER_ACTOR_ID == 50
FIRST_ROBOT_ACTOR_ID == 101
NoCheckpoint == -1

VARIABLES
    tick,
    robots,       \* the fleet, by participant
    timer_seq,
    turn,         \* the participants that have yet to act in this tick
    inbox,        \* the deliveries of this tick
    handled,      \* how many of them the cell has handled, once it is stepping
    phase,        \* "robots" or "cell"
    moderator     \* external: what it last published, by participant

vars == <<tick, robots, timer_seq, turn, inbox, handled, phase, moderator>>

make_robots(fleet) ==
    [p \in fleet |->
        [seq |-> 0, reservation |-> 0, last_reached |-> 0, ready_at |-> NoCheckpoint,
         granted_end |-> 0, next_action |-> p + 2, cycles |-> 0, misbehaved |-> FALSE]]

Unknown == [reservation |-> 0, ready |-> NoCheckpoint, end |-> 0]

delivery(src, seq, channel, payload) ==
    envelope("Deliver", tick, src, CELL_ACTOR_ID, channel, seq, payload)

TimerDue(t) == t % HeartbeatPeriod = 0
TimerDelivery(t, seq) ==
    IF TimerDue(t)
    THEN <<envelope("Deliver", t, TIMER_ACTOR_ID, CELL_ACTOR_ID, Channel.timer, seq, <<>>)>>
    ELSE <<>>

Init ==
    /\ \E fleet \in Fleets : robots = make_robots(fleet)
    /\ tick = 0 /\ timer_seq = 1 /\ inbox = TimerDelivery(0, 0)
    /\ turn = DOMAIN robots /\ handled = 0 /\ phase = "robots"
    /\ moderator = [p \in DOMAIN robots |-> Unknown]

-----------------------------------------------------------------------------
(***************************************************************************)
(* robot_messages: the first branch that applies, in the code's order.     *)
(***************************************************************************)
payload(p, reservation, checkpoint) == <<p, reservation, checkpoint>>

\* The robot p acts: it becomes r and sends out, or nothing when out is <<>>.
Turn(p, r, out) ==
    /\ turn' = turn \ {p}
    /\ robots' = [robots EXCEPT ![p] = [r EXCEPT !.seq = @ + Len(out)]]
    /\ inbox' = inbox \o [i \in DOMAIN out |->
                    delivery(FIRST_ROBOT_ACTOR_ID + p - 1, r.seq, out[i].channel, out[i].payload)]
    /\ UNCHANGED <<tick, timer_seq, handled, phase, moderator>>

message(channel, p, reservation, checkpoint) ==
    <<[channel |-> channel, payload |-> payload(p, reservation, checkpoint)]>>
Later(r, ticks) == [r EXCEPT !.next_action = tick + ticks]

Acting(p) == phase = "robots" /\ turn # {} /\ p = Min(turn)
Due(p) == Acting(p) /\ tick >= robots[p].next_action

\* The four deliberate misbehaviours, each once: a checkpoint no grant covers, a
\* release, a message of an old reservation and a cancel.
JumpsTheGun(p) ==
    LET r == robots[p] IN
    /\ p = 1 /\ tick >= Threshold[p] /\ ~r.misbehaved /\ r.reservation # 0
    /\ r.last_reached = 0 /\ r.ready_at = 0 /\ r.granted_end = 0
Releases(p) == p = 3 /\ tick >= Threshold[p] /\ robots[p].reservation # 0 /\ ~robots[p].misbehaved
SendsStale(p) == p = 2 /\ tick >= Threshold[p] /\ ~robots[p].misbehaved
Cancels(p) == p = 4 /\ tick >= Threshold[p] /\ robots[p].reservation # 0 /\ ~robots[p].misbehaved
Misbehaves(p) == JumpsTheGun(p) \/ Releases(p) \/ SendsStale(p) \/ Cancels(p)

NotDue(p) == Acting(p) /\ tick < robots[p].next_action /\ Turn(p, robots[p], <<>>)

Jump(p) ==
    /\ Due(p) /\ JumpsTheGun(p)
    /\ Turn(p, Later([robots[p] EXCEPT !.misbehaved = TRUE], Delay.jump),
            message(Channel.reached, p, robots[p].reservation, 2))

Release(p) ==
    /\ Due(p) /\ Releases(p)
    /\ Turn(p, Later([robots[p] EXCEPT !.misbehaved = TRUE, !.ready_at = NoCheckpoint], Delay.release),
            message(Channel.release, p, robots[p].reservation, robots[p].last_reached))

StaleReady(p) ==
    /\ Due(p) /\ SendsStale(p)
    /\ Turn(p, Later([robots[p] EXCEPT !.misbehaved = TRUE], Delay.stale),
            message(Channel.ready, p, Max({robots[p].reservation - 1, 0}), 0))

Cancel(p) ==
    /\ Due(p) /\ Cancels(p)
    /\ Turn(p, Later([robots[p] EXCEPT !.misbehaved = TRUE, !.reservation = 0], Delay.cancel),
            message(Channel.cancel, p, 0, 0))

HasCycleLeft(r) == r.cycles < MaxCycles

Set(p) ==
    LET r == robots[p] IN
    /\ Due(p) /\ ~Misbehaves(p) /\ r.reservation = 0 /\ HasCycleLeft(r)
    /\ Turn(p, Later([r EXCEPT !.reservation = r.cycles + 1, !.cycles = @ + 1, !.last_reached = 0,
                               !.ready_at = NoCheckpoint, !.granted_end = 0], Delay.set),
            message(Channel.set, p, r.cycles + 1, 0))

Retired(p) ==
    /\ Due(p) /\ ~Misbehaves(p) /\ robots[p].reservation = 0 /\ ~HasCycleLeft(robots[p])
    /\ Turn(p, robots[p], <<>>)

UnderWay(p) == Due(p) /\ ~Misbehaves(p) /\ robots[p].reservation # 0
Arrived(p) == robots[p].last_reached = LastIndex[p]

Arrive(p) ==
    /\ UnderWay(p) /\ Arrived(p)
    /\ Turn(p, Later([robots[p] EXCEPT !.reservation = 0], Delay.arrive), <<>>)

Ready(p) ==
    LET r == robots[p] IN
    /\ UnderWay(p) /\ ~Arrived(p) /\ r.ready_at # r.last_reached
    /\ Turn(p, Later([r EXCEPT !.ready_at = r.last_reached], Delay.ready),
            message(Channel.ready, p, r.reservation, r.last_reached))

Granted(p) == robots[p].granted_end > robots[p].last_reached
IsReady(p) == robots[p].ready_at = robots[p].last_reached

Advance(p) ==
    LET r == robots[p] IN
    /\ UnderWay(p) /\ ~Arrived(p) /\ IsReady(p) /\ Granted(p)
    /\ Turn(p, Later([r EXCEPT !.last_reached = @ + 1], TravelTicks[p]),
            message(Channel.reached, p, r.reservation, r.last_reached + 1))

Wait(p) ==
    /\ UnderWay(p) /\ ~Arrived(p) /\ IsReady(p) /\ ~Granted(p)
    /\ Turn(p, Later(robots[p], 1), <<>>)

robot_messages(p) ==
    \/ NotDue(p) \/ Jump(p) \/ Release(p) \/ StaleReady(p) \/ Cancel(p) \/ Set(p)
    \/ Retired(p) \/ Arrive(p) \/ Ready(p) \/ Advance(p) \/ Wait(p)

-----------------------------------------------------------------------------
(***************************************************************************)
(* record: the tick's messages are sorted and handed to the cell.          *)
(***************************************************************************)
StepCell ==
    /\ phase = "robots" /\ turn = {} /\ inbox # <<>>
    /\ phase' = "cell" /\ inbox' = Ordered(inbox)
    /\ UNCHANGED <<tick, robots, timer_seq, turn, handled, moderator>>

\* What the moderator makes of one message.
Told(known, e) ==
    LET p == e.payload[1]  reservation == e.payload[2]  checkpoint == e.payload[3]
        mine == known[p].reservation = reservation
    IN  CASE e.channel_id = Channel.timer -> known
          [] e.channel_id = Channel.set ->
                [known EXCEPT ![p] = [reservation |-> reservation, ready |-> NoCheckpoint, end |-> 0]]
          [] e.channel_id = Channel.cancel -> [known EXCEPT ![p] = Unknown]
          [] e.channel_id = Channel.ready /\ mine -> [known EXCEPT ![p].ready = checkpoint]
          [] e.channel_id = Channel.release /\ mine -> [known EXCEPT ![p].ready = NoCheckpoint]
          [] OTHER -> known

\* apply_heartbeat: a status counts for the reservation the robot holds.
OfReservation(robot, status) == robot.reservation = status.reservation
OfAny(robot, status) == TRUE
Applies(robot, status) == OfReservation(robot, status)

apply_heartbeat(statuses) ==
    [p \in DOMAIN robots |->
        IF statuses[p].reservation # 0 /\ Applies(robots[p], statuses[p])
        THEN [robots[p] EXCEPT !.granted_end = statuses[p].end] ELSE robots[p]]

\* A timer message always publishes, another one when a grant changed.
Handle ==
    /\ phase = "cell" /\ handled < Len(inbox) /\ handled' = handled + 1
    /\ LET e == inbox[handled + 1] IN
       \/ /\ e.channel_id # Channel.timer
          /\ moderator' = Told(moderator, e) /\ UNCHANGED robots
       \/ \E ends \in [DOMAIN robots -> UNION {0..LastIndex[p] : p \in DOMAIN robots}] :
             /\ \A p \in DOMAIN robots : ends[p] <= LastIndex[p]
             /\ moderator' = [p \in DOMAIN robots |-> [Told(moderator, e)[p] EXCEPT !.end = ends[p]]]
             /\ robots' = apply_heartbeat(moderator')
    /\ UNCHANGED <<tick, timer_seq, turn, inbox, phase>>

NextTick ==
    /\ turn = {} /\ tick < ScenarioTicks
    /\ \/ phase = "robots" /\ inbox = <<>>
       \/ phase = "cell" /\ handled = Len(inbox)
    /\ tick' = tick + 1 /\ turn' = DOMAIN robots /\ handled' = 0 /\ phase' = "robots"
    /\ inbox' = TimerDelivery(tick + 1, timer_seq)
    /\ timer_seq' = timer_seq + Len(inbox')
    /\ UNCHANGED <<robots, moderator>>

Next ==
    \/ \E p \in DOMAIN robots : robot_messages(p)
    \/ StepCell \/ Handle \/ NextTick

Spec == Init /\ [][Next]_vars

-----------------------------------------------------------------------------
\* A robot moves on only into the range the last heartbeat granted to the
\* reservation it holds, and only after it told the moderator it was ready there
\* (the comment on robot_messages; the deliberate misbehaviours do not move it).
AdvancesWithinGrant ==
    [][\A p \in DOMAIN robots :
          robots'[p].last_reached > robots[p].last_reached =>
              /\ moderator[p].reservation = robots[p].reservation
              /\ moderator[p].end >= robots'[p].last_reached
              /\ moderator[p].ready = robots[p].last_reached]_vars
=============================================================================

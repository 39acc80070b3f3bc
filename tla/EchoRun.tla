------------------------------- MODULE EchoRun -------------------------------
(***************************************************************************)
(* rook-host's default command, crates/rook-host/src/main.rs: the          *)
(* echo-count cell (cells/echo-count/src/lib.rs) is stepped over the       *)
(* generated corpus through the ABI of module CellHost, and what it        *)
(* emitted is compared with the native replay and with the Wasm build of   *)
(* rook-core.                                                              *)
(***************************************************************************)
EXTENDS CellHost

CONSTANTS
    MaxEvents,   \* the largest corpus, EVENT_COUNT
    PerTick,     \* deliveries of one tick, four in the code
    EchoBytes    \* bytes of one echoed payload

VARIABLES
    event_count,
    COUNT,       \* the cell's counter
    index,       \* messages of the inbox the cell has handled
    verdict      \* "none", "agrees" or the check that failed

echo == <<event_count, COUNT, index, verdict>>

EchoInit ==
    /\ event_count \in 0..MaxEvents
    /\ deliveries = generate_synthetic_deliveries(event_count, PerTick)
    /\ FreshHost(event_count)
    /\ COUNT = 0 /\ index = 0 /\ verdict = "none"

RookInit == Instantiated /\ UNCHANGED echo
LiveTick == BeginTick /\ UNCHANGED echo

\* One turn of rook_step's loop.  The cell does not look at what emit answers.
EchoMessage ==
    /\ phase = "step" /\ index < Len(inbox)
    /\ COUNT' = COUNT + 1 /\ index' = index + 1
    /\ EmitCall(OUTPUT_CHANNEL_ID, 0, EchoBytes,
                echo_and_count_payload(inbox[index + 1].payload, COUNT'))
    /\ UNCHANGED <<deliveries, phase, cursor, tick, inbox, emit_limit, draws, log_lines,
                   log_bytes, early, event_count, verdict>>

\* The end of rook_step: an empty draw and an empty log line; the other calls
\* change nothing.
EchoStepEnds ==
    /\ phase = "step" /\ index = Len(inbox)
    /\ Draw /\ LogCall(0)
    /\ phase' = "idle" /\ inbox' = <<>> /\ index' = 0
    /\ UNCHANGED <<deliveries, cursor, tick, emission, emit_limit, early,
                   event_count, COUNT, verdict>>

generate_expected_emits == [i \in DOMAIN deliveries |-> EchoEmit(deliveries[i].tick, i)]

\* The checks of run_cell_replay, replay_observed and main, in their order.
NativeHashes == replay(generate_synthetic_deliveries(event_count, PerTick))
Verdict ==
    IF Len(emitted) # event_count THEN "emit count"
    ELSE IF replay(deliveries).error # "none" THEN "observed replay"
    ELSE IF emitted # generate_expected_emits THEN "diverged"
    ELSE IF replay(deliveries) # NativeHashes THEN "cell replay"
    ELSE IF replay_synthetic(event_count, PerTick) # replay(deliveries) THEN "wasm core"
    ELSE "agrees"

EchoFinish == Finish /\ verdict' = Verdict /\ UNCHANGED <<event_count, COUNT, index>>

EchoNext == RookInit \/ LiveTick \/ EchoMessage \/ EchoStepEnds \/ EchoFinish

EchoSpec == EchoInit /\ [][EchoNext]_<<vars, echo>>

-----------------------------------------------------------------------------
\* The four implementations agree on every corpus the host has room for: the
\* command ends with "agrees", also when the last tick is not full.
FourWayAgreement ==
    verdict # "none" /\ event_count * EchoBytes <= MaxEmittedBytes => verdict = "agrees"

\* A run that agrees was observed in full: the chain over what the ABI captured
\* is the chain of the native replay, and no emit was refused on the way.
AgreementIsObserved ==
    verdict = "agrees" => Hashed = NativeHashes /\ accepted = event_count
=============================================================================

------------------------------- MODULE CellHost -------------------------------
(***************************************************************************)
(* The host side of the cell ABI, crates/rook-host/src/abi.rs, under the   *)
(* replay driver of crates/rook-host/src/rmf.rs: a fresh cell is           *)
(* initialised, stepped once for every live tick of a recording and its    *)
(* captured emits are hashed with the recorded deliveries.                 *)
(*                                                                         *)
(* The cell is any Wasm module: it may call the ABI in any order, from     *)
(* rook_init as well as from rook_step, with any arguments.  Calls that    *)
(* leave the host's state alone (tick, inbox_len, inbox_meta, inbox_read   *)
(* within range, set_timer, param) are not steps.                          *)
(***************************************************************************)
EXTENDS ReplayCore

CONSTANTS
    Delivery,         \* the envelopes a recording may deliver
    MaxDeliveries,    \* deliveries of a recording
    MemorySize,       \* of the guest, in bytes
    MaxTransfer,      \* MAX_ABI_TRANSFER_BYTES
    MaxEmittedBytes,  \* MAX_EMITTED_PAYLOAD_BYTES
    MaxLogLines,      \* MAX_RETAINED_LOG_LINES
    MaxLogBytes,      \* MAX_RETAINED_LOG_BYTES
    MaxDraws          \* rand calls explored

VARIABLES
    deliveries,       \* the recording, in arrival order
    phase,            \* "init", "idle", "step", "done" or "failed"
    cursor,           \* ordered deliveries handed to the cell
    tick, inbox,
    emitted, emitted_bytes, emit_limit, emit_sequence,
    draws,            \* random_draw_ordinal
    log_lines, log_bytes,
    accepted,         \* emit calls that were answered 0
    early             \* of them, the ones made from rook_init

emission == <<emitted, emitted_bytes, emit_sequence, accepted>>
host == <<emission, emit_limit, draws, log_lines, log_bytes>>
vars == <<deliveries, phase, cursor, tick, inbox, host, early>>

\* HostState::default, before rook_init: no tick has been set.
FreshHost(limit) ==
    /\ phase = "init" /\ cursor = 0 /\ tick = 0 /\ inbox = <<>>
    /\ emitted = <<>> /\ emitted_bytes = 0 /\ emit_limit = limit /\ emit_sequence = 0
    /\ draws = 0 /\ log_lines = 0 /\ log_bytes = 0 /\ accepted = 0 /\ early = 0

\* The emits retained are as many as the deliveries of a synthetic recording, and
\* twice as many for a bag.
Init ==
    /\ deliveries \in BoundedSeq(Delivery, MaxDeliveries)
    /\ \E each \in {1, 2} : FreshHost(each * Len(deliveries))

-----------------------------------------------------------------------------
(***************************************************************************)
(* The ABI.                                                                *)
(***************************************************************************)
InCell == phase \in {"init", "step"}

validate_abi_range(pointer, length) ==
    /\ pointer >= 0 /\ length >= 0 /\ length <= MaxTransfer
    /\ pointer + length <= MemorySize

validate_retention(count, bytes, length, limit, most) == count < limit /\ bytes + length <= most

CanEmit(channel, pointer, length) ==
    /\ channel = OUTPUT_CHANNEL_ID
    /\ validate_abi_range(pointer, length)
    /\ validate_retention(Len(emitted), emitted_bytes, length, emit_limit, MaxEmittedBytes)

Captured(length, payload) ==
    /\ emitted' = Append(emitted, envelope("Emit", tick, CELL_ACTOR_ID, OUTPUT_ACTOR_ID,
                                           OUTPUT_CHANNEL_ID, emit_sequence, payload))
    /\ emitted_bytes' = emitted_bytes + length
    /\ emit_sequence' = emit_sequence + 1
    /\ accepted' = accepted + 1

\* The answer -1 leaves the host as it was.
EmitCall(channel, pointer, length, payload) ==
    \/ CanEmit(channel, pointer, length) /\ Captured(length, payload)
    \/ ~CanEmit(channel, pointer, length) /\ UNCHANGED emission

Emit ==
    /\ InCell
    /\ \E channel \in {INPUT_CHANNEL_ID, OUTPUT_CHANNEL_ID},
          pointer \in {0, MemorySize}, length \in {0, MaxTransfer, MaxTransfer + 1} :
          EmitCall(channel, pointer, length, length)
    /\ UNCHANGED <<deliveries, phase, cursor, tick, inbox, emit_limit, draws, log_lines, log_bytes, early>>

Draw == draws' = draws + 1

Rand ==
    /\ InCell /\ draws < MaxDraws /\ Draw
    /\ UNCHANGED <<deliveries, phase, cursor, tick, inbox, emission, emit_limit, log_lines, log_bytes, early>>

\* A line over budget is dropped without a word to the cell.
LogCall(length) ==
    IF validate_retention(log_lines, log_bytes, length, MaxLogLines, MaxLogBytes)
    THEN log_lines' = log_lines + 1 /\ log_bytes' = log_bytes + length
    ELSE UNCHANGED <<log_lines, log_bytes>>

Log ==
    /\ InCell /\ \E length \in 0..1 : LogCall(length)
    /\ UNCHANGED <<deliveries, phase, cursor, tick, inbox, emission, emit_limit, draws, early>>

\* abort, inbox_read past the inbox, and rand or log with a bad range.
Trap ==
    /\ InCell /\ phase' = "failed"
    /\ UNCHANGED <<deliveries, cursor, tick, inbox, host, early>>

-----------------------------------------------------------------------------
(***************************************************************************)
(* The driver.                                                             *)
(***************************************************************************)
Instantiated ==
    /\ phase = "init" /\ phase' = "idle" /\ early' = accepted
    /\ UNCHANGED <<deliveries, cursor, tick, inbox, host>>

BeginTick ==
    /\ phase = "idle" /\ cursor < Len(deliveries)
    /\ phase' = "step" /\ tick' = Ordered(deliveries)[cursor + 1].tick
    /\ inbox' = AtTick(Ordered(deliveries), tick')
    /\ cursor' = cursor + Len(inbox')
    /\ UNCHANGED <<deliveries, host, early>>

EndStep ==
    /\ phase = "step" /\ phase' = "idle" /\ inbox' = <<>>
    /\ UNCHANGED <<deliveries, cursor, tick, host, early>>

Finish ==
    /\ phase = "idle" /\ cursor = Len(deliveries) /\ phase' = "done"
    /\ UNCHANGED <<deliveries, cursor, tick, inbox, host, early>>

Next == Emit \/ Rand \/ Log \/ Trap \/ Instantiated \/ BeginTick \/ EndStep \/ Finish

Spec == Init /\ [][Next]_vars

Hashed == hash_observed(deliveries, emitted)

-----------------------------------------------------------------------------
\* hash_observed accepts what the host captured.  It refuses only a recording
\* with two deliveries of one key, and an emit made from rook_init, when the host
\* has no tick yet.
CapturedEmitsHash ==
    phase = "done" =>
        \/ Hashed.error = "none"
        \/ Hashed.error = "DuplicateSchedulingKey" /\ DuplicateKey(Ordered(deliveries))
        \/ Hashed.error = "EmitOnDeadTick" /\ early > 0

\* The run hash commits every delivery and every emit the cell was told of, once
\* each and in one order: by tick, and within a tick the deliveries first.  The
\* output digest commits the emits alone.
RunCommitsEverything ==
    phase = "done" /\ Hashed.error = "none" =>
        LET run == Hashed.run IN
        /\ Len(run) = Len(deliveries) + accepted
        /\ ToSet(run) = ToSet(deliveries) \cup ToSet(Hashed.output)
        /\ Hashed.output = emitted /\ Len(emitted) = accepted
        /\ \A i, j \in DOMAIN run : i < j =>
              \/ run[i].tick < run[j].tick
              \/ run[i].tick = run[j].tick /\ ~(run[i].kind = "Emit" /\ run[j].kind = "Deliver")

\* The order in which the recording's deliveries arrive is not part of the
\* result: a recording either hashes to one value or is refused.
ArrivalOrderIrrelevant ==
    phase = "done" =>
        \A p \in SetToAllKPermutations(DOMAIN deliveries) :
            Len(p) = Len(deliveries) =>
                hash_observed([i \in DOMAIN p |-> deliveries[p[i]]], emitted) = Hashed
=============================================================================

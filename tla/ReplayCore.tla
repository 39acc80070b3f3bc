------------------------------ MODULE ReplayCore ------------------------------
(***************************************************************************)
(* The replay primitives of crates/rook-core/src/lib.rs.                   *)
(*                                                                         *)
(* An envelope is a record; a payload is a model value that stands for its *)
(* length and hash.  A keyed hash chain is collision free, so a chain is   *)
(* the sequence of the envelopes it has absorbed and a digest is compared  *)
(* by comparing sequences; the run hash starts from the trace hash, so it  *)
(* carries that chain with it.                                             *)
(***************************************************************************)
EXTENDS Integers, Sequences, SequencesExt, FiniteSets, FiniteSetsExt

CELL_ACTOR_ID == 1
SOURCE_ACTOR_ID == 2
OUTPUT_ACTOR_ID == 3
INPUT_CHANNEL_ID == 7
OUTPUT_CHANNEL_ID == 8

envelope(kind, tick, src, dst, channel, seq, payload) ==
    [kind |-> kind, tick |-> tick, src_actor |-> src, dst_actor |-> dst,
     channel_id |-> channel, src_seq |-> seq, payload |-> payload]

scheduling_key(e) == <<e.tick, e.dst_actor, e.channel_id, e.src_actor, e.src_seq>>

KeyBelow(a, b) == \E i \in 1..5 : a[i] < b[i] /\ \A j \in 1..(i - 1) : a[j] = b[j]

\* sort_by_key is stable: what has one key keeps its order.
EarlierByTick(deliveries, i) ==
    {j \in DOMAIN deliveries :
        \/ deliveries[j].tick < deliveries[i].tick
        \/ deliveries[j].tick = deliveries[i].tick /\ j < i}
Earlier(deliveries, i) ==
    {j \in DOMAIN deliveries :
        LET a == scheduling_key(deliveries[j])  b == scheduling_key(deliveries[i])
        IN  KeyBelow(a, b) \/ (a = b /\ j < i)}

Ordered(deliveries) ==
    LET placed == {<<Cardinality(Earlier(deliveries, i)) + 1, i>> : i \in DOMAIN deliveries}
    IN  [k \in DOMAIN deliveries |-> deliveries[CHOOSE i \in DOMAIN deliveries : <<k, i>> \in placed]]

SamePlace(ordered, i) == scheduling_key(ordered[i]) = scheduling_key(ordered[i + 1])
DuplicateKey(ordered) == \E i \in 1..(Len(ordered) - 1) : SamePlace(ordered, i)

\* The ticks that have a delivery, each once, in order, and the deliveries of one.
LiveTicks(ordered) == SetToSortSeq({e.tick : e \in ToSet(ordered)}, <)
AtTick(ordered, tick) == SelectSeq(ordered, LAMBDA e : e.tick = tick)

Refused(error) == [error |-> error, trace |-> <<>>, run |-> <<>>, output |-> <<>>]
Hashes(ordered, run, output) ==
    [error |-> "none", trace |-> ordered, run |-> run, output |-> output]

-----------------------------------------------------------------------------
(***************************************************************************)
(* replay: the echo-and-count cell's decisions, generated.  The payload of *)
(* the n-th emit says n - 1 and the count n, whatever was delivered.       *)
(***************************************************************************)
echo_and_count_payload(index, count) == <<index, count>>

EchoEmit(tick, n) ==
    envelope("Emit", tick, CELL_ACTOR_ID, OUTPUT_ACTOR_ID, OUTPUT_CHANNEL_ID, n - 1,
             echo_and_count_payload(n - 1, n))

ReplayTick(ordered, hashes, tick) ==
    LET batch == AtTick(ordered, tick)
        emits == [i \in DOMAIN batch |-> EchoEmit(tick, Len(hashes.output) + i)]
    IN  [hashes EXCEPT !.run = @ \o batch \o emits, !.output = @ \o emits]

replay(deliveries) ==
    LET ordered == Ordered(deliveries) IN
    IF DuplicateKey(ordered) THEN Refused("DuplicateSchedulingKey")
    ELSE FoldLeft(LAMBDA hashes, tick : ReplayTick(ordered, hashes, tick),
                  Hashes(ordered, <<>>, <<>>), LiveTicks(ordered))

-----------------------------------------------------------------------------
(***************************************************************************)
(* hash_observed: the same chain over the emits a host captured.           *)
(***************************************************************************)
NonMonotonic(emits) ==
    \E i \in 1..(Len(emits) - 1) :
        emits[i].src_seq >= emits[i + 1].src_seq \/ emits[i].tick > emits[i + 1].tick

\* The emits from position next on that were made on this tick, up to the first
\* that was not.
EmitsFrom(emits, next, tick) ==
    LET stops == {i \in next..Len(emits) : emits[i].tick # tick}
    IN  SubSeq(emits, next, Min(stops \cup {Len(emits) + 1}) - 1)

ObserveTick(ordered, emits, hashes, tick) ==
    LET batch == AtTick(ordered, tick)
        taken == EmitsFrom(emits, Len(hashes.output) + 1, tick)
        next == Len(hashes.output) + Len(taken) + 1
    IN  IF hashes.error # "none" THEN hashes
        ELSE IF next <= Len(emits) /\ emits[next].tick < tick THEN Refused("EmitOnDeadTick")
        ELSE [hashes EXCEPT !.run = @ \o batch \o taken, !.output = @ \o taken]
EmitsFirst(ordered, emits, hashes, tick) ==
    LET taken == EmitsFrom(emits, Len(hashes.output) + 1, tick)
    IN  [hashes EXCEPT !.run = @ \o taken \o AtTick(ordered, tick), !.output = @ \o taken]
ObservedTick(ordered, emits, hashes, tick) == ObserveTick(ordered, emits, hashes, tick)

HashOrdered(ordered, emits) ==
    LET hashes == FoldLeft(LAMBDA h, tick : ObservedTick(ordered, emits, h, tick),
                           Hashes(ordered, <<>>, <<>>), LiveTicks(ordered))
    IN  IF NonMonotonic(emits) THEN Refused("NonMonotonicEmitSequence")
        ELSE IF hashes.error = "none" /\ Len(hashes.output) # Len(emits)
             THEN Refused("EmitOnDeadTick")
        ELSE hashes

hash_observed(deliveries, emits) ==
    LET ordered == Ordered(deliveries) IN
    IF DuplicateKey(ordered) THEN Refused("DuplicateSchedulingKey")
    ELSE HashOrdered(ordered, emits)

-----------------------------------------------------------------------------
(***************************************************************************)
(* replay_synthetic: the generated corpus, perTick deliveries a tick,      *)
(* without its deliveries ever being stored.                               *)
(***************************************************************************)
synthetic_delivery(index, perTick) ==
    envelope("Deliver", index \div perTick, SOURCE_ACTOR_ID, CELL_ACTOR_ID,
             INPUT_CHANNEL_ID, index, index)
generate_synthetic_deliveries(count, perTick) ==
    [i \in 1..count |-> synthetic_delivery(i - 1, perTick)]

TickEnd(start, perTick, count) == Min({count, start + perTick})
TickEndPast(start, perTick, count) == start + perTick
SyntheticTickEnd(start, perTick, count) == TickEnd(start, perTick, count)

SyntheticTick(hashes, start, perTick, count) ==
    LET batch == SyntheticTickEnd(start, perTick, count) - start
        delivered == [i \in 1..batch |-> synthetic_delivery(start + i - 1, perTick)]
        emits == [i \in 1..batch |-> EchoEmit(start \div perTick, start + i)]
    IN  [hashes EXCEPT !.run = @ \o delivered \o emits, !.output = @ \o emits]

replay_synthetic(count, perTick) ==
    LET starts == [k \in 1..((count + perTick - 1) \div perTick) |-> (k - 1) * perTick]
    IN  FoldLeft(LAMBDA hashes, start : SyntheticTick(hashes, start, perTick, count),
                 Hashes(generate_synthetic_deliveries(count, perTick), <<>>, <<>>), starts)
=============================================================================

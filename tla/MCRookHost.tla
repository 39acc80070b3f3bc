------------------------------ MODULE MCRookHost ------------------------------
EXTENDS RookHost

\* Two ticks and two keys, of which one has two payloads at either tick.
MCDelivery ==
    {envelope("Deliver", tsp[1], SOURCE_ACTOR_ID, CELL_ACTOR_ID, INPUT_CHANNEL_ID, tsp[2], tsp[3]) :
        tsp \in {<<0, 0, "p">>, <<0, 1, "p">>, <<0, 1, "q">>, <<1, 1, "p">>, <<1, 1, "q">>}}

\* Two robots at a time, so that each of the four that misbehave has a neighbour.
MCFleets == {{1, 2}, {3, 4}}
MCLastIndex == <<2, 1, 2, 2>>
MCTravelTicks == <<1, 2, 1, 1>>
MCDelay == [jump |-> 1, release |-> 2, stale |-> 1, cancel |-> 1, set |-> 1, arrive |-> 1, ready |-> 1]
MCThreshold == <<4, 8, 7, 7>>
=============================================================================

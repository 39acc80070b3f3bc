------------------------------ MODULE MCCapsule ------------------------------
EXTENDS Capsule, TLC

\* Two recordings with the same effects and one with others.
MCEffectsOf == "r1" :> "e1" @@ "r2" :> "e1" @@ "r3" :> "e2"
\* A params file at the recorded angle and one at another.
MCAngleOf == "p1" :> "15deg" @@ "p2" :> "5deg"
\* On d1 the angle makes no difference to c1, and c2 traps at the other one.  On d2
\* the cells differ by one heartbeat, and c1 differs between the angles.
MCDecides ==
    (<<"c1", "15deg", "d1">> :> <<"x", "y">>) @@ (<<"c2", "15deg", "d1">> :> <<"x", "y">>) @@
    (<<"c1", "5deg", "d1">> :> <<"x", "y">>) @@
    (<<"c1", "15deg", "d2">> :> <<"x">>) @@ (<<"c2", "15deg", "d2">> :> <<"x", "x">>) @@
    (<<"c1", "5deg", "d2">> :> <<"x", "x">>) @@ (<<"c2", "5deg", "d2">> :> <<"x", "x">>)
\* Two heartbeat files with the same payloads at other ticks, and two others.
MCStreamOf ==
    "h1" :> <<"x", "y">> @@ "h2" :> <<"x">> @@ "h3" :> <<"x", "x">> @@ "h4" :> <<"x", "y">>
=============================================================================

---------------------------- MODULE AdapterLines ----------------------------
(***************************************************************************)
(* What the runner relies on when it talks to a process: the lines the     *)
(* process wrote, in the order it wrote them, each taken once.  This is    *)
(* the queue "responses" of module Runner.                                 *)
(***************************************************************************)
EXTENDS Sequences

CONSTANT Line

VARIABLES
    responses,   \* lines written and not yet received
    got          \* the last line received: {} or a singleton

vars == <<responses, got>>

Init == responses = <<>> /\ got = {}

Reply == \E l \in Line : responses' = Append(responses, l) /\ UNCHANGED got
Take  == responses # <<>> /\ got' = {Head(responses)} /\ responses' = Tail(responses)
Drop  == responses' = <<>> /\ UNCHANGED got

Next == Reply \/ Take \/ Drop

Spec == Init /\ [][Next]_vars
=============================================================================

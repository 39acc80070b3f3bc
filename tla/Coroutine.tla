------------------------------ MODULE Coroutine ------------------------------
(***************************************************************************)
(* What the replay control of the Nav2 experiment promises its caller: an  *)
(* operation of the component behaves like a coroutine.  It runs only      *)
(* while the caller waits for it, gives way when it needs an observation,  *)
(* goes on when the caller says so, and can be unwound at any suspension.  *)
(***************************************************************************)
CONSTANT Reason    \* what an operation can be suspended on

VARIABLES
    op,      \* the operation: "none", "running", "suspended", "unwinding",
             \* or how the last one ended: "returned", "threw", "unwound"
    reason   \* what it is suspended on, "none" when it is not

vars == <<op, reason>>

Over == {"none", "returned", "threw", "unwound"}

Init == op = "none" /\ reason = "none"

Launch  == op \in Over \ {"unwound"} /\ op' = "running" /\ UNCHANGED reason
Suspend == op = "running" /\ op' = "suspended" /\ reason' \in Reason
Resume  == op = "suspended" /\ op' = "running" /\ reason' = "none"
Finish  == op = "running" /\ op' \in {"returned", "threw"} /\ UNCHANGED reason
Stop    == op = "suspended" /\ op' = "unwinding" /\ reason' = "none"
Unwind  == op = "unwinding" /\ op' = "unwound" /\ UNCHANGED reason

Next == Launch \/ Suspend \/ Resume \/ Finish \/ Stop \/ Unwind

Spec == Init /\ [][Next]_vars

\* The caller may leave an operation suspended for ever; an operation that has
\* the turn gives it back.
FairSpec == Spec /\ WF_vars(Suspend \/ Finish) /\ WF_vars(Unwind)
=============================================================================

---------------------------- MODULE Subsequences ----------------------------
(***************************************************************************)
(* What is left of a sequence when some of its positions are kept.         *)
(* SelectSeq of the standard modules does the same for a test on elements; *)
(* this one is a recursive function of its two arguments, so that it can   *)
(* be reasoned about (module Subsequences_proofs).                         *)
(***************************************************************************)
EXTENDS Integers, Sequences

\* The kept elements among the first n, for every n.
KeptUpTo(s, positions) ==
    LET kept[n \in 0..Len(s)] ==
            IF n = 0 THEN <<>>
            ELSE IF n \in positions THEN Append(kept[n - 1], s[n]) ELSE kept[n - 1]
    IN  kept

Keep(s, positions) == KeptUpTo(s, positions)[Len(s)]
=============================================================================

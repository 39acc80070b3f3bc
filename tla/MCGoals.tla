------------------------------- MODULE MCGoals -------------------------------
(* Two clients and three goal ids, all interchangeable.                      *)
EXTENDS Goals, TLC

Sym == Permutations(Client) \cup Permutations(Id)
=============================================================================

------------------------------- MODULE MCSwTimer -------------------------------
(* The timers and the client threads are interchangeable.                  *)
EXTENDS SwTimer, TLC

Symmetry == Permutations(Timers) \cup Permutations(Clients)
=============================================================================

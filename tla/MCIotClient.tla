------------------------------ MODULE MCIotClient ------------------------------
(* The application threads are interchangeable.                            *)
EXTENDS IotClient, TLC

Symmetry == Permutations(Apps)
=============================================================================

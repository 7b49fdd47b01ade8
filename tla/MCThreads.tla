------------------------------- MODULE MCThreads -------------------------------
(* Three threads beside the one that creates the first of them.            *)
EXTENDS Threads, TLC
=============================================================================

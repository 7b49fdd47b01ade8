---------------------------- MODULE MCDelayedWork ----------------------------
(* Two works with one callback, the first without data; one client thread  *)
(* and the callbacks.                                                      *)
EXTENDS DelayedWork, TLC

CONSTANTS w1, w2, process, client
CbDef == [w \in Works |-> process]
DataDef == [w \in Works |-> IF w = w1 THEN None ELSE client]
=============================================================================

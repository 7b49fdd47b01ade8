---------------------------- MODULE MCMatopService -----------------------------
(* The yielding thread and the upgrade timer's.                            *)
EXTENDS MatopService, TLC
=============================================================================

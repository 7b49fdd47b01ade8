------------------------------ MODULE MCWorkQueue ------------------------------
(* Jobs share callbacks and data pointers; some have no data.              *)
EXTENDS WorkQueueService, TLC

CONSTANTS j1, j2, j3, j4, c1, c2, d1

MCCbOf == [j \in Jobs |-> IF j \in {j1, j2} THEN c1 ELSE c2]
MCDataOf == [j \in Jobs |-> IF j \in {j1, j3} THEN d1 ELSE NULL]
=============================================================================

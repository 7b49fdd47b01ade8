-------------------------------- MODULE MCNetMgr -------------------------------
(* The three connections, registered and ranked as in the code.            *)
EXTENDS NetMgr, TLC

CONSTANTS wired, cellular, wifi

MCOrder == <<wired, cellular, wifi>>
MCFirstPri == [c \in Conns |-> CASE c = wired -> 2 [] c = cellular -> 0 [] c = wifi -> 1]
=============================================================================

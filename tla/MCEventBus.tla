------------------------------- MODULE MCEventBus -------------------------------
(* Three kinds of subscribers of one event.                                *)
EXTENDS EventBus

CONSTANTS s1, s2, s3, ev

MCNameOf == (s1 :> ev) @@ (s2 :> ev) @@ (s3 :> ev)
MCTypeOf == (s1 :> "NORMAL") @@ (s2 :> "EMERGENCY") @@ (s3 :> "ONETIME")
Symmetry == Permutations(Threads)
=============================================================================

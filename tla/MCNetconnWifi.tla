----------------------------- MODULE MCNetconnWifi -----------------------------
(* One network, a back-off table of two entries.                           *)
EXTENDS NetconnWifi, TLC
=============================================================================

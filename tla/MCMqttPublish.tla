----------------------------- MODULE MCMqttPublish -----------------------------
(* The yielding thread and one that reports.                               *)
EXTENDS MqttPublish, TLC
=============================================================================

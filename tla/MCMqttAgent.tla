---------------------------- MODULE MCMqttAgent -----------------------------
(***************************************************************************)
(* Two tasks that share one broker connection.                             *)
(***************************************************************************)
EXTENDS MqttAgent
=============================================================================

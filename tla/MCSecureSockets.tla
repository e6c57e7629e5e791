-------------------------- MODULE MCSecureSockets --------------------------
(***************************************************************************)
(* Two tasks that open sockets: the MQTT agent, and a task with a          *)
(* WiFiClient as in the on-target tests.                                   *)
(***************************************************************************)
EXTENDS SecureSockets
=============================================================================

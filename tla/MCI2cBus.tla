------------------------------ MODULE MCI2cBus ------------------------------
(***************************************************************************)
(* Two tasks on one bus: the firmware has one (the cloud interface), the   *)
(* arbiter is written for several.                                         *)
(***************************************************************************)
EXTENDS I2cBus
=============================================================================

---------------------------- MODULE MCUsbConsole ----------------------------
(***************************************************************************)
(* The writers of the firmware at their priorities: the response thread    *)
(* (3) and the logging task (6).                                           *)
(***************************************************************************)
EXTENDS UsbConsole

CONSTANTS response, logging

MCWriters == {response, logging}
MCPrio    == [t \in MCWriters |-> IF t = logging THEN 6 ELSE 3]
=============================================================================

--------------------------- MODULE MCApplication ----------------------------
(***************************************************************************)
(* The two threads that use the station, with a short queue and text.    *)
(***************************************************************************)
EXTENDS Application

MCThreads == {"cloud", "response"}
=============================================================================

--------------------------- MODULE ConfigRegister ---------------------------
(***************************************************************************)
(* What the configuration store promises to its one producer and to the    *)
(* consumers of the copy in RAM (UserConfig.cpp, lines 24-32): a register  *)
(* whose content only an update changes.  An update that completes changes *)
(* what it was asked to change and nothing else.  One that fails or is cut *)
(* off by a reset leaves some content, and this is all that is promised.   *)
(***************************************************************************)
CONSTANTS Contents,  \* what the register can read as
          Fresh,     \* what it reads as before the first update
          Edits      \* per content, those an update may turn it into

VARIABLES content,  \* what GetConfig would return
          pending,  \* the content an update in progress is to leave, or none
          loaded,   \* the copy the consumers read, made by the last restart
          result    \* what the last update reported

vars == <<content, pending, loaded, result>>

Init ==
    /\ content = Fresh
    /\ pending = {}
    /\ loaded = Fresh
    /\ result = FALSE

StartUpdate ==
    /\ pending = {}
    /\ \E c \in Edits[content] : pending' = {c}
    /\ UNCHANGED <<content, loaded, result>>

\* Until the update ends the content is anything.
Progress ==
    /\ pending # {}
    /\ content' \in Contents
    /\ UNCHANGED <<pending, loaded, result>>

\* The update reports success.
Commit ==
    /\ content' \in pending
    /\ pending' = {}
    /\ result' = TRUE
    /\ UNCHANGED loaded

\* The update reports failure.
Abort ==
    /\ pending # {}
    /\ pending' = {}
    /\ result' = FALSE
    /\ UNCHANGED <<content, loaded>>

\* A reset, also in the middle of an update.
Restart ==
    /\ content' \in IF pending = {} THEN {content} ELSE Contents
    /\ pending' = {}
    /\ loaded' = content'
    /\ UNCHANGED result

Next == StartUpdate \/ Progress \/ Commit \/ Abort \/ Restart

Spec == Init /\ [][Next]_vars
=============================================================================

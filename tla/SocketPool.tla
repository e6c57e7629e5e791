----------------------------- MODULE SocketPool -----------------------------
(***************************************************************************)
(* What the socket calls promise the tasks, without handles, semaphore,    *)
(* commands and failures: a socket belongs to one task at a time, only its *)
(* owner connects it and gives it memory, and it is given back without     *)
(* either.  A reset of the module takes every connection, and then the     *)
(* sockets themselves; nothing is promised once a task has used a socket   *)
(* that was taken from it and belongs to another.                          *)
(***************************************************************************)
CONSTANTS Tasks, Sockets

VARIABLES
    owner,      \* of each socket, {} or {t}
    connected,  \* sockets with a connection their owner was told of
    memory,     \* sockets that own a TLS context
    past        \* "none", "reset", or "crossed"

vars == <<owner, connected, memory, past>>

Init ==
    /\ owner = [s \in Sockets |-> {}]
    /\ connected = {}
    /\ memory = {}
    /\ past = "none"

Take(t, s) ==
    /\ owner[s] = {}
    /\ owner' = [owner EXCEPT ![s] = {t}]
    /\ UNCHANGED <<connected, memory, past>>

Connect(t, s) ==
    /\ owner[s] = {t}
    /\ connected' = connected \union {s}
    /\ UNCHANGED <<owner, memory, past>>

Disconnect(t, s) ==
    /\ owner[s] = {t}
    /\ connected' = connected \ {s}
    /\ UNCHANGED <<owner, memory, past>>

Allocate(t, s) ==
    /\ owner[s] = {t}
    /\ memory' = memory \union {s}
    /\ UNCHANGED <<owner, connected, past>>

Release(t, s) ==
    /\ owner[s] = {t}
    /\ memory' = memory \ {s}
    /\ UNCHANGED <<owner, connected, past>>

GiveBack(t, s) ==
    /\ owner[s] = {t}
    /\ s \notin connected
    /\ past = "none" => s \notin memory
    /\ owner' = [owner EXCEPT ![s] = {}]
    /\ UNCHANGED <<connected, memory, past>>

ResetModule ==
    /\ connected' = {}
    /\ past' = "reset"
    /\ UNCHANGED <<owner, memory>>

\* Its owner does not know: the memory may still change, until the socket is taken.
TakeAway(s) ==
    /\ past = "reset"
    /\ owner' = [owner EXCEPT ![s] = {}]
    /\ connected' = connected \ {s}
    /\ UNCHANGED <<memory, past>>

Disown(s) ==
    /\ past = "reset"
    /\ owner[s] = {}
    /\ memory' \in {memory \ {s}, memory \union {s}}
    /\ UNCHANGED <<owner, connected, past>>

Cross ==
    /\ past = "reset"
    /\ past' = "crossed"
    /\ owner' = [s \in Sockets |-> {}]
    /\ connected' = {}
    /\ memory' = {}

Next ==
    \/ past # "crossed" /\
       \/ \E s \in Sockets :
          \/ \E t \in Tasks :
             \/ Take(t, s) \/ GiveBack(t, s)
             \/ Connect(t, s) \/ Disconnect(t, s)
             \/ Allocate(t, s) \/ Release(t, s)
          \/ TakeAway(s) \/ Disown(s)
       \/ ResetModule \/ Cross

Spec == Init /\ [][Next]_vars
=============================================================================

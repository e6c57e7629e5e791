----------------------------- MODULE MqttCalls ------------------------------
(***************************************************************************)
(* What the MQTT agent promises its callers, without queue, buffers,       *)
(* notifications and packet identifiers: a call is answered once, a sent   *)
(* request is answered when its connection goes away, at the latest, and   *)
(* an answer is never taken back.                                          *)
(***************************************************************************)
CONSTANTS Tasks, Brokers

VARIABLES
    call,  \* "none", "asked", "sent", "yes" or "no"
    for,   \* the broker of each task's latest call
    link   \* "not", "progress" or "connected"

vars == <<call, for, link>>

Init ==
    /\ call = [t \in Tasks |-> "none"]
    /\ for \in [Tasks -> Brokers]
    /\ link = [b \in Brokers |-> "not"]

Sent(b) == {t \in Tasks : call[t] = "sent" /\ for[t] = b}

Ask(t) ==
    /\ call[t] = "none"
    /\ call' = [call EXCEPT ![t] = "asked"]
    /\ \E b \in Brokers : for' = [for EXCEPT ![t] = b]
    /\ UNCHANGED link

\* A request is sent when its link is up, a CONNECT to begin a link.
Send(t) ==
    /\ call[t] = "asked"
    /\ call' = [call EXCEPT ![t] = "sent"]
    /\ \/ link[for[t]] = "connected" /\ UNCHANGED link
       \/ /\ link[for[t]] = "not"
          /\ link' = [link EXCEPT ![for[t]] = "progress"]
    /\ UNCHANGED for

\* The broker's answer to a request, or to the CONNECT of a new link.
Accepted(t) ==
    /\ call[t] = "sent"
    /\ call' = [call EXCEPT ![t] = "yes"]
    /\ link[for[t]] # "not"
    /\ link' = [link EXCEPT ![for[t]] = "connected"]
    /\ UNCHANGED for

\* Requests that were refused or not answered in time: the link stays as it is.
Unanswered(S) ==
    /\ \A t \in S : call[t] = "sent" /\ link[for[t]] = "connected"
    /\ call' = [t \in Tasks |-> IF t \in S THEN "no" ELSE call[t]]
    /\ UNCHANGED <<for, link>>

\* A call that is answered without waiting for the broker.
AnsweredAtOnce(t, r) ==
    /\ call[t] = "asked"
    /\ call' = [call EXCEPT ![t] = r]
    /\ UNCHANGED <<for, link>>

\* The link goes down: whoever still waits is told so, and the task that asked
\* for it gets its own answer.
LoseFor(b, S, r) ==
    /\ link[b] # "not"
    /\ link' = [link EXCEPT ![b] = "not"]
    /\ \A t \in S : call[t] = "asked" /\ for[t] = b
    /\ call' = [t \in Tasks |-> IF t \in Sent(b) THEN "no"
                                ELSE IF t \in S THEN r ELSE call[t]]
    /\ UNCHANGED for

Lose(b) ==
    \E r \in {"yes", "no"} : \/ LoseFor(b, {}, r)
                             \/ \E t \in Tasks : LoseFor(b, {t}, r)

\* An answered call returns; one that could not be queued returns too.
Return(t) ==
    /\ call[t] \in {"asked", "yes", "no"}
    /\ call' = [call EXCEPT ![t] = "none"]
    /\ UNCHANGED <<for, link>>

Next ==
    \/ \E t \in Tasks : Ask(t) \/ Send(t) \/ Accepted(t) \/ Return(t)
    \/ \E t \in Tasks, r \in {"yes", "no"} : AnsweredAtOnce(t, r)
    \/ \E S \in SUBSET Tasks : Unanswered(S)
    \/ \E b \in Brokers : Lose(b)

Spec == Init /\ [][Next]_vars
=============================================================================

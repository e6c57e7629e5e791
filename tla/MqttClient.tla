----------------------------- MODULE MqttClient -----------------------------
(***************************************************************************)
(* The MQTT library (Network/aws/mqtt/aws_mqtt_lib.c) and the pool its     *)
(* buffers come from (Network/Src/aws_bufferpool_static_thread_safe.c): the *)
(* context of each broker connection, as the agent's task drives it.       *)
(*                                                                         *)
(* A packet that waits for an answer is the buffer that holds it, its      *)
(* identifier and the operation it asks for.  Topics, payloads, lengths,   *)
(* the table of subscription callbacks and the keep alive, whose timeout   *)
(* the agent ignores, are left out.                                        *)
(***************************************************************************)
EXTENDS Naturals, FiniteSets

CONSTANTS
    NumBrokers,   \* mqttconfigMAX_BROKERS
    NumBuffers,   \* bufferpoolconfigNUM_BUFFERS
    MaxId         \* packet identifiers are 1..MaxId, reused cyclically

ASSUME ClientAssumption ==
    /\ NumBrokers \in Nat \ {0}
    /\ NumBuffers \in Nat \ {0}
    /\ MaxId \in Nat \ {0}

Brokers == 1..NumBrokers
Buffers == 1..NumBuffers
Ids     == 1..MaxId
Acked   == {"subscribe", "unsubscribe", "publish1"}

VARIABLES
    xConnectionState,  \* "not", "progress" or "connected"
    tx,                \* packets in xTxBufferList, kept until they are answered
    xRxBuffer,         \* of the packet being received, 0 when there is none
    rxState,           \* "start", or what is done with the packet: "store", "drop"
    used               \* buffers of the pool that are in use

clientVars == <<xConnectionState, tx, xRxBuffer, rxState, used>>

ClientInit ==
    /\ xConnectionState = [b \in Brokers |-> "not"]
    /\ tx = [b \in Brokers |-> {}]
    /\ xRxBuffer = [b \in Brokers |-> 0]
    /\ rxState = [b \in Brokers |-> "start"]
    /\ used = {}

\* The pool is searched from its first buffer.
FreeBuffer == CHOOSE x \in Buffers \ used : \A y \in Buffers \ used : x <= y

RxHeld(b) == {xRxBuffer[b]} \ {0}
Held(b)   == {p.buf : p \in tx[b]} \cup RxHeld(b)

-----------------------------------------------------------------------------
(* Sending                                                                 *)

\* Mutant: the buffers of the packets are not returned.
ResetKeepsBuffers(b) ==
    /\ xConnectionState' = [xConnectionState EXCEPT ![b] = "not"]
    /\ used' = used \ RxHeld(b)
    /\ tx' = [tx EXCEPT ![b] = {}]
    /\ xRxBuffer' = [xRxBuffer EXCEPT ![b] = 0]
    /\ rxState' = [rxState EXCEPT ![b] = "start"]

ResetMQTTContext(b) ==
    /\ xConnectionState' = [xConnectionState EXCEPT ![b] = "not"]
    /\ used' = used \ Held(b)
    /\ tx' = [tx EXCEPT ![b] = {}]
    /\ xRxBuffer' = [xRxBuffer EXCEPT ![b] = 0]
    /\ rxState' = [rxState EXCEPT ![b] = "start"]

\* The state in which the library takes an operation, and a buffer for it.
Takes(b, op) ==
    /\ xConnectionState[b] = IF op = "connect" THEN "not" ELSE "connected"
    /\ used # Buffers

\* The packet was sent and is kept until it is answered.
SendKept(b, i, op) ==
    /\ Takes(b, op)
    /\ tx' = [tx EXCEPT ![b] = @ \cup {[id |-> i, op |-> op, buf |-> FreeBuffer]}]
    /\ used' = used \cup {FreeBuffer}
    /\ xConnectionState' =
         [xConnectionState EXCEPT ![b] = IF op = "connect" THEN "progress" ELSE @]
    /\ UNCHANGED <<xRxBuffer, rxState>>

-----------------------------------------------------------------------------
(* Receiving: MQTT_ParseReceivedData, one packet or part of one at a time  *)

\* The fixed header of a packet with a body: it is stored in a free buffer, or, when
\* there is none or it is longer than a buffer, dropped.
ReceiveHeader(b) ==
    /\ rxState[b] = "start"
    /\ \/ /\ used # Buffers
          /\ xRxBuffer' = [xRxBuffer EXCEPT ![b] = FreeBuffer]
          /\ used' = used \cup {FreeBuffer}
          /\ rxState' = [rxState EXCEPT ![b] = "store"]
       \/ /\ rxState' = [rxState EXCEPT ![b] = "drop"]
          /\ UNCHANGED <<xRxBuffer, used>>
    /\ UNCHANGED <<xConnectionState, tx>>

ReceiveDropped(b) ==
    /\ rxState[b] = "drop"
    /\ rxState' = [rxState EXCEPT ![b] = "start"]
    /\ UNCHANGED <<xConnectionState, tx, xRxBuffer, used>>

\* A packet without a body: what it means for the keep alive is left out.
ReceivePingResp(b) == rxState[b] = "start" /\ UNCHANGED clientVars

\* A packet nobody waits for, or a PUBLISH without a callback that wants its
\* buffer: only the buffer it was received in is returned.
ReceiveIgnored(b) ==
    /\ rxState[b] = "store"
    /\ used' = used \ RxHeld(b)
    /\ xRxBuffer' = [xRxBuffer EXCEPT ![b] = 0]
    /\ rxState' = [rxState EXCEPT ![b] = "start"]
    /\ UNCHANGED <<xConnectionState, tx>>

\* Packet p of the Tx list is answered, a CONNECT accepted.
ReceiveAnswer(b, p) ==
    /\ rxState[b] = "store"
    /\ tx' = [tx EXCEPT ![b] = @ \ {p}]
    /\ used' = used \ (RxHeld(b) \cup {p.buf})
    /\ xRxBuffer' = [xRxBuffer EXCEPT ![b] = 0]
    /\ rxState' = [rxState EXCEPT ![b] = "start"]
    /\ xConnectionState' =
         [xConnectionState EXCEPT ![b] = IF p.op = "connect" THEN "connected" ELSE @]

-----------------------------------------------------------------------------
(* MQTT_Periodic, when no CONNECT is among the expired packets             *)

\* Mutant: the packets stay listed.
ExpiredStayListed(b, expired) ==
    UNCHANGED <<xConnectionState, tx, xRxBuffer, rxState, used>>

ReturnExpired(b, expired) ==
    /\ tx' = [tx EXCEPT ![b] = @ \ expired]
    /\ used' = used \ {p.buf : p \in expired}
    /\ UNCHANGED <<xConnectionState, xRxBuffer, rxState>>
=============================================================================

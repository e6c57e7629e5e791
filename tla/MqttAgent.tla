----------------------------- MODULE MqttAgent ------------------------------
(***************************************************************************)
(* The MQTT agent (Network/aws/mqtt/aws_mqtt_agent.c): tasks that call     *)
(* MQTT_AGENT_*, the command queue, the agent's task with its connections  *)
(* and the task notifications its answers come back in.                    *)
(*                                                                         *)
(* The agent's task has the idle priority and its callers a higher one: it *)
(* runs when every caller is blocked, and a handler of it is one action.   *)
(* Ticks are not counted: a command may have expired when it is taken from *)
(* the queue, a packet whenever the library looks at the time.  The broker *)
(* is outside: it may send any packet at any time.                         *)
(***************************************************************************)
EXTENDS MqttClient, Sequences

CONSTANTS
    Tasks, None,
    Owners,        \* the tasks that create connections
    Sensing,       \* the tasks that use the I2C bus as well
    QueueLength,   \* mqttCOMMAND_QUEUE_LENGTH
    ParallelOps,   \* mqttconfigMAX_PARALLEL_OPS
    MaxPieces      \* bound: packets, or parts of one, that one SOCKETS_Recv brings

ASSUME AgentAssumption ==
    /\ None \notin Tasks
    /\ Owners \subseteq Tasks
    /\ Sensing \subseteq Tasks
    /\ {QueueLength, ParallelOps, MaxPieces} \subseteq Nat \ {0}

Ops == {"connect", "disconnect", "publish0"} \cup Acked

VARIABLES
    owner,      \* of each connection in use: the task that created it
    live,       \* the owner had its CONNECT accepted and did not disconnect
    nextId,     \* ulQueueMessageIdentifier
    pc, op, at, id,   \* of each task's call: place, operation, broker, identifier
    note,       \* of each task: notification value [id, answer] and pending state
    xCommandQueue,
    agent,      \* where the agent's task is in its loop
    xSocket,    \* connections with a socket
    xWaitingTasks,
    due,        \* tasks with an I2C transfer that outlived its call
    earned,     \* history: the broker has granted what the call asks for
    misled      \* history: a late transfer has changed an unread answer

callVars == <<owner, live, nextId, pc, op, at, id, due>>
vars == <<clientVars, callVars, note, xCommandQueue, agent, xSocket, xWaitingTasks,
          earned, misled>>

\* Nothing, or what is left of a call that is over.
NoNote == [id |-> 0, answer |-> "failure", pending |-> FALSE]

Init ==
    /\ ClientInit
    /\ owner = [b \in Brokers |-> None]
    /\ live = {}
    /\ nextId = 1
    /\ pc = [t \in Tasks |-> "idle"]
    /\ op = [t \in Tasks |-> "none"]
    /\ at = [t \in Tasks |-> 1]
    /\ id = [t \in Tasks |-> 0]
    /\ note = [t \in Tasks |-> NoNote]
    /\ xCommandQueue = <<>>
    /\ agent = [step |-> "command", b |-> 1, left |-> 0]
    /\ xSocket = {}
    /\ xWaitingTasks = [b \in Brokers |-> {}]
    /\ due = {}
    /\ earned = {}
    /\ misled = FALSE

At(t, from) == ~misled /\ pc[t] = from
GoTo(t, to) == pc' = [pc EXCEPT ![t] = to]

-----------------------------------------------------------------------------
(* The callers                                                             *)

\* MQTT_AGENT_Create takes the first connection that is not in use.
Create(t) ==
    /\ At(t, "idle")
    /\ t \in Owners
    /\ t \notin {owner[b] : b \in Brokers}
    /\ \E b \in Brokers :
         /\ owner[b] = None
         /\ \A c \in 1..(b - 1) : owner[c] # None
         /\ owner' = [owner EXCEPT ![b] = t]
    /\ UNCHANGED <<clientVars, live, nextId, pc, op, at, id, due, note, xCommandQueue,
                   agent, xSocket, xWaitingTasks, earned, misled>>

\* As its contract asks, MQTT_AGENT_Delete is called when the connection is
\* closed and nobody else is in a call on it.
Delete(t) ==
    /\ At(t, "idle")
    /\ \E b \in Brokers \ live :
         /\ owner[b] = t
         /\ \A u \in Tasks : pc[u] # "idle" => at[u] # b
         /\ owner' = [owner EXCEPT ![b] = None]
    /\ UNCHANGED <<clientVars, live, nextId, pc, op, at, id, due, note, xCommandQueue,
                   agent, xSocket, xWaitingTasks, earned, misled>>

\* What a program that keeps to the protocol may ask of broker b.
Allowed(t, o, b) ==
    CASE o = "connect"    -> owner[b] = t /\ b \notin live
      [] o = "disconnect" -> owner[b] = t /\ b \in live
      [] OTHER            -> b \in live

\* Mutant: the identifier counter does not wrap.
BeginNeverWraps(t, o, b) ==
    /\ At(t, "idle")
    /\ Allowed(t, o, b)
    /\ \A u \in Tasks : id[u] # nextId
    /\ GoTo(t, "clear")
    /\ op' = [op EXCEPT ![t] = o]
    /\ at' = [at EXCEPT ![t] = b]
    /\ id' = [id EXCEPT ![t] = nextId]
    /\ nextId' = nextId + 1
    /\ due' \in {due, due \cup ({t} \cap Sensing)}
    /\ UNCHANGED <<clientVars, owner, live, note, xCommandQueue, agent, xSocket,
                   xWaitingTasks, earned, misled>>

\* prvSendCommandToMQTTTask: the identifier.  The counter does not come round
\* to the identifier of a call that is still open (it has 16 bits).  The task
\* may have left an I2C transfer behind that will still notify it.
Begin(t, o, b) ==
    /\ At(t, "idle")
    /\ Allowed(t, o, b)
    /\ \A u \in Tasks : id[u] # nextId
    /\ GoTo(t, "clear")
    /\ op' = [op EXCEPT ![t] = o]
    /\ at' = [at EXCEPT ![t] = b]
    /\ id' = [id EXCEPT ![t] = nextId]
    /\ nextId' = (nextId % MaxId) + 1
    /\ due' \in {due, due \cup ({t} \cap Sensing)}
    /\ UNCHANGED <<clientVars, owner, live, note, xCommandQueue, agent, xSocket,
                   xWaitingTasks, earned, misled>>

ClearState(t) ==
    /\ At(t, "clear")
    /\ GoTo(t, "send")
    /\ note' = [note EXCEPT ![t].pending = FALSE]
    /\ UNCHANGED <<clientVars, owner, live, nextId, op, at, id, due, xCommandQueue,
                   agent, xSocket, xWaitingTasks, earned, misled>>

Command(t) == [task |-> t, id |-> id[t], op |-> op[t], b |-> at[t]]

Enqueue(t) ==
    /\ At(t, "send")
    /\ Len(xCommandQueue) < QueueLength
    /\ GoTo(t, "wait")
    /\ xCommandQueue' = Append(xCommandQueue, Command(t))
    /\ UNCHANGED <<clientVars, owner, live, nextId, op, at, id, due, note, agent,
                   xSocket, xWaitingTasks, earned, misled>>

\* The call is over.  Its identifier will not be in use again before another
\* 65533 calls: in what is left of it, it is 0.
Finish(t) ==
    /\ GoTo(t, "idle")
    /\ op' = [op EXCEPT ![t] = "none"]
    /\ id' = [id EXCEPT ![t] = 0]
    /\ earned' = earned \ {t}

\* The queue stays full for the time the caller allows.
QueueTimeout(t) ==
    /\ At(t, "send")
    /\ Len(xCommandQueue) = QueueLength
    /\ Finish(t)
    /\ UNCHANGED <<clientVars, owner, live, nextId, at, due, note, xCommandQueue, agent,
                   xSocket, xWaitingTasks, misled>>

\* Mutant: any notification ends the call.
TakeAny(t) ==
    /\ At(t, "wait")
    /\ note[t].pending
    /\ Finish(t)
    /\ note' = [note EXCEPT ![t] = NoNote]
    /\ UNCHANGED <<clientVars, owner, nextId, at, due, live, xCommandQueue, agent,
                   xSocket, xWaitingTasks, misled>>

\* A notification with the identifier of the call ends it, with any other the
\* task waits on.
Take(t) ==
    /\ At(t, "wait")
    /\ note[t].pending
    /\ IF note[t].id = id[t]
         THEN /\ Finish(t)
              /\ note' = [note EXCEPT ![t] = NoNote]
              /\ live' = IF note[t].answer # "success" THEN live
                         ELSE CASE op[t] = "connect"    -> live \cup {at[t]}
                                [] op[t] = "disconnect" -> live \ {at[t]}
                                [] OTHER                -> live
         ELSE /\ note' = [note EXCEPT ![t].pending = FALSE]
              /\ UNCHANGED <<pc, op, id, live, earned>>
    /\ UNCHANGED <<clientVars, owner, nextId, at, due, xCommandQueue, agent, xSocket,
                   xWaitingTasks, misled>>

\* vTaskNotifyGiveFromISR, for a transfer the task no longer waits for: its
\* notification value grows by one and is pending.  On an answer that was not
\* read yet this changes the status bit, and the model stops.
LateTransfer(t) ==
    /\ ~misled
    /\ t \in due
    /\ due' = due \ {t}
    /\ IF note[t].pending /\ note[t].id = id[t] /\ id[t] # 0
         THEN misled' = TRUE /\ UNCHANGED note
         ELSE note' = [note EXCEPT ![t].pending = TRUE] /\ UNCHANGED misled
    /\ UNCHANGED <<clientVars, owner, live, nextId, pc, op, at, id, xCommandQueue, agent,
                   xSocket, xWaitingTasks, earned>>

-----------------------------------------------------------------------------
(* Answers: prvNotifyRequestingTask                                        *)

Answer(e, a) == [task |-> e.task, id |-> e.id, answer |-> a]
Answers(S, a) == {Answer(e, a) : e \in S}

\* eSetValueWithoutOverwrite: nothing is delivered over a pending notification.
Notify(A) ==
    note' = [t \in Tasks |->
               IF ~note[t].pending /\ \E x \in A : x.task = t
                 THEN LET x == CHOOSE y \in A : y.task = t
                      IN  [id |-> x.id, answer |-> x.answer, pending |-> TRUE]
                 ELSE note[t]]

\* prvRetrieveNotificationData
Waiting(b, i) == {s \in xWaitingTasks[b] : s.id = i}

\* Mutant: the waiting tasks are told and not forgotten.
DisconnectedKeepsTasks(b, A) ==
    /\ xSocket' = xSocket \ {b}
    /\ Notify(Answers(xWaitingTasks[b], "failure") \cup A)
    /\ UNCHANGED xWaitingTasks

\* Mutant: the waiting tasks are forgotten and not told.
DisconnectedTellsNobody(b, A) ==
    /\ xSocket' = xSocket \ {b}
    /\ xWaitingTasks' = [xWaitingTasks EXCEPT ![b] = {}]
    /\ Notify(A)

\* eMQTTClientDisconnected: the socket is closed, if there is one, and all
\* waiting tasks are told, with the answers A of the same handler.
Disconnected(b, A) ==
    /\ xSocket' = xSocket \ {b}
    /\ xWaitingTasks' = [xWaitingTasks EXCEPT ![b] = {}]
    /\ Notify(Answers(xWaitingTasks[b], "failure") \cup A)

\* The library gives up the connection.
Lose(b, A) == ResetMQTTContext(b) /\ Disconnected(b, A)

\* MQTT_Disconnect, which knows no connection to close unless it is up or on
\* its way.
Hangup(b, A) ==
    IF xConnectionState[b] = "not"
      THEN ResetMQTTContext(b) /\ Notify(A) /\ UNCHANGED <<xSocket, xWaitingTasks>>
      ELSE Lose(b, A)
-----------------------------------------------------------------------------
(* The agent's task: a command, then SOCKETS_Recv and MQTT_Periodic for    *)
(* each connection                                                         *)

Ready(t) ==
    \/ pc[t] = "clear"
    \/ pc[t] = "send" /\ Len(xCommandQueue) < QueueLength
    \/ pc[t] = "wait" /\ note[t].pending

AgentAt(step, b) ==
    /\ ~misled
    /\ \A t \in Tasks : ~Ready(t)
    /\ agent.step = step
    /\ agent.b = b

AgentGoTo(step, b) == agent' = [step |-> step, b |-> b, left |-> 0]

Served == xCommandQueue' = Tail(xCommandQueue)

\* The queue read times out at once or after a while.
NoCommand ==
    /\ AgentAt("command", 1)
    /\ xCommandQueue = <<>>
    /\ AgentGoTo("receive", 1)
    /\ UNCHANGED <<clientVars, callVars, note, xCommandQueue, xSocket, xWaitingTasks,
                   earned, misled>>

Takeover(o) ==
    /\ AgentAt("command", 1)
    /\ xCommandQueue # <<>>
    /\ Head(xCommandQueue).op \in o
    /\ AgentGoTo("receive", 1)
    /\ Served
    /\ UNCHANGED <<callVars, misled>>

\* The command waited for longer than its caller allows.
Expired ==
    /\ Takeover(Ops)
    /\ Notify({Answer(Head(xCommandQueue), "timeout")})
    /\ UNCHANGED <<clientVars, xSocket, xWaitingTasks, earned>>

\* Mutant: the socket of a CONNECT that could not be sent stays open.
FailLeavesSocket ==
    /\ Takeover(Ops \ {"disconnect"})
    /\ Notify({Answer(Head(xCommandQueue), "failure")})
    /\ xSocket' = IF Head(xCommandQueue).op = "connect"
                    THEN xSocket \cup {Head(xCommandQueue).b} ELSE xSocket
    /\ UNCHANGED <<clientVars, xWaitingTasks, earned>>

\* No slot for the caller, no connection, no buffer, or nothing sent.  What
\* prvSetupConnection or prvInitiateMQTTConnect opened it has closed again.
Fail ==
    /\ Takeover(Ops \ {"disconnect"})
    /\ Notify({Answer(Head(xCommandQueue), "failure")})
    /\ UNCHANGED <<clientVars, xSocket, xWaitingTasks, earned>>

\* prvStoreNotificationData
Store(e) ==
    /\ Cardinality(xWaitingTasks[e.b]) < ParallelOps
    /\ xWaitingTasks' =
         [xWaitingTasks EXCEPT ![e.b] = @ \cup {[task |-> e.task, id |-> e.id]}]

\* prvSetupConnection asserts that there is no socket yet.
InitiateConnect ==
    /\ Takeover({"connect"})
    /\ LET e == Head(xCommandQueue)
       IN  /\ e.b \notin xSocket
           /\ Store(e)
           /\ SendKept(e.b, e.id, e.op)
           /\ xSocket' = xSocket \cup {e.b}
    /\ UNCHANGED <<note, earned>>

InitiateAcked ==
    /\ Takeover(Acked)
    /\ LET e == Head(xCommandQueue)
       IN  Store(e) /\ SendKept(e.b, e.id, e.op)
    /\ UNCHANGED <<note, xSocket, earned>>

\* QoS 0: the caller does not wait, and the buffer is returned, after the send.
InitiatePublish0 ==
    /\ Takeover({"publish0"})
    /\ LET e == Head(xCommandQueue)
       IN  Takes(e.b, e.op) /\ Notify({Answer(e, "success")})
    /\ UNCHANGED <<clientVars, xSocket, xWaitingTasks, earned>>

\* Failing to send the DISCONNECT does not keep the connection.
InitiateDisconnect ==
    /\ Takeover({"disconnect"})
    /\ LET e == Head(xCommandQueue)
       IN  \E a \in {"success", "failure"} :
             /\ xConnectionState[e.b] = "not" => a = "success"
             /\ Hangup(e.b, {Answer(e, a)})
    /\ UNCHANGED earned

-----------------------------------------------------------------------------
(* prvManageConnections                                                    *)

\* Nothing came in, or there is no socket.
ReceiveNothing(b) ==
    /\ AgentAt("receive", b)
    /\ AgentGoTo("periodic", b)
    /\ UNCHANGED <<clientVars, callVars, note, xCommandQueue, xSocket, xWaitingTasks,
                   earned, misled>>

ReceiveError(b) ==
    /\ AgentAt("receive", b)
    /\ b \in xSocket
    /\ AgentGoTo("periodic", b)
    /\ Hangup(b, {})
    /\ UNCHANGED <<callVars, xCommandQueue, earned, misled>>

\* Without a connection nothing of it is processed.
ReceiveData(b) ==
    /\ AgentAt("receive", b)
    /\ b \in xSocket
    /\ xConnectionState[b] # "not"
    /\ \E n \in 1..MaxPieces : agent' = [step |-> "parse", b |-> b, left |-> n]
    /\ UNCHANGED <<clientVars, callVars, note, xCommandQueue, xSocket, xWaitingTasks,
                   earned, misled>>

\* MQTT_ParseReceivedData goes on while there is data and a connection: what
\* is left when the connection is lost was overwritten by its closing.
Parsing(b) ==
    /\ AgentAt("parse", b)
    /\ IF agent.left > 1 /\ xConnectionState'[b] # "not"
         THEN agent' = [agent EXCEPT !.left = @ - 1]
         ELSE AgentGoTo("periodic", b)
    /\ UNCHANGED <<callVars, xCommandQueue, misled>>

ParsePart(b) ==
    /\ ReceiveHeader(b) \/ ReceiveDropped(b) \/ ReceivePingResp(b)
    /\ Parsing(b)
    /\ UNCHANGED <<note, xSocket, xWaitingTasks, earned>>

\* A malformed packet, or a CONNACK that refuses the connection: its event is
\* not the caller's answer, the loss of the connection is.
ParseBad(b) ==
    /\ AgentAt("parse", b)
    /\ Lose(b, {})
    /\ Parsing(b)
    /\ UNCHANGED earned

ParsePublish(b) ==
    /\ ReceiveIgnored(b)
    /\ Parsing(b)
    /\ UNCHANGED <<note, xSocket, xWaitingTasks, earned>>

\* Mutant: any packet with the identifier is taken for the acknowledged one.
MatchesIdOnly(p, o, i) == IF o = "connect" THEN p.op = o ELSE p.id = i

\* prvPacketTypeFlagsGetTxBuffer, prvPacketTypeFlagsIdentifierGetTxBuffer: a
\* CONNACK carries no identifier.
Matches(p, o, i) == p.op = o /\ (o # "connect" => p.id = i)

Queued(t) == {k \in DOMAIN xCommandQueue : xCommandQueue[k].task = t}

\* The calls, sent and not yet answered, that an acknowledgement grants.
Grants(b, o, i) ==
    {t \in Tasks : /\ pc[t] = "wait" /\ ~note[t].pending /\ Queued(t) = {}
                   /\ op[t] = o /\ at[t] = b
                   /\ o # "connect" => id[t] = i}

\* CONNACK, SUBACK, UNSUBACK and PUBACK; only a SUBACK can say no.
ParseAck(b, o, i, granted) ==
    /\ AgentAt("parse", b)
    /\ o # "subscribe" => granted
    /\ IF \E p \in tx[b] : Matches(p, o, i)
         THEN LET p == CHOOSE q \in tx[b] : Matches(q, o, i)
                  S == Waiting(b, p.id)
              IN  /\ ReceiveAnswer(b, p)
                  /\ Notify(Answers(S, IF granted THEN "success" ELSE "failure"))
                  /\ xWaitingTasks' = [xWaitingTasks EXCEPT ![b] = @ \ S]
         ELSE ReceiveIgnored(b) /\ UNCHANGED <<note, xWaitingTasks>>
    /\ Parsing(b)
    /\ earned' = IF granted THEN earned \cup Grants(b, o, i) ELSE earned
    /\ UNCHANGED xSocket

NextBroker(b) ==
    IF b = NumBrokers THEN AgentGoTo("command", 1) ELSE AgentGoTo("receive", b + 1)

\* A CONNECT without answer gives the connection up, every other packet in
\* time ends with its call.
Periodic(b, expired) ==
    /\ AgentAt("periodic", b)
    /\ expired \subseteq tx[b]
    /\ NextBroker(b)
    /\ IF \E p \in expired : p.op = "connect"
         THEN Lose(b, {})
         ELSE LET S == UNION {Waiting(b, p.id) : p \in expired}
              IN  /\ ReturnExpired(b, expired)
                  /\ Notify(Answers(S, "timeout"))
                  /\ xWaitingTasks' = [xWaitingTasks EXCEPT ![b] = @ \ S]
                  /\ UNCHANGED xSocket
    /\ UNCHANGED <<callVars, xCommandQueue, earned, misled>>

-----------------------------------------------------------------------------

CallStep(t) == ClearState(t) \/ Enqueue(t) \/ QueueTimeout(t) \/ Take(t)

Handle == Expired \/ Fail \/ InitiateConnect \/ InitiateAcked \/ InitiatePublish0
          \/ InitiateDisconnect

AgentStep ==
    \/ NoCommand
    \/ Handle
    \/ \E b \in Brokers :
         \/ ReceiveNothing(b) \/ ReceiveError(b) \/ ReceiveData(b)
         \/ ParsePart(b) \/ ParseBad(b) \/ ParsePublish(b)
         \/ \E o \in Acked \cup {"connect"}, i \in Ids, granted \in BOOLEAN :
              ParseAck(b, o, i, granted)
         \/ \E expired \in SUBSET tx[b] : Periodic(b, expired)

Next ==
    \/ \E t \in Tasks : Create(t) \/ Delete(t) \/ CallStep(t) \/ LateTransfer(t)
    \/ \E t \in Tasks, o \in Ops, b \in Brokers : Begin(t, o, b)
    \/ AgentStep

Spec == Init /\ [][Next]_vars

\* Callers run when they can.  The agent runs when they are blocked, which they
\* are again and again.  Time passes: a packet that is still waiting when the
\* library looks at the time often enough has expired.
FairSpec ==
    /\ Spec
    /\ \A t \in Tasks : WF_vars(CallStep(t))
    /\ SF_vars(AgentStep)
    /\ \A b \in Brokers : SF_vars(tx[b] # {} /\ Periodic(b, tx[b]))

-----------------------------------------------------------------------------
(* Properties                                                              *)

Slot == [task : Tasks, id : Ids]
Packet == [id : Ids, op : Acked \cup {"connect"}, buf : Buffers]

\* Every variable of the agent and of the library keeps its type.
TypeOK ==
    /\ xConnectionState \in [Brokers -> {"not", "progress", "connected"}]
    /\ tx \in [Brokers -> SUBSET Packet]
    /\ xWaitingTasks \in [Brokers -> SUBSET Slot]
    /\ xRxBuffer \in [Brokers -> 0..NumBuffers]
    /\ rxState \in [Brokers -> {"start", "store", "drop"}]
    /\ used \subseteq Buffers
    /\ owner \in [Brokers -> Tasks \cup {None}]
    /\ live \subseteq Brokers
    /\ nextId \in Ids
    /\ pc \in [Tasks -> {"idle", "clear", "send", "wait"}]
    /\ op \in [Tasks -> Ops \cup {"none"}]
    /\ at \in [Tasks -> Brokers]
    /\ id \in [Tasks -> 0..MaxId]
    /\ note \in [Tasks -> [id : 0..MaxId, answer : {"success", "failure", "timeout"},
                           pending : BOOLEAN]]
    /\ xCommandQueue \in Seq([task : Tasks, id : Ids, op : Ops, b : Brokers])
    /\ agent \in [step : {"command", "receive", "parse", "periodic"}, b : Brokers,
                  left : 0..MaxPieces]
    /\ xSocket \subseteq Brokers
    /\ due \subseteq Sensing
    /\ earned \subseteq Tasks
    /\ misled \in BOOLEAN

SlotsOf(t)  == {b \in Brokers : \E s \in xWaitingTasks[b] : s.task = t}
Answered(t) == pc[t] = "wait" /\ note[t].pending /\ note[t].id = id[t]

\* A caller that waits, without a time limit of its own, in
\* prvSendCommandToMQTTTask is owed exactly one answer: its command is in the
\* queue, or the agent remembers it among the waiting tasks, or the answer is
\* the task's unread notification.  Nothing of a call that is over is left in
\* the queue or among the waiting tasks.
EveryCallIsOwedOneAnswer ==
    \A t \in Tasks :
      /\ \A k \in Queued(t) : xCommandQueue[k] = Command(t)
      /\ \A b \in SlotsOf(t) : [task |-> t, id |-> id[t]] \in xWaitingTasks[b] /\ at[t] = b
      /\ Cardinality(Queued(t)) + Cardinality(SlotsOf(t))
           + (IF Answered(t) THEN 1 ELSE 0) = IF pc[t] = "wait" THEN 1 ELSE 0

PacketsFit(b) ==
    /\ {p.id : p \in tx[b]} = {s.id : s \in xWaitingTasks[b]}
    /\ \A p, q \in tx[b] : p.id = q.id => p = q
    /\ CASE xConnectionState[b] = "not"       -> tx[b] = {}
         [] xConnectionState[b] = "progress"  -> {p.op : p \in tx[b]} = {"connect"}
         [] xConnectionState[b] = "connected" -> "connect" \notin {p.op : p \in tx[b]}

\* The agent's list of waiting tasks and the library's list of packets without
\* an answer, which only callbacks keep in step, always speak of the same
\* calls: while a CONNECT is on its way of nothing else, when there is no
\* connection of none.
WaitingTasksFitPackets == \A b \in Brokers : PacketsFit(b)

\* A buffer of the pool in use is held once, as a packet that waits for its
\* answer or as the packet being received: no path of the library loses one
\* or returns one it goes on using.
BuffersConserved ==
    /\ used = UNION {Held(b) : b \in Brokers}
    /\ \A b \in Brokers :
         /\ rxState[b] = "store" <=> xRxBuffer[b] # 0
         /\ {p.buf : p \in tx[b]} \cap RxHeld(b) = {}
         /\ \A p, q \in tx[b] : p.buf = q.buf => p = q
         /\ \A c \in Brokers \ {b} : Held(b) \cap Held(c) = {}

\* A CONNECT is in the queue only for a connection without a socket, as
\* prvSetupConnection asserts: whatever ended the last connection has closed it.
ConnectFindsNoSocket ==
    \A k \in DOMAIN xCommandQueue :
      xCommandQueue[k].op = "connect" => xCommandQueue[k].b \notin xSocket

\* A caller of CONNECT, SUBSCRIBE, UNSUBSCRIBE or a QoS 1 PUBLISH reads success
\* exactly when the broker has granted that call since it was sent.  An answer that
\* the notification of a late I2C transfer changes before it is read is excepted:
\* there the caller reads the wrong status (misled), and the model stops.
SuccessIsTheBrokersGrant ==
    \A t \in Tasks :
      Answered(t) /\ op[t] \in Acked \cup {"connect"}
        => (note[t].answer = "success" <=> t \in earned)

\* What the caller of a call knows of it.
CallOf(t) ==
    IF pc[t] = "idle" THEN "none"
    ELSE IF Answered(t) THEN IF note[t].answer = "success" THEN "yes" ELSE "no"
    ELSE IF SlotsOf(t) # {} THEN "sent" ELSE "asked"

calls == [t \in Tasks |-> CallOf(t)]

Calls == INSTANCE MqttCalls WITH call <- calls, for <- at, link <- xConnectionState

\* Queue, notifications, identifiers, buffers and sockets together are the
\* asynchronous call that MqttCalls describes.
ImplementsCalls == Calls!Spec

\* Every call of MQTT_AGENT_* returns, whatever the broker does, although its
\* wait for the notification has no time limit.
EveryCallReturns == \A t \in Tasks : pc[t] # "idle" ~> (pc[t] = "idle" \/ misled)
=============================================================================

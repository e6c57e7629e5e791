-------------------------- MODULE MqttCapacityProofs ------------------------
(***************************************************************************)
(* Proofs about MqttAgent: what is left of a connection that is given      *)
(* back, whose packets the library keeps, and for which lengths of the     *)
(* queue, the list of waiting tasks and the pool nothing is turned away.   *)
(***************************************************************************)
EXTENDS MqttAgentProofs, FunctionTheorems

\* A packet that waits for its answer is one call's, which waits for it.
EveryPacketIsACall ==
    \A b \in Brokers : \A p \in tx[b] :
      \E t \in Tasks : /\ pc[t] = "wait" /\ id[t] = p.id
                       /\ op[t] = p.op /\ at[t] = b

\* An acknowledgement of the broker therefore finds the task to be told, of the
\* right operation, on the right connection.
THEOREM PacketsAreCalls == Spec => []EveryPacketIsACall
<1>1. IInv => EveryPacketIsACall
  <2> SUFFICES ASSUME IInv, NEW b \in Brokers, NEW p \in tx[b]
               PROVE  \E t \in Tasks : /\ pc[t] = "wait" /\ id[t] = p.id
                                       /\ op[t] = p.op /\ at[t] = b
    BY DEF EveryPacketIsACall
  <2>1. TypeOK /\ CallInv /\ PacketInv  BY DEF IInv
  <2>2. Fit(b)  BY <2>1, FitNow
  <2>3. PICK s \in xWaitingTasks[b] : s.id = p.id  BY <2>2 DEF Fit
  <2>4. p.op = op[s.task]  BY <2>2, <2>3 DEF Fit
  <2>5. /\ s.task \in Tasks /\ pc[s.task] = "wait" /\ s.id = id[s.task]
        /\ at[s.task] = b
    BY <2>1, SlotOfCall
  <2>6. QED  BY <2>3, <2>4, <2>5
<1>2. QED  BY InvariantHolds, <1>1, PTL

-----------------------------------------------------------------------------
(* A connection that is given back.                                        *)

\* Nothing is left of a connection nobody has: MQTT_AGENT_Create hands it out
\* without looking.
FreeConnectionsAreClean ==
    \A b \in Brokers :
      owner[b] = None =>
        /\ b \notin live /\ b \notin xSocket /\ xConnectionState[b] = "not"
        /\ tx[b] = {} /\ xWaitingTasks[b] = {} /\ Held(b) = {}
        /\ rxState[b] = "start"

\* A connection that is open has an owner, and on one that is down nothing is
\* being received.
OwnerInv ==
    /\ \A b \in live : owner[b] # None
    /\ agent.step = "parse" => xConnectionState[agent.b] # "not"
    /\ \A b \in Brokers : xConnectionState[b] = "not" => rxState[b] = "start"

LEMMA CallersKeepOwners ==
    ASSUME IInv, OwnerInv, NEW t \in Tasks,
           \/ Create(t) \/ Delete(t) \/ CallStep(t) \/ LateTransfer(t)
           \/ \E o \in Ops, b \in Brokers : Begin(t, o, b)
    PROVE  OwnerInv'
<1>0. CallTypes /\ LinkInv  BY TypeParts DEF IInv
<1>1. UNCHANGED <<xConnectionState, rxState, agent>>
  BY DEF Create, Delete, CallStep, ClearState, Enqueue, QueueTimeout, Take,
         LateTransfer, Begin, clientVars
<1>2. \A b \in live' : owner'[b] # None
  <2>1. CASE Create(t)
    <3>1. t # None /\ live' = live  BY <2>1, AgentAssumption DEF Create
    <3>2. PICK b \in Brokers : owner' = [owner EXCEPT ![b] = t]
      BY <2>1 DEF Create
    <3>3. QED  BY <1>0, <3>1, <3>2 DEF OwnerInv, CallTypes
  <2>2. CASE Delete(t)
    <3>1. PICK b \in Brokers \ live : owner' = [owner EXCEPT ![b] = None]
      BY <2>2 DEF Delete
    <3>2. live' = live  BY <2>2 DEF Delete
    <3>3. QED  BY <1>0, <3>1, <3>2 DEF OwnerInv, CallTypes
  <2>3. CASE Take(t)
    <3>1. owner' = owner /\ live' \subseteq live \cup {at[t]}
      BY <2>3 DEF Take
    <3>2. live' \subseteq live \/ op[t] = "connect"  BY <2>3 DEF Take
    <3>3. op[t] = "connect" => owner[at[t]] # None
      BY <1>0, AgentAssumption DEF LinkInv
    <3>4. QED  BY <3>1, <3>2, <3>3 DEF OwnerInv
  <2>4. CASE \/ ClearState(t) \/ Enqueue(t) \/ QueueTimeout(t) \/ LateTransfer(t)
             \/ \E o \in Ops, b \in Brokers : Begin(t, o, b)
    <3>1. owner' = owner /\ live' = live
      BY <2>4 DEF ClearState, Enqueue, QueueTimeout, LateTransfer, Begin
    <3>2. QED  BY <3>1 DEF OwnerInv
  <2>5. QED  BY <2>1, <2>2, <2>3, <2>4 DEF CallStep
<1>3. QED  BY <1>1, <1>2 DEF OwnerInv

\* A connection that is given up receives nothing.
LEMMA LostReceivesNothing ==
    ASSUME PoolTypes, OwnerInv, NEW b \in Brokers, ResetMQTTContext(b)
    PROVE  /\ \A c \in Brokers : xConnectionState'[c] = "not" => rxState'[c] = "start"
           /\ \A c \in Brokers \ {b} : xConnectionState'[c] = xConnectionState[c]
BY DEF PoolTypes, OwnerInv, ResetMQTTContext

LEMMA AgentKeepsOwners ==
    ASSUME IInv, OwnerInv, AgentStep
    PROVE  OwnerInv'
<1>0. PoolTypes /\ AgentTypes /\ CallTypes /\ TypeOK /\ PacketInv /\ LinkInv
  BY TypeParts DEF IInv
<1>1. UNCHANGED callVars  BY <1>0, AgentShapes
<1>2. \A b \in live' : owner'[b] # None  BY <1>1 DEF callVars, OwnerInv
<1> DEFINE Down == \A b \in Brokers : xConnectionState[b] = "not" => rxState[b] = "start"
           Reading == agent.step = "parse" => xConnectionState[agent.b] # "not"
<1>3. Down /\ Reading  BY DEF OwnerInv
<1>4. SUFFICES Down' /\ Reading'  BY <1>2 DEF OwnerInv
<1> HIDE DEF Down, Reading
<1>5. ASSUME UNCHANGED <<xConnectionState, rxState>> PROVE Down'
  BY <1>3, <1>5 DEF Down
<1>6. ASSUME NEW b \in Brokers, ResetMQTTContext(b) PROVE Down'
  BY <1>0, <1>6, LostReceivesNothing DEF Down
<1>7. ASSUME agent'.step # "parse" PROVE Reading'  BY <1>7 DEF Reading
<1>8. CASE NoCommand
  BY <1>5, <1>7, <1>8 DEF NoCommand, AgentGoTo, clientVars
<1>9. CASE Handle
  <2>1. agent'.step # "parse"
    BY <1>9 DEF Handle, Expired, Fail, InitiateConnect, InitiateAcked,
                InitiatePublish0, InitiateDisconnect, Takeover, AgentGoTo
  <2>2. CASE Expired \/ Fail \/ InitiatePublish0
    BY <1>5, <1>7, <2>1, <2>2 DEF Expired, Fail, InitiatePublish0, clientVars
  <2>3. CASE InitiateConnect \/ InitiateAcked
    <3> DEFINE e == Head(xCommandQueue)
    <3>1. SendKept(e.b, e.id, e.op)  BY <2>3 DEF InitiateConnect, InitiateAcked
    <3> HIDE DEF e
    <3>2. rxState' = rxState  BY <3>1 DEF SendKept
    <3>3. \A c \in Brokers : xConnectionState'[c] = "not" => xConnectionState[c] = "not"
      <4> SUFFICES ASSUME NEW c \in Brokers, xConnectionState'[c] = "not"
                   PROVE  xConnectionState[c] = "not"
        OBVIOUS
      <4>1. xConnectionState' = [xConnectionState EXCEPT
                ![e.b] = IF e.op = "connect" THEN "progress" ELSE @]
        BY <3>1 DEF SendKept
      <4>2. QED  BY <1>0, <4>1 DEF PoolTypes
    <3>4. Down'  BY <1>3, <3>2, <3>3 DEF Down
    <3>5. QED  BY <1>7, <2>1, <3>4
  <2>4. CASE InitiateDisconnect
    <3> DEFINE e == Head(xCommandQueue)
    <3>1. e.b \in Brokers
      <4>1. xCommandQueue # <<>>  BY <2>4 DEF InitiateDisconnect, Takeover
      <4>2. e \in Entries  BY <1>0, <4>1 DEF AgentTypes
      <4>3. QED  BY <4>2 DEF Entries
    <3>2. ResetMQTTContext(e.b)
      BY <2>4 DEF InitiateDisconnect, Hangup, Lose
    <3>3. QED  BY <1>6, <1>7, <2>1, <3>1, <3>2
  <2>5. QED  BY <1>9, <2>2, <2>3, <2>4 DEF Handle
<1>10. ASSUME NEW b \in Brokers, ReceiveNothing(b)
       PROVE  Down' /\ Reading'
  BY <1>5, <1>7, <1>10 DEF ReceiveNothing, AgentGoTo, clientVars
<1>11. ASSUME NEW b \in Brokers, ReceiveError(b)
       PROVE  Down' /\ Reading'
  BY <1>6, <1>7, <1>11 DEF ReceiveError, AgentGoTo, Hangup, Lose
<1>12. ASSUME NEW b \in Brokers, ReceiveData(b)
       PROVE  Down' /\ Reading'
  <2>1. agent'.b = b /\ UNCHANGED clientVars /\ xConnectionState[b] # "not"
    BY <1>12 DEF ReceiveData
  <2>2. QED  BY <1>5, <2>1 DEF clientVars, Reading
<1>13. ASSUME NEW b \in Brokers, Parsing(b)
       PROVE  Reading'
  <2>1. agent.b = b  BY <1>13 DEF Parsing, AgentAt
  <2>2. CASE agent' = [agent EXCEPT !.left = @ - 1] /\ xConnectionState'[b] # "not"
    <3>1. agent'.b = b  BY <1>0, <2>1, <2>2 DEF AgentTypes
    <3>2. QED  BY <2>2, <3>1 DEF Reading
  <2>3. CASE AgentGoTo("periodic", b)  BY <1>7, <2>3 DEF AgentGoTo
  <2>4. QED  BY <1>13, <2>2, <2>3 DEF Parsing
<1>14. ASSUME NEW b \in Brokers, AgentAt("parse", b)
       PROVE  xConnectionState[b] # "not"
  BY <1>3, <1>14 DEF AgentAt, Reading
<1>15. ASSUME NEW b \in Brokers, ParsePart(b) \/ ParsePublish(b)
       PROVE  Down' /\ Reading'
  <2>1. Parsing(b) /\ xConnectionState[b] # "not"
    BY <1>14, <1>15 DEF ParsePart, ParsePublish, Parsing
  <2>2. /\ xConnectionState' = xConnectionState
        /\ \A c \in Brokers \ {b} : rxState'[c] = rxState[c]
    BY <1>0, <1>15 DEF ParsePart, ParsePublish, ReceiveHeader, ReceiveDropped,
                       ReceivePingResp, ReceiveIgnored, clientVars, PoolTypes
  <2>3. Down'  BY <1>3, <2>1, <2>2 DEF Down
  <2>4. QED  BY <1>13, <2>1, <2>3
<1>16. ASSUME NEW b \in Brokers, ParseBad(b)
       PROVE  Down' /\ Reading'
  BY <1>6, <1>13, <1>16 DEF ParseBad, Lose
<1>17. ASSUME NEW b \in Brokers, NEW o \in Acked \cup {"connect"}, NEW i \in Ids,
              NEW granted \in BOOLEAN, ParseAck(b, o, i, granted)
       PROVE  Down' /\ Reading'
  <2>1. Parsing(b) /\ xConnectionState[b] # "not"
    BY <1>14, <1>17 DEF ParseAck
  <2>2. ReceiveIgnored(b) \/ \E p \in tx[b] : ReceiveAnswer(b, p)
    <3>1. CASE \E p \in tx[b] : Matches(p, o, i)
      <4>1. (CHOOSE q \in tx[b] : Matches(q, o, i)) \in tx[b]  BY <3>1
      <4>2. QED  BY <1>17, <3>1, <4>1 DEF ParseAck
    <3>2. QED  BY <1>17, <3>1 DEF ParseAck
  <2>3. rxState' = [rxState EXCEPT ![b] = "start"]
    BY <2>2 DEF ReceiveIgnored, ReceiveAnswer
  <2>4. \A c \in Brokers \ {b} : xConnectionState'[c] = xConnectionState[c]
    BY <1>0, <2>2 DEF ReceiveIgnored, ReceiveAnswer, PoolTypes
  <2>5. Down'  BY <1>0, <1>3, <2>3, <2>4 DEF Down, PoolTypes
  <2>6. QED  BY <1>13, <2>1, <2>5
<1>18. ASSUME NEW b \in Brokers, NEW expired \in SUBSET tx[b], Periodic(b, expired)
       PROVE  Down' /\ Reading'
  <2>1. agent'.step # "parse"  BY <1>18 DEF Periodic, NextBroker, AgentGoTo
  <2>2. ResetMQTTContext(b) \/ ReturnExpired(b, expired)
    BY <1>18 DEF Periodic, Lose
  <2>3. Down'  BY <1>5, <1>6, <2>2 DEF ReturnExpired
  <2>4. QED  BY <1>7, <2>1, <2>3
<1>19. QED
  BY <1>8, <1>9, <1>10, <1>11, <1>12, <1>15, <1>16, <1>17, <1>18, Zenon DEF AgentStep

\* What MQTT_AGENT_Delete gives back is as good as new.
THEOREM NothingIsLeftBehind == Spec => []FreeConnectionsAreClean
<1>1. Init => OwnerInv
  BY DEF Init, ClientInit, OwnerInv
<1>2. IInv /\ OwnerInv /\ [Next]_vars => OwnerInv'
  <2> SUFFICES ASSUME IInv, OwnerInv, [Next]_vars PROVE OwnerInv'  OBVIOUS
  <2>1. ASSUME NEW t \in Tasks,
               \/ Create(t) \/ Delete(t) \/ CallStep(t) \/ LateTransfer(t)
               \/ \E o \in Ops, b \in Brokers : Begin(t, o, b)
        PROVE  OwnerInv'
    BY <2>1, CallersKeepOwners
  <2>2. CASE AgentStep  BY <2>2, AgentKeepsOwners
  <2>3. CASE UNCHANGED vars  BY <2>3 DEF vars, callVars, clientVars, OwnerInv
  <2>4. QED  BY <2>1, <2>2, <2>3 DEF Next
<1>3. IInv /\ OwnerInv => FreeConnectionsAreClean
  <2> SUFFICES ASSUME IInv, OwnerInv, NEW b \in Brokers, owner[b] = None
               PROVE  /\ b \notin live /\ b \notin xSocket
                      /\ xConnectionState[b] = "not"
                      /\ tx[b] = {} /\ xWaitingTasks[b] = {} /\ Held(b) = {}
                      /\ rxState[b] = "start"
    BY DEF FreeConnectionsAreClean
  <2>1. TypeOK /\ CallInv /\ PacketInv /\ LinkInv /\ BuffersConserved  BY DEF IInv
  <2>2. b \notin live  BY DEF OwnerInv
  <2>3. \A t \in Tasks : ~(op[t] = "connect" /\ at[t] = b)
    BY <2>1, AgentAssumption DEF LinkInv
  <2>4. xConnectionState[b] = "not"  BY <2>1, <2>2, <2>3 DEF LinkInv
  <2>5. Fit(b)  BY <2>1, FitNow
  <2>6. tx[b] = {} /\ xWaitingTasks[b] = {}  BY <2>4, <2>5 DEF Fit
  <2>7. rxState[b] = "start"  BY <2>4 DEF OwnerInv
  <2>8. xRxBuffer[b] = 0  BY <2>1, <2>7 DEF BuffersConserved
  <2>9. Held(b) = {}  BY <2>6, <2>8 DEF Held, RxHeld
  <2>10. QED  BY <2>1, <2>2, <2>4, <2>6, <2>7, <2>9 DEF LinkInv
<1>4. QED  BY InvariantHolds, <1>1, <1>2, <1>3, PTL DEF Spec

-----------------------------------------------------------------------------
(* Lengths that are enough.                                                *)

\* As many numbers as the last one says.
LEMMA UpTo ==
    ASSUME NEW n \in Nat
    PROVE  IsFiniteSet(1..n) /\ Cardinality(1..n) = n
<1>1. IsFiniteSet(1..n) /\ Cardinality(1..n) = IF 1 > n THEN 0 ELSE n - 1 + 1
  BY FS_Interval
<1>2. QED  BY <1>1

\* With no more tasks than entries a task that comes to send finds room, for
\* it is not in the queue itself and nobody is there twice.
LEMMA RoomForTheSender ==
    ASSUME IInv, IsFiniteSet(Tasks), Cardinality(Tasks) <= QueueLength,
           NEW t \in Tasks, pc[t] = "send"
    PROVE  Len(xCommandQueue) < QueueLength
<1> DEFINE n == Len(xCommandQueue)
           f == [k \in 1..n |-> xCommandQueue[k].task]
           Rest == Tasks \ {t}
<1>1. TypeOK /\ CallInv  BY DEF IInv
<1>2. xCommandQueue \in Seq(Entries)  BY <1>1, TypeParts DEF AgentTypes
<1>3. n \in Nat /\ DOMAIN xCommandQueue = 1..n  BY <1>2
<1>4. \A k \in 1..n : xCommandQueue[k].task \in Rest
  <2> SUFFICES ASSUME NEW k \in 1..n PROVE xCommandQueue[k].task \in Rest
    OBVIOUS
  <2>1. xCommandQueue[k] \in Entries  BY <1>2, <1>3
  <2>2. xCommandQueue[k].task \in Tasks  BY <2>1 DEF Entries
  <2>3. pc[xCommandQueue[k].task] = "wait"
    BY <1>1, <1>3 DEF CallInv, OnlyOpenCalls
  <2>4. QED  BY <2>2, <2>3
<1>5. f \in Injection(1..n, Rest)
  <2>1. f \in [1..n -> Rest]  BY <1>4
  <2>2. \A k, l \in 1..n : f[k] = f[l] => k = l
    BY <1>1, <1>3 DEF CallInv, OnlyOpenCalls
  <2>3. QED  BY <2>1, <2>2, Fun_IsInj
<1>6. IsFiniteSet(Rest) /\ Cardinality(Rest) = Cardinality(Tasks) - 1
  BY FS_RemoveElement
<1> HIDE DEF f, Rest, n
<1>7. Cardinality(1..n) = n  BY <1>3, UpTo
<1>8. Cardinality(1..n) <= Cardinality(Rest)  BY <1>5, <1>6, FS_Injection
<1>9. Cardinality(Tasks) \in Nat /\ QueueLength \in Nat
  BY FS_CardinalityType, AgentAssumption
<1>10. QED  BY <1>3, <1>6, <1>7, <1>8, <1>9 DEF n

\* Then no caller ever gives up on the queue, and each one is answered by the
\* agent.  (The queue has five entries, the application one task that calls the agent.)
THEOREM QueueSuffices ==
    ASSUME IsFiniteSet(Tasks), Cardinality(Tasks) <= QueueLength
    PROVE  Spec => [][\A t \in Tasks : ~QueueTimeout(t)]_vars
<1>1. IInv => \A t \in Tasks : ~QueueTimeout(t)
  <2> SUFFICES ASSUME IInv, NEW t \in Tasks, QueueTimeout(t) PROVE FALSE
    OBVIOUS
  <2>1. pc[t] = "send" /\ Len(xCommandQueue) = QueueLength
    BY DEF QueueTimeout, At
  <2>2. Len(xCommandQueue) < QueueLength  BY <2>1, RoomForTheSender
  <2>3. QueueLength \in Nat  BY AgentAssumption
  <2>4. QED  BY <2>1, <2>2, <2>3
<1>2. QED  BY InvariantHolds, <1>1, PTL

\* The agent remembers at most mqttconfigMAX_PARALLEL_OPS calls of a connection.
SlotsInv ==
    \A b \in Brokers :
      /\ IsFiniteSet(xWaitingTasks[b])
      /\ Cardinality(xWaitingTasks[b]) <= ParallelOps

LEMMA FewerSlots ==
    ASSUME SlotsInv, \A b \in Brokers : xWaitingTasks'[b] \subseteq xWaitingTasks[b]
    PROVE  SlotsInv'
<1> SUFFICES ASSUME NEW b \in Brokers
             PROVE  /\ IsFiniteSet(xWaitingTasks'[b])
                    /\ Cardinality(xWaitingTasks'[b]) <= ParallelOps
  BY DEF SlotsInv
<1>1. IsFiniteSet(xWaitingTasks[b]) /\ Cardinality(xWaitingTasks[b]) <= ParallelOps
  BY DEF SlotsInv
<1>2. /\ IsFiniteSet(xWaitingTasks'[b])
      /\ Cardinality(xWaitingTasks'[b]) <= Cardinality(xWaitingTasks[b])
  BY <1>1, FS_Subset
<1>3. Cardinality(xWaitingTasks'[b]) \in Nat /\ Cardinality(xWaitingTasks[b]) \in Nat
  BY <1>1, <1>2, FS_CardinalityType
<1>4. ParallelOps \in Nat  BY AgentAssumption
<1>5. QED  BY <1>1, <1>2, <1>3, <1>4

LEMMA StoringKeepsSlots ==
    ASSUME TypeOK, SlotsInv, NEW e \in Entries, Store(e)
    PROVE  SlotsInv'
<1>1. xWaitingTasks \in [Brokers -> SUBSET Slot] /\ e.b \in Brokers
  BY TypeParts DEF AgentTypes, Entries
<1> DEFINE s == [task |-> e.task, id |-> e.id]
<1>2. \A b \in Brokers : xWaitingTasks'[b] =
          IF b = e.b THEN xWaitingTasks[b] \cup {s} ELSE xWaitingTasks[b]
  BY <1>1 DEF Store
<1>3. Cardinality(xWaitingTasks[e.b]) < ParallelOps  BY DEF Store
<1> HIDE DEF s
<1> SUFFICES ASSUME NEW b \in Brokers
             PROVE  /\ IsFiniteSet(xWaitingTasks'[b])
                    /\ Cardinality(xWaitingTasks'[b]) <= ParallelOps
  BY DEF SlotsInv
<1>4. CASE b # e.b  BY <1>2, <1>4 DEF SlotsInv
<1>5. CASE b = e.b
  <2>1. IsFiniteSet(xWaitingTasks[b])  BY DEF SlotsInv
  <2>2. Cardinality(xWaitingTasks[b]) \in Nat  BY <2>1, FS_CardinalityType
  <2>3. /\ IsFiniteSet(xWaitingTasks[b] \cup {s})
        /\ Cardinality(xWaitingTasks[b] \cup {s}) <= Cardinality(xWaitingTasks[b]) + 1
    BY <2>1, <2>2, FS_AddElement
  <2>4. Cardinality(xWaitingTasks[b] \cup {s}) \in Nat  BY <2>3, FS_CardinalityType
  <2>5. ParallelOps \in Nat  BY AgentAssumption
  <2>6. QED  BY <1>2, <1>3, <1>5, <2>2, <2>3, <2>4, <2>5
<1>6. QED  BY <1>4, <1>5

\* What becomes of the waiting tasks in a step.
LEMMA SlotsKept ==
    ASSUME IInv, SlotsInv, [Next]_vars
    PROVE  SlotsInv'
<1>0. TypeOK /\ PacketInv /\ LinkInv /\ AgentTypes  BY TypeParts DEF IInv
<1>1. ASSUME xWaitingTasks' = xWaitingTasks PROVE SlotsInv'
  BY <1>1, FewerSlots
<1>2. ASSUME NEW t \in Tasks,
             \/ Create(t) \/ Delete(t) \/ CallStep(t) \/ LateTransfer(t)
             \/ \E o \in Ops, b \in Brokers : Begin(t, o, b)
      PROVE  SlotsInv'
  <2>1. xWaitingTasks' = xWaitingTasks
    BY <1>2 DEF Create, Delete, CallStep, ClearState, Enqueue, QueueTimeout, Take,
                LateTransfer, Begin
  <2>2. QED  BY <1>1, <2>1
<1>3. CASE AgentStep
  <2>1. CASE Looking \/ Refusing  BY <1>1, <2>1 DEF Looking, Refusing
  <2>2. CASE Sending
    <3>1. xCommandQueue # <<>> /\ Store(Head(xCommandQueue))
      BY <2>2 DEF Sending
    <3>2. Head(xCommandQueue) \in Entries  BY <1>0, <3>1, ServedTypes DEF AgentTypes
    <3>3. QED  BY <1>0, <3>1, <3>2, StoringKeepsSlots
  <2>3. ASSUME NEW b \in Brokers, NEW R, xWaitingTasks' = [xWaitingTasks EXCEPT ![b] = R],
               R \subseteq xWaitingTasks[b]
        PROVE  SlotsInv'
    <3>1. \A c \in Brokers : xWaitingTasks'[c] \subseteq xWaitingTasks[c]
      BY <1>0, <2>3 DEF AgentTypes
    <3>2. QED  BY <3>1, FewerSlots
  <2>4. ASSUME NEW b \in Brokers, NEW A, Closing(b, A) PROVE SlotsInv'
    <3>1. xWaitingTasks' = [xWaitingTasks EXCEPT ![b] = {}]
      BY <2>4 DEF Closing, Lose, Disconnected
    <3>2. \A c \in Brokers : xWaitingTasks'[c] \subseteq xWaitingTasks[c]
      BY <1>0, <3>1 DEF AgentTypes
    <3>3. QED  BY <3>2, FewerSlots
  <2>5. ASSUME NEW b \in Brokers, NEW o \in Acked \cup {"connect"}, NEW i \in Ids,
               NEW granted \in BOOLEAN, NEW p \in tx[b], Answering(b, o, i, p, granted)
        PROVE  SlotsInv'
    <3> DEFINE S == Waiting(b, p.id)
    <3>1. xWaitingTasks' = [xWaitingTasks EXCEPT ![b] = xWaitingTasks[b] \ S]
      BY <2>5 DEF Answering
    <3> HIDE DEF S
    <3>2. xWaitingTasks[b] \ S \subseteq xWaitingTasks[b]  OBVIOUS
    <3>3. QED  BY <2>3, <3>1, <3>2
  <2>6. ASSUME NEW b \in Brokers, NEW expired \in SUBSET tx[b], Expiring(b, expired)
        PROVE  SlotsInv'
    <3> DEFINE S == UNION {Waiting(b, p.id) : p \in expired}
    <3>1. xWaitingTasks' = [xWaitingTasks EXCEPT ![b] = xWaitingTasks[b] \ S]
      BY <2>6 DEF Expiring
    <3> HIDE DEF S
    <3>2. xWaitingTasks[b] \ S \subseteq xWaitingTasks[b]  OBVIOUS
    <3>3. QED  BY <2>3, <3>1, <3>2
  <2>7. QED  BY <1>0, <1>3, <2>1, <2>2, <2>4, <2>5, <2>6, AgentShapes
<1>4. CASE UNCHANGED vars  BY <1>1, <1>4 DEF vars
<1>5. QED  BY <1>2, <1>3, <1>4 DEF Next

\* A connection holds one buffer for each call the agent remembers, and one to
\* receive in.
LEMMA HeldBound ==
    ASSUME IInv, SlotsInv, NEW b \in Brokers
    PROVE  /\ IsFiniteSet(Held(b)) /\ Cardinality(Held(b)) \in Nat
           /\ Cardinality(Held(b)) <= ParallelOps + 1
           /\ rxState[b] # "store" \/ Cardinality(xWaitingTasks[b]) < ParallelOps
                => Cardinality(Held(b)) <= ParallelOps
<1> DEFINE W == xWaitingTasks[b]
           Sent == {p.buf : p \in tx[b]}
           Fits(x, s) == s \in W /\ \E p \in tx[b] : p.buf = x /\ p.id = s.id
           f == [x \in Sent |-> CHOOSE s \in W : Fits(x, s)]
<1>1. TypeOK /\ PacketInv /\ BuffersConserved  BY DEF IInv
<1>2. Fit(b)  BY <1>1, FitNow
<1>3. IsFiniteSet(W) /\ Cardinality(W) <= ParallelOps  BY DEF SlotsInv
<1>4. \A x \in Sent : f[x] \in W /\ Fits(x, f[x])
  <2> SUFFICES ASSUME NEW x \in Sent PROVE f[x] \in W /\ Fits(x, f[x])
    OBVIOUS
  <2>1. PICK p \in tx[b] : p.buf = x  OBVIOUS
  <2>2. PICK s \in W : s.id = p.id  BY <1>2 DEF Fit
  <2>3. Fits(x, s)  BY <2>1, <2>2
  <2>4. f[x] = CHOOSE r \in W : Fits(x, r)  OBVIOUS
  <2> HIDE DEF Fits, f
  <2>5. QED  BY <2>2, <2>3, <2>4
<1>5. \A x, y \in Sent : f[x] = f[y] => x = y
  <2> SUFFICES ASSUME NEW x \in Sent, NEW y \in Sent, f[x] = f[y] PROVE x = y
    OBVIOUS
  <2> HIDE DEF f, Fits
  <2>1. Fits(x, f[x]) /\ Fits(y, f[x])  BY <1>4
  <2>2. PICK p \in tx[b] : p.buf = x /\ p.id = f[x].id
    BY <2>1 DEF Fits
  <2>3. PICK q \in tx[b] : q.buf = y /\ q.id = f[x].id
    BY <2>1 DEF Fits
  <2>4. p = q  BY <1>2, <2>2, <2>3 DEF Fit
  <2>5. QED  BY <2>2, <2>3, <2>4
<1>6. f \in [Sent -> W]  BY <1>4
<1> HIDE DEF f, Fits, W
<1>7. f \in Injection(Sent, W)  BY <1>5, <1>6, Fun_IsInj
<1>8. IsFiniteSet(Sent) /\ Cardinality(Sent) <= Cardinality(W)
  BY <1>3, <1>7, FS_Injection
<1>9. Cardinality(Sent) \in Nat /\ Cardinality(W) \in Nat /\ ParallelOps \in Nat
  BY <1>3, <1>8, FS_CardinalityType, AgentAssumption
<1>10. CASE rxState[b] = "store"
  <2>1. xRxBuffer[b] # 0  BY <1>1, <1>10 DEF BuffersConserved
  <2>2. Held(b) = Sent \cup {xRxBuffer[b]}  BY <2>1 DEF Held, RxHeld
  <2> HIDE DEF Sent
  <2>3. IsFiniteSet(Held(b)) /\ Cardinality(Held(b)) <= Cardinality(Sent) + 1
    BY <1>8, <1>9, <2>2, FS_AddElement
  <2>4. Cardinality(Held(b)) \in Nat  BY <2>3, FS_CardinalityType
  <2>5. QED  BY <1>3, <1>8, <1>9, <1>10, <2>3, <2>4 DEF W
<1>11. CASE rxState[b] # "store"
  <2>1. xRxBuffer[b] = 0  BY <1>1, <1>11 DEF BuffersConserved
  <2>2. Held(b) = Sent  BY <2>1 DEF Held, RxHeld
  <2> HIDE DEF Sent
  <2>3. QED  BY <1>3, <1>8, <1>9, <2>2
<1>12. QED  BY <1>10, <1>11

\* The buffers in use, numbered by connection and place, leave one place free.
LEMMA PoolHasOneFree ==
    ASSUME IInv, SlotsInv, NumBrokers * (ParallelOps + 1) <= NumBuffers,
           NEW c \in Brokers,
           rxState[c] # "store" \/ Cardinality(xWaitingTasks[c]) < ParallelOps
    PROVE  used # Buffers
<1> DEFINE K == ParallelOps + 1
           Home(x) == CHOOSE b \in Brokers : x \in Held(b)
           Num(b) == CHOOSE h : h \in Bijection(Held(b), 1..Cardinality(Held(b)))
           Grid == Brokers \X (1..K)
           Last == <<c, K>>
           f == [x \in used |-> <<Home(x), Num(Home(x))[x]>>]
<1>1. K \in Nat \ {0} /\ NumBrokers \in Nat /\ NumBuffers \in Nat
  BY AgentAssumption, ClientAssumption
<1>2. ASSUME NEW x \in used PROVE Home(x) \in Brokers /\ x \in Held(Home(x))
  <2>1. \E b \in Brokers : x \in Held(b)  BY DEF IInv, BuffersConserved
  <2>2. QED  BY <2>1
<1> HIDE DEF Home
<1>3. ASSUME NEW b \in Brokers
      PROVE  Num(b) \in Bijection(Held(b), 1..Cardinality(Held(b)))
  <2>1. IsFiniteSet(Held(b))  BY HeldBound
  <2>2. ExistsBijection(1..Cardinality(Held(b)), Held(b))
    BY <2>1, FS_CardinalityType
  <2>3. ExistsBijection(Held(b), 1..Cardinality(Held(b)))
    BY <2>2, Fun_ExistsBijSymmetric
  <2>4. \E h : h \in Bijection(Held(b), 1..Cardinality(Held(b)))
    BY <2>3, Zenon DEF ExistsBijection
  <2>5. QED  BY <2>4
<1> HIDE DEF Num
<1>4. ASSUME NEW b \in Brokers
      PROVE  /\ \A x \in Held(b) : Num(b)[x] \in 1..K
             /\ \A x \in Held(b) : b = c => Num(b)[x] # K
             /\ \A x, y \in Held(b) : Num(b)[x] = Num(b)[y] => x = y
  <2>1. /\ Num(b) \in [Held(b) -> 1..Cardinality(Held(b))]
        /\ Num(b) \in Injection(Held(b), 1..Cardinality(Held(b)))
    <3>1. ASSUME NEW S, NEW T, NEW h \in Bijection(S, T)
          PROVE  h \in [S -> T] /\ h \in Injection(S, T)
      BY Fun_BijectionProperties
    <3>2. QED  BY <1>3, <3>1
  <2>2. \A x, y \in Held(b) : Num(b)[x] = Num(b)[y] => x = y
    BY <2>1, Fun_InjectionProperties
  <2>3. Cardinality(Held(b)) \in Nat /\ Cardinality(Held(b)) <= K
        /\ (b = c => Cardinality(Held(b)) <= ParallelOps)
    BY HeldBound
  <2>4. \A x \in Held(b) : Num(b)[x] \in 1..Cardinality(Held(b))  BY <2>1
  <2>5. ParallelOps \in Nat  BY AgentAssumption
  <2>6. QED  BY <2>2, <2>3, <2>4, <2>5
<1>5. \A x \in used : f[x] \in Grid \ {Last}
  <2> SUFFICES ASSUME NEW x \in used PROVE f[x] \in Grid \ {Last}  OBVIOUS
  <2>1. Home(x) \in Brokers /\ x \in Held(Home(x))  BY <1>2
  <2>2. /\ Num(Home(x))[x] \in 1..K
        /\ Home(x) = c => Num(Home(x))[x] # K
    BY <1>4, <2>1
  <2> HIDE DEF K
  <2>3. QED  BY <2>1, <2>2
<1>6. \A x, y \in used : f[x] = f[y] => x = y
  <2> SUFFICES ASSUME NEW x \in used, NEW y \in used, f[x] = f[y] PROVE x = y
    OBVIOUS
  <2>1. Home(x) = Home(y) /\ Num(Home(x))[x] = Num(Home(y))[y]  OBVIOUS
  <2>2. Home(x) \in Brokers /\ x \in Held(Home(x)) /\ y \in Held(Home(x))
    BY <1>2, <2>1
  <2>3. QED  BY <1>4, <2>1, <2>2
<1> HIDE DEF K
<1>7. Grid = Brokers \X (1..K) /\ Last \in Grid  BY <1>1
<1>8. f \in [used -> Grid \ {Last}]  BY <1>5
<1> HIDE DEF f, Last, Grid
<1>9. f \in Injection(used, Grid \ {Last})  BY <1>6, <1>8, Fun_IsInj
<1>10. /\ IsFiniteSet(Brokers) /\ Cardinality(Brokers) = NumBrokers
       /\ IsFiniteSet(1..K) /\ Cardinality(1..K) = K
       /\ IsFiniteSet(Buffers) /\ Cardinality(Buffers) = NumBuffers
  BY <1>1, UpTo DEF Brokers, Buffers
<1>11. IsFiniteSet(Grid) /\ Cardinality(Grid) = NumBrokers * K
  BY <1>7, <1>10, FS_Product
<1>12. IsFiniteSet(Grid \ {Last}) /\ Cardinality(Grid \ {Last}) = Cardinality(Grid) - 1
  BY <1>7, <1>11, FS_RemoveElement
<1>13. IsFiniteSet(used) /\ Cardinality(used) <= Cardinality(Grid \ {Last})
  BY <1>9, <1>12, FS_Injection
<1>14. Cardinality(Grid) \in Nat /\ Cardinality(used) \in Nat
  BY <1>11, <1>13, FS_CardinalityType
<1>15. Cardinality(Grid) <= NumBuffers  BY <1>11 DEF K
<1>16. Cardinality(used) < NumBuffers  BY <1>1, <1>12, <1>13, <1>14, <1>15
<1>17. QED  BY <1>1, <1>10, <1>14, <1>16

\* While a connection receives nothing, or has a place for one call more, the pool
\* has a buffer: whoever asks for one finds one, and the only packets dropped are
\* those longer than a buffer.
PoolHasRoom ==
    \A b \in Brokers :
        rxState[b] # "store" \/ Cardinality(xWaitingTasks[b]) < ParallelOps
            => used # Buffers

\* A pool with one buffer for each call and one for each connection to receive
\* in is enough.  (It has six: five calls and one connection.)
THEOREM PoolSuffices ==
    ASSUME NumBrokers * (ParallelOps + 1) <= NumBuffers
    PROVE  Spec => []PoolHasRoom
<1>1. Init => SlotsInv
  <2> SUFFICES ASSUME Init PROVE SlotsInv  OBVIOUS
  <2>1. \A b \in Brokers : xWaitingTasks[b] = {} /\ rxState[b] = "start"
    BY DEF Init, ClientInit
  <2>2. ParallelOps \in Nat /\ 0 <= ParallelOps  BY AgentAssumption
  <2>3. QED  BY <2>1, <2>2, FS_EmptySet DEF SlotsInv
<1>2. IInv /\ SlotsInv /\ [Next]_vars => SlotsInv'
  BY SlotsKept
<1>3. IInv /\ SlotsInv => PoolHasRoom
  BY PoolHasOneFree DEF PoolHasRoom
<1>4. QED  BY InvariantHolds, <1>1, <1>2, <1>3, PTL DEF Spec
=============================================================================

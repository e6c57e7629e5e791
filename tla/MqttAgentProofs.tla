--------------------------- MODULE MqttAgentProofs --------------------------
(***************************************************************************)
(* Proofs about MqttAgent, for any number of tasks, broker connections,    *)
(* buffers and identifiers.                                                *)
(***************************************************************************)
EXTENDS MqttAgent, FiniteSetTheorems, WellFoundedInduction, TLAPS

(* The inductive invariant. *)
InQueue(t) == \E k \in DOMAIN xCommandQueue : xCommandQueue[k].task = t
HasSlot(t) == [task |-> t, id |-> id[t]] \in xWaitingTasks[at[t]]

\* A task is in a call with an identifier of its own, or idle.
CallsAreApart ==
    /\ \A t \in Tasks :
         IF pc[t] = "idle" THEN id[t] = 0 /\ op[t] = "none"
         ELSE id[t] \in Ids /\ op[t] \in Ops
    /\ \A t, u \in Tasks : id[t] = id[u] /\ id[t] # 0 => t = u

\* Queue, waiting tasks and notifications speak only of open calls.
OnlyOpenCalls ==
    /\ \A k \in DOMAIN xCommandQueue :
         pc[xCommandQueue[k].task] = "wait"
           /\ xCommandQueue[k] = Command(xCommandQueue[k].task)
    /\ \A k, l \in DOMAIN xCommandQueue :
         xCommandQueue[k].task = xCommandQueue[l].task => k = l
    /\ \A b \in Brokers : \A s \in xWaitingTasks[b] :
         pc[s.task] = "wait" /\ s.id = id[s.task] /\ at[s.task] = b
    /\ \A t \in Tasks : note[t].id # 0 => Answered(t)

\* A call that waits is in one of the three places.
OnePlace ==
    \A t \in Tasks :
      pc[t] = "wait" =>
        /\ InQueue(t) \/ HasSlot(t) \/ Answered(t)
        /\ ~(InQueue(t) /\ HasSlot(t))
        /\ ~(InQueue(t) /\ Answered(t))
        /\ ~(HasSlot(t) /\ Answered(t))

CallInv == CallsAreApart /\ OnlyOpenCalls /\ OnePlace

\* A packet is what the waiting task with its identifier has asked for.
PacketInv ==
    /\ WaitingTasksFitPackets
    /\ \A b \in Brokers : \A p \in tx[b] : \A s \in xWaitingTasks[b] :
         p.id = s.id => p.op = op[s.task]

\* Only the owner opens and closes a connection, and it does so in turn.
LinkInv ==
    /\ \A t \in Tasks :
         op[t] \in {"connect", "disconnect"} => owner[at[t]] = t
    /\ \A t \in Tasks : op[t] = "connect" => at[t] \notin live
    /\ \A t \in Tasks :
         op[t] = "disconnect" /\ Answered(t) /\ note[t].answer = "success"
           => xConnectionState[at[t]] = "not"
    /\ \A b \in Brokers :
         xConnectionState[b] # "not" =>
           \/ b \in live
           \/ \E t \in Tasks :
                /\ pc[t] = "wait" /\ op[t] = "connect" /\ at[t] = b
                /\ HasSlot(t) \/ (Answered(t) /\ note[t].answer = "success")
    /\ \A b \in Brokers : b \in xSocket <=> xConnectionState[b] # "not"

\* What the broker has granted is answered.
EarnedInv ==
    /\ \A t \in earned : Answered(t)
    /\ SuccessIsTheBrokersGrant

IInv == TypeOK /\ CallInv /\ BuffersConserved /\ PacketInv /\ LinkInv /\ EarnedInv
-----------------------------------------------------------------------------
(* The pool.                                                               *)

\* The search of the pool ends with a buffer that is free.
LEMMA FreeBufferIsFree ==
    ASSUME used \subseteq Buffers, used # Buffers
    PROVE  FreeBuffer \in Buffers \ used
<1> DEFINE Free == Buffers \ used
<1>1. Free # {} /\ Free \subseteq Nat
  <2>1. Free # {}  OBVIOUS
  <2>2. \A x \in Buffers : x \in Nat  BY ClientAssumption DEF Buffers
  <2>3. QED  BY <2>1, <2>2
<1>2. PICK x \in Free : \A y \in Free : ~(<<y, x>> \in OpToRel(<, Nat))
  BY <1>1, NatLessThanWellFounded, WFMin
<1>3. \A y \in Free : x <= y
  <2> SUFFICES ASSUME NEW y \in Free PROVE x <= y  OBVIOUS
  <2>1. x \in Nat /\ y \in Nat  BY <1>1
  <2>2. ~(y < x)  BY <1>2, <2>1 DEF OpToRel
  <2>3. QED  BY <2>1, <2>2
<1>4. QED  BY <1>3 DEF FreeBuffer

\* What the pool needs to know of the packets.
PoolTypes ==
    /\ tx \in [Brokers -> SUBSET Packet] /\ used \subseteq Buffers
    /\ xRxBuffer \in [Brokers -> 0..NumBuffers]
    /\ rxState \in [Brokers -> {"start", "store", "drop"}]
    /\ xConnectionState \in [Brokers -> {"not", "progress", "connected"}]

\* A step that changes what one broker connection holds, by buffers that were
\* its own or free, keeps the account of the pool.
LEMMA PoolStep ==
    ASSUME BuffersConserved, NEW b \in Brokers,
           \A c \in Brokers \ {b} :
               /\ tx'[c] = tx[c] /\ xRxBuffer'[c] = xRxBuffer[c]
               /\ rxState'[c] = rxState[c],
           used' = (used \ Held(b)) \cup Held(b)',
           \A x \in Held(b)' : x \in used => x \in Held(b),
           rxState'[b] = "store" <=> xRxBuffer'[b] # 0,
           {p.buf : p \in tx'[b]} \cap RxHeld(b)' = {},
           \A p, q \in tx'[b] : p.buf = q.buf => p = q
    PROVE  BuffersConserved'
<1>1. \A c \in Brokers \ {b} : Held(c)' = Held(c) /\ RxHeld(c)' = RxHeld(c)
  BY DEF Held, RxHeld
<1>2. \A c \in Brokers : Held(c) \subseteq used  BY DEF BuffersConserved
<1>3. \A c \in Brokers \ {b} : Held(c) \cap Held(b) = {}
  BY DEF BuffersConserved
<1>4. used' = UNION {Held(c)' : c \in Brokers}
  <2>1. ASSUME NEW x \in used' PROVE \E c \in Brokers : x \in Held(c)'
    <3>1. CASE x \in Held(b)'  BY <3>1
    <3>2. CASE x \in used /\ x \notin Held(b)
      <4>1. PICK c \in Brokers : x \in Held(c)  BY <3>2 DEF BuffersConserved
      <4>2. QED  BY <1>1, <3>2, <4>1
    <3>3. QED  BY <2>1, <3>1, <3>2
  <2>2. ASSUME NEW c \in Brokers, NEW x \in Held(c)' PROVE x \in used'
    <3>1. CASE c = b  BY <2>2, <3>1
    <3>2. CASE c # b  BY <1>1, <1>2, <1>3, <2>2, <3>2
    <3>3. QED  BY <3>1, <3>2
  <2>3. QED  BY <2>1, <2>2
<1>5. ASSUME NEW c \in Brokers, NEW d \in Brokers \ {c}
      PROVE  Held(c)' \cap Held(d)' = {}
  <2>1. CASE c = b   BY <1>1, <1>2, <1>3, <2>1
  <2>2. CASE d = b   BY <1>1, <1>2, <1>3, <2>2
  <2>3. CASE c # b /\ d # b  BY <1>1, <2>3 DEF BuffersConserved
  <2>4. QED  BY <2>1, <2>2, <2>3
<1>6. ASSUME NEW c \in Brokers
      PROVE  /\ rxState'[c] = "store" <=> xRxBuffer'[c] # 0
             /\ {p.buf : p \in tx'[c]} \cap RxHeld(c)' = {}
             /\ \A p, q \in tx'[c] : p.buf = q.buf => p = q
  <2>1. CASE c = b  BY <2>1
  <2>2. CASE c # b
    <3>1. tx'[c] = tx[c] /\ RxHeld(c)' = RxHeld(c)  BY <1>1, <2>2
    <3>2. QED  BY <2>2, <3>1 DEF BuffersConserved
  <2>3. QED  BY <2>1, <2>2
<1>7. QED  BY <1>4, <1>5, <1>6 DEF BuffersConserved

\* Giving up a connection returns its buffers.
LEMMA ResetKeepsPool ==
    ASSUME PoolTypes, BuffersConserved, NEW b \in Brokers, ResetMQTTContext(b)
    PROVE  PoolTypes' /\ BuffersConserved'
<1>1. tx'[b] = {} /\ xRxBuffer'[b] = 0 /\ rxState'[b] = "start"
  BY DEF ResetMQTTContext, PoolTypes
<1>2. Held(b)' = {} /\ RxHeld(b)' = {}  BY <1>1 DEF Held, RxHeld
<1>3. \A c \in Brokers \ {b} :
          /\ tx'[c] = tx[c] /\ xRxBuffer'[c] = xRxBuffer[c]
          /\ rxState'[c] = rxState[c]
  BY DEF ResetMQTTContext, PoolTypes
<1>4. used' = (used \ Held(b)) \cup Held(b)'
  BY <1>2 DEF ResetMQTTContext
<1>5. BuffersConserved'  BY <1>1, <1>2, <1>3, <1>4, PoolStep
<1>6. PoolTypes'
  BY ClientAssumption DEF ResetMQTTContext, PoolTypes
<1>7. QED  BY <1>5, <1>6

\* A packet is sent from a free buffer.
LEMMA SendKeepsPool ==
    ASSUME PoolTypes, BuffersConserved, NEW b \in Brokers, NEW i \in Ids,
           NEW o \in Acked \cup {"connect"}, SendKept(b, i, o)
    PROVE  PoolTypes' /\ BuffersConserved'
<1> DEFINE p == [id |-> i, op |-> o, buf |-> FreeBuffer]
<1>1. FreeBuffer \in Buffers \ used
  BY FreeBufferIsFree DEF SendKept, Takes, PoolTypes
<1>2. tx'[b] = tx[b] \cup {p} /\ p \in Packet
  BY <1>1 DEF SendKept, PoolTypes, Packet
<1>3. xRxBuffer' = xRxBuffer /\ rxState' = rxState
  BY DEF SendKept
<1>4. \A c \in Brokers \ {b} : tx'[c] = tx[c]  BY DEF SendKept, PoolTypes
<1>5. Held(b)' = Held(b) \cup {FreeBuffer} /\ RxHeld(b)' = RxHeld(b)
  BY <1>2, <1>3 DEF Held, RxHeld
<1>6. Held(b) \subseteq used  BY DEF BuffersConserved
<1>7. used' = (used \ Held(b)) \cup Held(b)'
  BY <1>5, <1>6 DEF SendKept
<1>8. {q.buf : q \in tx'[b]} \cap RxHeld(b)' = {}
  BY <1>1, <1>2, <1>5, <1>6 DEF BuffersConserved, Held
<1>9. \A q, r \in tx'[b] : q.buf = r.buf => q = r
  <2>1. \A q \in tx[b] : q.buf # FreeBuffer  BY <1>1, <1>6 DEF Held
  <2>2. QED  BY <1>2, <2>1 DEF BuffersConserved
<1>10. rxState'[b] = "store" <=> xRxBuffer'[b] # 0
  BY <1>3 DEF BuffersConserved
<1>11. BuffersConserved'
  BY <1>1, <1>3, <1>4, <1>5, <1>7, <1>8, <1>9, <1>10, PoolStep
<1>12. tx' \in [Brokers -> SUBSET Packet]
  BY <1>2 DEF SendKept, PoolTypes
<1>13. xConnectionState' \in [Brokers -> {"not", "progress", "connected"}]
  BY DEF SendKept, PoolTypes
<1>14. used' \subseteq Buffers  BY <1>1 DEF SendKept, PoolTypes
<1>15. PoolTypes'  BY <1>3, <1>12, <1>13, <1>14 DEF PoolTypes
<1>16. QED  BY <1>11, <1>15

\* Receiving takes a free buffer at most, and returns what it took.
LEMMA ReceiveKeepsPool ==
    ASSUME PoolTypes, BuffersConserved, NEW b \in Brokers,
           ReceiveHeader(b) \/ ReceiveDropped(b) \/ ReceivePingResp(b)
             \/ ReceiveIgnored(b)
    PROVE  PoolTypes' /\ BuffersConserved'
<1>0. Held(b) \subseteq used /\ RxHeld(b) \subseteq Held(b)
  BY DEF BuffersConserved, Held
<1>1. ASSUME rxState[b] = "start", used # Buffers,
             xRxBuffer' = [xRxBuffer EXCEPT ![b] = FreeBuffer],
             used' = used \cup {FreeBuffer},
             rxState' = [rxState EXCEPT ![b] = "store"],
             UNCHANGED <<xConnectionState, tx>>
      PROVE  PoolTypes' /\ BuffersConserved'
  <2>1. /\ xRxBuffer' = [xRxBuffer EXCEPT ![b] = FreeBuffer]
        /\ used' = used \cup {FreeBuffer}
        /\ rxState' = [rxState EXCEPT ![b] = "store"]
        /\ tx' = tx /\ xConnectionState' = xConnectionState
        /\ rxState[b] = "start"
    BY <1>1
  <2>2. FreeBuffer \in Buffers \ used  BY <1>1, FreeBufferIsFree DEF PoolTypes
  <2>3. FreeBuffer \in 1..NumBuffers /\ FreeBuffer # 0
    BY <2>2, ClientAssumption DEF Buffers
  <2>4. xRxBuffer[b] = 0  BY <2>1 DEF BuffersConserved
  <2>5. xRxBuffer'[b] = FreeBuffer /\ rxState'[b] = "store"
    BY <2>1 DEF PoolTypes
  <2>6. RxHeld(b)' = {FreeBuffer} /\ RxHeld(b) = {}
    BY <2>3, <2>4, <2>5 DEF RxHeld
  <2>7. Held(b)' = Held(b) \cup {FreeBuffer}  BY <2>1, <2>6 DEF Held
  <2>8. used' = (used \ Held(b)) \cup Held(b)'  BY <1>0, <2>1, <2>7
  <2>9. {p.buf : p \in tx'[b]} \cap RxHeld(b)' = {}
    BY <1>0, <2>1, <2>2, <2>6 DEF Held
  <2>10. \A p, q \in tx'[b] : p.buf = q.buf => p = q
    BY <2>1 DEF BuffersConserved
  <2>11. \A c \in Brokers \ {b} :
            /\ tx'[c] = tx[c] /\ xRxBuffer'[c] = xRxBuffer[c]
            /\ rxState'[c] = rxState[c]
    BY <2>1 DEF PoolTypes
  <2>12. BuffersConserved'
    BY <2>2, <2>3, <2>5, <2>7, <2>8, <2>9, <2>10, <2>11, PoolStep
  <2>13. PoolTypes'
    BY <2>1, <2>2, <2>3, ClientAssumption DEF PoolTypes, Buffers
  <2>14. QED  BY <2>12, <2>13
<1>2. CASE ReceiveIgnored(b)
  <2>1. /\ xRxBuffer' = [xRxBuffer EXCEPT ![b] = 0]
        /\ used' = used \ RxHeld(b)
        /\ rxState' = [rxState EXCEPT ![b] = "start"]
        /\ tx' = tx /\ xConnectionState' = xConnectionState
    BY <1>2 DEF ReceiveIgnored
  <2>2. xRxBuffer'[b] = 0 /\ rxState'[b] = "start"  BY <2>1 DEF PoolTypes
  <2>3. RxHeld(b)' = {}  BY <2>2 DEF RxHeld
  <2>4. Held(b)' = Held(b) \ RxHeld(b)
    BY <2>1, <2>3 DEF Held, BuffersConserved
  <2>5. used' = (used \ Held(b)) \cup Held(b)'  BY <1>0, <2>1, <2>4
  <2>6. \A p, q \in tx'[b] : p.buf = q.buf => p = q
    BY <2>1 DEF BuffersConserved
  <2>7. \A c \in Brokers \ {b} :
            /\ tx'[c] = tx[c] /\ xRxBuffer'[c] = xRxBuffer[c]
            /\ rxState'[c] = rxState[c]
    BY <2>1 DEF PoolTypes
  <2>8. BuffersConserved'
    BY <2>2, <2>3, <2>4, <2>5, <2>6, <2>7, PoolStep
  <2>9. PoolTypes'  BY <2>1, ClientAssumption DEF PoolTypes
  <2>10. QED  BY <2>8, <2>9
<1>3. ASSUME UNCHANGED <<tx, xRxBuffer, used, xConnectionState>>,
             rxState' \in [Brokers -> {"start", "store", "drop"}],
             \A c \in Brokers : rxState'[c] = "store" <=> rxState[c] = "store"
      PROVE  PoolTypes' /\ BuffersConserved'
  <2>1. \A c \in Brokers : Held(c)' = Held(c) /\ RxHeld(c)' = RxHeld(c)
    BY <1>3 DEF Held, RxHeld
  <2>2. BuffersConserved'  BY <1>3, <2>1 DEF BuffersConserved
  <2>3. QED  BY <1>3, <2>2 DEF PoolTypes
<1>4. CASE ReceiveHeader(b)
  <2>1. ASSUME rxState[b] = "start", rxState' = [rxState EXCEPT ![b] = "drop"],
               UNCHANGED <<xRxBuffer, used, xConnectionState, tx>>
        PROVE  PoolTypes' /\ BuffersConserved'
    BY <1>3, <2>1 DEF PoolTypes
  <2>2. QED  BY <1>1, <1>4, <2>1 DEF ReceiveHeader
<1>5. CASE ReceiveDropped(b)
  BY <1>3, <1>5 DEF ReceiveDropped, PoolTypes
<1>6. CASE ReceivePingResp(b)
  BY <1>3, <1>6 DEF ReceivePingResp, clientVars, PoolTypes
<1>7. QED  BY <1>2, <1>4, <1>5, <1>6

\* An answer returns the buffers of the answer and of what it answers.
LEMMA AnswerKeepsPool ==
    ASSUME PoolTypes, BuffersConserved, NEW b \in Brokers, NEW p \in tx[b],
           ReceiveAnswer(b, p)
    PROVE  PoolTypes' /\ BuffersConserved'
<1>1. /\ tx'[b] = tx[b] \ {p} /\ xRxBuffer'[b] = 0 /\ rxState'[b] = "start"
      /\ used' = used \ (RxHeld(b) \cup {p.buf})
  BY DEF ReceiveAnswer, PoolTypes
<1>2. RxHeld(b)' = {}  BY <1>1 DEF RxHeld
<1>3. Held(b)' = Held(b) \ (RxHeld(b) \cup {p.buf})
  <2>1. \A q \in tx[b] : q.buf \notin RxHeld(b) /\ (q.buf = p.buf => q = p)
    BY DEF BuffersConserved
  <2>2. QED  BY <1>1, <1>2, <2>1 DEF Held
<1>4. Held(b) \subseteq used /\ RxHeld(b) \cup {p.buf} \subseteq Held(b)
  BY DEF BuffersConserved, Held
<1>5. used' = (used \ Held(b)) \cup Held(b)'  BY <1>1, <1>3, <1>4
<1>6. \A q, r \in tx'[b] : q.buf = r.buf => q = r
  BY <1>1 DEF BuffersConserved
<1>7. \A c \in Brokers \ {b} :
          /\ tx'[c] = tx[c] /\ xRxBuffer'[c] = xRxBuffer[c]
          /\ rxState'[c] = rxState[c]
  BY DEF ReceiveAnswer, PoolTypes
<1>8. BuffersConserved'
  BY <1>1, <1>2, <1>3, <1>5, <1>6, <1>7, PoolStep
<1>9. PoolTypes'
  <2>1. xConnectionState' \in [Brokers -> {"not", "progress", "connected"}]
    BY DEF ReceiveAnswer, PoolTypes
  <2>2. tx' \in [Brokers -> SUBSET Packet]  BY DEF ReceiveAnswer, PoolTypes
  <2>3. QED  BY <2>1, <2>2, ClientAssumption DEF ReceiveAnswer, PoolTypes
<1>10. QED  BY <1>8, <1>9

\* Packets that expire return theirs.
LEMMA ExpiryKeepsPool ==
    ASSUME PoolTypes, BuffersConserved, NEW b \in Brokers,
           NEW expired \in SUBSET tx[b], ReturnExpired(b, expired)
    PROVE  PoolTypes' /\ BuffersConserved'
<1>1. /\ tx'[b] = tx[b] \ expired /\ xRxBuffer' = xRxBuffer
      /\ rxState' = rxState /\ used' = used \ {p.buf : p \in expired}
  BY DEF ReturnExpired, PoolTypes
<1>2. RxHeld(b)' = RxHeld(b)  BY <1>1 DEF RxHeld
<1>3. Held(b)' = Held(b) \ {p.buf : p \in expired}
  <2>1. \A q \in tx[b] : \A p \in expired : q.buf = p.buf => q = p
    BY DEF BuffersConserved
  <2>2. {p.buf : p \in expired} \cap RxHeld(b) = {}  BY DEF BuffersConserved
  <2>3. QED  BY <1>1, <1>2, <2>1, <2>2 DEF Held
<1>4. Held(b) \subseteq used /\ {p.buf : p \in expired} \subseteq Held(b)
  BY DEF BuffersConserved, Held
<1>5. used' = (used \ Held(b)) \cup Held(b)'  BY <1>1, <1>3, <1>4
<1>6. \A q, r \in tx'[b] : q.buf = r.buf => q = r
  BY <1>1 DEF BuffersConserved
<1>7. {q.buf : q \in tx'[b]} \cap RxHeld(b)' = {}
  BY <1>1, <1>2 DEF BuffersConserved
<1>8. \A c \in Brokers \ {b} : tx'[c] = tx[c]  BY DEF ReturnExpired, PoolTypes
<1>9. rxState'[b] = "store" <=> xRxBuffer'[b] # 0
  BY <1>1 DEF BuffersConserved
<1>10. BuffersConserved'
  BY <1>1, <1>3, <1>5, <1>6, <1>7, <1>8, <1>9, PoolStep
<1>11. PoolTypes'  BY DEF ReturnExpired, PoolTypes
<1>12. QED  BY <1>10, <1>11

-----------------------------------------------------------------------------
(* The types of calls and agent.                                           *)
Notes == [id : 0..MaxId, answer : {"success", "failure", "timeout"},
          pending : BOOLEAN]
Entries == [task : Tasks, id : Ids, op : Ops, b : Brokers]

AgentTypes ==
    /\ xWaitingTasks \in [Brokers -> SUBSET Slot]
    /\ note \in [Tasks -> Notes]
    /\ xCommandQueue \in Seq(Entries)
    /\ agent \in [step : {"command", "receive", "parse", "periodic"}, b : Brokers,
                  left : 0..MaxPieces]
    /\ xSocket \subseteq Brokers
    /\ earned \subseteq Tasks

CallTypes ==
    /\ owner \in [Brokers -> Tasks \cup {None}] /\ live \subseteq Brokers
    /\ nextId \in Ids
    /\ pc \in [Tasks -> {"idle", "clear", "send", "wait"}]
    /\ op \in [Tasks -> Ops \cup {"none"}] /\ at \in [Tasks -> Brokers]
    /\ id \in [Tasks -> 0..MaxId]
    /\ due \subseteq Sensing /\ misled \in BOOLEAN

LEMMA TypeParts == TypeOK <=> PoolTypes /\ AgentTypes /\ CallTypes
BY DEF TypeOK, PoolTypes, AgentTypes, CallTypes, Notes, Entries

LEMMA TypePartsNext == TypeOK' <=> PoolTypes' /\ AgentTypes' /\ CallTypes'
BY DEF TypeOK, PoolTypes, AgentTypes, CallTypes, Notes, Entries

\* What never changes its meaning.
LEMMA Constant ==
    /\ 1 \in Brokers /\ 1 \in Ids /\ 0 \in 0..MaxId /\ 0 \notin Ids
    /\ Ids \subseteq 0..MaxId /\ 0 \in 0..MaxPieces /\ 0 \in 0..NumBuffers
    /\ \A i \in Ids : (i % MaxId) + 1 \in Ids
    /\ NoNote \in Notes
<1>1. MaxId \in Nat \ {0} /\ NumBrokers \in Nat \ {0} /\ NumBuffers \in Nat \ {0}
  BY ClientAssumption
<1>2. MaxPieces \in Nat \ {0}  BY AgentAssumption
<1>3. 1 \in Brokers /\ 1 \in Ids /\ 0 \in 0..MaxId /\ 0 \notin Ids
  BY <1>1 DEF Brokers, Ids
<1>4. Ids \subseteq 0..MaxId  BY <1>1 DEF Ids
<1>5. 0 \in 0..MaxPieces /\ 0 \in 0..NumBuffers  BY <1>1, <1>2
<1>6. \A i \in Ids : (i % MaxId) + 1 \in Ids
  <2> SUFFICES ASSUME NEW i \in Ids PROVE (i % MaxId) + 1 \in Ids  OBVIOUS
  <2>1. i \in Nat  BY <1>1 DEF Ids
  <2>2. i % MaxId \in 0..(MaxId - 1)  BY <1>1, <2>1
  <2>3. QED  BY <1>1, <2>2 DEF Ids
<1>7. NoNote \in Notes  BY <1>3 DEF NoNote, Notes
<1>8. QED  BY <1>3, <1>4, <1>5, <1>6, <1>7

\* The steps of the callers keep the types.
LEMMA CallersKeepTypes ==
    ASSUME TypeOK, CallsAreApart, NEW t \in Tasks,
           \/ Create(t) \/ Delete(t) \/ CallStep(t) \/ LateTransfer(t)
           \/ \E o \in Ops, b \in Brokers : Begin(t, o, b)
    PROVE  TypeOK'
<1>0. PoolTypes /\ AgentTypes /\ CallTypes  BY TypeParts
<1>1. PoolTypes'
  <2>1. UNCHANGED clientVars
    BY DEF Create, Delete, CallStep, ClearState, Enqueue, QueueTimeout, Take,
           LateTransfer, Begin
  <2>2. QED  BY <1>0, <2>1 DEF clientVars, PoolTypes
<1> USE <1>0
<1>2. CASE Create(t)
  <2>1. AgentTypes'  BY <1>2 DEF Create, AgentTypes
  <2>2. CallTypes'   BY <1>2 DEF Create, CallTypes
  <2>3. QED  BY <1>1, <2>1, <2>2, TypePartsNext
<1>3. CASE Delete(t)
  <2>1. AgentTypes'  BY <1>3 DEF Delete, AgentTypes
  <2>2. CallTypes'   BY <1>3 DEF Delete, CallTypes
  <2>3. QED  BY <1>1, <2>1, <2>2, TypePartsNext
<1>4. ASSUME NEW o \in Ops, NEW b \in Brokers, Begin(t, o, b) PROVE TypeOK'
  <2>1. AgentTypes'  BY <1>4 DEF Begin, AgentTypes
  <2>2. nextId' \in Ids  BY <1>4, Constant DEF Begin, CallTypes
  <2>3. id' \in [Tasks -> 0..MaxId]  BY <1>4, Constant DEF Begin, CallTypes
  <2>4. due' \subseteq Sensing  BY <1>4 DEF Begin, CallTypes
  <2>5. CallTypes'   BY <1>4, <2>2, <2>3, <2>4 DEF Begin, CallTypes, GoTo
  <2>6. QED  BY <1>1, <2>1, <2>5, TypePartsNext
<1>5. CASE ClearState(t)
  <2>1. note' \in [Tasks -> Notes]  BY <1>5 DEF ClearState, AgentTypes, Notes
  <2>2. AgentTypes'  BY <1>5, <2>1 DEF ClearState, AgentTypes
  <2>3. CallTypes'   BY <1>5 DEF ClearState, CallTypes, GoTo
  <2>4. QED  BY <1>1, <2>2, <2>3, TypePartsNext
<1>6. CASE Enqueue(t)
  <2>1. Command(t) \in Entries
    BY <1>6 DEF Enqueue, At, CallsAreApart, Command, Entries, CallTypes
  <2>2. xCommandQueue' \in Seq(Entries)  BY <1>6, <2>1 DEF Enqueue, AgentTypes
  <2>3. AgentTypes'  BY <1>6, <2>2 DEF Enqueue, AgentTypes
  <2>4. CallTypes'   BY <1>6 DEF Enqueue, CallTypes, GoTo
  <2>5. QED  BY <1>1, <2>3, <2>4, TypePartsNext
<1>7. CASE QueueTimeout(t)
  <2>1. AgentTypes'  BY <1>7 DEF QueueTimeout, Finish, AgentTypes
  <2>2. CallTypes'
    BY <1>7, Constant DEF QueueTimeout, Finish, CallTypes, GoTo
  <2>3. QED  BY <1>1, <2>1, <2>2, TypePartsNext
<1>8. CASE Take(t)
  <2>1. note' \in [Tasks -> Notes]
    <3>1. CASE note[t].id = id[t]
      <4>1. note' = [note EXCEPT ![t] = NoNote]  BY <1>8, <3>1 DEF Take
      <4>2. QED  BY <4>1, Constant DEF AgentTypes
    <3>2. CASE note[t].id # id[t]
      <4>1. note' = [note EXCEPT ![t].pending = FALSE]  BY <1>8, <3>2 DEF Take
      <4>2. QED  BY <4>1 DEF AgentTypes, Notes
    <3>3. QED  BY <3>1, <3>2
  <2>2. AgentTypes'  BY <1>8, <2>1 DEF Take, Finish, AgentTypes
  <2>3. live' \subseteq Brokers  BY <1>8 DEF Take, CallTypes
  <2>4. id' \in [Tasks -> 0..MaxId] /\ op' \in [Tasks -> Ops \cup {"none"}]
        /\ pc' \in [Tasks -> {"idle", "clear", "send", "wait"}]
    BY <1>8, Constant DEF Take, Finish, CallTypes, GoTo
  <2>5. CallTypes'   BY <1>8, <2>3, <2>4 DEF Take, CallTypes
  <2>6. QED  BY <1>1, <2>2, <2>5, TypePartsNext
<1>9. CASE LateTransfer(t)
  <2>1. note' \in [Tasks -> Notes]
    <3>1. note' = note \/ note' = [note EXCEPT ![t].pending = TRUE]
      BY <1>9, Zenon DEF LateTransfer
    <3> DEFINE r == [note[t] EXCEPT !.pending = TRUE]
    <3>2. note[t] \in Notes  BY DEF AgentTypes
    <3>3. r \in Notes  BY <3>2 DEF Notes
    <3>4. note' = note \/ note' = [note EXCEPT ![t] = r]  BY <3>1, Zenon
    <3> HIDE DEF r
    <3>5. QED  BY <3>3, <3>4 DEF AgentTypes
  <2>2. AgentTypes'  BY <1>9, <2>1 DEF LateTransfer, AgentTypes
  <2>3. misled' \in BOOLEAN  BY <1>9, Zenon DEF LateTransfer, CallTypes
  <2>4. CallTypes'   BY <1>9, <2>3 DEF LateTransfer, CallTypes
  <2>5. QED  BY <1>1, <2>2, <2>4, TypePartsNext
<1>10. QED
  BY <1>2, <1>3, <1>4, <1>5, <1>6, <1>7, <1>8, <1>9 DEF CallStep

-----------------------------------------------------------------------------
(* The agent's steps, by what they do to the calls.                        *)
Quiet == \A t \in Tasks : ~Ready(t)

\* Of the client only the packet being received changes; what the broker grants
\* is an answer to no packet.
Looking ==
    /\ \/ UNCHANGED clientVars
       \/ \E b \in Brokers :
             \/ ReceiveHeader(b) \/ ReceiveDropped(b) \/ ReceivePingResp(b)
             \/ ReceiveIgnored(b)
    /\ \/ earned' = earned
       \/ \E b \in Brokers, o \in Acked \cup {"connect"}, i \in Ids :
             /\ \A p \in tx[b] : ~Matches(p, o, i)
             /\ earned' = earned \cup Grants(b, o, i)
    /\ UNCHANGED <<note, xCommandQueue, xSocket, xWaitingTasks>>

\* A command is answered and nothing is sent that is answered.
Refusing ==
    /\ xCommandQueue # <<>> /\ Served
    /\ LET e == Head(xCommandQueue)
       IN  \E a \in {"success", "failure", "timeout"} :
             /\ a = "success" => e.op = "publish0"
             /\ Notify({Answer(e, a)})
    /\ UNCHANGED <<clientVars, xSocket, xWaitingTasks, earned>>

\* A command is sent and its task waits.
Sending ==
    /\ xCommandQueue # <<>> /\ Served
    /\ LET e == Head(xCommandQueue)
       IN  /\ e.op \in Acked \cup {"connect"}
           /\ Store(e) /\ SendKept(e.b, e.id, e.op)
           /\ xSocket' = IF e.op = "connect" THEN xSocket \cup {e.b} ELSE xSocket
    /\ UNCHANGED <<note, earned>>

\* A connection ends, because a command asks for it or because it is lost.
Closing(b, A) ==
    /\ \/ A = {} /\ UNCHANGED xCommandQueue
       \/ /\ xCommandQueue # <<>> /\ Served
          /\ Head(xCommandQueue).op = "disconnect" /\ Head(xCommandQueue).b = b
          /\ \E a \in {"success", "failure"} : A = {Answer(Head(xCommandQueue), a)}
    /\ Lose(b, A)
    /\ UNCHANGED earned

\* A packet is answered.
Answering(b, o, i, p, granted) ==
    /\ Matches(p, o, i) /\ (o # "subscribe" => granted)
    /\ ReceiveAnswer(b, p)
    /\ Notify(Answers(Waiting(b, p.id), IF granted THEN "success" ELSE "failure"))
    /\ xWaitingTasks' = [xWaitingTasks EXCEPT ![b] = @ \ Waiting(b, p.id)]
    /\ earned' = IF granted THEN earned \cup Grants(b, o, i) ELSE earned
    /\ UNCHANGED <<xCommandQueue, xSocket>>

\* Packets, but no CONNECT, expire.
Expiring(b, expired) ==
    /\ \A p \in expired : p.op # "connect"
    /\ ReturnExpired(b, expired)
    /\ Notify(Answers(UNION {Waiting(b, p.id) : p \in expired}, "timeout"))
    /\ xWaitingTasks' = [xWaitingTasks EXCEPT
                            ![b] = @ \ UNION {Waiting(b, p.id) : p \in expired}]
    /\ UNCHANGED <<xCommandQueue, xSocket, earned>>

\* Without a connection there is nothing to close.
LEMMA NothingToClose ==
    ASSUME TypeOK, PacketInv, LinkInv, NEW b \in Brokers, NEW A, Hangup(b, A)
    PROVE  Lose(b, A)
<1>1. CASE xConnectionState[b] # "not"  BY <1>1 DEF Hangup
<1>2. CASE xConnectionState[b] = "not"
  <2>1. /\ ResetMQTTContext(b) /\ Notify(A)
        /\ xSocket' = xSocket /\ xWaitingTasks' = xWaitingTasks
    BY <1>2 DEF Hangup
  <2>2. tx[b] = {}
    BY <1>2, Zenon DEF PacketInv, WaitingTasksFitPackets, PacketsFit
  <2>3. {p.id : p \in tx[b]} = {s.id : s \in xWaitingTasks[b]}
    BY Zenon DEF PacketInv, WaitingTasksFitPackets, PacketsFit
  <2>4. xWaitingTasks[b] = {}  BY <2>2, <2>3
  <2>5. b \notin xSocket  BY <1>2 DEF LinkInv
  <2>6. xWaitingTasks' = [xWaitingTasks EXCEPT ![b] = {}]
    BY <2>1, <2>4 DEF TypeOK
  <2>7. Answers(xWaitingTasks[b], "failure") \cup A = A  BY <2>4 DEF Answers
  <2>8. QED  BY <2>1, <2>5, <2>6, <2>7 DEF Lose, Disconnected
<1>3. QED  BY <1>1, <1>2

\* Every step of the agent has one of these shapes.
LEMMA AgentShapes ==
    ASSUME TypeOK, PacketInv, LinkInv, AgentStep
    PROVE  /\ Quiet /\ UNCHANGED callVars /\ misled' = misled
           /\ \/ Looking \/ Refusing \/ Sending
              \/ \E b \in Brokers, A \in SUBSET [task : Tasks, id : Ids,
                       answer : {"success", "failure"}] : Closing(b, A)
              \/ \E b \in Brokers, o \in Acked \cup {"connect"}, i \in Ids,
                    granted \in BOOLEAN : \E p \in tx[b] :
                       Answering(b, o, i, p, granted)
              \/ \E b \in Brokers : \E expired \in SUBSET tx[b] :
                    Expiring(b, expired)
<1> DEFINE Shape ==
        /\ Quiet /\ UNCHANGED callVars /\ misled' = misled
        /\ \/ Looking \/ Refusing \/ Sending
           \/ \E b \in Brokers, A \in SUBSET [task : Tasks, id : Ids,
                    answer : {"success", "failure"}] : Closing(b, A)
           \/ \E b \in Brokers, o \in Acked \cup {"connect"}, i \in Ids,
                 granted \in BOOLEAN : \E p \in tx[b] :
                    Answering(b, o, i, p, granted)
           \/ \E b \in Brokers : \E expired \in SUBSET tx[b] :
                 Expiring(b, expired)
<1> SUFFICES Shape  BY Zenon DEF Shape
<1> HIDE DEF Shape
<1>1. CASE NoCommand
  BY <1>1 DEF NoCommand, AgentAt, Quiet, Looking, Shape
<1>2. ASSUME NEW o \in SUBSET Ops, Takeover(o)
      PROVE  /\ Quiet /\ UNCHANGED callVars /\ misled' = misled
             /\ xCommandQueue # <<>> /\ Served /\ Head(xCommandQueue).op \in o
             /\ Head(xCommandQueue) \in Entries
  <2>1. xCommandQueue # <<>> /\ Head(xCommandQueue).op \in o
        /\ Served /\ UNCHANGED callVars /\ misled' = misled /\ Quiet
    BY <1>2 DEF Takeover, AgentAt, Quiet
  <2>2. xCommandQueue \in Seq(Entries)  BY DEF TypeOK, Entries
  <2>3. QED  BY <2>1, <2>2
<1>3. CASE Expired
  <2>1. Takeover(Ops) /\ Notify({Answer(Head(xCommandQueue), "timeout")})
        /\ UNCHANGED <<clientVars, xSocket, xWaitingTasks, earned>>
    BY <1>3 DEF Expired
  <2>2. QED  BY <1>2, <2>1 DEF Refusing, Shape
<1>4. CASE Fail
  <2>1. Takeover(Ops \ {"disconnect"})
        /\ Notify({Answer(Head(xCommandQueue), "failure")})
        /\ UNCHANGED <<clientVars, xSocket, xWaitingTasks, earned>>
    BY <1>4 DEF Fail
  <2>2. QED  BY <1>2, <2>1 DEF Refusing, Shape
<1>5. CASE InitiateConnect
  <2>1. Takeover({"connect"})
        /\ Store(Head(xCommandQueue))
        /\ SendKept(Head(xCommandQueue).b, Head(xCommandQueue).id, Head(xCommandQueue).op)
        /\ xSocket' = xSocket \cup {Head(xCommandQueue).b}
        /\ UNCHANGED <<note, earned>>
    BY <1>5 DEF InitiateConnect
  <2>2. {"connect"} \in SUBSET Ops  BY DEF Ops
  <2>3. Sending  BY <1>2, <2>1, <2>2 DEF Sending
  <2>4. QED  BY <1>2, <2>1, <2>2, <2>3 DEF Shape
<1>6. CASE InitiateAcked
  <2>1. Takeover(Acked)
        /\ Store(Head(xCommandQueue))
        /\ SendKept(Head(xCommandQueue).b, Head(xCommandQueue).id, Head(xCommandQueue).op)
        /\ UNCHANGED <<note, xSocket, earned>>
    BY <1>6 DEF InitiateAcked
  <2>2. Acked \in SUBSET Ops /\ "connect" \notin Acked  BY DEF Ops, Acked
  <2>3. Sending  BY <1>2, <2>1, <2>2 DEF Sending
  <2>4. QED  BY <1>2, <2>1, <2>2, <2>3 DEF Shape
<1>7. CASE InitiatePublish0
  <2>1. Takeover({"publish0"}) /\ Notify({Answer(Head(xCommandQueue), "success")})
        /\ UNCHANGED <<clientVars, xSocket, xWaitingTasks, earned>>
    BY <1>7 DEF InitiatePublish0
  <2>2. {"publish0"} \in SUBSET Ops  BY DEF Ops
  <2>3. Refusing  BY <1>2, <2>1, <2>2 DEF Refusing
  <2>4. QED  BY <1>2, <2>1, <2>2, <2>3 DEF Shape
<1>8. CASE InitiateDisconnect
  <2>1. Takeover({"disconnect"}) /\ UNCHANGED earned  BY <1>8 DEF InitiateDisconnect
  <2>2. PICK a \in {"success", "failure"} :
          Hangup(Head(xCommandQueue).b, {Answer(Head(xCommandQueue), a)})
    BY <1>8 DEF InitiateDisconnect
  <2>3. {"disconnect"} \in SUBSET Ops  BY DEF Ops
  <2> DEFINE b == Head(xCommandQueue).b
             A == {Answer(Head(xCommandQueue), a)}
  <2>4. Head(xCommandQueue) \in Entries  BY <1>2, <2>1, <2>3
  <2>5. b \in Brokers /\ A \in SUBSET [task : Tasks, id : Ids,
                                        answer : {"success", "failure"}]
    BY <2>4 DEF Entries, Answer
  <2>6. Lose(b, A)  BY <2>2, <2>5, NothingToClose
  <2>7. Closing(b, A)  BY <1>2, <2>1, <2>3, <2>6 DEF Closing
  <2>8. QED  BY <1>2, <2>1, <2>3, <2>5, <2>7 DEF Shape
<1>9. ASSUME NEW b \in Brokers,
             \/ ReceiveNothing(b) \/ ReceiveData(b) \/ ParsePart(b) \/ ParsePublish(b)
      PROVE  Shape
  <2>1. Quiet /\ UNCHANGED callVars /\ misled' = misled
    BY <1>9 DEF ReceiveNothing, ReceiveData, ParsePart, ParsePublish, Parsing,
                AgentAt, Quiet
  <2>2. Looking
    BY <1>9 DEF ReceiveNothing, ReceiveData, ParsePart, ParsePublish, Parsing,
                Looking
  <2>3. QED  BY <2>1, <2>2 DEF Shape
<1>10. ASSUME NEW b \in Brokers, ReceiveError(b) \/ ParseBad(b)
       PROVE  Shape
  <2>1. Quiet /\ UNCHANGED callVars /\ misled' = misled
        /\ UNCHANGED <<xCommandQueue, earned>>
    BY <1>10 DEF ReceiveError, ParseBad, Parsing, AgentAt, Quiet
  <2>2. Lose(b, {})  BY <1>10, NothingToClose DEF ReceiveError, ParseBad
  <2>3. Closing(b, {})  BY <2>1, <2>2 DEF Closing
  <2>4. QED  BY <2>1, <2>3 DEF Shape
<1>11. ASSUME NEW b \in Brokers, NEW o \in Acked \cup {"connect"}, NEW i \in Ids,
              NEW granted \in BOOLEAN, ParseAck(b, o, i, granted)
       PROVE  Shape
  <2>1. Quiet /\ UNCHANGED callVars /\ misled' = misled
        /\ UNCHANGED <<xCommandQueue, xSocket>>
        /\ (o # "subscribe" => granted)
        /\ earned' = IF granted THEN earned \cup Grants(b, o, i) ELSE earned
    BY <1>11 DEF ParseAck, Parsing, AgentAt, Quiet
  <2>2. CASE \E p \in tx[b] : Matches(p, o, i)
    <3> DEFINE p == CHOOSE q \in tx[b] : Matches(q, o, i)
    <3>1. p \in tx[b] /\ Matches(p, o, i)  BY <2>2
    <3>2. /\ ReceiveAnswer(b, p)
          /\ Notify(Answers(Waiting(b, p.id), IF granted THEN "success" ELSE "failure"))
          /\ xWaitingTasks' = [xWaitingTasks EXCEPT ![b] = @ \ Waiting(b, p.id)]
      BY <1>11, <2>2 DEF ParseAck
    <3> HIDE DEF p
    <3>3. Answering(b, o, i, p, granted)  BY <2>1, <3>1, <3>2 DEF Answering
    <3>4. QED  BY <2>1, <3>1, <3>3 DEF Shape
  <2>3. CASE ~\E p \in tx[b] : Matches(p, o, i)
    <3>1. ReceiveIgnored(b) /\ UNCHANGED <<note, xWaitingTasks>>
      BY <1>11, <2>3 DEF ParseAck
    <3>2. Looking  BY <2>1, <2>3, <3>1 DEF Looking
    <3>3. QED  BY <2>1, <3>2 DEF Shape
  <2>4. QED  BY <2>2, <2>3
<1>12. ASSUME NEW b \in Brokers, NEW expired \in SUBSET tx[b], Periodic(b, expired)
       PROVE  Shape
  <2>1. Quiet /\ UNCHANGED callVars /\ misled' = misled
        /\ UNCHANGED <<xCommandQueue, earned>>
    BY <1>12 DEF Periodic, AgentAt, Quiet
  <2>2. CASE \E p \in expired : p.op = "connect"
    <3>1. Lose(b, {})  BY <1>12, <2>2 DEF Periodic
    <3>2. Closing(b, {})  BY <2>1, <3>1 DEF Closing
    <3>3. QED  BY <2>1, <3>2 DEF Shape
  <2>3. CASE ~\E p \in expired : p.op = "connect"
    <3>1. Expiring(b, expired)  BY <1>12, <2>1, <2>3 DEF Periodic, Expiring
    <3>2. QED  BY <2>1, <3>1 DEF Shape
  <2>4. QED  BY <2>2, <2>3
<1>13. CASE Handle
  BY <1>3, <1>4, <1>5, <1>6, <1>7, <1>8, <1>13 DEF Handle
<1>14. CASE ~NoCommand /\ ~Handle
  <2>1. PICK b \in Brokers :
          \/ ReceiveNothing(b) \/ ReceiveError(b) \/ ReceiveData(b)
          \/ ParsePart(b) \/ ParseBad(b) \/ ParsePublish(b)
          \/ \E o \in Acked \cup {"connect"}, i \in Ids, granted \in BOOLEAN :
               ParseAck(b, o, i, granted)
          \/ \E expired \in SUBSET tx[b] : Periodic(b, expired)
    BY <1>14, Zenon DEF AgentStep
  <2>2. CASE \/ ReceiveNothing(b) \/ ReceiveData(b) \/ ParsePart(b)
             \/ ParsePublish(b)
    BY <1>9, <2>2
  <2>3. CASE ReceiveError(b) \/ ParseBad(b)  BY <1>10, <2>3
  <2>4. CASE \E o \in Acked \cup {"connect"}, i \in Ids, granted \in BOOLEAN :
                ParseAck(b, o, i, granted)
    <3>1. PICK o \in Acked \cup {"connect"}, i \in Ids, granted \in BOOLEAN :
                ParseAck(b, o, i, granted)
      BY <2>4
    <3>2. QED  BY <1>11, <3>1
  <2>5. CASE \E expired \in SUBSET tx[b] : Periodic(b, expired)
    BY <1>12, <2>5
  <2>6. QED  BY <2>1, <2>2, <2>3, <2>4, <2>5
<1>15. QED  BY <1>1, <1>13, <1>14, Zenon

\* The place in the loop keeps its type.
LEMMA LoopTypes ==
    ASSUME TypeOK, AgentStep
    PROVE  agent' \in [step : {"command", "receive", "parse", "periodic"},
                       b : Brokers, left : 0..MaxPieces]
<1> DEFINE Places == [step : {"command", "receive", "parse", "periodic"},
                      b : Brokers, left : 0..MaxPieces]
<1>0. NumBrokers \in Nat \ {0} /\ MaxPieces \in Nat \ {0} /\ agent \in Places
  BY ClientAssumption, AgentAssumption DEF TypeOK
<1>1. \A step \in {"command", "receive", "parse", "periodic"}, b \in Brokers :
          AgentGoTo(step, b) => agent' \in Places
  BY <1>0 DEF AgentGoTo
<1>2. CASE NoCommand \/ Handle
  <2>1. AgentGoTo("receive", 1)
    BY <1>2 DEF NoCommand, Handle, Expired, Fail, InitiateConnect, InitiateAcked,
                InitiatePublish0, InitiateDisconnect, Takeover
  <2>2. QED  BY <1>1, <2>1, Constant
<1>3. ASSUME NEW b \in Brokers, ReceiveNothing(b) \/ ReceiveError(b)
      PROVE  agent' \in Places
  BY <1>1, <1>3 DEF ReceiveNothing, ReceiveError
<1>4. ASSUME NEW b \in Brokers, ReceiveData(b) PROVE agent' \in Places
  <2>1. PICK n \in 1..MaxPieces : agent' = [step |-> "parse", b |-> b, left |-> n]
    BY <1>4 DEF ReceiveData
  <2>2. n \in 0..MaxPieces  BY <1>0
  <2>3. QED  BY <2>1, <2>2
<1>5. ASSUME NEW b \in Brokers, Parsing(b) PROVE agent' \in Places
  <2>1. CASE agent.left > 1 /\ xConnectionState'[b] # "not"
    <3>1. agent' = [agent EXCEPT !.left = @ - 1]  BY <1>5, <2>1 DEF Parsing
    <3>2. agent.left - 1 \in 0..MaxPieces  BY <1>0, <2>1
    <3>3. QED  BY <1>0, <3>1, <3>2
  <2>2. CASE ~(agent.left > 1 /\ xConnectionState'[b] # "not")
    BY <1>1, <1>5, <2>2 DEF Parsing
  <2>3. QED  BY <2>1, <2>2
<1>6. ASSUME NEW b \in Brokers, ParsePart(b) \/ ParseBad(b) \/ ParsePublish(b)
      PROVE  agent' \in Places
  BY <1>5, <1>6 DEF ParsePart, ParseBad, ParsePublish
<1>7. ASSUME NEW b \in Brokers, NEW o \in Acked \cup {"connect"}, NEW i \in Ids,
             NEW granted \in BOOLEAN, ParseAck(b, o, i, granted)
      PROVE  agent' \in Places
  BY <1>5, <1>7 DEF ParseAck
<1>8. ASSUME NEW b \in Brokers, NEW expired \in SUBSET tx[b], Periodic(b, expired)
      PROVE  agent' \in Places
  <2>1. NextBroker(b)  BY <1>8 DEF Periodic
  <2>2. CASE b = NumBrokers  BY <1>1, <2>1, <2>2, Constant DEF NextBroker
  <2>3. CASE b # NumBrokers
    <3>1. b + 1 \in Brokers  BY <1>0, <2>3 DEF Brokers
    <3>2. QED  BY <1>1, <2>1, <2>3, <3>1 DEF NextBroker
  <2>4. QED  BY <2>2, <2>3
<1>9. CASE ~NoCommand /\ ~Handle
  <2>1. PICK b \in Brokers :
          \/ ReceiveNothing(b) \/ ReceiveError(b) \/ ReceiveData(b)
          \/ ParsePart(b) \/ ParseBad(b) \/ ParsePublish(b)
          \/ \E o \in Acked \cup {"connect"}, i \in Ids, granted \in BOOLEAN :
               ParseAck(b, o, i, granted)
          \/ \E expired \in SUBSET tx[b] : Periodic(b, expired)
    BY <1>9, Zenon DEF AgentStep
  <2> HIDE DEF Places
  <2>2. CASE \E o \in Acked \cup {"connect"}, i \in Ids, granted \in BOOLEAN :
                ParseAck(b, o, i, granted)
    <3>1. PICK o \in Acked \cup {"connect"}, i \in Ids, granted \in BOOLEAN :
                ParseAck(b, o, i, granted)
      BY <2>2
    <3>2. QED  BY <1>7, <3>1 DEF Places
  <2>3. CASE \E expired \in SUBSET tx[b] : Periodic(b, expired)
    BY <1>8, <2>3 DEF Places
  <2>4. QED  BY <1>3, <1>4, <1>6, <2>1, <2>2, <2>3 DEF Places
<1>10. QED  BY <1>2, <1>9

\* Answers keep the types of the notifications.
LEMMA NotifyTypes ==
    ASSUME note \in [Tasks -> Notes], NEW A, Notify(A),
           A \subseteq [task : Tasks, id : Ids,
                        answer : {"success", "failure", "timeout"}]
    PROVE  note' \in [Tasks -> Notes]
<1> SUFFICES ASSUME NEW t \in Tasks PROVE note'[t] \in Notes
  BY DEF Notify
<1>1. CASE ~note[t].pending /\ \E x \in A : x.task = t
  <2> DEFINE x == CHOOSE y \in A : y.task = t
  <2>1. x \in A  BY <1>1
  <2>2. note'[t] = [id |-> x.id, answer |-> x.answer, pending |-> TRUE]
    BY <1>1 DEF Notify
  <2> HIDE DEF x
  <2>3. x.id \in 0..MaxId /\ x.answer \in {"success", "failure", "timeout"}
    BY <2>1, Constant
  <2>4. QED  BY <2>2, <2>3 DEF Notes
<1>2. CASE ~(~note[t].pending /\ \E x \in A : x.task = t)
  BY <1>2 DEF Notify
<1>3. QED  BY <1>1, <1>2

LEMMA AnswersTypes ==
    ASSUME NEW S \in SUBSET Slot, NEW a \in {"success", "failure", "timeout"}
    PROVE  Answers(S, a) \subseteq [task : Tasks, id : Ids,
                                    answer : {"success", "failure", "timeout"}]
BY DEF Answers, Answer, Slot

LEMMA ServedTypes ==
    ASSUME xCommandQueue \in Seq(Entries), xCommandQueue # <<>>
    PROVE  Head(xCommandQueue) \in Entries /\ (Served => xCommandQueue' \in Seq(Entries))
BY DEF Served

LEMMA PoolUntouched ==
    ASSUME PoolTypes, BuffersConserved, UNCHANGED clientVars
    PROVE  PoolTypes' /\ BuffersConserved'
<1>1. \A b \in Brokers : Held(b)' = Held(b) /\ RxHeld(b)' = RxHeld(b)
  BY DEF clientVars, Held, RxHeld
<1>2. QED  BY <1>1 DEF clientVars, PoolTypes, BuffersConserved

\* The steps of the agent keep the types, and the account of the pool.
LEMMA AgentKeepsTypes ==
    ASSUME TypeOK, BuffersConserved, PacketInv, LinkInv, AgentStep
    PROVE  TypeOK' /\ BuffersConserved'
<1>0. PoolTypes /\ AgentTypes /\ CallTypes  BY TypeParts
<1>1. CallTypes'
  <2>1. UNCHANGED callVars /\ misled' = misled  BY AgentShapes
  <2>2. QED  BY <1>0, <2>1 DEF callVars, CallTypes
<1>2. agent' \in [step : {"command", "receive", "parse", "periodic"},
                  b : Brokers, left : 0..MaxPieces]
  BY LoopTypes
<1> DEFINE Rest == /\ xWaitingTasks' \in [Brokers -> SUBSET Slot]
                   /\ note' \in [Tasks -> Notes]
                   /\ xCommandQueue' \in Seq(Entries)
                   /\ xSocket' \subseteq Brokers /\ earned' \subseteq Tasks
<1>3. SUFFICES PoolTypes' /\ BuffersConserved' /\ Rest
  BY <1>1, <1>2, TypePartsNext DEF AgentTypes
<1>4. CASE Looking
  <2>1. PoolTypes' /\ BuffersConserved'
    <3>1. CASE UNCHANGED clientVars
      BY <1>0, <3>1, PoolUntouched
    <3>2. CASE ~UNCHANGED clientVars
      <4>1. PICK b \in Brokers :
              \/ ReceiveHeader(b) \/ ReceiveDropped(b) \/ ReceivePingResp(b)
              \/ ReceiveIgnored(b)
        BY <1>4, <3>2 DEF Looking
      <4>2. QED  BY <1>0, <4>1, ReceiveKeepsPool
    <3>3. QED  BY <3>1, <3>2
  <2>2. earned' \subseteq Tasks  BY <1>0, <1>4 DEF Looking, Grants, AgentTypes
  <2>3. Rest  BY <1>0, <1>4, <2>2 DEF Looking, AgentTypes
  <2>4. QED  BY <2>1, <2>3
<1>5. CASE Refusing
  <2>1. PoolTypes' /\ BuffersConserved'
    BY <1>0, <1>5, PoolUntouched DEF Refusing, clientVars
  <2>2. Head(xCommandQueue) \in Entries /\ xCommandQueue' \in Seq(Entries)
    BY <1>0, <1>5, ServedTypes DEF Refusing, AgentTypes
  <2>3. PICK a \in {"success", "failure", "timeout"} :
             Notify({Answer(Head(xCommandQueue), a)})
    BY <1>5 DEF Refusing
  <2>4. {Answer(Head(xCommandQueue), a)} \subseteq
          [task : Tasks, id : Ids, answer : {"success", "failure", "timeout"}]
    BY <2>2 DEF Entries, Answer
  <2>5. note' \in [Tasks -> Notes]  BY <1>0, <2>3, <2>4, NotifyTypes DEF AgentTypes
  <2>6. Rest  BY <1>0, <1>5, <2>2, <2>5 DEF Refusing, AgentTypes
  <2>7. QED  BY <2>1, <2>6
<1>6. CASE Sending
  <2> DEFINE e == Head(xCommandQueue)
  <2>1. e \in Entries /\ xCommandQueue' \in Seq(Entries)
    BY <1>0, <1>6, ServedTypes DEF Sending, AgentTypes
  <2>2. e.b \in Brokers /\ e.id \in Ids /\ e.task \in Tasks  BY <2>1 DEF Entries
  <2>3. e.op \in Acked \cup {"connect"} /\ SendKept(e.b, e.id, e.op)
    BY <1>6 DEF Sending
  <2>4. PoolTypes' /\ BuffersConserved'  BY <1>0, <2>2, <2>3, SendKeepsPool
  <2>5. /\ xWaitingTasks' = [xWaitingTasks EXCEPT
                               ![e.b] = @ \cup {[task |-> e.task, id |-> e.id]}]
        /\ xSocket' = IF e.op = "connect" THEN xSocket \cup {e.b} ELSE xSocket
        /\ UNCHANGED <<note, earned>>
    BY <1>6 DEF Sending, Store
  <2> HIDE DEF e
  <2>6. Rest  BY <1>0, <2>1, <2>2, <2>5 DEF AgentTypes, Slot
  <2>7. QED  BY <2>4, <2>6
<1>7. ASSUME NEW b \in Brokers,
             NEW A \in SUBSET [task : Tasks, id : Ids, answer : {"success", "failure"}],
             Closing(b, A)
      PROVE  PoolTypes' /\ BuffersConserved' /\ Rest
  <2>1. PoolTypes' /\ BuffersConserved'
    BY <1>0, <1>7, ResetKeepsPool DEF Closing, Lose
  <2>2. xCommandQueue' \in Seq(Entries)
    BY <1>0, <1>7, ServedTypes DEF Closing, AgentTypes
  <2>3. Answers(xWaitingTasks[b], "failure") \cup A \subseteq
          [task : Tasks, id : Ids, answer : {"success", "failure", "timeout"}]
    <3>1. xWaitingTasks[b] \in SUBSET Slot  BY <1>0 DEF AgentTypes
    <3>2. Answers(xWaitingTasks[b], "failure") \subseteq
            [task : Tasks, id : Ids, answer : {"success", "failure", "timeout"}]
      BY <3>1, AnswersTypes
    <3>3. QED  BY <3>2
  <2>4. note' \in [Tasks -> Notes]
    BY <1>0, <1>7, <2>3, NotifyTypes DEF Closing, Lose, Disconnected, AgentTypes
  <2>5. Rest
    BY <1>0, <1>7, <2>2, <2>4 DEF Closing, Lose, Disconnected, AgentTypes
  <2>6. QED  BY <2>1, <2>5
<1>8. ASSUME NEW b \in Brokers, NEW o \in Acked \cup {"connect"}, NEW i \in Ids,
             NEW granted \in BOOLEAN, NEW p \in tx[b], Answering(b, o, i, p, granted)
      PROVE  PoolTypes' /\ BuffersConserved' /\ Rest
  <2>1. PoolTypes' /\ BuffersConserved'
    BY <1>0, <1>8, AnswerKeepsPool DEF Answering
  <2> DEFINE a == IF granted THEN "success" ELSE "failure"
  <2>2. Waiting(b, p.id) \in SUBSET Slot  BY <1>0 DEF Waiting, AgentTypes
  <2>3. a \in {"success", "failure", "timeout"}  OBVIOUS
  <2>4. Notify(Answers(Waiting(b, p.id), a))  BY <1>8 DEF Answering
  <2> HIDE DEF a
  <2>5. note' \in [Tasks -> Notes]
    BY <1>0, <2>2, <2>3, <2>4, AnswersTypes, NotifyTypes DEF AgentTypes
  <2>6. earned' \subseteq Tasks  BY <1>0, <1>8 DEF Answering, Grants, AgentTypes
  <2>7. Rest  BY <1>0, <1>8, <2>5, <2>6 DEF Answering, AgentTypes
  <2>8. QED  BY <2>1, <2>7
<1>9. ASSUME NEW b \in Brokers, NEW expired \in SUBSET tx[b], Expiring(b, expired)
      PROVE  PoolTypes' /\ BuffersConserved' /\ Rest
  <2>1. PoolTypes' /\ BuffersConserved'
    BY <1>0, <1>9, ExpiryKeepsPool DEF Expiring
  <2> DEFINE S == UNION {Waiting(b, p.id) : p \in expired}
  <2>2. S \in SUBSET Slot  BY <1>0 DEF Waiting, AgentTypes
  <2>3. Notify(Answers(S, "timeout"))
        /\ xWaitingTasks' = [xWaitingTasks EXCEPT ![b] = @ \ S]
        /\ UNCHANGED <<xCommandQueue, xSocket, earned>>
    BY <1>9 DEF Expiring
  <2> HIDE DEF S
  <2>4. note' \in [Tasks -> Notes]
    BY <1>0, <2>2, <2>3, AnswersTypes, NotifyTypes DEF AgentTypes
  <2>5. Rest  BY <1>0, <2>3, <2>4 DEF AgentTypes
  <2>6. QED  BY <2>1, <2>5
<1>10. QED  BY <1>4, <1>5, <1>6, <1>7, <1>8, <1>9, AgentShapes

-----------------------------------------------------------------------------
(* Every open call is in one place.                                        *)

\* An answer is a notification with an identifier.
LEMMA AnsweredByIdentifier ==
    ASSUME CallInv, NEW t \in Tasks
    PROVE  /\ note[t].id # 0 <=> Answered(t)
           /\ pc[t] = "wait" => id[t] # 0
<1>1. pc[t] = "wait" => id[t] # 0  BY Constant DEF CallInv, CallsAreApart
<1>2. note[t].id # 0 => Answered(t)  BY DEF CallInv, OnlyOpenCalls
<1>3. Answered(t) => note[t].id # 0  BY <1>1 DEF Answered
<1>4. QED  BY <1>1, <1>2, <1>3

\* A step that moves no call: the notifications of answers stay.
LEMMA CallsUntouched ==
    ASSUME TypeOK, CallInv,
           UNCHANGED <<pc, op, at, id, xCommandQueue, xWaitingTasks>>,
           note' \in [Tasks -> Notes],
           \A u \in Tasks : /\ note'[u].id = note[u].id
                            /\ note[u].id # 0 => note'[u].pending
    PROVE  CallInv' /\ \A u \in Tasks : Answered(u)' <=> Answered(u)
<1>1. \A u \in Tasks : note[u].id # 0 <=> Answered(u)
  BY AnsweredByIdentifier
<1>2. \A u \in Tasks : Answered(u)' <=> Answered(u)
  <2> SUFFICES ASSUME NEW u \in Tasks PROVE Answered(u)' <=> Answered(u)
    OBVIOUS
  <2>1. CASE note[u].id # 0  BY <1>1, <2>1 DEF Answered
  <2>2. CASE note[u].id = 0
    <3>1. pc[u] = "wait" => id[u] # 0  BY AnsweredByIdentifier
    <3>2. QED  BY <2>2, <3>1 DEF Answered
  <2>3. QED  BY <2>1, <2>2
<1>3. \A u \in Tasks : InQueue(u)' <=> InQueue(u)  BY DEF InQueue
<1>4. \A u \in Tasks : HasSlot(u)' <=> HasSlot(u)  BY DEF HasSlot
<1>5. CallsAreApart'  BY DEF CallInv, CallsAreApart
<1>6. OnlyOpenCalls'  BY <1>2 DEF CallInv, OnlyOpenCalls, Command
<1>7. OnePlace'  BY <1>2, <1>3, <1>4 DEF CallInv, OnePlace
<1>8. QED  BY <1>2, <1>5, <1>6, <1>7 DEF CallInv

\* A task that is not in the place "wait" is in no queue and has no slot.
LEMMA NotWaiting ==
    ASSUME CallInv, NEW t \in Tasks, pc[t] # "wait"
    PROVE  /\ ~InQueue(t) /\ note[t].id = 0
           /\ \A b \in Brokers : \A s \in xWaitingTasks[b] : s.task # t
BY DEF CallInv, OnlyOpenCalls, InQueue, Answered

\* A step of one caller that does not wait, or stops waiting, leaves the places
\* of the other calls alone.
LEMMA OthersKeepPlaces ==
    ASSUME TypeOK, CallInv, NEW t \in Tasks,
           ~InQueue(t), \A b \in Brokers : \A s \in xWaitingTasks[b] : s.task # t,
           UNCHANGED <<xCommandQueue, xWaitingTasks>>,
           \A u \in Tasks \ {t} :
              /\ pc'[u] = pc[u] /\ op'[u] = op[u] /\ at'[u] = at[u]
              /\ id'[u] = id[u] /\ note'[u] = note[u],
           note'[t].id = 0, pc'[t] # "wait"
    PROVE  OnlyOpenCalls' /\ OnePlace'
<1>0. AgentTypes  BY TypeParts
<1>1. \A u \in Tasks \ {t} : Answered(u)' <=> Answered(u)
  BY DEF Answered
<1>2. \A u \in Tasks : InQueue(u)' <=> InQueue(u)  BY DEF InQueue
<1>3. \A u \in Tasks \ {t} : HasSlot(u)' <=> HasSlot(u)  BY DEF HasSlot
<1>4. \A u \in Tasks \ {t} : Command(u)' = Command(u)  BY DEF Command
<1>5. \A k \in DOMAIN xCommandQueue : xCommandQueue[k].task \in Tasks \ {t}
  <2>1. xCommandQueue \in Seq(Entries)  BY <1>0 DEF AgentTypes
  <2>2. \A k \in DOMAIN xCommandQueue : xCommandQueue[k] \in Entries  BY <2>1
  <2>3. QED  BY <2>2 DEF InQueue, Entries
<1>6. \A b \in Brokers : \A s \in xWaitingTasks[b] : s.task \in Tasks \ {t}
  BY <1>0 DEF AgentTypes, Slot
<1>7. OnlyOpenCalls'
  <2>1. (\A k \in DOMAIN xCommandQueue :
            pc[xCommandQueue[k].task] = "wait"
              /\ xCommandQueue[k] = Command(xCommandQueue[k].task))'
    BY <1>4, <1>5 DEF CallInv, OnlyOpenCalls
  <2>2. \A k, l \in DOMAIN xCommandQueue' :
           xCommandQueue'[k].task = xCommandQueue'[l].task => k = l
    BY DEF CallInv, OnlyOpenCalls
  <2>3. \A b \in Brokers : \A s \in xWaitingTasks'[b] :
           pc'[s.task] = "wait" /\ s.id = id'[s.task] /\ at'[s.task] = b
    BY <1>6 DEF CallInv, OnlyOpenCalls
  <2>4. \A u \in Tasks : note'[u].id # 0 => Answered(u)'
    BY <1>1 DEF CallInv, OnlyOpenCalls
  <2>5. QED  BY <2>1, <2>2, <2>3, <2>4 DEF OnlyOpenCalls
<1>8. OnePlace'
  <2> SUFFICES ASSUME NEW u \in Tasks, pc'[u] = "wait"
               PROVE  /\ InQueue(u)' \/ HasSlot(u)' \/ Answered(u)'
                      /\ ~(InQueue(u)' /\ HasSlot(u)')
                      /\ ~(InQueue(u)' /\ Answered(u)')
                      /\ ~(HasSlot(u)' /\ Answered(u)')
    BY DEF OnePlace
  <2>1. u # t /\ pc[u] = "wait"  OBVIOUS
  <2>2. QED  BY <1>1, <1>2, <1>3, <2>1 DEF CallInv, OnePlace
<1>9. QED  BY <1>7, <1>8

\* The steps of the callers.
LEMMA CallersKeepCalls ==
    ASSUME TypeOK, TypeOK', CallInv, NEW t \in Tasks,
           \/ Create(t) \/ Delete(t) \/ CallStep(t) \/ LateTransfer(t)
           \/ \E o \in Ops, b \in Brokers : Begin(t, o, b)
    PROVE  CallInv'
<1>0. CallsAreApart /\ OnlyOpenCalls /\ OnePlace  BY DEF CallInv
<1>1. note' \in [Tasks -> Notes] /\ note \in [Tasks -> Notes]
  BY TypeParts, TypePartsNext DEF AgentTypes
<1>11. CallTypes /\ CallTypes' /\ Ids \subseteq Nat
  BY TypeParts, TypePartsNext, ClientAssumption DEF Ids
<1>2. CASE Create(t) \/ Delete(t)
  <2>1. UNCHANGED <<pc, op, at, id, xCommandQueue, xWaitingTasks, note>>
    BY <1>2 DEF Create, Delete
  <2>2. \A u \in Tasks : note[u].id # 0 => note[u].pending
    BY AnsweredByIdentifier DEF Answered
  <2>3. QED  BY <1>1, <2>1, <2>2, CallsUntouched
<1>3. ASSUME NEW o \in Ops, NEW b \in Brokers, Begin(t, o, b) PROVE CallInv'
  <2>1. /\ pc[t] = "idle" /\ pc' = [pc EXCEPT ![t] = "clear"]
        /\ op' = [op EXCEPT ![t] = o] /\ at' = [at EXCEPT ![t] = b]
        /\ id' = [id EXCEPT ![t] = nextId]
        /\ UNCHANGED <<note, xCommandQueue, xWaitingTasks>>
        /\ \A u \in Tasks : id[u] # nextId
    BY <1>3 DEF Begin, At, GoTo
  <2>2. CallsAreApart'  BY <1>0, <1>11, <2>1 DEF CallsAreApart, CallTypes
  <2>3. ~InQueue(t) /\ note[t].id = 0
        /\ \A c \in Brokers : \A s \in xWaitingTasks[c] : s.task # t
    BY <2>1, NotWaiting
  <2>4. pc'[t] = "clear"  BY <1>11, <2>1 DEF CallTypes
  <2>5. OnlyOpenCalls' /\ OnePlace'
    BY <2>1, <2>3, <2>4, OthersKeepPlaces, <1>11 DEF CallTypes
  <2>6. QED  BY <2>2, <2>5 DEF CallInv
<1>4. CASE ClearState(t)
  <2>1. /\ pc[t] = "clear" /\ pc' = [pc EXCEPT ![t] = "send"]
        /\ note' = [note EXCEPT ![t].pending = FALSE]
        /\ UNCHANGED <<op, at, id, xCommandQueue, xWaitingTasks>>
    BY <1>4 DEF ClearState, At, GoTo
  <2>2. CallsAreApart'  BY <1>0, <1>11, <2>1 DEF CallsAreApart, CallTypes
  <2>3. ~InQueue(t) /\ note[t].id = 0
        /\ \A c \in Brokers : \A s \in xWaitingTasks[c] : s.task # t
    BY <2>1, NotWaiting
  <2>4. note'[t].id = 0 /\ pc'[t] = "send"  BY <1>1, <1>11, <2>1, <2>3 DEF CallTypes, Notes
  <2>5. OnlyOpenCalls' /\ OnePlace'
    BY <1>1, <2>1, <2>3, <2>4, OthersKeepPlaces, <1>11 DEF CallTypes
  <2>6. QED  BY <2>2, <2>5 DEF CallInv
<1>5. CASE QueueTimeout(t)
  <2>1. /\ pc[t] = "send" /\ pc' = [pc EXCEPT ![t] = "idle"]
        /\ op' = [op EXCEPT ![t] = "none"] /\ id' = [id EXCEPT ![t] = 0]
        /\ UNCHANGED <<at, note, xCommandQueue, xWaitingTasks>>
    BY <1>5 DEF QueueTimeout, Finish, At, GoTo
  <2>2. CallsAreApart'  BY <1>0, <1>11, <2>1 DEF CallsAreApart, CallTypes
  <2>3. ~InQueue(t) /\ note[t].id = 0
        /\ \A c \in Brokers : \A s \in xWaitingTasks[c] : s.task # t
    BY <2>1, NotWaiting
  <2>4. pc'[t] = "idle"  BY <1>11, <2>1 DEF CallTypes
  <2>5. OnlyOpenCalls' /\ OnePlace'
    BY <2>1, <2>3, <2>4, OthersKeepPlaces, <1>11 DEF CallTypes
  <2>6. QED  BY <2>2, <2>5 DEF CallInv
<1>6. CASE Take(t) /\ note[t].id = id[t]
  <2>1. /\ pc[t] = "wait" /\ pc' = [pc EXCEPT ![t] = "idle"] /\ note[t].pending
        /\ op' = [op EXCEPT ![t] = "none"] /\ id' = [id EXCEPT ![t] = 0]
        /\ note' = [note EXCEPT ![t] = NoNote]
        /\ UNCHANGED <<at, xCommandQueue, xWaitingTasks>>
    BY <1>6 DEF Take, Finish, At, GoTo
  <2>2. CallsAreApart'  BY <1>0, <1>11, <2>1 DEF CallsAreApart, CallTypes
  <2>3. Answered(t)  BY <1>6, <2>1 DEF Answered
  <2>4. ~InQueue(t) /\ ~HasSlot(t)  BY <1>0, <2>1, <2>3 DEF OnePlace
  <2>5. \A c \in Brokers : \A s \in xWaitingTasks[c] : s.task # t
    <3> SUFFICES ASSUME NEW c \in Brokers, NEW s \in xWaitingTasks[c], s.task = t
                 PROVE  FALSE
      OBVIOUS
    <3>1. s.id = id[t] /\ at[t] = c  BY <1>0 DEF OnlyOpenCalls
    <3>2. s \in Slot  BY DEF TypeOK
    <3>3. s = [task |-> t, id |-> id[t]]  BY <3>1, <3>2 DEF Slot
    <3>4. QED  BY <2>4, <3>1, <3>3 DEF HasSlot
  <2>6. note'[t].id = 0 /\ pc'[t] = "idle"  BY <1>1, <1>11, <2>1 DEF CallTypes, NoNote
  <2>7. OnlyOpenCalls' /\ OnePlace'
    BY <1>1, <2>1, <2>4, <2>5, <2>6, OthersKeepPlaces, <1>11 DEF CallTypes
  <2>8. QED  BY <2>2, <2>7 DEF CallInv
<1>7. CASE Take(t) /\ note[t].id # id[t]
  <2>1. /\ UNCHANGED <<pc, op, at, id, xCommandQueue, xWaitingTasks>>
        /\ note' = [note EXCEPT ![t].pending = FALSE]
    BY <1>7 DEF Take
  <2>2. note[t].id = 0  BY <1>7, AnsweredByIdentifier DEF Answered
  <2>3. \A u \in Tasks : /\ note'[u].id = note[u].id
                         /\ note[u].id # 0 => note'[u].pending
    BY <1>1, <2>1, <2>2, AnsweredByIdentifier DEF Answered, Notes
  <2>4. QED  BY <1>1, <2>1, <2>3, CallsUntouched
<1>8. CASE LateTransfer(t)
  <2>1. UNCHANGED <<pc, op, at, id, xCommandQueue, xWaitingTasks>>
        /\ (note' = note \/ note' = [note EXCEPT ![t].pending = TRUE])
    BY <1>8 DEF LateTransfer
  <2>2. \A u \in Tasks : /\ note'[u].id = note[u].id
                         /\ note[u].id # 0 => note'[u].pending
    BY <1>1, <2>1, AnsweredByIdentifier DEF Answered, Notes
  <2>3. QED  BY <1>1, <2>1, <2>2, CallsUntouched
<1>9. CASE Enqueue(t)
  <2>1. /\ pc[t] = "send" /\ pc' = [pc EXCEPT ![t] = "wait"]
        /\ xCommandQueue' = Append(xCommandQueue, Command(t))
        /\ UNCHANGED <<op, at, id, note, xWaitingTasks>>
    BY <1>9 DEF Enqueue, At, GoTo
  <2>2. CallsAreApart'  BY <1>0, <1>11, <2>1 DEF CallsAreApart, CallTypes
  <2>3. ~InQueue(t) /\ note[t].id = 0
        /\ \A c \in Brokers : \A s \in xWaitingTasks[c] : s.task # t
    BY <2>1, NotWaiting
  <2>4. xCommandQueue \in Seq(Entries)  BY DEF TypeOK, Entries
  <2>5. /\ DOMAIN xCommandQueue' = DOMAIN xCommandQueue \cup {Len(xCommandQueue) + 1}
        /\ \A k \in DOMAIN xCommandQueue : xCommandQueue'[k] = xCommandQueue[k]
        /\ xCommandQueue'[Len(xCommandQueue) + 1] = Command(t)
        /\ Len(xCommandQueue) + 1 \notin DOMAIN xCommandQueue
    BY <2>1, <2>4
  <2>6. \A u \in Tasks : Command(u)' = Command(u)  BY <2>1 DEF Command
  <2>7. Command(t).task = t  BY DEF Command
  <2>8. \A k \in DOMAIN xCommandQueue : xCommandQueue[k].task \in Tasks \ {t}
    <3>1. \A k \in DOMAIN xCommandQueue : xCommandQueue[k] \in Entries  BY <2>4
    <3>2. QED  BY <2>3, <3>1 DEF InQueue, Entries
  <2>9. /\ \A u \in Tasks \ {t} : /\ pc'[u] = pc[u]
                                 /\ InQueue(u)' <=> InQueue(u)
        /\ InQueue(t)'
    BY <1>11, <2>1, <2>5, <2>7 DEF InQueue, CallTypes
  <2>10. \A u \in Tasks \ {t} : Answered(u)' <=> Answered(u)
    BY <2>1, <2>9 DEF Answered
  <2>11. \A u \in Tasks : HasSlot(u)' <=> HasSlot(u)  BY <2>1 DEF HasSlot
  <2>12. ~HasSlot(t) /\ ~Answered(t)'
    <3>1. id[t] # 0  BY <1>0, <2>1, Constant DEF CallsAreApart
    <3>2. at[t] \in Brokers  BY DEF TypeOK
    <3>3. QED  BY <2>1, <2>3, <3>1, <3>2 DEF HasSlot, Answered
  <2>13. OnlyOpenCalls'
    <3>1. (\A k \in DOMAIN xCommandQueue :
              pc[xCommandQueue[k].task] = "wait"
                /\ xCommandQueue[k] = Command(xCommandQueue[k].task))'
      BY <1>0, <1>11, <2>1, <2>5, <2>6, <2>7, <2>8 DEF OnlyOpenCalls, CallTypes
    <3>2. \A k, l \in DOMAIN xCommandQueue' :
             xCommandQueue'[k].task = xCommandQueue'[l].task => k = l
      BY <1>0, <2>5, <2>7, <2>8 DEF OnlyOpenCalls
    <3>3. \A b \in Brokers : \A s \in xWaitingTasks'[b] :
             pc'[s.task] = "wait" /\ s.id = id'[s.task] /\ at'[s.task] = b
      BY <1>0, <1>11, <2>1, <2>3, TypeParts DEF OnlyOpenCalls, CallTypes, AgentTypes, Slot
    <3>4. \A u \in Tasks : note'[u].id # 0 => Answered(u)'
      BY <1>0, <2>1, <2>3, <2>10 DEF OnlyOpenCalls
    <3>5. QED  BY <3>1, <3>2, <3>3, <3>4 DEF OnlyOpenCalls
  <2>14. OnePlace'
    <3> SUFFICES ASSUME NEW u \in Tasks, pc'[u] = "wait"
                 PROVE  /\ InQueue(u)' \/ HasSlot(u)' \/ Answered(u)'
                        /\ ~(InQueue(u)' /\ HasSlot(u)')
                        /\ ~(InQueue(u)' /\ Answered(u)')
                        /\ ~(HasSlot(u)' /\ Answered(u)')
      BY DEF OnePlace
    <3>1. CASE u = t  BY <2>9, <2>11, <2>12, <3>1
    <3>2. CASE u # t
      <4>1. pc[u] = "wait"  BY <1>11, <2>1, <3>2 DEF CallTypes
      <4>2. QED  BY <1>0, <2>9, <2>10, <2>11, <3>2, <4>1 DEF OnePlace
    <3>3. QED  BY <3>1, <3>2
  <2>15. QED  BY <2>2, <2>13, <2>14 DEF CallInv
<1>10. QED
  BY <1>2, <1>3, <1>4, <1>5, <1>6, <1>7, <1>8, <1>9 DEF CallStep

\* While the agent runs no answer is unread.
LEMMA NobodyAnswered ==
    ASSUME TypeOK, CallInv, Quiet, NEW t \in Tasks
    PROVE  /\ ~Answered(t) /\ note[t].id = 0
           /\ pc[t] = "wait" => ~note[t].pending
<1>1. pc[t] = "wait" => ~note[t].pending  BY DEF Quiet, Ready
<1>2. ~Answered(t)  BY <1>1 DEF Answered
<1>3. QED  BY <1>1, <1>2, AnsweredByIdentifier

\* The answers the agent gives to waiting tasks all arrive.
LEMMA NotifyEffect ==
    ASSUME TypeOK, CallInv, Quiet, NEW A, Notify(A),
           UNCHANGED <<pc, op, at, id>>,
           \A x \in A : /\ x.task \in Tasks /\ pc[x.task] = "wait"
                        /\ x.id = id[x.task]
    PROVE  \A t \in Tasks :
             /\ Answered(t)' <=> \E x \in A : x.task = t
             /\ Answered(t)' => \E x \in A : x.task = t /\ note'[t].answer = x.answer
             /\ note'[t].id # 0 => Answered(t)'
<1> SUFFICES ASSUME NEW t \in Tasks
             PROVE  /\ Answered(t)' <=> \E x \in A : x.task = t
                    /\ Answered(t)' => \E x \in A : x.task = t /\ note'[t].answer = x.answer
                    /\ note'[t].id # 0 => Answered(t)'
  OBVIOUS
<1>1. CASE \E x \in A : x.task = t
  <2>1. pc[t] = "wait" /\ ~note[t].pending  BY <1>1, NobodyAnswered
  <2> DEFINE x == CHOOSE y \in A : y.task = t
  <2>2. x \in A /\ x.task = t  BY <1>1
  <2>3. note'[t] = [id |-> x.id, answer |-> x.answer, pending |-> TRUE]
    BY <1>1, <2>1 DEF Notify
  <2> HIDE DEF x
  <2>4. x.id = id[t]  BY <2>2
  <2>5. Answered(t)'  BY <2>1, <2>3, <2>4 DEF Answered
  <2>6. note'[t].answer = x.answer  BY <2>3
  <2>7. QED  BY <1>1, <2>2, <2>5, <2>6
<1>2. CASE ~\E x \in A : x.task = t
  <2>1. note'[t] = note[t]  BY <1>2 DEF Notify
  <2>2. ~Answered(t) /\ note[t].id = 0  BY NobodyAnswered
  <2>3. ~Answered(t)'  BY <2>1, <2>2 DEF Answered
  <2>4. QED  BY <1>2, <2>1, <2>2, <2>3
<1>3. QED  BY <1>1, <1>2

\* What the queue says of the open calls.
QueueOfCalls ==
    /\ \A k \in DOMAIN xCommandQueue :
         pc[xCommandQueue[k].task] = "wait"
           /\ xCommandQueue[k] = Command(xCommandQueue[k].task)
    /\ \A k, l \in DOMAIN xCommandQueue :
         xCommandQueue[k].task = xCommandQueue[l].task => k = l

\* What the waiting tasks say of them.
SlotsOfCalls ==
    \A b \in Brokers : \A s \in xWaitingTasks[b] :
      pc[s.task] = "wait" /\ s.id = id[s.task] /\ at[s.task] = b

\* A command that is taken from the queue leaves it, the others stay.
LEMMA ServedQueue ==
    ASSUME TypeOK, CallInv, xCommandQueue # <<>>, Served,
           UNCHANGED <<pc, op, at, id>>
    PROVE  /\ Head(xCommandQueue) \in Entries
           /\ pc[Head(xCommandQueue).task] = "wait"
           /\ Head(xCommandQueue) = Command(Head(xCommandQueue).task)
           /\ InQueue(Head(xCommandQueue).task)
           /\ \A t \in Tasks : InQueue(t)' <=> InQueue(t) /\ t # Head(xCommandQueue).task
           /\ QueueOfCalls'
<1> DEFINE e == Head(xCommandQueue)
<1>1. xCommandQueue \in Seq(Entries)  BY TypeParts DEF AgentTypes
<1>2. Len(xCommandQueue) \in Nat \ {0} /\ DOMAIN xCommandQueue = 1..Len(xCommandQueue)
      /\ e = xCommandQueue[1] /\ 1 \in DOMAIN xCommandQueue
  BY <1>1
<1>3. /\ DOMAIN xCommandQueue' = 1..(Len(xCommandQueue) - 1)
      /\ \A k \in DOMAIN xCommandQueue' : xCommandQueue'[k] = xCommandQueue[k + 1]
  BY <1>1, <1>2 DEF Served
<1>4. \A k \in DOMAIN xCommandQueue' : k + 1 \in DOMAIN xCommandQueue /\ k + 1 # 1
  BY <1>2, <1>3
<1>5. \A k \in DOMAIN xCommandQueue : k # 1 => k - 1 \in DOMAIN xCommandQueue'
         /\ xCommandQueue'[k - 1] = xCommandQueue[k]
  BY <1>2, <1>3
<1>6. QueueOfCalls  BY DEF CallInv, OnlyOpenCalls, QueueOfCalls
<1>7. /\ e \in Entries /\ pc[e.task] = "wait" /\ e = Command(e.task) /\ InQueue(e.task)
  BY <1>1, <1>2, <1>6 DEF QueueOfCalls, InQueue
<1>8. ASSUME NEW t \in Tasks PROVE InQueue(t)' <=> InQueue(t) /\ t # e.task
  <2>1. ASSUME InQueue(t)' PROVE InQueue(t) /\ t # e.task
    <3>1. PICK k \in DOMAIN xCommandQueue' : xCommandQueue'[k].task = t
      BY <2>1 DEF InQueue
    <3>2. xCommandQueue[k + 1].task = t /\ k + 1 \in DOMAIN xCommandQueue /\ k + 1 # 1
      BY <1>3, <1>4, <3>1
    <3>3. QED  BY <1>2, <1>6, <3>2 DEF InQueue, QueueOfCalls
  <2>2. ASSUME InQueue(t), t # e.task PROVE InQueue(t)'
    <3>1. PICK k \in DOMAIN xCommandQueue : xCommandQueue[k].task = t
      BY <2>2 DEF InQueue
    <3>2. k # 1  BY <1>2, <2>2, <3>1
    <3>3. QED  BY <1>5, <3>1, <3>2 DEF InQueue
  <2>3. QED  BY <2>1, <2>2
<1>9. QueueOfCalls'
  <2>1. \A t : Command(t)' = Command(t)  BY DEF Command
  <2>2. (\A k \in DOMAIN xCommandQueue :
            pc[xCommandQueue[k].task] = "wait"
              /\ xCommandQueue[k] = Command(xCommandQueue[k].task))'
    BY <1>3, <1>4, <1>6, <2>1 DEF QueueOfCalls
  <2>3. (\A k, l \in DOMAIN xCommandQueue :
            xCommandQueue[k].task = xCommandQueue[l].task => k = l)'
    <3> SUFFICES ASSUME NEW k \in DOMAIN xCommandQueue', NEW l \in DOMAIN xCommandQueue',
                        xCommandQueue'[k].task = xCommandQueue'[l].task
                 PROVE  k = l
      OBVIOUS
    <3>1. k + 1 = l + 1  BY <1>3, <1>4, <1>6 DEF QueueOfCalls
    <3>2. k \in Int /\ l \in Int  BY <1>2, <1>3
    <3>3. QED  BY <3>1, <3>2
  <2>4. QED  BY <2>2, <2>3 DEF QueueOfCalls
<1>10. QED  BY <1>7, <1>8, <1>9

\* Waiting tasks that are forgotten were those of their calls, the others stay.
LEMMA LostSlots ==
    ASSUME TypeOK, CallInv, NEW b \in Brokers, NEW R \in SUBSET xWaitingTasks[b],
           xWaitingTasks' = [xWaitingTasks EXCEPT ![b] = @ \ R],
           UNCHANGED <<pc, op, at, id>>
    PROVE  /\ \A s \in R : /\ s.task \in Tasks /\ pc[s.task] = "wait"
                           /\ s.id = id[s.task] /\ at[s.task] = b
                           /\ HasSlot(s.task)
           /\ \A t \in Tasks :
                HasSlot(t)' <=> HasSlot(t) /\ ~\E s \in R : s.task = t
           /\ SlotsOfCalls'
<1>1. xWaitingTasks \in [Brokers -> SUBSET Slot] /\ at \in [Tasks -> Brokers]
  BY TypeParts DEF AgentTypes, CallTypes
<1>2. SlotsOfCalls  BY DEF CallInv, OnlyOpenCalls, SlotsOfCalls
<1>3. \A c \in Brokers : xWaitingTasks'[c] =
          IF c = b THEN xWaitingTasks[b] \ R ELSE xWaitingTasks[c]
  BY <1>1
<1>4. \A s \in R : /\ s.task \in Tasks /\ pc[s.task] = "wait"
                   /\ s.id = id[s.task] /\ at[s.task] = b
                   /\ s = [task |-> s.task, id |-> id[s.task]]
  BY <1>1, <1>2 DEF SlotsOfCalls, Slot
<1>5. \A s \in R : HasSlot(s.task)  BY <1>4 DEF HasSlot
<1>6. ASSUME NEW t \in Tasks
      PROVE  HasSlot(t)' <=> HasSlot(t) /\ ~\E s \in R : s.task = t
  <2> DEFINE s == [task |-> t, id |-> id[t]]
  <2>1. HasSlot(t)' <=> s \in xWaitingTasks'[at[t]]  BY DEF HasSlot
  <2>2. HasSlot(t) <=> s \in xWaitingTasks[at[t]]  BY DEF HasSlot
  <2>3. (\E r \in R : r.task = t) <=> s \in R
    <3>1. s.task = t  OBVIOUS
    <3>2. QED  BY <1>4, <3>1
  <2>4. s \in R => at[t] = b  BY <1>4
  <2>5. at[t] \in Brokers  BY <1>1
  <2> HIDE DEF s
  <2>6. QED  BY <1>3, <2>1, <2>2, <2>3, <2>4, <2>5
<1>7. SlotsOfCalls'  BY <1>2, <1>3 DEF SlotsOfCalls
<1>8. QED  BY <1>4, <1>5, <1>6, <1>7

\* A step of the agent that moves calls from the queue to the waiting tasks, and
\* from both to the answers.
LEMMA MovedCalls ==
    ASSUME CallInv, UNCHANGED <<pc, op, at, id>>, QueueOfCalls', SlotsOfCalls',
           \A t \in Tasks : note'[t].id # 0 => Answered(t)',
           \A t \in Tasks : pc[t] = "wait" =>
               /\ InQueue(t)' \/ HasSlot(t)' \/ Answered(t)'
               /\ ~(InQueue(t)' /\ HasSlot(t)')
               /\ ~(InQueue(t)' /\ Answered(t)')
               /\ ~(HasSlot(t)' /\ Answered(t)')
    PROVE  CallInv'
<1>1. CallsAreApart'  BY DEF CallInv, CallsAreApart
<1>2. OnlyOpenCalls'  BY DEF QueueOfCalls, SlotsOfCalls, OnlyOpenCalls
<1>3. OnePlace'  BY DEF OnePlace
<1>4. QED  BY <1>1, <1>2, <1>3 DEF CallInv

\* While the agent runs, a call that waits is in the queue or has a slot.
LEMMA QuietPlaces ==
    ASSUME TypeOK, CallInv, Quiet, NEW t \in Tasks, pc[t] = "wait"
    PROVE  (InQueue(t) \/ HasSlot(t)) /\ ~(InQueue(t) /\ HasSlot(t))
BY NobodyAnswered DEF CallInv, OnePlace

LEMMA QueueUntouched ==
    ASSUME CallInv, UNCHANGED <<pc, op, at, id, xCommandQueue>>
    PROVE  QueueOfCalls' /\ \A t \in Tasks : InQueue(t)' <=> InQueue(t)
BY DEF CallInv, OnlyOpenCalls, QueueOfCalls, InQueue, Command

LEMMA SlotsUntouched ==
    ASSUME CallInv, UNCHANGED <<pc, op, at, id, xWaitingTasks>>
    PROVE  SlotsOfCalls' /\ \A t \in Tasks : HasSlot(t)' <=> HasSlot(t)
BY DEF CallInv, OnlyOpenCalls, SlotsOfCalls, HasSlot

LEMMA AnswersTasks ==
    ASSUME NEW R, NEW a
    PROVE  /\ \A x \in Answers(R, a) : \E s \in R : x.task = s.task
           /\ \A s \in R : \E x \in Answers(R, a) : x.task = s.task
<1>1. ASSUME NEW x \in Answers(R, a) PROVE \E s \in R : x.task = s.task
  <2>1. PICK s \in R : x = Answer(s, a)  BY DEF Answers
  <2>2. QED  BY <2>1 DEF Answer
<1>2. ASSUME NEW s \in R PROVE \E x \in Answers(R, a) : x.task = s.task
  <2>1. Answer(s, a) \in Answers(R, a)  BY DEF Answers
  <2>2. Answer(s, a).task = s.task       BY DEF Answer
  <2>3. QED  BY <2>1, <2>2
<1>3. QED  BY <1>1, <1>2

\* The waiting tasks R, and nobody else, were told answer a and forgotten.
Told(R, a) ==
    \A t \in Tasks :
      /\ HasSlot(t)' <=> HasSlot(t) /\ ~\E s \in R : s.task = t
      /\ Answered(t)' <=> \E s \in R : s.task = t
      /\ Answered(t)' => note'[t].answer = a

\* They were told answer a, and the task of the command being served answer r.
ToldAndServed(R, a, r) ==
    \A t \in Tasks :
      /\ HasSlot(t)' <=> HasSlot(t) /\ ~\E s \in R : s.task = t
      /\ Answered(t)' <=> t = Head(xCommandQueue).task \/ \E s \in R : s.task = t
      /\ Answered(t)' /\ t # Head(xCommandQueue).task => note'[t].answer = a
      /\ t = Head(xCommandQueue).task => note'[t].answer = r

\* A slot is forgotten when its task is told, and told when it is forgotten.
LEMMA TellingKeepsCalls ==
    ASSUME TypeOK, CallInv, Quiet, NEW b \in Brokers,
           NEW R \in SUBSET xWaitingTasks[b], NEW a, Notify(Answers(R, a)),
           xWaitingTasks' = [xWaitingTasks EXCEPT ![b] = @ \ R],
           UNCHANGED <<pc, op, at, id, xCommandQueue>>
    PROVE  CallInv' /\ Told(R, a)
<1>0. /\ \A s \in R : /\ s.task \in Tasks /\ pc[s.task] = "wait"
                      /\ s.id = id[s.task] /\ at[s.task] = b
                      /\ HasSlot(s.task)
      /\ \A t \in Tasks :
           HasSlot(t)' <=> HasSlot(t) /\ ~\E s \in R : s.task = t
      /\ SlotsOfCalls'
  BY LostSlots, Zenon
<1>1. \A x \in Answers(R, a) :
          /\ x.task \in Tasks /\ pc[x.task] = "wait" /\ x.id = id[x.task]
          /\ x.answer = a
  BY <1>0 DEF Answers, Answer
<1>2. \A t \in Tasks : (\E x \in Answers(R, a) : x.task = t) <=> \E s \in R : s.task = t
  BY AnswersTasks
<1>3. \A t \in Tasks : /\ Answered(t)' <=> \E s \in R : s.task = t
                       /\ Answered(t)' => note'[t].answer = a
                       /\ note'[t].id # 0 => Answered(t)'
  BY <1>1, <1>2, NotifyEffect
<1>4. \A t \in Tasks : pc[t] = "wait" =>
               /\ InQueue(t)' \/ HasSlot(t)' \/ Answered(t)'
               /\ ~(InQueue(t)' /\ HasSlot(t)')
               /\ ~(InQueue(t)' /\ Answered(t)')
               /\ ~(HasSlot(t)' /\ Answered(t)')
  <2> SUFFICES ASSUME NEW t \in Tasks, pc[t] = "wait"
               PROVE  /\ InQueue(t)' \/ HasSlot(t)' \/ Answered(t)'
                      /\ ~(InQueue(t)' /\ HasSlot(t)')
                      /\ ~(InQueue(t)' /\ Answered(t)')
                      /\ ~(HasSlot(t)' /\ Answered(t)')
    OBVIOUS
  <2>1. InQueue(t)' <=> InQueue(t)  BY QueueUntouched
  <2>2. HasSlot(t)' <=> HasSlot(t) /\ ~\E s \in R : s.task = t  BY <1>0
  <2>3. (\E s \in R : s.task = t) => HasSlot(t)  BY <1>0
  <2>4. QED  BY <1>3, <2>1, <2>2, <2>3, QuietPlaces
<1>5. QueueOfCalls' /\ SlotsOfCalls'  BY <1>0, QueueUntouched
<1>6. CallInv'  BY <1>3, <1>4, <1>5, MovedCalls
<1>7. QED  BY <1>0, <1>3, <1>6 DEF Told

\* The same when the answer to the command being served is among the answers.
LEMMA ServingKeepsCalls ==
    ASSUME TypeOK, CallInv, Quiet, NEW b \in Brokers,
           NEW R \in SUBSET xWaitingTasks[b], NEW a, NEW r,
           xCommandQueue # <<>>, Served,
           Notify(Answers(R, a) \cup {Answer(Head(xCommandQueue), r)}),
           xWaitingTasks' = [xWaitingTasks EXCEPT ![b] = @ \ R],
           UNCHANGED <<pc, op, at, id>>
    PROVE  CallInv' /\ ToldAndServed(R, a, r)
<1> DEFINE e == Head(xCommandQueue)
           A == Answers(R, a) \cup {Answer(e, r)}
<1>1. /\ e.task \in Tasks /\ pc[e.task] = "wait" /\ e.id = id[e.task]
      /\ InQueue(e.task)
  BY ServedQueue DEF Entries, Command
<1>2. /\ \A s \in R : /\ s.task \in Tasks /\ pc[s.task] = "wait"
                      /\ s.id = id[s.task] /\ at[s.task] = b
                      /\ HasSlot(s.task)
      /\ \A t \in Tasks :
           HasSlot(t)' <=> HasSlot(t) /\ ~\E s \in R : s.task = t
      /\ SlotsOfCalls'
  BY LostSlots, Zenon
<1>3. \A s \in R : s.task # e.task  BY <1>1, <1>2, QuietPlaces
<1>4. \A x \in A : /\ x.task \in Tasks /\ pc[x.task] = "wait" /\ x.id = id[x.task]
                   /\ x.answer = IF x.task = e.task THEN r ELSE a
  BY <1>1, <1>2, <1>3 DEF Answers, Answer
<1>5. \A t \in Tasks : (\E x \in A : x.task = t) <=> t = e.task \/ \E s \in R : s.task = t
  <2>1. Answer(e, r).task = e.task  BY DEF Answer
  <2>2. \A x \in A : x.task = e.task \/ \E s \in R : x.task = s.task
    BY <2>1, AnswersTasks
  <2>3. \A s \in R : \E x \in A : x.task = s.task  BY AnswersTasks
  <2>4. \E x \in A : x.task = e.task  BY <2>1
  <2> HIDE DEF A, e
  <2>5. QED  BY <2>2, <2>3, <2>4
<1>6. Notify(A)  OBVIOUS
<1> HIDE DEF A
<1>7. \A t \in Tasks :
         /\ Answered(t)' <=> \E x \in A : x.task = t
         /\ Answered(t)' => \E x \in A : x.task = t /\ note'[t].answer = x.answer
         /\ note'[t].id # 0 => Answered(t)'
  BY <1>4, <1>6, NotifyEffect
<1>8. \A t \in Tasks :
         /\ Answered(t)' <=> t = e.task \/ \E s \in R : s.task = t
         /\ Answered(t)' => note'[t].answer = IF t = e.task THEN r ELSE a
  BY <1>4, <1>5, <1>7
<1>9. \A t \in Tasks : pc[t] = "wait" =>
               /\ InQueue(t)' \/ HasSlot(t)' \/ Answered(t)'
               /\ ~(InQueue(t)' /\ HasSlot(t)')
               /\ ~(InQueue(t)' /\ Answered(t)')
               /\ ~(HasSlot(t)' /\ Answered(t)')
  <2> SUFFICES ASSUME NEW t \in Tasks, pc[t] = "wait"
               PROVE  /\ InQueue(t)' \/ HasSlot(t)' \/ Answered(t)'
                      /\ ~(InQueue(t)' /\ HasSlot(t)')
                      /\ ~(InQueue(t)' /\ Answered(t)')
                      /\ ~(HasSlot(t)' /\ Answered(t)')
    OBVIOUS
  <2>1. InQueue(t)' <=> InQueue(t) /\ t # e.task  BY ServedQueue
  <2>2. HasSlot(t)' <=> HasSlot(t) /\ ~\E s \in R : s.task = t  BY <1>2
  <2>3. (\E s \in R : s.task = t) => HasSlot(t)  BY <1>2
  <2>4. QED  BY <1>1, <1>8, <2>1, <2>2, <2>3, QuietPlaces
<1>10. QueueOfCalls' /\ SlotsOfCalls'  BY <1>2, ServedQueue
<1>11. CallInv'  BY <1>7, <1>9, <1>10, MovedCalls
<1>12. ToldAndServed(R, a, r)  BY <1>2, <1>8 DEF ToldAndServed
<1>13. QED  BY <1>11, <1>12

\* A command that is sent goes from the queue to the waiting tasks.
LEMMA SendingKeepsCalls ==
    ASSUME TypeOK, CallInv, Quiet, Sending, UNCHANGED <<pc, op, at, id>>
    PROVE  /\ CallInv'
           /\ \A t \in Tasks : ~Answered(t)'
           /\ \A t \in Tasks :
                HasSlot(t)' <=> HasSlot(t) \/ t = Head(xCommandQueue).task
<1> DEFINE e == Head(xCommandQueue)
           x == [task |-> e.task, id |-> e.id]
<1>0. xCommandQueue # <<>> /\ Served /\ note' = note
      /\ xWaitingTasks' = [xWaitingTasks EXCEPT ![e.b] = @ \cup {x}]
  BY DEF Sending, Store
<1>1. /\ e.task \in Tasks /\ pc[e.task] = "wait" /\ e.id = id[e.task]
      /\ e.b = at[e.task] /\ InQueue(e.task) /\ e.b \in Brokers
  BY <1>0, ServedQueue DEF Entries, Command
<1>2. xWaitingTasks \in [Brokers -> SUBSET Slot] /\ at \in [Tasks -> Brokers]
  BY TypeParts DEF AgentTypes, CallTypes
<1>3. \A c \in Brokers : xWaitingTasks'[c] =
          IF c = e.b THEN xWaitingTasks[c] \cup {x} ELSE xWaitingTasks[c]
  BY <1>0, <1>2
<1>4. ASSUME NEW t \in Tasks PROVE HasSlot(t)' <=> HasSlot(t) \/ t = e.task
  <2> DEFINE s == [task |-> t, id |-> id[t]]
  <2>1. (HasSlot(t)' <=> s \in xWaitingTasks'[at[t]])
        /\ (HasSlot(t) <=> s \in xWaitingTasks[at[t]])
    BY DEF HasSlot
  <2>2. s = x <=> t = e.task
    <3>1. s.task = t /\ x.task = e.task  OBVIOUS
    <3>2. QED  BY <1>1, <3>1
  <2>3. t = e.task => at[t] = e.b  BY <1>1
  <2>4. at[t] \in Brokers  BY <1>2
  <2> HIDE DEF s, x
  <2>5. QED  BY <1>3, <2>1, <2>2, <2>3, <2>4
<1>5. \A t \in Tasks : Answered(t)' <=> Answered(t)  BY <1>0 DEF Answered
<1>6. \A t \in Tasks : ~Answered(t)' /\ note'[t].id = 0
  BY <1>0, <1>5, NobodyAnswered
<1>7. \A t \in Tasks : pc[t] = "wait" =>
               /\ InQueue(t)' \/ HasSlot(t)' \/ Answered(t)'
               /\ ~(InQueue(t)' /\ HasSlot(t)')
               /\ ~(InQueue(t)' /\ Answered(t)')
               /\ ~(HasSlot(t)' /\ Answered(t)')
  <2> SUFFICES ASSUME NEW t \in Tasks, pc[t] = "wait"
               PROVE  /\ InQueue(t)' \/ HasSlot(t)'
                      /\ ~(InQueue(t)' /\ HasSlot(t)')
    BY <1>6
  <2>1. InQueue(t)' <=> InQueue(t) /\ t # e.task  BY <1>0, ServedQueue
  <2>2. QED  BY <1>1, <1>4, <2>1, QuietPlaces
<1>8. QueueOfCalls'  BY <1>0, ServedQueue
<1>9. SlotsOfCalls'
  <2>1. SlotsOfCalls  BY DEF CallInv, OnlyOpenCalls, SlotsOfCalls
  <2>2. x.task = e.task /\ x.id = e.id  OBVIOUS
  <2> HIDE DEF x, e
  <2>3. SUFFICES ASSUME NEW c \in Brokers, NEW s \in xWaitingTasks'[c]
                 PROVE  pc'[s.task] = "wait" /\ s.id = id'[s.task] /\ at'[s.task] = c
    BY DEF SlotsOfCalls
  <2>4. CASE s \in xWaitingTasks[c]  BY <2>1, <2>4 DEF SlotsOfCalls
  <2>5. CASE s = x /\ c = e.b  BY <1>1, <2>2, <2>5
  <2>6. QED  BY <1>3, <2>3, <2>4, <2>5
<1>10. CallInv'  BY <1>6, <1>7, <1>8, <1>9, MovedCalls
<1>11. QED  BY <1>4, <1>6, <1>10

-----------------------------------------------------------------------------
(* Packets, links and grants, by the shape of the agent's step.            *)

\* The cases of PacketsFit, one by one.
Fit(b) ==
    /\ \A p \in tx[b] : \E s \in xWaitingTasks[b] : s.id = p.id
    /\ \A s \in xWaitingTasks[b] : \E p \in tx[b] : s.id = p.id
    /\ \A p, q \in tx[b] : p.id = q.id => p = q
    /\ xConnectionState[b] = "not" => tx[b] = {}
    /\ xConnectionState[b] = "progress" =>
          tx[b] # {} /\ \A p \in tx[b] : p.op = "connect"
    /\ xConnectionState[b] = "connected" => \A p \in tx[b] : p.op # "connect"
    /\ \A p \in tx[b] : \A s \in xWaitingTasks[b] : p.id = s.id => p.op = op[s.task]

\* Two sets with the same identifiers, and what that means one by one.
SameIds(T, W) == {p.id : p \in T} = {s.id : s \in W}
Paired(T, W) ==
    /\ \A p \in T : \E s \in W : s.id = p.id
    /\ \A s \in W : \E p \in T : s.id = p.id

LEMMA SameIdentifiers ==
    ASSUME NEW T, NEW W
    PROVE  SameIds(T, W) <=> Paired(T, W)
<1> DEFINE Ids1 == {p.id : p \in T}
           Ids2 == {s.id : s \in W}
<1>1. ASSUME Ids1 = Ids2
      PROVE  /\ \A p \in T : \E s \in W : s.id = p.id
             /\ \A s \in W : \E p \in T : s.id = p.id
  <2>1. ASSUME NEW p \in T PROVE \E s \in W : s.id = p.id
    <3>1. p.id \in Ids2  BY <1>1
    <3>2. QED  BY <3>1
  <2>2. ASSUME NEW s \in W PROVE \E p \in T : s.id = p.id
    <3>1. s.id \in Ids1  BY <1>1
    <3>2. QED  BY <3>1
  <2>3. QED  BY <2>1, <2>2
<1>2. ASSUME \A p \in T : \E s \in W : s.id = p.id,
             \A s \in W : \E p \in T : s.id = p.id
      PROVE  Ids1 = Ids2
  <2>1. ASSUME NEW i \in Ids1 PROVE i \in Ids2
    <3>1. PICK p \in T : i = p.id  OBVIOUS
    <3>2. PICK s \in W : s.id = p.id  BY <1>2
    <3>3. QED  BY <3>1, <3>2
  <2>2. ASSUME NEW i \in Ids2 PROVE i \in Ids1
    <3>1. PICK s \in W : i = s.id  OBVIOUS
    <3>2. PICK p \in T : s.id = p.id  BY <1>2
    <3>3. QED  BY <3>1, <3>2
  <2>3. QED  BY <2>1, <2>2
<1>3. QED  BY <1>1, <1>2 DEF SameIds, Paired

LEMMA PacketsFitOneByOne ==
    ASSUME NEW b \in Brokers,
           xConnectionState[b] \in {"not", "progress", "connected"}
    PROVE  PacketsFit(b) /\ (\A p \in tx[b] : \A s \in xWaitingTasks[b] :
                                p.id = s.id => p.op = op[s.task])
             <=> Fit(b)
<1>1. SameIds(tx[b], xWaitingTasks[b]) <=> Paired(tx[b], xWaitingTasks[b])
  BY SameIdentifiers
<1>2. CASE xConnectionState[b] = "not"        BY <1>1, <1>2 DEF SameIds, Paired, PacketsFit, Fit
<1>3. CASE xConnectionState[b] = "progress"
  <2>1. {p.op : p \in tx[b]} = {"connect"} <=>
           tx[b] # {} /\ \A p \in tx[b] : p.op = "connect"
    OBVIOUS
  <2>2. QED  BY <1>1, <1>3, <2>1 DEF SameIds, Paired, PacketsFit, Fit
<1>4. CASE xConnectionState[b] = "connected"
  <2>1. "connect" \notin {p.op : p \in tx[b]} <=> \A p \in tx[b] : p.op # "connect"
    OBVIOUS
  <2>2. QED  BY <1>1, <1>4, <2>1 DEF SameIds, Paired, PacketsFit, Fit
<1>5. QED  BY <1>2, <1>3, <1>4

LEMMA FitNow == ASSUME TypeOK PROVE PacketInv <=> \A b \in Brokers : Fit(b)
<1>1. \A b \in Brokers : xConnectionState[b] \in {"not", "progress", "connected"}
  BY TypeParts DEF PoolTypes
<1>2. QED  BY <1>1, PacketsFitOneByOne DEF PacketInv, WaitingTasksFitPackets

LEMMA FitNext == ASSUME TypeOK' PROVE PacketInv' <=> \A b \in Brokers : Fit(b)'
<1>1. \A b \in Brokers : xConnectionState'[b] \in {"not", "progress", "connected"}
  BY TypePartsNext DEF PoolTypes
<1>2. ASSUME NEW b \in Brokers
      PROVE  (PacketsFit(b) /\ (\A p \in tx[b] : \A s \in xWaitingTasks[b] :
                                p.id = s.id => p.op = op[s.task]))' <=> Fit(b)'
  <2>1. xConnectionState'[b] \in {"not", "progress", "connected"}  BY <1>1
  <2>2. SameIds(tx'[b], xWaitingTasks'[b]) <=> Paired(tx'[b], xWaitingTasks'[b])
    BY SameIdentifiers
  <2>3. CASE xConnectionState'[b] = "not"  BY <2>2, <2>3 DEF SameIds, Paired, PacketsFit, Fit
  <2>4. CASE xConnectionState'[b] = "progress"
    <3>1. ({p.op : p \in tx[b]} = {"connect"})' <=>
             (tx[b] # {} /\ \A p \in tx[b] : p.op = "connect")'
      OBVIOUS
    <3>2. QED  BY <2>2, <2>4, <3>1 DEF SameIds, Paired, PacketsFit, Fit
  <2>5. CASE xConnectionState'[b] = "connected"
    <3>1. ("connect" \notin {p.op : p \in tx[b]})' <=>
             (\A p \in tx[b] : p.op # "connect")'
      OBVIOUS
    <3>2. QED  BY <2>2, <2>5, <3>1 DEF SameIds, Paired, PacketsFit, Fit
  <2>6. QED  BY <2>1, <2>3, <2>4, <2>5
<1>3. QED  BY <1>2 DEF PacketInv, WaitingTasksFitPackets

\* A waiting task is a call of its own.
LEMMA SlotOfCall ==
    ASSUME TypeOK, CallInv, NEW b \in Brokers, NEW s \in xWaitingTasks[b]
    PROVE  /\ s.task \in Tasks /\ pc[s.task] = "wait" /\ s.id = id[s.task]
           /\ at[s.task] = b /\ HasSlot(s.task) /\ id[s.task] # 0
           /\ ~InQueue(s.task)
           /\ \A t \in Tasks : s.id = id[t] => s.task = t
<1>1. s \in Slot  BY TypeParts DEF AgentTypes
<1>2. s.task \in Tasks /\ pc[s.task] = "wait" /\ s.id = id[s.task] /\ at[s.task] = b
  BY <1>1 DEF CallInv, OnlyOpenCalls, Slot
<1>3. s = [task |-> s.task, id |-> id[s.task]]  BY <1>1, <1>2 DEF Slot
<1>4. HasSlot(s.task)  BY <1>2, <1>3 DEF HasSlot
<1>5. id[s.task] # 0  BY <1>2, AnsweredByIdentifier
<1>6. ~InQueue(s.task)  BY <1>2, <1>4 DEF CallInv, OnePlace
<1>7. \A t \in Tasks : s.id = id[t] => s.task = t
  BY <1>2, <1>5 DEF CallInv, CallsAreApart
<1>8. QED  BY <1>2, <1>4, <1>5, <1>6, <1>7

\* While the agent runs nothing granted is unread.
LEMMA NothingEarned ==
    ASSUME TypeOK, CallInv, EarnedInv, Quiet
    PROVE  earned = {}
<1>1. earned \subseteq Tasks  BY TypeParts DEF AgentTypes
<1>2. QED  BY <1>1, NobodyAnswered DEF EarnedInv

\* Whom an acknowledgement grants its call: a waiting task whose packet matches.
LEMMA GrantsMatch ==
    ASSUME TypeOK, CallInv, PacketInv, Quiet, NEW b \in Brokers,
           NEW o \in Acked \cup {"connect"}, NEW i \in Ids, NEW t \in Grants(b, o, i)
    PROVE  /\ t \in Tasks /\ op[t] = o /\ at[t] = b /\ HasSlot(t)
           /\ \E p \in tx[b] : p.id = id[t] /\ Matches(p, o, i)
<1>1. /\ t \in Tasks /\ pc[t] = "wait" /\ Queued(t) = {} /\ op[t] = o /\ at[t] = b
      /\ o # "connect" => id[t] = i
  BY DEF Grants
<1>2. ~InQueue(t)  BY <1>1 DEF InQueue, Queued
<1>3. HasSlot(t)  BY <1>1, <1>2, QuietPlaces
<1> DEFINE s == [task |-> t, id |-> id[t]]
<1>4. s \in xWaitingTasks[b] /\ s.task = t /\ s.id = id[t]
  BY <1>1, <1>3 DEF HasSlot
<1> HIDE DEF s
<1>5. Fit(b)  BY FitNow
<1>6. PICK p \in tx[b] : s.id = p.id  BY <1>4, <1>5 DEF Fit
<1>7. p.op = o  BY <1>1, <1>4, <1>5, <1>6 DEF Fit
<1>8. Matches(p, o, i)  BY <1>1, <1>4, <1>6, <1>7 DEF Matches
<1>9. QED  BY <1>1, <1>3, <1>4, <1>6, <1>8

\* A connection has one CONNECT on its way, its owner's.
LEMMA OneConnect ==
    ASSUME TypeOK, CallInv, PacketInv, LinkInv, NEW b \in Brokers,
           NEW p \in tx[b], NEW q \in tx[b], p.op = "connect", q.op = "connect"
    PROVE  p = q
<1>1. Fit(b)  BY FitNow
<1>2. PICK s \in xWaitingTasks[b] : s.id = p.id  BY <1>1 DEF Fit
<1>3. PICK r \in xWaitingTasks[b] : r.id = q.id  BY <1>1 DEF Fit
<1>4. op[s.task] = "connect" /\ op[r.task] = "connect"
  BY <1>1, <1>2, <1>3 DEF Fit
<1>5. owner[b] = s.task /\ owner[b] = r.task
  BY <1>4, SlotOfCall DEF LinkInv
<1>6. s.id = r.id
  <2>1. s.id = id[s.task] /\ r.id = id[r.task]  BY SlotOfCall
  <2>2. QED  BY <1>5, <2>1
<1>7. QED  BY <1>1, <1>2, <1>3, <1>6 DEF Fit

\* What is left to show of the links after a step of the agent.
LEMMA LinksAfter ==
    ASSUME LinkInv, UNCHANGED callVars,
           \A t \in Tasks :
              op[t] = "disconnect" /\ Answered(t)' /\ note'[t].answer = "success"
                => xConnectionState'[at[t]] = "not",
           \A b \in Brokers :
              xConnectionState'[b] # "not" =>
                \/ b \in live
                \/ \E t \in Tasks :
                     /\ pc[t] = "wait" /\ op[t] = "connect" /\ at[t] = b
                     /\ HasSlot(t)' \/ (Answered(t)' /\ note'[t].answer = "success"),
           \A b \in Brokers : b \in xSocket' <=> xConnectionState'[b] # "not"
    PROVE  LinkInv'
<1>1. /\ op' = op /\ at' = at /\ pc' = pc /\ owner' = owner /\ live' = live
  BY DEF callVars
<1>2. (\A t \in Tasks :
          op[t] = "disconnect" /\ Answered(t) /\ note[t].answer = "success"
            => xConnectionState[at[t]] = "not")'
  BY <1>1
<1>3. (\A b \in Brokers :
          xConnectionState[b] # "not" =>
            \/ b \in live
            \/ \E t \in Tasks :
                 /\ pc[t] = "wait" /\ op[t] = "connect" /\ at[t] = b
                 /\ HasSlot(t) \/ (Answered(t) /\ note[t].answer = "success"))'
  BY <1>1
<1>4. (\A t \in Tasks : op[t] \in {"connect", "disconnect"} => owner[at[t]] = t)'
      /\ (\A t \in Tasks : op[t] = "connect" => at[t] \notin live)'
  BY <1>1 DEF LinkInv
<1>5. QED  BY <1>2, <1>3, <1>4 DEF LinkInv

\* Who keeps a link up while the agent runs.
LEMMA LinkKeeper ==
    ASSUME TypeOK, CallInv, LinkInv, Quiet, NEW b \in Brokers,
           xConnectionState[b] # "not", b \notin live
    PROVE  \E t \in Tasks :
              pc[t] = "wait" /\ op[t] = "connect" /\ at[t] = b /\ HasSlot(t)
BY NobodyAnswered DEF LinkInv

\* The agent looks at what came in, and nothing of it concerns a call.
LEMMA LookingKeeps ==
    ASSUME IInv, TypeOK', Quiet, UNCHANGED callVars, Looking
    PROVE  CallInv' /\ PacketInv' /\ LinkInv' /\ EarnedInv'
<1>0. TypeOK /\ CallInv /\ PacketInv /\ LinkInv /\ EarnedInv  BY DEF IInv
<1>1. /\ UNCHANGED <<tx, xConnectionState, note, xCommandQueue, xSocket, xWaitingTasks>>
      /\ UNCHANGED <<pc, op, at, id, owner, live>>
  BY DEF Looking, clientVars, callVars, ReceiveHeader, ReceiveDropped,
         ReceivePingResp, ReceiveIgnored
<1>2. note' \in [Tasks -> Notes]  BY TypePartsNext DEF AgentTypes
<1>3. \A u \in Tasks : note[u].id # 0 => note[u].pending
  BY <1>0, AnsweredByIdentifier DEF Answered
<1>4. CallInv' /\ \A u \in Tasks : Answered(u)' <=> Answered(u)
  BY <1>0, <1>1, <1>2, <1>3, CallsUntouched
<1>5. PacketInv'
  BY <1>0, <1>1 DEF PacketInv, WaitingTasksFitPackets, PacketsFit
<1>6. \A t \in Tasks : HasSlot(t)' <=> HasSlot(t)  BY <1>1 DEF HasSlot
<1>7. LinkInv'  BY <1>0, <1>1, <1>4, <1>6 DEF LinkInv
<1>8. earned = {}  BY <1>0, NothingEarned
<1>9. earned' = {}
  <2>1. ASSUME NEW b \in Brokers, NEW o \in Acked \cup {"connect"}, NEW i \in Ids,
               \A p \in tx[b] : ~Matches(p, o, i)
        PROVE  Grants(b, o, i) = {}
    BY <1>0, <2>1, GrantsMatch
  <2>2. QED  BY <1>8, <2>1 DEF Looking
<1>10. \A t \in Tasks : ~Answered(t)'  BY <1>0, <1>4, NobodyAnswered
<1>11. EarnedInv'  BY <1>9, <1>10 DEF EarnedInv, SuccessIsTheBrokersGrant
<1>12. QED  BY <1>4, <1>5, <1>7, <1>11

\* The agent refuses a command, or has no need to wait for the broker.
LEMMA RefusingKeeps ==
    ASSUME IInv, TypeOK', Quiet, UNCHANGED callVars, Refusing
    PROVE  /\ CallInv' /\ PacketInv' /\ LinkInv' /\ EarnedInv'
           /\ \E a : ToldAndServed({}, a, a)
<1>0. TypeOK /\ CallInv /\ PacketInv /\ LinkInv /\ EarnedInv  BY DEF IInv
<1> DEFINE e == Head(xCommandQueue)
<1>1. PICK a : (a = "success" => e.op = "publish0") /\ Notify({Answer(e, a)})
  BY DEF Refusing
<1>2. /\ xCommandQueue # <<>> /\ Served
      /\ UNCHANGED <<tx, xConnectionState, xSocket, xWaitingTasks, earned>>
      /\ UNCHANGED <<pc, op, at, id, owner, live>>
  BY DEF Refusing, clientVars, callVars
<1>3. Notify({Answer(Head(xCommandQueue), a)})  BY <1>1
<1>4. e.task \in Tasks /\ e.op = op[e.task]
  BY <1>0, <1>2, ServedQueue DEF Entries, Command
<1>5. CallInv' /\ ToldAndServed({}, a, a)
  <2>1. PICK b \in Brokers : TRUE  BY Constant
  <2>2. PICK none \in SUBSET xWaitingTasks[b] : none = {}  OBVIOUS
  <2>3. xWaitingTasks' = [xWaitingTasks EXCEPT ![b] = @ \ none]
    BY <1>0, <1>2, <2>2, TypeParts DEF AgentTypes
  <2>4. Notify(Answers(none, a) \cup {Answer(Head(xCommandQueue), a)})
    <3>1. Answers(none, a) = {}  BY <2>2 DEF Answers
    <3>2. QED  BY <1>3, <3>1
  <2>5. UNCHANGED <<pc, op, at, id>> /\ xCommandQueue # <<>> /\ Served  BY <1>2
  <2>6. CallInv' /\ ToldAndServed(none, a, a)
    BY <1>0, <2>3, <2>4, <2>5, ServingKeepsCalls
  <2>7. QED  BY <2>2, <2>6
<1>6. \A t \in Tasks : Answered(t)' => t = e.task /\ note'[t].answer = a
  BY <1>5 DEF ToldAndServed
<1> HIDE DEF e
<1>7. PacketInv'
  BY <1>0, <1>2 DEF PacketInv, WaitingTasksFitPackets, PacketsFit
<1>8. \A t \in Tasks : HasSlot(t)' <=> HasSlot(t)  BY <1>2 DEF HasSlot
<1>9. LinkInv'
  <2>1. \A t \in Tasks :
           op[t] = "disconnect" /\ Answered(t)' /\ note'[t].answer = "success"
             => xConnectionState'[at[t]] = "not"
    BY <1>1, <1>4, <1>6
  <2>2. \A b \in Brokers :
           xConnectionState'[b] # "not" =>
             \/ b \in live
             \/ \E t \in Tasks :
                  /\ pc[t] = "wait" /\ op[t] = "connect" /\ at[t] = b
                  /\ HasSlot(t)' \/ (Answered(t)' /\ note'[t].answer = "success")
    BY <1>0, <1>2, <1>8, LinkKeeper
  <2>3. \A b \in Brokers : b \in xSocket' <=> xConnectionState'[b] # "not"
    BY <1>0, <1>2 DEF LinkInv
  <2>4. QED  BY <1>0, <2>1, <2>2, <2>3, LinksAfter
<1>10. earned' = {}  BY <1>0, <1>2, NothingEarned
<1>11. \A t \in Tasks : Answered(t)' /\ op'[t] \in Acked \cup {"connect"}
                          => note'[t].answer # "success"
  BY <1>1, <1>2, <1>4, <1>6 DEF Acked
<1>12. EarnedInv'  BY <1>10, <1>11 DEF EarnedInv, SuccessIsTheBrokersGrant
<1>13. QED  BY <1>5, <1>7, <1>9, <1>12

\* The agent sends a command's packet.
LEMMA SendingKeeps ==
    ASSUME IInv, TypeOK', Quiet, UNCHANGED callVars, Sending
    PROVE  CallInv' /\ PacketInv' /\ LinkInv' /\ EarnedInv'
<1>0. TypeOK /\ CallInv /\ PacketInv /\ LinkInv /\ EarnedInv  BY DEF IInv
<1> DEFINE e == Head(xCommandQueue)
           x == [task |-> e.task, id |-> e.id]
           p == [id |-> e.id, op |-> e.op, buf |-> FreeBuffer]
<1>1. /\ xCommandQueue # <<>> /\ Served /\ e.op \in Acked \cup {"connect"}
      /\ UNCHANGED <<note, earned>> /\ UNCHANGED <<pc, op, at, id, owner, live>>
      /\ xSocket' = IF e.op = "connect" THEN xSocket \cup {e.b} ELSE xSocket
      /\ xWaitingTasks' = [xWaitingTasks EXCEPT ![e.b] = @ \cup {x}]
      /\ tx' = [tx EXCEPT ![e.b] = @ \cup {p}]
      /\ xConnectionState[e.b] = IF e.op = "connect" THEN "not" ELSE "connected"
      /\ xConnectionState' = [xConnectionState EXCEPT
                                ![e.b] = IF e.op = "connect" THEN "progress" ELSE @]
  BY DEF Sending, Store, SendKept, Takes, callVars
<1>2. /\ e.task \in Tasks /\ pc[e.task] = "wait" /\ e.id = id[e.task]
      /\ e.op = op[e.task] /\ e.b = at[e.task] /\ InQueue(e.task) /\ e.b \in Brokers
  BY <1>0, <1>1, ServedQueue DEF Entries, Command
<1>3. /\ CallInv'
      /\ \A t \in Tasks : ~Answered(t)'
      /\ \A t \in Tasks : HasSlot(t)' <=> HasSlot(t) \/ t = e.task
  BY <1>0, <1>1, SendingKeepsCalls
<1>4. /\ p.id = e.id /\ p.op = e.op /\ x.id = e.id /\ x.task = e.task
  OBVIOUS
<1>5. /\ xConnectionState \in [Brokers -> {"not", "progress", "connected"}]
      /\ tx \in [Brokers -> SUBSET Packet]
      /\ xWaitingTasks \in [Brokers -> SUBSET Slot]
  BY <1>0, TypeParts DEF PoolTypes, AgentTypes
<1> HIDE DEF e, x, p
<1>6. /\ tx'[e.b] = tx[e.b] \cup {p}
      /\ xWaitingTasks'[e.b] = xWaitingTasks[e.b] \cup {x}
      /\ xConnectionState'[e.b] = IF e.op = "connect" THEN "progress" ELSE "connected"
      /\ \A c \in Brokers \ {e.b} : /\ tx'[c] = tx[c]
                                    /\ xWaitingTasks'[c] = xWaitingTasks[c]
                                    /\ xConnectionState'[c] = xConnectionState[c]
  BY <1>1, <1>2, <1>5
<1>7. \A c \in Brokers : Fit(c)  BY <1>0, FitNow
<1>8. \A s \in xWaitingTasks[e.b] : s.id # e.id
  <2> SUFFICES ASSUME NEW s \in xWaitingTasks[e.b], s.id = e.id PROVE FALSE
    OBVIOUS
  <2>1. s.task = e.task /\ ~InQueue(s.task)  BY <1>0, <1>2, SlotOfCall
  <2>2. QED  BY <1>2, <2>1
<1>9. \A q \in tx[e.b] : q.id # e.id  BY <1>2, <1>7, <1>8 DEF Fit
<1>10. ASSUME NEW c \in Brokers PROVE Fit(c)'
  <2>1. CASE c # e.b  BY <1>1, <1>6, <1>7, <2>1 DEF Fit
  <2>2. CASE c = e.b
    <3>1. \A q \in tx'[c] : \E s \in xWaitingTasks'[c] : s.id = q.id
      BY <1>2, <1>4, <1>6, <1>7, <2>2 DEF Fit
    <3>2. \A s \in xWaitingTasks'[c] : \E q \in tx'[c] : s.id = q.id
      BY <1>2, <1>4, <1>6, <1>7, <2>2 DEF Fit
    <3>3. \A q, r \in tx'[c] : q.id = r.id => q = r
      BY <1>2, <1>4, <1>6, <1>7, <1>9, <2>2 DEF Fit
    <3>4. \A q \in tx'[c] : \A s \in xWaitingTasks'[c] :
             q.id = s.id => q.op = op'[s.task]
      BY <1>1, <1>2, <1>4, <1>6, <1>7, <1>8, <1>9, <2>2 DEF Fit
    <3>5. CASE e.op = "connect"
      <4>1. tx[c] = {}  BY <1>1, <1>2, <1>7, <2>2, <3>5 DEF Fit
      <4>2. tx'[c] = {p} /\ p.op = "connect" /\ xConnectionState'[c] = "progress"
        BY <1>4, <1>6, <2>2, <3>5, <4>1
      <4>3. QED  BY <3>1, <3>2, <3>3, <3>4, <4>2 DEF Fit
    <3>6. CASE e.op # "connect"
      <4>1. xConnectionState[c] = "connected" /\ xConnectionState'[c] = "connected"
        BY <1>1, <1>6, <2>2, <3>6
      <4>2. \A q \in tx'[c] : q.op # "connect"
        BY <1>2, <1>4, <1>6, <1>7, <2>2, <3>6, <4>1 DEF Fit
      <4>3. QED  BY <3>1, <3>2, <3>3, <3>4, <4>1, <4>2 DEF Fit
    <3>7. QED  BY <3>5, <3>6
  <2>3. QED  BY <2>1, <2>2
<1>11. PacketInv'  BY <1>10, FitNext
<1>12. LinkInv'
  <2>1. \A b \in Brokers :
           xConnectionState'[b] # "not" =>
             \/ b \in live
             \/ \E t \in Tasks :
                  /\ pc[t] = "wait" /\ op[t] = "connect" /\ at[t] = b
                  /\ HasSlot(t)' \/ (Answered(t)' /\ note'[t].answer = "success")
    <3> SUFFICES ASSUME NEW b \in Brokers, xConnectionState'[b] # "not", b \notin live
                 PROVE  \E t \in Tasks :
                           pc[t] = "wait" /\ op[t] = "connect" /\ at[t] = b /\ HasSlot(t)'
      OBVIOUS
    <3>1. CASE b = e.b /\ e.op = "connect"  BY <1>2, <1>3, <3>1
    <3>2. CASE ~(b = e.b /\ e.op = "connect")
      <4>1. xConnectionState[b] # "not"  BY <1>1, <1>6, <3>2
      <4>2. QED  BY <1>0, <1>3, <4>1, LinkKeeper
    <3>3. QED  BY <3>1, <3>2
  <2>2. \A b \in Brokers : b \in xSocket' <=> xConnectionState'[b] # "not"
    <3> SUFFICES ASSUME NEW b \in Brokers
                 PROVE  b \in xSocket' <=> xConnectionState'[b] # "not"
      OBVIOUS
    <3>1. b \in xSocket <=> xConnectionState[b] # "not"  BY <1>0 DEF LinkInv
    <3>2. QED  BY <1>1, <1>6, <3>1
  <2>3. QED  BY <1>0, <1>3, <2>1, <2>2, LinksAfter
<1>13. earned' = {}  BY <1>0, <1>1, NothingEarned
<1>14. EarnedInv'  BY <1>3, <1>13 DEF EarnedInv, SuccessIsTheBrokersGrant
<1>15. QED  BY <1>3, <1>11, <1>12, <1>14

\* A connection ends: whoever waited on it is told that it failed.
LEMMA ClosingKeeps ==
    ASSUME IInv, TypeOK', Quiet, UNCHANGED callVars, NEW b \in Brokers, NEW A,
           Closing(b, A)
    PROVE  /\ CallInv' /\ PacketInv' /\ LinkInv' /\ EarnedInv'
           /\ \/ A = {} /\ Told(xWaitingTasks[b], "failure")
              \/ /\ xCommandQueue # <<>> /\ Served /\ Head(xCommandQueue).b = b
                 /\ \E a : ToldAndServed(xWaitingTasks[b], "failure", a)
<1>0. TypeOK /\ CallInv /\ PacketInv /\ LinkInv /\ EarnedInv  BY DEF IInv
<1>1. UNCHANGED <<pc, op, at, id>> /\ UNCHANGED <<owner, live>>  BY DEF callVars
<1>2. /\ xConnectionState' = [xConnectionState EXCEPT ![b] = "not"]
      /\ tx' = [tx EXCEPT ![b] = {}] /\ xSocket' = xSocket \ {b}
      /\ xWaitingTasks' = [xWaitingTasks EXCEPT ![b] = {}]
      /\ Notify(Answers(xWaitingTasks[b], "failure") \cup A) /\ earned' = earned
  BY DEF Closing, Lose, ResetMQTTContext, Disconnected
<1>3. /\ xConnectionState \in [Brokers -> {"not", "progress", "connected"}]
      /\ tx \in [Brokers -> SUBSET Packet]
      /\ xWaitingTasks \in [Brokers -> SUBSET Slot]
  BY <1>0, TypeParts DEF PoolTypes, AgentTypes
<1>4. /\ tx'[b] = {} /\ xWaitingTasks'[b] = {} /\ xConnectionState'[b] = "not"
      /\ \A c \in Brokers \ {b} : /\ tx'[c] = tx[c]
                                  /\ xWaitingTasks'[c] = xWaitingTasks[c]
                                  /\ xConnectionState'[c] = xConnectionState[c]
  BY <1>2, <1>3
<1>5. PICK R \in SUBSET xWaitingTasks[b] : R = xWaitingTasks[b]  OBVIOUS
<1>6. xWaitingTasks' = [xWaitingTasks EXCEPT ![b] = @ \ R]
  <2>1. xWaitingTasks[b] \ R = {}  BY <1>5
  <2>2. QED  BY <1>2, <2>1
<1>7. /\ CallInv'
      /\ \/ A = {} /\ Told(R, "failure")
         \/ /\ xCommandQueue # <<>> /\ Served /\ Head(xCommandQueue).b = b
            /\ \E a : ToldAndServed(R, "failure", a)
      /\ \A t \in Tasks : Answered(t)' /\ note'[t].answer = "success"
                            => op[t] = "disconnect" /\ at[t] = b
  <2>1. CASE A = {} /\ UNCHANGED xCommandQueue
    <3>1. Notify(Answers(R, "failure"))
      <4>1. Answers(xWaitingTasks[b], "failure") \cup A = Answers(R, "failure")
        BY <1>5, <2>1
      <4>2. QED  BY <1>2, <4>1
    <3>2. UNCHANGED <<pc, op, at, id, xCommandQueue>>  BY <1>1, <2>1
    <3>3. CallInv' /\ Told(R, "failure")
      BY <1>0, <1>6, <3>1, <3>2, TellingKeepsCalls
    <3>4. QED  BY <2>1, <3>3 DEF Told
  <2>2. CASE ~(A = {} /\ UNCHANGED xCommandQueue)
    <3> DEFINE e == Head(xCommandQueue)
    <3>1. /\ xCommandQueue # <<>> /\ Served /\ e.op = "disconnect" /\ e.b = b
          /\ \E a \in {"success", "failure"} : A = {Answer(e, a)}
      BY <2>2 DEF Closing
    <3>2. PICK a : A = {Answer(e, a)}  BY <3>1
    <3>3. e.task \in Tasks /\ e.op = op[e.task] /\ e.b = at[e.task]
      BY <1>0, <1>1, <3>1, ServedQueue DEF Entries, Command
    <3>4. Notify(Answers(R, "failure") \cup {Answer(Head(xCommandQueue), a)})
      BY <1>2, <1>5, <3>2
    <3>5. xCommandQueue # <<>> /\ Served  BY <3>1
    <3>6. CallInv' /\ ToldAndServed(R, "failure", a)
      BY <1>0, <1>1, <1>6, <3>4, <3>5, ServingKeepsCalls
    <3>7. ASSUME NEW t \in Tasks, Answered(t)', note'[t].answer = "success"
          PROVE  op[t] = "disconnect" /\ at[t] = b
      <4>1. CASE t = e.task  BY <3>1, <3>3, <4>1
      <4>2. CASE t # e.task  BY <3>6, <3>7, <4>2 DEF ToldAndServed
      <4>3. QED  BY <4>1, <4>2
    <3>8. QED  BY <3>1, <3>6, <3>7
  <2>3. QED  BY <2>1, <2>2
<1>8. \A t \in Tasks : HasSlot(t) /\ at[t] # b => HasSlot(t)'
  <2>1. \A t \in Tasks : at[t] \in Brokers  BY <1>0, TypeParts DEF CallTypes
  <2>2. QED  BY <1>1, <1>4, <2>1 DEF HasSlot
<1>9. PacketInv'
  <2>1. \A c \in Brokers : Fit(c)  BY <1>0, FitNow
  <2>2. ASSUME NEW c \in Brokers PROVE Fit(c)'
    <3>1. CASE c # b  BY <1>1, <1>4, <2>1, <3>1 DEF Fit
    <3>2. CASE c = b  BY <1>4, <3>2 DEF Fit
    <3>3. QED  BY <3>1, <3>2
  <2>3. QED  BY <2>2, FitNext
<1>10. LinkInv'
  <2>1. \A t \in Tasks :
           op[t] = "disconnect" /\ Answered(t)' /\ note'[t].answer = "success"
             => xConnectionState'[at[t]] = "not"
    BY <1>4, <1>7
  <2>2. \A c \in Brokers :
           xConnectionState'[c] # "not" =>
             \/ c \in live
             \/ \E t \in Tasks :
                  /\ pc[t] = "wait" /\ op[t] = "connect" /\ at[t] = c
                  /\ HasSlot(t)' \/ (Answered(t)' /\ note'[t].answer = "success")
    BY <1>0, <1>4, <1>8, LinkKeeper
  <2>3. \A c \in Brokers : c \in xSocket' <=> xConnectionState'[c] # "not"
    BY <1>0, <1>2, <1>4 DEF LinkInv
  <2>4. QED  BY <1>0, <2>1, <2>2, <2>3, LinksAfter
<1>11. earned' = {}  BY <1>0, <1>2, NothingEarned
<1>12. \A t \in Tasks : Answered(t)' /\ op'[t] \in Acked \cup {"connect"}
                          => note'[t].answer # "success"
  BY <1>1, <1>7 DEF Acked
<1>13. EarnedInv'  BY <1>11, <1>12 DEF EarnedInv, SuccessIsTheBrokersGrant
<1>14. QED  BY <1>5, <1>7, <1>9, <1>10, <1>13

\* A packet is answered, and with it the call that sent it.
LEMMA AnsweringKeeps ==
    ASSUME IInv, TypeOK', Quiet, UNCHANGED callVars, NEW b \in Brokers,
           NEW o \in Acked \cup {"connect"}, NEW i \in Ids, NEW granted \in BOOLEAN,
           NEW p \in tx[b], Answering(b, o, i, p, granted)
    PROVE  /\ CallInv' /\ PacketInv' /\ LinkInv' /\ EarnedInv'
           /\ Told(Waiting(b, p.id), IF granted THEN "success" ELSE "failure")
<1>0. TypeOK /\ CallInv /\ PacketInv /\ LinkInv /\ EarnedInv  BY DEF IInv
<1>1. UNCHANGED <<pc, op, at, id>> /\ UNCHANGED <<owner, live>>  BY DEF callVars
<1> DEFINE a == IF granted THEN "success" ELSE "failure"
           R == Waiting(b, p.id)
<1>2. /\ Matches(p, o, i) /\ (o # "subscribe" => granted)
      /\ tx' = [tx EXCEPT ![b] = @ \ {p}]
      /\ xConnectionState' =
           [xConnectionState EXCEPT ![b] = IF p.op = "connect" THEN "connected" ELSE @]
      /\ Notify(Answers(R, a))
      /\ xWaitingTasks' = [xWaitingTasks EXCEPT ![b] = @ \ R]
      /\ earned' = IF granted THEN earned \cup Grants(b, o, i) ELSE earned
      /\ UNCHANGED <<xCommandQueue, xSocket>>
  BY DEF Answering, ReceiveAnswer
<1>3. /\ R \in SUBSET xWaitingTasks[b]
      /\ \A s \in xWaitingTasks[b] : s \in R <=> s.id = p.id
  BY DEF Waiting
<1>4. a = "success" <=> granted  OBVIOUS
<1> HIDE DEF a, R
<1>5. CallInv' /\ Told(R, a)
  <2>1. UNCHANGED <<pc, op, at, id, xCommandQueue>>  BY <1>1, <1>2
  <2>2. Notify(Answers(R, a)) /\ xWaitingTasks' = [xWaitingTasks EXCEPT ![b] = @ \ R]
    BY <1>2
  <2>3. QED  BY <1>0, <1>3, <2>1, <2>2, TellingKeepsCalls
<1>6. /\ xConnectionState \in [Brokers -> {"not", "progress", "connected"}]
      /\ tx \in [Brokers -> SUBSET Packet]
      /\ xWaitingTasks \in [Brokers -> SUBSET Slot]
  BY <1>0, TypeParts DEF PoolTypes, AgentTypes
<1>7. /\ tx'[b] = tx[b] \ {p} /\ xWaitingTasks'[b] = xWaitingTasks[b] \ R
      /\ xConnectionState'[b] = IF p.op = "connect" THEN "connected"
                                ELSE xConnectionState[b]
      /\ \A c \in Brokers \ {b} : /\ tx'[c] = tx[c]
                                  /\ xWaitingTasks'[c] = xWaitingTasks[c]
                                  /\ xConnectionState'[c] = xConnectionState[c]
  BY <1>2, <1>6
<1>8. \A c \in Brokers : Fit(c)  BY <1>0, FitNow
<1>9. /\ p.op = o /\ xConnectionState[b] # "not" /\ xConnectionState'[b] # "not"
      /\ \A s \in R : op[s.task] = o
  BY <1>2, <1>3, <1>7, <1>8 DEF Fit, Matches
<1>10. p.op = "connect" =>
          xConnectionState[b] = "progress" /\ \A q \in tx[b] : q = p
  <2>1. ASSUME p.op = "connect" PROVE xConnectionState[b] = "progress"
    BY <1>6, <1>8, <1>9, <2>1 DEF Fit
  <2>2. ASSUME p.op = "connect", NEW q \in tx[b] PROVE q = p
    <3>1. q.op = "connect"  BY <1>8, <2>1, <2>2 DEF Fit
    <3>2. QED  BY <1>0, <2>2, <3>1, OneConnect
  <2>3. QED  BY <2>1, <2>2
<1>11. PacketInv'
  <2>1. ASSUME NEW c \in Brokers PROVE Fit(c)'
    <3>1. CASE c # b  BY <1>1, <1>7, <1>8, <3>1 DEF Fit
    <3>2. CASE c = b
      <4>1. \A q \in tx'[c] : \E s \in xWaitingTasks'[c] : s.id = q.id
        BY <1>3, <1>7, <1>8, <3>2 DEF Fit
      <4>2. \A s \in xWaitingTasks'[c] : \E q \in tx'[c] : s.id = q.id
        BY <1>3, <1>7, <1>8, <3>2 DEF Fit
      <4>3. \A q, r \in tx'[c] : q.id = r.id => q = r
        BY <1>7, <1>8, <3>2 DEF Fit
      <4>4. \A q \in tx'[c] : \A s \in xWaitingTasks'[c] :
               q.id = s.id => q.op = op'[s.task]
        BY <1>1, <1>7, <1>8, <3>2 DEF Fit
      <4>5. CASE p.op = "connect"
        <5>1. tx'[c] = {} /\ xConnectionState'[c] = "connected"
          BY <1>7, <1>10, <3>2, <4>5
        <5>2. QED  BY <4>1, <4>2, <4>3, <4>4, <5>1 DEF Fit
      <4>6. CASE p.op # "connect"
        <5>1. xConnectionState[c] = "connected" /\ xConnectionState'[c] = "connected"
          BY <1>6, <1>7, <1>8, <1>9, <3>2, <4>6 DEF Fit
        <5>2. \A q \in tx'[c] : q.op # "connect"
          BY <1>7, <1>8, <3>2, <5>1 DEF Fit
        <5>3. QED  BY <4>1, <4>2, <4>3, <4>4, <5>1, <5>2 DEF Fit
      <4>7. QED  BY <4>5, <4>6
    <3>3. QED  BY <3>1, <3>2
  <2>2. QED  BY <2>1, FitNext
<1>12. \A t \in Tasks : HasSlot(t)' <=> HasSlot(t) /\ ~\E s \in R : s.task = t
  BY <1>5 DEF Told
<1>13. LinkInv'
  <2>1. \A t \in Tasks :
           op[t] = "disconnect" /\ Answered(t)' /\ note'[t].answer = "success"
             => xConnectionState'[at[t]] = "not"
    BY <1>5, <1>9 DEF Told, Acked
  <2>2. \A c \in Brokers :
           xConnectionState'[c] # "not" =>
             \/ c \in live
             \/ \E t \in Tasks :
                  /\ pc[t] = "wait" /\ op[t] = "connect" /\ at[t] = c
                  /\ HasSlot(t)' \/ (Answered(t)' /\ note'[t].answer = "success")
    <3> SUFFICES ASSUME NEW c \in Brokers, xConnectionState'[c] # "not", c \notin live
                 PROVE  \E t \in Tasks :
                          /\ pc[t] = "wait" /\ op[t] = "connect" /\ at[t] = c
                          /\ HasSlot(t)' \/ (Answered(t)' /\ note'[t].answer = "success")
      OBVIOUS
    <3>1. xConnectionState[c] # "not"  BY <1>7, <1>9
    <3>2. PICK t \in Tasks :
             pc[t] = "wait" /\ op[t] = "connect" /\ at[t] = c /\ HasSlot(t)
      BY <1>0, <3>1, LinkKeeper
    <3>3. CASE \E s \in R : s.task = t
      <4>1. granted  BY <1>2, <1>9, <3>2, <3>3
      <4>2. Answered(t)' /\ note'[t].answer = "success"
        BY <1>4, <1>5, <3>3, <4>1 DEF Told
      <4>3. QED  BY <3>2, <4>2
    <3>4. CASE ~\E s \in R : s.task = t  BY <1>12, <3>2, <3>4
    <3>5. QED  BY <3>3, <3>4
  <2>3. \A c \in Brokers : c \in xSocket' <=> xConnectionState'[c] # "not"
    BY <1>0, <1>2, <1>7, <1>9 DEF LinkInv
  <2>4. QED  BY <1>0, <2>1, <2>2, <2>3, LinksAfter
<1>14. earned = {}  BY <1>0, NothingEarned
<1>15. \A t \in Tasks : t \in Grants(b, o, i) <=> \E s \in R : s.task = t
  <2>1. ASSUME NEW t \in Tasks, t \in Grants(b, o, i) PROVE \E s \in R : s.task = t
    <3>1. op[t] = o /\ at[t] = b /\ HasSlot(t)
          /\ \E q \in tx[b] : q.id = id[t] /\ Matches(q, o, i)
      BY <1>0, <2>1, GrantsMatch
    <3>2. PICK q \in tx[b] : q.id = id[t] /\ Matches(q, o, i)  BY <3>1
    <3>3. q = p  BY <1>2, <1>8, <1>10, <3>2 DEF Fit, Matches
    <3> DEFINE s == [task |-> t, id |-> id[t]]
    <3>4. s \in xWaitingTasks[b]  BY <3>1 DEF HasSlot
    <3>5. s.id = p.id /\ s.task = t  BY <3>2, <3>3
    <3> HIDE DEF s
    <3>6. QED  BY <1>3, <3>4, <3>5
  <2>2. ASSUME NEW t \in Tasks, NEW s \in R, s.task = t PROVE t \in Grants(b, o, i)
    <3>1. /\ pc[t] = "wait" /\ s.id = id[t] /\ at[t] = b /\ ~InQueue(t)
      BY <1>0, <1>3, <2>2, SlotOfCall
    <3>2. op[t] = o /\ s.id = p.id  BY <1>3, <1>9, <2>2
    <3>3. o # "connect" => id[t] = i  BY <1>2, <3>1, <3>2 DEF Matches
    <3>4. ~note[t].pending  BY <1>0, <3>1, NobodyAnswered
    <3>5. Queued(t) = {}  BY <3>1 DEF Queued, InQueue
    <3>6. QED  BY <3>1, <3>2, <3>3, <3>4, <3>5 DEF Grants
  <2>3. QED  BY <2>1, <2>2
<1>16. EarnedInv'
  <2>1. earned' \subseteq Tasks  BY TypePartsNext DEF AgentTypes
  <2>2. \A t \in earned' : Answered(t)'
    BY <1>2, <1>5, <1>14, <1>15, <2>1 DEF Told
  <2>3. \A t \in Tasks : Answered(t)' /\ op'[t] \in Acked \cup {"connect"}
           => (note'[t].answer = "success" <=> t \in earned')
    <3>1. CASE granted   BY <1>2, <1>4, <1>5, <1>14, <1>15, <3>1 DEF Told
    <3>2. CASE ~granted  BY <1>2, <1>4, <1>5, <1>14, <3>2 DEF Told
    <3>3. QED  BY <3>1, <3>2
  <2>4. QED  BY <2>2, <2>3 DEF EarnedInv, SuccessIsTheBrokersGrant
<1>17. Told(Waiting(b, p.id), IF granted THEN "success" ELSE "failure")
  BY <1>5 DEF a, R
<1>18. QED  BY <1>5, <1>11, <1>13, <1>16, <1>17

\* Packets expire, and with them the calls that sent them.
LEMMA ExpiringKeeps ==
    ASSUME IInv, TypeOK', Quiet, UNCHANGED callVars, NEW b \in Brokers,
           NEW expired \in SUBSET tx[b], Expiring(b, expired)
    PROVE  /\ CallInv' /\ PacketInv' /\ LinkInv' /\ EarnedInv'
           /\ Told(UNION {Waiting(b, p.id) : p \in expired}, "timeout")
<1>0. TypeOK /\ CallInv /\ PacketInv /\ LinkInv /\ EarnedInv  BY DEF IInv
<1>1. UNCHANGED <<pc, op, at, id>> /\ UNCHANGED <<owner, live>>  BY DEF callVars
<1> DEFINE R == UNION {Waiting(b, p.id) : p \in expired}
<1>2. /\ \A p \in expired : p.op # "connect"
      /\ tx' = [tx EXCEPT ![b] = @ \ expired]
      /\ Notify(Answers(R, "timeout"))
      /\ xWaitingTasks' = [xWaitingTasks EXCEPT ![b] = @ \ R]
      /\ UNCHANGED <<xConnectionState, xCommandQueue, xSocket, earned>>
  BY DEF Expiring, ReturnExpired
<1>3. /\ R \in SUBSET xWaitingTasks[b]
      /\ \A s \in xWaitingTasks[b] : s \in R <=> \E p \in expired : s.id = p.id
  BY DEF Waiting
<1> HIDE DEF R
<1>4. CallInv' /\ Told(R, "timeout")
  <2>1. UNCHANGED <<pc, op, at, id, xCommandQueue>>  BY <1>1, <1>2
  <2>2. /\ Notify(Answers(R, "timeout"))
        /\ xWaitingTasks' = [xWaitingTasks EXCEPT ![b] = @ \ R]
    BY <1>2
  <2>3. QED  BY <1>0, <1>3, <2>1, <2>2, TellingKeepsCalls
<1>5. tx \in [Brokers -> SUBSET Packet] /\ xWaitingTasks \in [Brokers -> SUBSET Slot]
  BY <1>0, TypeParts DEF PoolTypes, AgentTypes
<1>6. /\ tx'[b] = tx[b] \ expired /\ xWaitingTasks'[b] = xWaitingTasks[b] \ R
      /\ \A c \in Brokers \ {b} : /\ tx'[c] = tx[c]
                                  /\ xWaitingTasks'[c] = xWaitingTasks[c]
  BY <1>2, <1>5
<1>7. \A c \in Brokers : Fit(c)  BY <1>0, FitNow
<1>8. PacketInv'
  <2>1. ASSUME NEW c \in Brokers PROVE Fit(c)'
    <3>1. CASE c # b  BY <1>1, <1>2, <1>6, <1>7, <3>1 DEF Fit
    <3>2. CASE c = b
      <4>1. \A q \in tx'[c] : \E s \in xWaitingTasks'[c] : s.id = q.id
        BY <1>3, <1>6, <1>7, <3>2 DEF Fit
      <4>2. \A s \in xWaitingTasks'[c] : \E q \in tx'[c] : s.id = q.id
        BY <1>3, <1>6, <1>7, <3>2 DEF Fit
      <4>3. \A q, r \in tx'[c] : q.id = r.id => q = r
        BY <1>6, <1>7, <3>2 DEF Fit
      <4>4. \A q \in tx'[c] : \A s \in xWaitingTasks'[c] :
               q.id = s.id => q.op = op'[s.task]
        BY <1>1, <1>6, <1>7, <3>2 DEF Fit
      <4>5. xConnectionState'[c] = "not" => tx'[c] = {}
        BY <1>2, <1>6, <1>7, <3>2 DEF Fit
      <4>6. xConnectionState'[c] = "progress" =>
               tx'[c] # {} /\ \A q \in tx'[c] : q.op = "connect"
        BY <1>2, <1>6, <1>7, <3>2 DEF Fit
      <4>7. xConnectionState'[c] = "connected" => \A q \in tx'[c] : q.op # "connect"
        BY <1>2, <1>6, <1>7, <3>2 DEF Fit
      <4>8. QED  BY <4>1, <4>2, <4>3, <4>4, <4>5, <4>6, <4>7 DEF Fit
    <3>3. QED  BY <3>1, <3>2
  <2>2. QED  BY <2>1, FitNext
<1>9. \A t \in Tasks : HasSlot(t)' <=> HasSlot(t) /\ ~\E s \in R : s.task = t
  BY <1>4 DEF Told
<1>10. \A s \in R : op[s.task] # "connect"
  <2> SUFFICES ASSUME NEW s \in R PROVE op[s.task] # "connect"  OBVIOUS
  <2>1. PICK p \in expired : s.id = p.id  BY <1>3
  <2>2. p.op = op[s.task]  BY <1>3, <1>7, <2>1 DEF Fit
  <2>3. QED  BY <1>2, <2>2
<1>11. \A t \in Tasks : Answered(t)' => note'[t].answer # "success"
  BY <1>4 DEF Told
<1>12. LinkInv'
  <2>1. \A c \in Brokers :
           xConnectionState'[c] # "not" =>
             \/ c \in live
             \/ \E t \in Tasks :
                  /\ pc[t] = "wait" /\ op[t] = "connect" /\ at[t] = c
                  /\ HasSlot(t)' \/ (Answered(t)' /\ note'[t].answer = "success")
    BY <1>0, <1>2, <1>9, <1>10, LinkKeeper
  <2>2. \A c \in Brokers : c \in xSocket' <=> xConnectionState'[c] # "not"
    BY <1>0, <1>2 DEF LinkInv
  <2>3. QED  BY <1>0, <1>11, <2>1, <2>2, LinksAfter
<1>13. earned' = {}  BY <1>0, <1>2, NothingEarned
<1>14. EarnedInv'  BY <1>11, <1>13 DEF EarnedInv, SuccessIsTheBrokersGrant
<1>15. Told(UNION {Waiting(b, p.id) : p \in expired}, "timeout")  BY <1>4 DEF R
<1>16. QED  BY <1>4, <1>8, <1>12, <1>14, <1>15

-----------------------------------------------------------------------------
(* The same of the callers' steps.                                         *)

\* What an action of one caller leaves alone.
Apart(t) ==
    /\ UNCHANGED <<tx, xConnectionState, xSocket, xWaitingTasks>>
    /\ \A u \in Tasks \ {t} :
         /\ pc'[u] = pc[u] /\ op'[u] = op[u] /\ at'[u] = at[u]
         /\ id'[u] = id[u] /\ note'[u] = note[u]

\* The packets are those of waiting tasks, which no caller's step touches.
LEMMA CallersKeepPackets ==
    ASSUME TypeOK, CallInv, PacketInv, NEW t \in Tasks, Apart(t),
           op'[t] = op[t] \/ ~HasSlot(t)
    PROVE  PacketInv'
<1>1. \A b \in Brokers : \A s \in xWaitingTasks[b] : op'[s.task] = op[s.task]
  BY SlotOfCall DEF Apart
<1>2. PacketInv'
  BY <1>1 DEF Apart, PacketInv, WaitingTasksFitPackets, PacketsFit
<1>3. QED  BY <1>2

\* The others' calls are where they were.
LEMMA OthersUnmoved ==
    ASSUME NEW t \in Tasks, Apart(t)
    PROVE  \A u \in Tasks \ {t} :
             /\ Answered(u)' <=> Answered(u)
             /\ HasSlot(u)' <=> HasSlot(u)
             /\ pc'[u] = pc[u] /\ op'[u] = op[u] /\ at'[u] = at[u] /\ note'[u] = note[u]
BY DEF Apart, Answered, HasSlot

\* A caller that does not wait for an answer before the step, and has none after
\* it.
LEMMA NotYetAnswered ==
    ASSUME TypeOK, CallInv, PacketInv, LinkInv, EarnedInv, NEW t \in Tasks, Apart(t),
           pc[t] # "wait", ~Answered(t)', owner' = owner, live' = live,
           earned' = earned \/ earned' = earned \ {t},
           op'[t] \in {"connect", "disconnect"} => owner[at'[t]] = t,
           op'[t] = "connect" => at'[t] \notin live
    PROVE  PacketInv' /\ LinkInv' /\ EarnedInv'
<1>1. ~Answered(t) /\ ~HasSlot(t)
  <2>1. at[t] \in Brokers  BY TypeParts DEF CallTypes
  <2>2. QED  BY <2>1, NotWaiting DEF Answered, HasSlot
<1>2. PacketInv'  BY <1>1, CallersKeepPackets
<1>3. \A u \in Tasks \ {t} :
         /\ Answered(u)' <=> Answered(u)
         /\ HasSlot(u)' <=> HasSlot(u)
         /\ pc'[u] = pc[u] /\ op'[u] = op[u] /\ at'[u] = at[u] /\ note'[u] = note[u]
  BY OthersUnmoved
<1>4. xConnectionState' = xConnectionState /\ xSocket' = xSocket  BY DEF Apart
<1>5. LinkInv'
  <2>1. (\A u \in Tasks : op[u] \in {"connect", "disconnect"} => owner[at[u]] = u)'
    BY <1>3 DEF LinkInv
  <2>2. (\A u \in Tasks : op[u] = "connect" => at[u] \notin live)'
    BY <1>3 DEF LinkInv
  <2>3. (\A u \in Tasks :
            op[u] = "disconnect" /\ Answered(u) /\ note[u].answer = "success"
              => xConnectionState[at[u]] = "not")'
    BY <1>3, <1>4 DEF LinkInv
  <2>4. (\A b \in Brokers :
            xConnectionState[b] # "not" =>
              \/ b \in live
              \/ \E u \in Tasks :
                   /\ pc[u] = "wait" /\ op[u] = "connect" /\ at[u] = b
                   /\ HasSlot(u) \/ (Answered(u) /\ note[u].answer = "success"))'
    <3> SUFFICES ASSUME NEW b \in Brokers, xConnectionState[b] # "not", b \notin live
                 PROVE  (\E u \in Tasks :
                          /\ pc[u] = "wait" /\ op[u] = "connect" /\ at[u] = b
                          /\ HasSlot(u) \/ (Answered(u) /\ note[u].answer = "success"))'
      BY <1>4
    <3>1. PICK u \in Tasks :
             /\ pc[u] = "wait" /\ op[u] = "connect" /\ at[u] = b
             /\ HasSlot(u) \/ (Answered(u) /\ note[u].answer = "success")
      BY DEF LinkInv
    <3>2. u \in Tasks \ {t}  BY <3>1
    <3>3. QED  BY <1>3, <3>1, <3>2
  <2>5. (\A b \in Brokers : b \in xSocket <=> xConnectionState[b] # "not")'
    BY <1>4 DEF LinkInv
  <2>6. QED  BY <2>1, <2>2, <2>3, <2>4, <2>5 DEF LinkInv
<1>6. earned' = earned  BY <1>1 DEF EarnedInv
<1>7. EarnedInv'
  <2>1. \A u \in earned : u \in Tasks \ {t}
    BY <1>1, TypeParts DEF EarnedInv, AgentTypes
  <2>2. \A u \in earned' : Answered(u)'  BY <1>3, <1>6, <2>1 DEF EarnedInv
  <2>3. SuccessIsTheBrokersGrant'
    BY <1>3, <1>6 DEF EarnedInv, SuccessIsTheBrokersGrant
  <2>4. QED  BY <2>2, <2>3 DEF EarnedInv
<1>8. QED  BY <1>2, <1>5, <1>7

\* A step that answers nobody and ends no call.
LEMMA NoCallMoves ==
    ASSUME TypeOK, CallInv, PacketInv, LinkInv, EarnedInv,
           UNCHANGED <<tx, xConnectionState, xSocket, xWaitingTasks, earned,
                       pc, op, at, id, live>>,
           \A u \in Tasks : /\ Answered(u)' <=> Answered(u)
                            /\ note'[u].answer = note[u].answer
                            /\ op[u] \in {"connect", "disconnect"} =>
                                  owner'[at[u]] = owner[at[u]]
    PROVE  PacketInv' /\ LinkInv' /\ EarnedInv'
<1>1. PacketInv'  BY DEF PacketInv, WaitingTasksFitPackets, PacketsFit
<1>2. \A u \in Tasks : HasSlot(u)' <=> HasSlot(u)  BY DEF HasSlot
<1>3. LinkInv'  BY <1>2 DEF LinkInv
<1>4. EarnedInv'
  <2>1. earned \subseteq Tasks  BY TypeParts DEF AgentTypes
  <2>2. QED  BY <2>1 DEF EarnedInv, SuccessIsTheBrokersGrant
<1>5. QED  BY <1>1, <1>3, <1>4

\* A caller reads its answer: a link it has asked for is its own from now on.
LEMMA TakingKeeps ==
    ASSUME IInv, NEW t \in Tasks, Take(t), note[t].id = id[t]
    PROVE  PacketInv' /\ LinkInv' /\ EarnedInv'
<1>0. TypeOK /\ CallInv /\ PacketInv /\ LinkInv /\ EarnedInv  BY DEF IInv
<1>1. /\ pc[t] = "wait" /\ note[t].pending /\ pc' = [pc EXCEPT ![t] = "idle"]
      /\ op' = [op EXCEPT ![t] = "none"] /\ id' = [id EXCEPT ![t] = 0]
      /\ note' = [note EXCEPT ![t] = NoNote] /\ earned' = earned \ {t}
      /\ live' = IF note[t].answer # "success" THEN live
                 ELSE CASE op[t] = "connect"    -> live \cup {at[t]}
                        [] op[t] = "disconnect" -> live \ {at[t]}
                        [] OTHER                -> live
      /\ UNCHANGED <<at, owner, tx, xConnectionState, xSocket, xWaitingTasks>>
  BY DEF Take, Finish, At, GoTo, clientVars
<1>2. /\ pc \in [Tasks -> {"idle", "clear", "send", "wait"}]
      /\ op \in [Tasks -> Ops \cup {"none"}] /\ id \in [Tasks -> 0..MaxId]
      /\ note \in [Tasks -> Notes] /\ at \in [Tasks -> Brokers]
  BY <1>0, TypeParts DEF CallTypes, AgentTypes
<1>3. Apart(t)  BY <1>1, <1>2 DEF Apart
<1>4. Answered(t) /\ ~HasSlot(t)
  BY <1>0, <1>1 DEF Answered, CallInv, OnePlace
<1>5. pc'[t] = "idle" /\ op'[t] = "none" /\ ~Answered(t)'
  BY <1>1, <1>2 DEF Answered
<1>6. PacketInv'  BY <1>0, <1>3, <1>4, CallersKeepPackets
<1>7. \A u \in Tasks \ {t} :
         /\ Answered(u)' <=> Answered(u)
         /\ HasSlot(u)' <=> HasSlot(u)
         /\ pc'[u] = pc[u] /\ op'[u] = op[u] /\ at'[u] = at[u] /\ note'[u] = note[u]
  BY <1>3, OthersUnmoved
<1>8. LinkInv'
  <2>1. (\A u \in Tasks : op[u] \in {"connect", "disconnect"} => owner[at[u]] = u)'
    BY <1>0, <1>1, <1>5, <1>7 DEF LinkInv
  <2>2. (\A u \in Tasks : op[u] = "connect" => at[u] \notin live)'
    <3> SUFFICES ASSUME NEW u \in Tasks, op'[u] = "connect" PROVE at'[u] \notin live'
      OBVIOUS
    <3>1. u \in Tasks \ {t} /\ op[u] = "connect" /\ at'[u] = at[u]
      BY <1>5, <1>7
    <3>2. owner[at[u]] = u /\ at[u] \notin live  BY <1>0, <3>1 DEF LinkInv
    <3>3. op[t] = "connect" => owner[at[t]] = t  BY <1>0 DEF LinkInv
    <3>4. QED  BY <1>1, <3>1, <3>2, <3>3
  <2>3. (\A u \in Tasks :
            op[u] = "disconnect" /\ Answered(u) /\ note[u].answer = "success"
              => xConnectionState[at[u]] = "not")'
    BY <1>0, <1>1, <1>5, <1>7 DEF LinkInv
  <2>4. (\A b \in Brokers :
            xConnectionState[b] # "not" =>
              \/ b \in live
              \/ \E u \in Tasks :
                   /\ pc[u] = "wait" /\ op[u] = "connect" /\ at[u] = b
                   /\ HasSlot(u) \/ (Answered(u) /\ note[u].answer = "success"))'
    <3> SUFFICES ASSUME NEW b \in Brokers, xConnectionState[b] # "not", b \notin live'
                 PROVE  (\E u \in Tasks :
                          /\ pc[u] = "wait" /\ op[u] = "connect" /\ at[u] = b
                          /\ HasSlot(u) \/ (Answered(u) /\ note[u].answer = "success"))'
      BY <1>1
    <3>1. b \notin live
      <4>1. op[t] = "disconnect" /\ note[t].answer = "success" => at[t] # b
        BY <1>0, <1>4 DEF LinkInv
      <4>2. QED  BY <1>1, <4>1
    <3>2. PICK u \in Tasks :
             /\ pc[u] = "wait" /\ op[u] = "connect" /\ at[u] = b
             /\ HasSlot(u) \/ (Answered(u) /\ note[u].answer = "success")
      BY <1>0, <3>1 DEF LinkInv
    <3>3. u # t  BY <1>1, <1>4, <3>2
    <3>4. QED  BY <1>7, <3>2, <3>3
  <2>5. (\A b \in Brokers : b \in xSocket <=> xConnectionState[b] # "not")'
    BY <1>0, <1>1 DEF LinkInv
  <2>6. QED  BY <2>1, <2>2, <2>3, <2>4, <2>5 DEF LinkInv
<1>9. EarnedInv'
  <2>1. earned \subseteq Tasks  BY <1>0, TypeParts DEF AgentTypes
  <2>2. \A u \in earned' : Answered(u)'  BY <1>0, <1>1, <1>7, <2>1 DEF EarnedInv
  <2>3. SuccessIsTheBrokersGrant'
    BY <1>0, <1>1, <1>5, <1>7 DEF EarnedInv, SuccessIsTheBrokersGrant
  <2>4. QED  BY <2>2, <2>3 DEF EarnedInv
<1>10. QED  BY <1>6, <1>8, <1>9

LEMMA CallersKeepLinks ==
    ASSUME IInv, TypeOK', NEW t \in Tasks,
           \/ Create(t) \/ Delete(t) \/ CallStep(t) \/ LateTransfer(t)
           \/ \E o \in Ops, b \in Brokers : Begin(t, o, b)
    PROVE  PacketInv' /\ LinkInv' /\ EarnedInv'
<1>0. TypeOK /\ CallInv /\ PacketInv /\ LinkInv /\ EarnedInv  BY DEF IInv
<1>1. /\ pc \in [Tasks -> {"idle", "clear", "send", "wait"}]
      /\ op \in [Tasks -> Ops \cup {"none"}] /\ id \in [Tasks -> 0..MaxId]
      /\ note \in [Tasks -> Notes] /\ at \in [Tasks -> Brokers]
      /\ owner \in [Brokers -> Tasks \cup {None}]
  BY <1>0, TypeParts DEF CallTypes, AgentTypes
<1>2. CASE Create(t)
  <2>1. PICK b \in Brokers : owner[b] = None /\ owner' = [owner EXCEPT ![b] = t]
    BY <1>2 DEF Create
  <2>2. UNCHANGED <<tx, xConnectionState, xSocket, xWaitingTasks, earned,
                    pc, op, at, id, live>> /\ note' = note
    BY <1>2 DEF Create, clientVars
  <2>3. \A u \in Tasks : op[u] \in {"connect", "disconnect"} => at[u] # b
    BY <1>0, <2>1, AgentAssumption DEF LinkInv
  <2>4. \A u \in Tasks : /\ Answered(u)' <=> Answered(u)
                         /\ note'[u].answer = note[u].answer
    BY <2>2 DEF Answered
  <2>5. \A u \in Tasks : op[u] \in {"connect", "disconnect"} =>
                            owner'[at[u]] = owner[at[u]]
    BY <1>1, <2>1, <2>3
  <2>6. QED  BY <1>0, <2>2, <2>4, <2>5, NoCallMoves
<1>3. CASE Delete(t)
  <2>1. PICK b \in Brokers : /\ \A u \in Tasks : pc[u] # "idle" => at[u] # b
                             /\ owner' = [owner EXCEPT ![b] = None]
    BY <1>3 DEF Delete
  <2>2. UNCHANGED <<tx, xConnectionState, xSocket, xWaitingTasks, earned,
                    pc, op, at, id, live>> /\ note' = note
    BY <1>3 DEF Delete, clientVars
  <2>3. \A u \in Tasks : op[u] \in {"connect", "disconnect"} => at[u] # b
    BY <1>0, <2>1 DEF CallInv, CallsAreApart
  <2>4. \A u \in Tasks : /\ Answered(u)' <=> Answered(u)
                         /\ note'[u].answer = note[u].answer
    BY <2>2 DEF Answered
  <2>5. \A u \in Tasks : op[u] \in {"connect", "disconnect"} =>
                            owner'[at[u]] = owner[at[u]]
    BY <1>1, <2>1, <2>3
  <2>6. QED  BY <1>0, <2>2, <2>4, <2>5, NoCallMoves
<1>4. ASSUME NEW o \in Ops, NEW b \in Brokers, Begin(t, o, b)
      PROVE  PacketInv' /\ LinkInv' /\ EarnedInv'
  <2>1. /\ pc[t] = "idle" /\ pc' = [pc EXCEPT ![t] = "clear"] /\ Allowed(t, o, b)
        /\ op' = [op EXCEPT ![t] = o] /\ at' = [at EXCEPT ![t] = b]
        /\ id' = [id EXCEPT ![t] = nextId]
        /\ UNCHANGED <<note, tx, xConnectionState, xSocket, xWaitingTasks>>
        /\ owner' = owner /\ live' = live /\ earned' = earned
    BY <1>4 DEF Begin, At, GoTo, clientVars
  <2>2. Apart(t) /\ pc[t] # "wait"  BY <1>1, <2>1 DEF Apart
  <2>3. op'[t] = o /\ at'[t] = b /\ pc'[t] = "clear"  BY <1>1, <2>1
  <2>4. ~Answered(t)'  BY <2>3 DEF Answered
  <2>5. /\ op'[t] \in {"connect", "disconnect"} => owner[at'[t]] = t
        /\ op'[t] = "connect" => at'[t] \notin live
    BY <2>1, <2>3 DEF Allowed
  <2>6. QED  BY <1>0, <2>1, <2>2, <2>4, <2>5, NotYetAnswered
<1>5. ASSUME pc[t] # "wait", Apart(t), ~Answered(t)',
             UNCHANGED <<owner, live, at>>, op' = op \/ op'[t] = "none",
             earned' = earned \/ earned' = earned \ {t}
      PROVE  PacketInv' /\ LinkInv' /\ EarnedInv'
  <2>1. /\ op'[t] \in {"connect", "disconnect"} => owner[at'[t]] = t
        /\ op'[t] = "connect" => at'[t] \notin live
    BY <1>0, <1>5 DEF LinkInv
  <2>2. owner' = owner /\ live' = live  BY <1>5
  <2>3. QED  BY <1>0, <1>5, <2>1, <2>2, NotYetAnswered
<1>6. CASE ClearState(t)
  <2>1. /\ pc[t] = "clear" /\ pc' = [pc EXCEPT ![t] = "send"]
        /\ note' = [note EXCEPT ![t].pending = FALSE]
        /\ UNCHANGED <<op, at, id, tx, xConnectionState, xSocket, xWaitingTasks>>
        /\ UNCHANGED <<owner, live, at>> /\ earned' = earned
    BY <1>6 DEF ClearState, At, GoTo, clientVars
  <2>2. Apart(t) /\ pc[t] # "wait"  BY <1>1, <2>1 DEF Apart
  <2>3. ~Answered(t)'  BY <1>1, <2>1 DEF Answered
  <2>4. QED  BY <1>5, <2>1, <2>2, <2>3
<1>7. CASE Enqueue(t)
  <2>1. /\ pc[t] = "send" /\ pc' = [pc EXCEPT ![t] = "wait"]
        /\ UNCHANGED <<op, at, id, note, tx, xConnectionState, xSocket, xWaitingTasks>>
        /\ UNCHANGED <<owner, live, at>> /\ earned' = earned
    BY <1>7 DEF Enqueue, At, GoTo, clientVars
  <2>2. Apart(t) /\ pc[t] # "wait"  BY <1>1, <2>1 DEF Apart
  <2>3. ~Answered(t)'
    <3>1. id[t] # 0  BY <1>0, <2>1, Constant DEF CallInv, CallsAreApart
    <3>2. note[t].id = 0  BY <1>0, <2>2, NotWaiting
    <3>3. QED  BY <2>1, <3>1, <3>2 DEF Answered
  <2>4. QED  BY <1>5, <2>1, <2>2, <2>3
<1>8. CASE QueueTimeout(t)
  <2>1. /\ pc[t] = "send" /\ pc' = [pc EXCEPT ![t] = "idle"]
        /\ op' = [op EXCEPT ![t] = "none"] /\ id' = [id EXCEPT ![t] = 0]
        /\ UNCHANGED <<at, note, tx, xConnectionState, xSocket, xWaitingTasks>>
        /\ UNCHANGED <<owner, live, at>> /\ earned' = earned \ {t}
    BY <1>8 DEF QueueTimeout, Finish, At, GoTo, clientVars
  <2>2. Apart(t) /\ pc[t] # "wait"  BY <1>1, <2>1 DEF Apart
  <2>3. ~Answered(t)' /\ op'[t] = "none"  BY <1>1, <2>1 DEF Answered
  <2>4. QED  BY <1>5, <2>1, <2>2, <2>3
<1>9. CASE Take(t) /\ note[t].id = id[t]  BY <1>9, TakingKeeps
<1>10. ASSUME UNCHANGED <<tx, xConnectionState, xSocket, xWaitingTasks, earned,
                          pc, op, at, id, live>>,
              owner' = owner,
              xCommandQueue' = xCommandQueue,
              \A u \in Tasks : /\ note'[u].id = note[u].id
                               /\ note'[u].answer = note[u].answer
                               /\ note[u].id # 0 => note'[u].pending
       PROVE  PacketInv' /\ LinkInv' /\ EarnedInv'
  <2>1. note' \in [Tasks -> Notes]  BY TypePartsNext DEF AgentTypes
  <2>2. \A u \in Tasks : Answered(u)' <=> Answered(u)
    BY <1>0, <1>10, <2>1, CallsUntouched
  <2>3. QED  BY <1>0, <1>10, <2>2, NoCallMoves
<1>11. CASE Take(t) /\ note[t].id # id[t]
  <2>1. /\ UNCHANGED <<tx, xConnectionState, xSocket, xWaitingTasks, earned,
                       pc, op, at, id, live>>
        /\ owner' = owner /\ xCommandQueue' = xCommandQueue
        /\ note' = [note EXCEPT ![t].pending = FALSE]
    BY <1>11 DEF Take, clientVars
  <2>2. note[t].id = 0  BY <1>0, <1>11, AnsweredByIdentifier DEF Answered
  <2>3. \A u \in Tasks : note[u].id # 0 => note[u].pending
    BY <1>0, AnsweredByIdentifier DEF Answered
  <2>4. \A u \in Tasks : /\ note'[u].id = note[u].id
                         /\ note'[u].answer = note[u].answer
                         /\ note[u].id # 0 => note'[u].pending
    BY <1>1, <2>1, <2>2, <2>3 DEF Notes
  <2>5. QED  BY <1>10, <2>1, <2>4
<1>12. CASE LateTransfer(t)
  <2>1. /\ UNCHANGED <<tx, xConnectionState, xSocket, xWaitingTasks, earned,
                       pc, op, at, id, live>>
        /\ owner' = owner /\ xCommandQueue' = xCommandQueue
        /\ (note' = note \/ note' = [note EXCEPT ![t].pending = TRUE])
    BY <1>12 DEF LateTransfer, clientVars
  <2>2. \A u \in Tasks : note[u].id # 0 => note[u].pending
    BY <1>0, AnsweredByIdentifier DEF Answered
  <2>3. \A u \in Tasks : /\ note'[u].id = note[u].id
                         /\ note'[u].answer = note[u].answer
                         /\ note[u].id # 0 => note'[u].pending
    BY <1>1, <2>1, <2>2 DEF Notes
  <2>4. QED  BY <1>10, <2>1, <2>3
<1>13. QED
  BY <1>2, <1>3, <1>4, <1>6, <1>7, <1>8, <1>9, <1>11, <1>12 DEF CallStep

-----------------------------------------------------------------------------
(* The invariant holds.                                                    *)

LEMMA InitHolds == Init => IInv
<1> SUFFICES ASSUME Init PROVE IInv  OBVIOUS
<1>1. /\ tx = [b \in Brokers |-> {}] /\ xConnectionState = [b \in Brokers |-> "not"]
      /\ xRxBuffer = [b \in Brokers |-> 0] /\ rxState = [b \in Brokers |-> "start"]
      /\ used = {} /\ xWaitingTasks = [b \in Brokers |-> {}] /\ xSocket = {}
      /\ earned = {} /\ xCommandQueue = <<>> /\ live = {}
      /\ pc = [t \in Tasks |-> "idle"] /\ op = [t \in Tasks |-> "none"]
      /\ at = [t \in Tasks |-> 1] /\ id = [t \in Tasks |-> 0]
      /\ note = [t \in Tasks |-> NoNote]
  BY DEF Init, ClientInit
<1>2. TypeOK
  <2>1. PoolTypes  BY <1>1, Constant DEF PoolTypes
  <2>2. CallTypes  BY <1>1, Constant DEF Init, CallTypes
  <2>3. xCommandQueue \in Seq(Entries)  BY <1>1
  <2>4. agent \in [step : {"command", "receive", "parse", "periodic"},
                   b : Brokers, left : 0..MaxPieces]
    BY Constant DEF Init
  <2>5. AgentTypes  BY <1>1, <2>3, <2>4, Constant DEF AgentTypes
  <2>6. QED  BY <2>1, <2>2, <2>5, TypeParts
<1>3. \A t \in Tasks : ~Answered(t) /\ op[t] = "none"  BY <1>1 DEF Answered
<1>4. CallInv
  <2>1. CallsAreApart  BY <1>1 DEF CallsAreApart
  <2>2. OnlyOpenCalls  BY <1>1 DEF OnlyOpenCalls, NoNote
  <2>3. OnePlace  BY <1>1 DEF OnePlace
  <2>4. QED  BY <2>1, <2>2, <2>3 DEF CallInv
<1>5. BuffersConserved  BY <1>1 DEF BuffersConserved, Held, RxHeld
<1>6. PacketInv
  <2>1. \A b \in Brokers : Fit(b)  BY <1>1 DEF Fit
  <2>2. QED  BY <1>2, <2>1, FitNow
<1>7. LinkInv  BY <1>1, <1>3 DEF LinkInv
<1>8. EarnedInv  BY <1>1, <1>3 DEF EarnedInv, SuccessIsTheBrokersGrant
<1>9. QED  BY <1>2, <1>4, <1>5, <1>6, <1>7, <1>8 DEF IInv

LEMMA InvariantKept == IInv /\ [Next]_vars => IInv'
<1> SUFFICES ASSUME IInv, [Next]_vars PROVE IInv'  OBVIOUS
<1>0. TypeOK /\ CallInv /\ BuffersConserved /\ PacketInv /\ LinkInv /\ EarnedInv
  BY DEF IInv
<1>1. ASSUME NEW t \in Tasks,
             \/ Create(t) \/ Delete(t) \/ CallStep(t) \/ LateTransfer(t)
             \/ \E o \in Ops, b \in Brokers : Begin(t, o, b)
      PROVE  IInv'
  <2>1. TypeOK'   BY <1>0, <1>1, CallersKeepTypes DEF CallInv
  <2>2. CallInv'  BY <1>0, <1>1, <2>1, CallersKeepCalls
  <2>3. PacketInv' /\ LinkInv' /\ EarnedInv'  BY <1>1, <2>1, CallersKeepLinks
  <2>4. UNCHANGED clientVars
    BY <1>1 DEF Create, Delete, CallStep, ClearState, Enqueue, QueueTimeout, Take,
                LateTransfer, Begin
  <2>5. BuffersConserved'  BY <1>0, <2>4, PoolUntouched, TypeParts
  <2>6. QED  BY <2>1, <2>2, <2>3, <2>5 DEF IInv
<1>2. CASE AgentStep
  <2>1. TypeOK' /\ BuffersConserved'  BY <1>0, <1>2, AgentKeepsTypes
  <2>2. Quiet /\ UNCHANGED callVars  BY <1>0, <1>2, AgentShapes
  <2>3. CASE Looking   BY <2>1, <2>2, <2>3, LookingKeeps DEF IInv
  <2>4. CASE Refusing  BY <2>1, <2>2, <2>4, RefusingKeeps DEF IInv
  <2>5. CASE Sending   BY <2>1, <2>2, <2>5, SendingKeeps DEF IInv
  <2>6. ASSUME NEW b \in Brokers, NEW A, Closing(b, A) PROVE IInv'
    BY <2>1, <2>2, <2>6, ClosingKeeps DEF IInv
  <2>7. ASSUME NEW b \in Brokers, NEW o \in Acked \cup {"connect"}, NEW i \in Ids,
               NEW granted \in BOOLEAN, NEW p \in tx[b],
               Answering(b, o, i, p, granted)
        PROVE  IInv'
    BY <2>1, <2>2, <2>7, AnsweringKeeps DEF IInv
  <2>8. ASSUME NEW b \in Brokers, NEW expired \in SUBSET tx[b], Expiring(b, expired)
        PROVE  IInv'
    BY <2>1, <2>2, <2>8, ExpiringKeeps DEF IInv
  <2>9. QED
    BY <1>0, <1>2, <2>3, <2>4, <2>5, <2>6, <2>7, <2>8, AgentShapes
<1>3. CASE UNCHANGED vars
  <2>1. TypeOK'  BY <1>0, <1>3 DEF vars, clientVars, callVars, TypeOK
  <2>2. CallInv'
    BY <1>0, <1>3 DEF vars, callVars, CallInv, CallsAreApart, OnlyOpenCalls, OnePlace,
                      InQueue, HasSlot, Answered, Command
  <2>3. BuffersConserved'
    <3>1. UNCHANGED clientVars  BY <1>3 DEF vars
    <3>2. QED  BY <1>0, <3>1, PoolUntouched, TypeParts
  <2>4. PacketInv'
    BY <1>0, <1>3 DEF vars, clientVars, callVars, PacketInv, WaitingTasksFitPackets,
                      PacketsFit
  <2>5. LinkInv' /\ EarnedInv'
    BY <1>0, <1>3 DEF vars, clientVars, callVars, LinkInv, EarnedInv, HasSlot, Answered,
                      SuccessIsTheBrokersGrant
  <2>6. QED  BY <2>1, <2>2, <2>3, <2>4, <2>5 DEF IInv
<1>4. QED  BY <1>1, <1>2, <1>3 DEF Next

\* The invariant holds in every state.
THEOREM InvariantHolds == Spec => []IInv
BY InitHolds, InvariantKept, PTL DEF Spec

-----------------------------------------------------------------------------
(* What it says of the agent.                                              *)

\* Every variable keeps its type.
THEOREM TypeCorrect == Spec => []TypeOK
<1>1. IInv => TypeOK  BY DEF IInv
<1>2. QED  BY InvariantHolds, <1>1, PTL

\* A call that waits is owed one answer, from the queue, a slot or the
\* notification, and a call that is over none.
THEOREM OwedOneAnswer == Spec => []EveryCallIsOwedOneAnswer
<1>1. IInv => EveryCallIsOwedOneAnswer
  <2> SUFFICES ASSUME IInv, NEW t \in Tasks
               PROVE  /\ \A k \in Queued(t) : xCommandQueue[k] = Command(t)
                      /\ \A b \in SlotsOf(t) :
                           [task |-> t, id |-> id[t]] \in xWaitingTasks[b] /\ at[t] = b
                      /\ Cardinality(Queued(t)) + Cardinality(SlotsOf(t))
                           + (IF Answered(t) THEN 1 ELSE 0) = IF pc[t] = "wait" THEN 1 ELSE 0
    BY DEF EveryCallIsOwedOneAnswer
  <2>1. TypeOK /\ CallInv /\ at[t] \in Brokers  BY TypeParts DEF IInv, CallTypes
  <2>2. \A k \in Queued(t) : xCommandQueue[k] = Command(t)
    BY <2>1 DEF Queued, CallInv, OnlyOpenCalls
  <2>3. \A b \in SlotsOf(t) : HasSlot(t) /\ at[t] = b
    BY <2>1, SlotOfCall DEF SlotsOf
  <2>4. Cardinality(Queued(t)) = IF InQueue(t) THEN 1 ELSE 0
    <3>1. CASE InQueue(t)
      <4>1. PICK k \in DOMAIN xCommandQueue : xCommandQueue[k].task = t
        BY <3>1 DEF InQueue
      <4>2. Queued(t) = {k}  BY <2>1, <4>1 DEF Queued, CallInv, OnlyOpenCalls
      <4>3. QED  BY <3>1, <4>2, FS_Singleton
    <3>2. CASE ~InQueue(t)
      <4>1. Queued(t) = {}  BY <3>2 DEF Queued, InQueue
      <4>2. QED  BY <3>2, <4>1, FS_EmptySet
    <3>3. QED  BY <3>1, <3>2
  <2>5. Cardinality(SlotsOf(t)) = IF HasSlot(t) THEN 1 ELSE 0
    <3>1. CASE HasSlot(t)
      <4>1. \E s \in xWaitingTasks[at[t]] : s.task = t  BY <3>1 DEF HasSlot
      <4>2. SlotsOf(t) = {at[t]}  BY <2>1, <2>3, <4>1 DEF SlotsOf
      <4>3. QED  BY <3>1, <4>2, FS_Singleton
    <3>2. CASE ~HasSlot(t)
      <4>1. SlotsOf(t) = {}  BY <2>3, <3>2
      <4>2. QED  BY <3>2, <4>1, FS_EmptySet
    <3>3. QED  BY <3>1, <3>2
  <2>6. CASE pc[t] = "wait"
    <3>1. /\ InQueue(t) \/ HasSlot(t) \/ Answered(t)
          /\ ~(InQueue(t) /\ HasSlot(t)) /\ ~(InQueue(t) /\ Answered(t))
          /\ ~(HasSlot(t) /\ Answered(t))
      BY <2>1, <2>6 DEF CallInv, OnePlace
    <3>2. QED  BY <2>2, <2>3, <2>4, <2>5, <2>6, <3>1 DEF HasSlot
  <2>7. CASE pc[t] # "wait"
    <3>1. ~InQueue(t) /\ ~HasSlot(t) /\ ~Answered(t)
      BY <2>1, <2>7, NotWaiting DEF HasSlot, Answered
    <3>2. QED  BY <2>2, <2>3, <2>4, <2>5, <2>7, <3>1
  <2>8. QED  BY <2>6, <2>7
<1>2. QED  BY InvariantHolds, <1>1, PTL

\* The agent's waiting tasks and the library's packets are the same calls.
THEOREM PacketsFitTasks == Spec => []WaitingTasksFitPackets
<1>1. IInv => WaitingTasksFitPackets  BY DEF IInv, PacketInv
<1>2. QED  BY InvariantHolds, <1>1, PTL

\* No buffer is lost, and none is held twice.
THEOREM NoBufferLost == Spec => []BuffersConserved
<1>1. IInv => BuffersConserved  BY DEF IInv
<1>2. QED  BY InvariantHolds, <1>1, PTL

\* The assertion of prvSetupConnection holds.
THEOREM NoSocketYet == Spec => []ConnectFindsNoSocket
<1>1. IInv => ConnectFindsNoSocket
  <2> SUFFICES ASSUME IInv, NEW k \in DOMAIN xCommandQueue,
                      xCommandQueue[k].op = "connect",
                      xCommandQueue[k].b \in xSocket
               PROVE  FALSE
    BY DEF ConnectFindsNoSocket
  <2>1. TypeOK /\ CallInv /\ LinkInv  BY DEF IInv
  <2> DEFINE t == xCommandQueue[k].task
  <2>2. t \in Tasks /\ xCommandQueue[k].b \in Brokers
    <3>1. xCommandQueue[k] \in Entries  BY <2>1, TypeParts DEF AgentTypes
    <3>2. QED  BY <3>1 DEF Entries
  <2>3. /\ pc[t] = "wait" /\ op[t] = "connect" /\ at[t] = xCommandQueue[k].b
        /\ InQueue(t)
    BY <2>1 DEF CallInv, OnlyOpenCalls, Command, InQueue
  <2> HIDE DEF t
  <2>4. owner[at[t]] = t /\ at[t] \notin live  BY <2>1, <2>2, <2>3 DEF LinkInv
  <2>5. xConnectionState[at[t]] # "not"  BY <2>1, <2>2, <2>3 DEF LinkInv
  <2>6. PICK u \in Tasks : /\ op[u] = "connect" /\ at[u] = at[t]
                           /\ HasSlot(u) \/ Answered(u)
    BY <2>1, <2>2, <2>3, <2>4, <2>5 DEF LinkInv
  <2>7. u = t  BY <2>1, <2>4, <2>6 DEF LinkInv
  <2>8. QED  BY <2>1, <2>2, <2>3, <2>6, <2>7 DEF CallInv, OnePlace
<1>2. QED  BY InvariantHolds, <1>1, PTL

\* A caller reads success exactly when the broker has granted its call, unless a late
\* I2C notification has changed the answer before it is read.
THEOREM SuccessIsGranted == Spec => []SuccessIsTheBrokersGrant
<1>1. IInv => SuccessIsTheBrokersGrant  BY DEF IInv, EarnedInv
<1>2. QED  BY InvariantHolds, <1>1, PTL

-----------------------------------------------------------------------------
(* The agent is the asynchronous call of MqttCalls.                        *)

\* A call is known by its place.
PlaceOf(t) ==
    IF pc[t] = "idle" THEN "none"
    ELSE IF Answered(t) THEN IF note[t].answer = "success" THEN "yes" ELSE "no"
    ELSE IF HasSlot(t) THEN "sent" ELSE "asked"

LEMMA CallsByPlace ==
    TypeOK /\ CallInv => calls = [t \in Tasks |-> PlaceOf(t)]
<1> SUFFICES ASSUME TypeOK, CallInv PROVE calls = [t \in Tasks |-> PlaceOf(t)]
  OBVIOUS
<1>1. \A t \in Tasks : at[t] \in Brokers  BY TypeParts DEF CallTypes
<1>2. \A t \in Tasks : SlotsOf(t) # {} <=> HasSlot(t)
  <2> SUFFICES ASSUME NEW t \in Tasks PROVE SlotsOf(t) # {} <=> HasSlot(t)
    OBVIOUS
  <2>1. ASSUME HasSlot(t) PROVE SlotsOf(t) # {}
    <3>1. \E s \in xWaitingTasks[at[t]] : s.task = t  BY <2>1 DEF HasSlot
    <3>2. QED  BY <1>1, <3>1 DEF SlotsOf
  <2>2. ASSUME SlotsOf(t) # {} PROVE HasSlot(t)
    <3>1. PICK b \in Brokers : \E s \in xWaitingTasks[b] : s.task = t
      BY <2>2 DEF SlotsOf
    <3>2. QED  BY <3>1, SlotOfCall
  <2>3. QED  BY <2>1, <2>2
<1>3. \A t \in Tasks : CallOf(t) = PlaceOf(t)  BY <1>2 DEF CallOf, PlaceOf
<1>4. QED  BY <1>3 DEF calls

LEMMA CallsByPlaceNext ==
    TypeOK' /\ CallInv' => calls' = [t \in Tasks |-> PlaceOf(t)']
<1>1. (TypeOK /\ CallInv => calls = [t \in Tasks |-> PlaceOf(t)])'
  BY CallsByPlace, PTL
<1>2. QED  BY <1>1

Moves == [Calls!Next]_(Calls!vars)

\* What is left to show of a step: where it leaves the calls.
LEMMA MovesByPlace ==
    ASSUME IInv, IInv'
    PROVE  /\ calls = [t \in Tasks |-> PlaceOf(t)]
           /\ calls' = [t \in Tasks |-> PlaceOf(t)']
           /\ (\A t \in Tasks : PlaceOf(t)' = PlaceOf(t)) => calls' = calls
<1>1. TypeOK /\ CallInv /\ TypeOK' /\ CallInv'  BY DEF IInv
<1>2. calls = [t \in Tasks |-> PlaceOf(t)]  BY <1>1, CallsByPlace
<1>3. calls' = [t \in Tasks |-> PlaceOf(t)']  BY <1>1, CallsByPlaceNext
<1>4. QED  BY <1>2, <1>3

\* The agent looks around.
LEMMA LookingMoves ==
    ASSUME IInv, IInv', Quiet, UNCHANGED callVars, Looking
    PROVE  Moves
<1>1. /\ UNCHANGED <<xConnectionState, note, xCommandQueue, xWaitingTasks>>
      /\ UNCHANGED <<pc, op, at, id>>
  BY DEF Looking, clientVars, callVars, ReceiveHeader, ReceiveDropped,
         ReceivePingResp, ReceiveIgnored
<1>2. \A t \in Tasks : PlaceOf(t)' = PlaceOf(t)
  BY <1>1 DEF PlaceOf, Answered, HasSlot
<1>3. calls' = calls  BY <1>2, MovesByPlace
<1>4. QED  BY <1>1, <1>3 DEF Moves, Calls!vars

\* A command that is answered at once.
LEMMA RefusingMoves ==
    ASSUME IInv, IInv', Quiet, UNCHANGED callVars, Refusing
    PROVE  Moves
<1>0. TypeOK /\ CallInv /\ TypeOK'  BY DEF IInv
<1>1. UNCHANGED <<pc, op, at, id>> /\ xConnectionState' = xConnectionState
      /\ xCommandQueue # <<>> /\ Served
  BY DEF Refusing, callVars, clientVars
<1>2. PICK t \in Tasks :
         t = Head(xCommandQueue).task /\ pc[t] = "wait" /\ InQueue(t)
  BY <1>0, <1>1, ServedQueue DEF Entries
<1>3. PICK a : ToldAndServed({}, a, a)  BY <1>0, RefusingKeeps
<1>4. /\ \A u \in Tasks : ~Answered(u)
      /\ \A u \in Tasks : Answered(u)' <=> u = t
      /\ \A u \in Tasks : HasSlot(u)' <=> HasSlot(u)
  BY <1>0, <1>2, <1>3, NobodyAnswered DEF ToldAndServed
<1>5. PlaceOf(t) = "asked" /\ PlaceOf(t)' \in {"yes", "no"}
  <2>1. ~HasSlot(t)  BY <1>0, <1>2, QuietPlaces
  <2>2. QED  BY <1>1, <1>2, <1>4, <2>1 DEF PlaceOf
<1>6. \A u \in Tasks \ {t} : PlaceOf(u)' = PlaceOf(u)
  BY <1>1, <1>4 DEF PlaceOf
<1>7. calls[t] = "asked" /\ calls' = [calls EXCEPT ![t] = PlaceOf(t)']
  BY <1>2, <1>5, <1>6, MovesByPlace
<1>8. Calls!AnsweredAtOnce(t, PlaceOf(t)')
  BY <1>1, <1>7 DEF Calls!AnsweredAtOnce
<1>9. QED  BY <1>2, <1>5, <1>8 DEF Moves, Calls!Next

\* A command that is sent.
LEMMA SendingMoves ==
    ASSUME IInv, IInv', Quiet, UNCHANGED callVars, Sending
    PROVE  Moves
<1>0. TypeOK /\ CallInv  BY DEF IInv
<1> DEFINE e == Head(xCommandQueue)
<1>1. /\ UNCHANGED <<pc, op, at, id>> /\ xCommandQueue # <<>> /\ Served
      /\ xConnectionState[e.b] = IF e.op = "connect" THEN "not" ELSE "connected"
      /\ xConnectionState' = [xConnectionState EXCEPT
                                ![e.b] = IF e.op = "connect" THEN "progress" ELSE @]
  BY DEF Sending, SendKept, Takes, callVars
<1>2. PICK t \in Tasks :
         t = e.task /\ pc[t] = "wait" /\ InQueue(t) /\ e.b = at[t]
  BY <1>0, <1>1, ServedQueue DEF Entries, Command
<1>3. /\ \A u \in Tasks : ~Answered(u)' /\ ~Answered(u)
      /\ \A u \in Tasks : HasSlot(u)' <=> HasSlot(u) \/ u = t
  <2>1. UNCHANGED <<pc, op, at, id>>  BY <1>1
  <2>2. QED  BY <1>0, <1>2, <2>1, SendingKeepsCalls, NobodyAnswered
<1>4. PlaceOf(t) = "asked" /\ PlaceOf(t)' = "sent"
  <2>1. ~HasSlot(t)  BY <1>0, <1>2, QuietPlaces
  <2>2. QED  BY <1>1, <1>2, <1>3, <2>1 DEF PlaceOf
<1>5. \A u \in Tasks \ {t} : PlaceOf(u)' = PlaceOf(u)  BY <1>1, <1>3 DEF PlaceOf
<1>6. calls[t] = "asked" /\ calls' = [calls EXCEPT ![t] = "sent"]
  BY <1>2, <1>4, <1>5, MovesByPlace
<1>7. \/ xConnectionState[at[t]] = "connected" /\ UNCHANGED xConnectionState
      \/ /\ xConnectionState[at[t]] = "not"
         /\ xConnectionState' = [xConnectionState EXCEPT ![at[t]] = "progress"]
  <2>1. xConnectionState \in [Brokers -> {"not", "progress", "connected"}]
    BY <1>0, TypeParts DEF PoolTypes
  <2>2. QED  BY <1>1, <1>2, <2>1
<1>8. Calls!Send(t)  BY <1>1, <1>6, <1>7 DEF Calls!Send
<1>9. QED  BY <1>2, <1>8 DEF Moves, Calls!Next

\* Tasks that are told that their call has failed, while a link stays as it is.
LEMMA ToldMoves ==
    ASSUME IInv, IInv', Quiet, UNCHANGED callVars, NEW b \in Brokers,
           NEW R \in SUBSET xWaitingTasks[b], NEW a, Told(R, a)
    PROVE  /\ \A t \in Tasks :
                PlaceOf(t)' = IF \E s \in R : s.task = t
                                THEN IF a = "success" THEN "yes" ELSE "no"
                                ELSE PlaceOf(t)
           /\ \A s \in R : /\ s.task \in Tasks /\ PlaceOf(s.task) = "sent"
                           /\ at[s.task] = b
<1>1. TypeOK /\ CallInv  BY DEF IInv
<1>2. UNCHANGED <<pc, op, at, id>>  BY DEF callVars
<1>3. \A s \in R : /\ s.task \in Tasks /\ pc[s.task] = "wait" /\ HasSlot(s.task)
                   /\ at[s.task] = b
  BY <1>1, SlotOfCall
<1>4. \A t \in Tasks : ~Answered(t)  BY <1>1, NobodyAnswered
<1>5. \A s \in R : PlaceOf(s.task) = "sent"  BY <1>3, <1>4 DEF PlaceOf
<1>6. ASSUME NEW t \in Tasks, NEW s \in R, s.task = t
      PROVE  PlaceOf(t)' = IF a = "success" THEN "yes" ELSE "no"
  <2>1. Answered(t)' /\ note'[t].answer = a  BY <1>6 DEF Told
  <2>2. pc'[t] = "wait"  BY <1>2, <1>3, <1>6
  <2>3. QED  BY <2>1, <2>2 DEF PlaceOf
<1>7. ASSUME NEW t \in Tasks, ~\E s \in R : s.task = t
      PROVE  PlaceOf(t)' = PlaceOf(t)
  <2>1. ~Answered(t)' /\ (HasSlot(t)' <=> HasSlot(t))  BY <1>7 DEF Told
  <2>2. QED  BY <1>2, <1>4, <2>1 DEF PlaceOf
<1>8. QED  BY <1>3, <1>5, <1>6, <1>7

\* An acknowledgement: one call is accepted, or refused.
LEMMA AnsweringMoves ==
    ASSUME IInv, IInv', Quiet, UNCHANGED callVars, NEW b \in Brokers,
           NEW o \in Acked \cup {"connect"}, NEW i \in Ids, NEW granted \in BOOLEAN,
           NEW p \in tx[b], Answering(b, o, i, p, granted)
    PROVE  Moves
<1>0. TypeOK /\ CallInv /\ PacketInv /\ TypeOK'  BY DEF IInv
<1> DEFINE R == Waiting(b, p.id)
           a == IF granted THEN "success" ELSE "failure"
<1>1. R \in SUBSET xWaitingTasks[b]  BY DEF Waiting
<1>2. Told(R, a)  BY <1>0, AnsweringKeeps
<1>3. a = "success" <=> granted  OBVIOUS
<1>4. Fit(b)  BY <1>0, FitNow
<1>5. PICK s \in R : TRUE  BY <1>4 DEF Fit, Waiting
<1>6. \A r \in R : r.task = s.task
  <2>1. \A r \in R : r \in xWaitingTasks[b] /\ r.id = p.id  BY DEF Waiting
  <2>2. QED  BY <1>0, <1>5, <2>1, SlotOfCall
<1> HIDE DEF R, a
<1>7. PICK t \in Tasks : t = s.task /\ PlaceOf(t) = "sent" /\ at[t] = b
  BY <1>1, <1>2, <1>5, ToldMoves
<1>8. \A u \in Tasks : (\E r \in R : r.task = u) <=> u = t  BY <1>5, <1>6, <1>7
<1>9. \A u \in Tasks :
         PlaceOf(u)' = IF u = t THEN IF granted THEN "yes" ELSE "no" ELSE PlaceOf(u)
  BY <1>1, <1>2, <1>3, <1>8, ToldMoves
<1>10. /\ p.op = o /\ (~granted => o = "subscribe")
       /\ xConnectionState' =
            [xConnectionState EXCEPT ![b] = IF p.op = "connect" THEN "connected" ELSE @]
       /\ at' = at
  BY DEF Answering, Matches, ReceiveAnswer, callVars
<1>11. xConnectionState \in [Brokers -> {"not", "progress", "connected"}]
  BY <1>0, TypeParts DEF PoolTypes
<1>12. xConnectionState[b] # "not" /\ (p.op # "connect" => xConnectionState[b] = "connected")
  BY <1>4, <1>11 DEF Fit
<1>13. CASE granted
  <2>1. calls[t] = "sent" /\ calls' = [calls EXCEPT ![t] = "yes"]
    BY <1>7, <1>9, <1>13, MovesByPlace
  <2>2. xConnectionState' = [xConnectionState EXCEPT ![at[t]] = "connected"]
    BY <1>7, <1>10, <1>11, <1>12
  <2>3. Calls!Accepted(t)  BY <1>7, <1>10, <1>12, <2>1, <2>2 DEF Calls!Accepted
  <2>4. QED  BY <2>3 DEF Moves, Calls!Next
<1>14. CASE ~granted
  <2>1. xConnectionState[at[t]] = "connected" /\ xConnectionState' = xConnectionState
    BY <1>7, <1>10, <1>11, <1>12, <1>14
  <2>2. calls[t] = "sent"
        /\ calls' = [u \in Tasks |-> IF u \in {t} THEN "no" ELSE calls[u]]
    BY <1>7, <1>9, <1>14, MovesByPlace
  <2>3. Calls!Unanswered({t})  BY <1>10, <2>1, <2>2 DEF Calls!Unanswered
  <2>4. {t} \in SUBSET Tasks  OBVIOUS
  <2>5. QED  BY <2>3, <2>4 DEF Moves, Calls!Next
<1>15. QED  BY <1>13, <1>14

\* Calls that are not answered in time.
LEMMA ExpiringMoves ==
    ASSUME IInv, IInv', Quiet, UNCHANGED callVars, NEW b \in Brokers,
           NEW expired \in SUBSET tx[b], Expiring(b, expired)
    PROVE  Moves
<1>0. TypeOK /\ CallInv /\ PacketInv /\ TypeOK'  BY DEF IInv
<1> DEFINE R == UNION {Waiting(b, p.id) : p \in expired}
           S == {t \in Tasks : \E s \in R : s.task = t}
<1>1. R \in SUBSET xWaitingTasks[b]  BY DEF Waiting
<1>2. Told(R, "timeout")  BY <1>0, ExpiringKeeps
<1>3. R # {} => expired # {}  OBVIOUS
<1> HIDE DEF R
<1>4. /\ \A p \in expired : p.op # "connect"
      /\ xConnectionState' = xConnectionState /\ at' = at
  BY DEF Expiring, ReturnExpired, callVars
<1>5. R # {} => xConnectionState[b] = "connected"
  <2>1. xConnectionState[b] \in {"not", "progress", "connected"}
    BY <1>0, TypeParts DEF PoolTypes
  <2>2. Fit(b)  BY <1>0, FitNow
  <2>3. QED  BY <1>3, <1>4, <2>1, <2>2 DEF Fit
<1>6. \A t \in Tasks : PlaceOf(t)' = IF t \in S THEN "no" ELSE PlaceOf(t)
  BY <1>1, <1>2, ToldMoves
<1>7. \A t \in S : PlaceOf(t) = "sent" /\ xConnectionState[at[t]] = "connected"
  BY <1>1, <1>2, <1>5, ToldMoves
<1>8. S \in SUBSET Tasks  OBVIOUS
<1> HIDE DEF S
<1>9. /\ \A t \in S : calls[t] = "sent"
      /\ calls' = [t \in Tasks |-> IF t \in S THEN "no" ELSE calls[t]]
  BY <1>6, <1>7, <1>8, MovesByPlace
<1>10. Calls!Unanswered(S)  BY <1>4, <1>7, <1>9 DEF Calls!Unanswered
<1>11. QED  BY <1>8, <1>10 DEF Moves, Calls!Next

\* A link goes down, and with it the calls sent on it.
LEMMA ClosingMoves ==
    ASSUME IInv, IInv', Quiet, UNCHANGED callVars, NEW b \in Brokers, NEW A,
           Closing(b, A)
    PROVE  Moves
<1>0. TypeOK /\ CallInv /\ PacketInv /\ TypeOK'  BY DEF IInv
<1>1. /\ xConnectionState' = [xConnectionState EXCEPT ![b] = "not"]
      /\ UNCHANGED <<pc, op, at, id>>
  BY DEF Closing, Lose, ResetMQTTContext, callVars
<1>2. xConnectionState \in [Brokers -> {"not", "progress", "connected"}]
  BY <1>0, TypeParts DEF PoolTypes
<1>3. PICK R \in SUBSET xWaitingTasks[b] : R = xWaitingTasks[b]  OBVIOUS
<1>4. \A t \in Tasks : ~Answered(t)  BY <1>0, NobodyAnswered
<1>5. \A t \in Tasks : (\E s \in R : s.task = t) <=> PlaceOf(t) = "sent" /\ at[t] = b
  <2> SUFFICES ASSUME NEW t \in Tasks
               PROVE  (\E s \in R : s.task = t) <=> PlaceOf(t) = "sent" /\ at[t] = b
    OBVIOUS
  <2>1. ASSUME NEW s \in R, s.task = t PROVE PlaceOf(t) = "sent" /\ at[t] = b
    BY <1>0, <1>3, <1>4, <2>1, SlotOfCall DEF PlaceOf
  <2>2. ASSUME PlaceOf(t) = "sent", at[t] = b PROVE \E s \in R : s.task = t
    BY <1>3, <1>4, <2>2 DEF PlaceOf, HasSlot
  <2>3. QED  BY <2>1, <2>2
<1>6. \/ A = {} /\ Told(R, "failure")
      \/ /\ xCommandQueue # <<>> /\ Served /\ Head(xCommandQueue).b = b
         /\ \E a : ToldAndServed(R, "failure", a)
  BY <1>0, <1>3, ClosingKeeps
<1>7. xConnectionState[b] = "not" => R = {} /\ xConnectionState' = xConnectionState
  <2>1. Fit(b)  BY <1>0, FitNow
  <2>2. QED  BY <1>1, <1>2, <1>3, <2>1 DEF Fit
<1>8. Calls!Sent(b) = {t \in Tasks : PlaceOf(t) = "sent" /\ at[t] = b}
  BY MovesByPlace DEF Calls!Sent
<1>9. CASE Told(R, "failure")
  <2>1. \A t \in Tasks : PlaceOf(t)' =
           IF PlaceOf(t) = "sent" /\ at[t] = b THEN "no" ELSE PlaceOf(t)
    BY <1>5, <1>9, ToldMoves
  <2>2. calls' = [t \in Tasks |-> IF t \in Calls!Sent(b) THEN "no"
                                  ELSE IF t \in {} THEN "no" ELSE calls[t]]
    BY <1>8, <2>1, MovesByPlace
  <2>3. CASE xConnectionState[b] # "not"
    <3>1. Calls!LoseFor(b, {}, "no")  BY <1>1, <2>2, <2>3 DEF Calls!LoseFor
    <3>2. QED  BY <3>1 DEF Moves, Calls!Next, Calls!Lose
  <2>4. CASE xConnectionState[b] = "not"
    <3>1. \A t \in Tasks : PlaceOf(t)' = PlaceOf(t)  BY <1>5, <1>7, <2>1, <2>4
    <3>2. calls' = calls  BY <3>1, MovesByPlace
    <3>3. QED  BY <1>1, <1>7, <2>4, <3>2 DEF Moves, Calls!vars
  <2>5. QED  BY <2>3, <2>4
<1>10. ASSUME xCommandQueue # <<>>, Served, Head(xCommandQueue).b = b,
              NEW a, ToldAndServed(R, "failure", a)
       PROVE  Moves
  <2>1. PICK t \in Tasks : /\ t = Head(xCommandQueue).task /\ pc[t] = "wait"
                           /\ InQueue(t) /\ at[t] = b
    BY <1>0, <1>1, <1>10, ServedQueue DEF Entries, Command
  <2>2. PlaceOf(t) = "asked"
    <3>1. ~HasSlot(t)  BY <1>0, <2>1, QuietPlaces
    <3>2. QED  BY <1>4, <2>1, <3>1 DEF PlaceOf
  <2>3. Answered(t)' /\ note'[t].answer = a  BY <1>10, <2>1 DEF ToldAndServed
  <2>4. PlaceOf(t)' = IF a = "success" THEN "yes" ELSE "no"
    BY <1>1, <2>1, <2>3 DEF PlaceOf
  <2>5. ASSUME NEW u \in Tasks \ {t}
        PROVE  PlaceOf(u)' = IF PlaceOf(u) = "sent" /\ at[u] = b THEN "no" ELSE PlaceOf(u)
    <3>1. CASE \E s \in R : s.task = u
      <4>1. Answered(u)' /\ note'[u].answer = "failure"
        BY <1>10, <2>1, <3>1 DEF ToldAndServed
      <4>2. pc'[u] # "idle"  BY <1>1, <1>5, <3>1 DEF PlaceOf
      <4>3. PlaceOf(u)' = "no"  BY <4>1, <4>2 DEF PlaceOf
      <4>4. QED  BY <1>5, <3>1, <4>3
    <3>2. CASE ~\E s \in R : s.task = u
      <4>1. ~Answered(u)' /\ (HasSlot(u)' <=> HasSlot(u))
        BY <1>10, <2>1, <3>2 DEF ToldAndServed
      <4>2. PlaceOf(u)' = PlaceOf(u)  BY <1>1, <1>4, <4>1 DEF PlaceOf
      <4>3. QED  BY <1>5, <3>2, <4>2
    <3>3. QED  BY <3>1, <3>2
  <2>6. PICK r \in {"yes", "no"} : PlaceOf(t)' = r  BY <2>4
  <2>7. CASE xConnectionState[b] # "not"
    <3>1. calls' = [u \in Tasks |-> IF u \in Calls!Sent(b) THEN "no"
                                    ELSE IF u \in {t} THEN r ELSE calls[u]]
      BY <1>8, <2>1, <2>2, <2>5, <2>6, MovesByPlace
    <3>2. calls[t] = "asked"  BY <2>2, MovesByPlace
    <3>3. Calls!LoseFor(b, {t}, r)
      BY <1>1, <2>1, <2>7, <3>1, <3>2 DEF Calls!LoseFor
    <3>4. QED  BY <3>3 DEF Moves, Calls!Next, Calls!Lose
  <2>8. CASE xConnectionState[b] = "not"
    <3>1. \A u \in Tasks \ {t} : PlaceOf(u)' = PlaceOf(u)
      BY <1>5, <1>7, <2>5, <2>8
    <3>2. calls[t] = "asked" /\ calls' = [calls EXCEPT ![t] = r]
      BY <2>2, <2>6, <3>1, MovesByPlace
    <3>3. Calls!AnsweredAtOnce(t, r)
      BY <1>1, <1>7, <2>8, <3>2 DEF Calls!AnsweredAtOnce
    <3>4. QED  BY <3>3 DEF Moves, Calls!Next
  <2>9. QED  BY <2>7, <2>8
<1>11. QED  BY <1>6, <1>9, <1>10

\* A step of one caller leaves the calls of the others where they are.
LEMMA CallerMoves ==
    ASSUME IInv, IInv', NEW t \in Tasks, Apart(t)
    PROVE  /\ calls[t] = PlaceOf(t)
           /\ calls' = [calls EXCEPT ![t] = PlaceOf(t)']
<1>1. \A u \in Tasks \ {t} :
         /\ Answered(u)' <=> Answered(u)
         /\ HasSlot(u)' <=> HasSlot(u)
         /\ pc'[u] = pc[u] /\ op'[u] = op[u] /\ at'[u] = at[u] /\ note'[u] = note[u]
  BY OthersUnmoved
<1>2. \A u \in Tasks \ {t} : PlaceOf(u)' = PlaceOf(u)  BY <1>1 DEF PlaceOf
<1>3. /\ calls = [u \in Tasks |-> PlaceOf(u)]
      /\ calls' = [u \in Tasks |-> PlaceOf(u)']
  BY MovesByPlace
<1>4. QED  BY <1>2, <1>3

\* What the callers do is a call that begins or returns, or nothing.
LEMMA CallersMove ==
    ASSUME IInv, IInv', NEW t \in Tasks,
           \/ Create(t) \/ Delete(t) \/ CallStep(t) \/ LateTransfer(t)
           \/ \E o \in Ops, b \in Brokers : Begin(t, o, b)
    PROVE  Moves
<1>0. TypeOK /\ CallInv /\ TypeOK' /\ CallInv'  BY DEF IInv
<1>1. /\ pc \in [Tasks -> {"idle", "clear", "send", "wait"}]
      /\ op \in [Tasks -> Ops \cup {"none"}] /\ id \in [Tasks -> 0..MaxId]
      /\ note \in [Tasks -> Notes] /\ at \in [Tasks -> Brokers]
  BY <1>0, TypeParts DEF CallTypes, AgentTypes
<1>2. xConnectionState' = xConnectionState
  BY DEF Create, Delete, CallStep, ClearState, Enqueue, QueueTimeout, Take,
         LateTransfer, Begin, clientVars
<1>3. calls \in [Tasks -> {"none", "asked", "sent", "yes", "no"}]
  BY <1>0, CallsByPlace DEF PlaceOf
<1>4. ASSUME Apart(t), UNCHANGED at, PlaceOf(t)' = PlaceOf(t) PROVE Moves
  <2>1. calls' = calls  BY <1>3, <1>4, CallerMoves
  <2>2. QED  BY <1>2, <1>4, <2>1 DEF Moves, Calls!vars
<1>5. ASSUME Apart(t), UNCHANGED at, pc'[t] = "idle",
             PlaceOf(t) \in {"asked", "yes", "no"}
      PROVE  Moves
  <2>1. PlaceOf(t)' = "none"  BY <1>5 DEF PlaceOf
  <2>2. calls[t] \in {"asked", "yes", "no"} /\ calls' = [calls EXCEPT ![t] = "none"]
    BY <1>5, <2>1, CallerMoves
  <2>3. Calls!Return(t)  BY <1>2, <1>5, <2>2 DEF Calls!Return
  <2>4. QED  BY <2>3 DEF Moves, Calls!Next
<1>6. ASSUME pc[t] # "wait" PROVE ~Answered(t) /\ ~HasSlot(t)
  BY <1>0, <1>1, <1>6, NotWaiting DEF Answered, HasSlot
<1>7. CASE Create(t) \/ Delete(t)
  <2>1. UNCHANGED <<pc, op, at, id, note, xWaitingTasks>>
        /\ UNCHANGED <<tx, xConnectionState, xSocket>>
    BY <1>7 DEF Create, Delete, clientVars
  <2>2. Apart(t)  BY <2>1 DEF Apart
  <2>3. PlaceOf(t)' = PlaceOf(t)  BY <2>1 DEF PlaceOf, Answered, HasSlot
  <2>4. QED  BY <1>4, <2>1, <2>2, <2>3
<1>8. ASSUME NEW o \in Ops, NEW b \in Brokers, Begin(t, o, b) PROVE Moves
  <2>1. /\ pc[t] = "idle" /\ pc' = [pc EXCEPT ![t] = "clear"]
        /\ op' = [op EXCEPT ![t] = o] /\ at' = [at EXCEPT ![t] = b]
        /\ id' = [id EXCEPT ![t] = nextId]
        /\ UNCHANGED <<note, tx, xConnectionState, xSocket, xWaitingTasks>>
    BY <1>8 DEF Begin, At, GoTo, clientVars
  <2>2. Apart(t) /\ pc'[t] = "clear"  BY <1>1, <2>1 DEF Apart
  <2>3. PlaceOf(t) = "none"  BY <2>1 DEF PlaceOf
  <2>4. PlaceOf(t)' = "asked"
    <3>1. ~Answered(t)'  BY <2>2 DEF Answered
    <3>2. ~HasSlot(t)'
      <4>1. \A s \in xWaitingTasks[b] : s.task # t  BY <1>0, <2>1, NotWaiting
      <4>2. at'[t] = b /\ xWaitingTasks' = xWaitingTasks  BY <1>1, <2>1
      <4>3. QED  BY <4>1, <4>2 DEF HasSlot
    <3>3. QED  BY <2>2, <3>1, <3>2 DEF PlaceOf
  <2>5. calls[t] = "none" /\ calls' = [calls EXCEPT ![t] = "asked"]
    BY <2>2, <2>3, <2>4, CallerMoves
  <2>6. Calls!Ask(t)  BY <1>2, <2>1, <2>5 DEF Calls!Ask
  <2>7. QED  BY <2>6 DEF Moves, Calls!Next
<1>9. CASE ClearState(t)
  <2>1. /\ pc[t] = "clear" /\ pc' = [pc EXCEPT ![t] = "send"]
        /\ note' = [note EXCEPT ![t].pending = FALSE]
        /\ UNCHANGED <<op, at, id, tx, xConnectionState, xSocket, xWaitingTasks>>
    BY <1>9 DEF ClearState, At, GoTo, clientVars
  <2>2. Apart(t) /\ pc'[t] = "send"  BY <1>1, <2>1 DEF Apart
  <2>3. ~Answered(t) /\ ~HasSlot(t)  BY <1>6, <2>1
  <2>4. ~Answered(t)' /\ ~HasSlot(t)'  BY <2>1, <2>2, <2>3 DEF Answered, HasSlot
  <2>5. PlaceOf(t)' = PlaceOf(t)  BY <2>1, <2>2, <2>3, <2>4 DEF PlaceOf
  <2>6. QED  BY <1>4, <2>1, <2>2, <2>5
<1>10. CASE Enqueue(t)
  <2>1. /\ pc[t] = "send" /\ pc' = [pc EXCEPT ![t] = "wait"]
        /\ UNCHANGED <<op, at, id, note, tx, xConnectionState, xSocket, xWaitingTasks>>
    BY <1>10 DEF Enqueue, At, GoTo, clientVars
  <2>2. Apart(t) /\ pc'[t] = "wait"  BY <1>1, <2>1 DEF Apart
  <2>3. ~Answered(t) /\ ~HasSlot(t)  BY <1>6, <2>1
  <2>4. ~Answered(t)' /\ ~HasSlot(t)'
    <3>1. id[t] # 0  BY <1>0, <2>1, Constant DEF CallInv, CallsAreApart
    <3>2. note[t].id = 0  BY <1>0, <2>1, NotWaiting
    <3>3. QED  BY <2>1, <2>3, <3>1, <3>2 DEF Answered, HasSlot
  <2>5. PlaceOf(t)' = PlaceOf(t)  BY <2>1, <2>2, <2>3, <2>4 DEF PlaceOf
  <2>6. QED  BY <1>4, <2>1, <2>2, <2>5
<1>11. CASE QueueTimeout(t)
  <2>1. /\ pc[t] = "send" /\ pc' = [pc EXCEPT ![t] = "idle"]
        /\ op' = [op EXCEPT ![t] = "none"] /\ id' = [id EXCEPT ![t] = 0]
        /\ UNCHANGED <<at, note, tx, xConnectionState, xSocket, xWaitingTasks>>
    BY <1>11 DEF QueueTimeout, Finish, At, GoTo, clientVars
  <2>2. Apart(t) /\ pc'[t] = "idle"  BY <1>1, <2>1 DEF Apart
  <2>3. PlaceOf(t) = "asked"  BY <1>6, <2>1 DEF PlaceOf
  <2>4. QED  BY <1>5, <2>1, <2>2, <2>3
<1>12. CASE Take(t) /\ note[t].id = id[t]
  <2>1. /\ pc[t] = "wait" /\ note[t].pending /\ pc' = [pc EXCEPT ![t] = "idle"]
        /\ op' = [op EXCEPT ![t] = "none"] /\ id' = [id EXCEPT ![t] = 0]
        /\ note' = [note EXCEPT ![t] = NoNote]
        /\ UNCHANGED <<at, tx, xConnectionState, xSocket, xWaitingTasks>>
    BY <1>12 DEF Take, Finish, At, GoTo, clientVars
  <2>2. Apart(t) /\ pc'[t] = "idle"  BY <1>1, <2>1 DEF Apart
  <2>3. PlaceOf(t) \in {"yes", "no"}  BY <1>12, <2>1 DEF PlaceOf, Answered
  <2>4. QED  BY <1>5, <2>1, <2>2, <2>3
<1>13. ASSUME UNCHANGED <<tx, xConnectionState, xSocket, xWaitingTasks,
                          pc, op, at, id, xCommandQueue>>,
              \A u \in Tasks : /\ note'[u].id = note[u].id
                               /\ note'[u].answer = note[u].answer
                               /\ note[u].id # 0 => note'[u].pending
       PROVE  Moves
  <2>1. note' \in [Tasks -> Notes]  BY <1>0, TypePartsNext DEF AgentTypes
  <2>2. \A u \in Tasks : Answered(u)' <=> Answered(u)
    BY <1>0, <1>13, <2>1, CallsUntouched
  <2>3. \A u \in Tasks : PlaceOf(u)' = PlaceOf(u)
    BY <1>13, <2>2 DEF PlaceOf, HasSlot
  <2>4. calls' = calls  BY <2>3, MovesByPlace
  <2>5. QED  BY <1>13, <2>4 DEF Moves, Calls!vars
<1>14. CASE Take(t) /\ note[t].id # id[t]
  <2>1. /\ UNCHANGED <<tx, xConnectionState, xSocket, xWaitingTasks,
                       pc, op, at, id, xCommandQueue>>
        /\ note' = [note EXCEPT ![t].pending = FALSE]
    BY <1>14 DEF Take, clientVars
  <2>2. note[t].id = 0  BY <1>0, <1>14, AnsweredByIdentifier DEF Answered
  <2>3. \A u \in Tasks : note[u].id # 0 => note[u].pending
    BY <1>0, AnsweredByIdentifier DEF Answered
  <2>4. \A u \in Tasks : /\ note'[u].id = note[u].id
                         /\ note'[u].answer = note[u].answer
                         /\ note[u].id # 0 => note'[u].pending
    BY <1>1, <2>1, <2>2, <2>3 DEF Notes
  <2>5. QED  BY <1>13, <2>1, <2>4
<1>15. CASE LateTransfer(t)
  <2>1. /\ UNCHANGED <<tx, xConnectionState, xSocket, xWaitingTasks,
                       pc, op, at, id, xCommandQueue>>
        /\ (note' = note \/ note' = [note EXCEPT ![t].pending = TRUE])
    BY <1>15 DEF LateTransfer, clientVars
  <2>2. \A u \in Tasks : note[u].id # 0 => note[u].pending
    BY <1>0, AnsweredByIdentifier DEF Answered
  <2>3. \A u \in Tasks : /\ note'[u].id = note[u].id
                         /\ note'[u].answer = note[u].answer
                         /\ note[u].id # 0 => note'[u].pending
    BY <1>1, <2>1, <2>2 DEF Notes
  <2>4. QED  BY <1>13, <2>1, <2>3
<1>16. QED
  BY <1>7, <1>8, <1>9, <1>10, <1>11, <1>12, <1>14, <1>15 DEF CallStep

LEMMA InitRefines == Init => Calls!Init
<1> SUFFICES ASSUME Init PROVE Calls!Init  OBVIOUS
<1>1. TypeOK /\ CallInv  BY InitHolds DEF IInv
<1>2. \A t \in Tasks : PlaceOf(t) = "none"  BY DEF Init, PlaceOf
<1>3. calls = [t \in Tasks |-> "none"]  BY <1>1, <1>2, CallsByPlace
<1>4. at \in [Tasks -> Brokers]  BY <1>1, TypeParts DEF CallTypes
<1>5. xConnectionState = [b \in Brokers |-> "not"]  BY DEF Init, ClientInit
<1>6. QED  BY <1>3, <1>4, <1>5 DEF Calls!Init

LEMMA StepMoves == IInv /\ IInv' /\ [Next]_vars => Moves
<1> SUFFICES ASSUME IInv, IInv', [Next]_vars PROVE Moves  OBVIOUS
<1>1. ASSUME NEW t \in Tasks,
             \/ Create(t) \/ Delete(t) \/ CallStep(t) \/ LateTransfer(t)
             \/ \E o \in Ops, b \in Brokers : Begin(t, o, b)
      PROVE  Moves
  BY <1>1, CallersMove
<1>2. CASE AgentStep
  <2>0. TypeOK /\ PacketInv /\ LinkInv  BY DEF IInv
  <2>1. Quiet /\ UNCHANGED callVars  BY <1>2, <2>0, AgentShapes
  <2>2. CASE Looking   BY <2>1, <2>2, LookingMoves
  <2>3. CASE Refusing  BY <2>1, <2>3, RefusingMoves
  <2>4. CASE Sending   BY <2>1, <2>4, SendingMoves
  <2>5. ASSUME NEW b \in Brokers, NEW A, Closing(b, A) PROVE Moves
    BY <2>1, <2>5, ClosingMoves
  <2>6. ASSUME NEW b \in Brokers, NEW o \in Acked \cup {"connect"}, NEW i \in Ids,
               NEW granted \in BOOLEAN, NEW p \in tx[b],
               Answering(b, o, i, p, granted)
        PROVE  Moves
    BY <2>1, <2>6, AnsweringMoves
  <2>7. ASSUME NEW b \in Brokers, NEW expired \in SUBSET tx[b], Expiring(b, expired)
        PROVE  Moves
    BY <2>1, <2>7, ExpiringMoves
  <2>8. QED
    BY <1>2, <2>0, <2>2, <2>3, <2>4, <2>5, <2>6, <2>7, AgentShapes
<1>3. CASE UNCHANGED vars
  <2>1. UNCHANGED <<pc, op, at, id, note, xWaitingTasks, xConnectionState>>
    BY <1>3 DEF vars, callVars, clientVars
  <2>2. \A t \in Tasks : PlaceOf(t)' = PlaceOf(t)
    BY <2>1 DEF PlaceOf, Answered, HasSlot
  <2>3. calls' = calls  BY <2>2, MovesByPlace
  <2>4. QED  BY <2>1, <2>3 DEF Moves, Calls!vars
<1>4. QED  BY <1>1, <1>2, <1>3 DEF Next

\* A call is answered once, at the latest when its connection goes away, and
\* its answer is not taken back.
THEOREM AgentIsTheCall == Spec => ImplementsCalls
BY InitRefines, StepMoves, InvariantHolds, PTL
   DEF Spec, ImplementsCalls, Calls!Spec, Moves
=============================================================================

-------------------------- MODULE SocketPoolProofs --------------------------
(***************************************************************************)
(* The semaphore and the sockets are never lost, and SecureSockets          *)
(* implements SocketPool, for any tasks and any number of sockets.  The    *)
(* actions are first reduced to nine kinds by what they do to the sockets; *)
(* the proofs then go by kinds.                                            *)
(***************************************************************************)
EXTENDS SecureSocketsProofs

-----------------------------------------------------------------------------
(* What a step does to the sockets                                         *)

\* The task keeps the handle it has, or has none still.
SameHandle(t) ==
    /\ Holds(t)' <=> Holds(t)
    /\ Holds(t) => sock'[t] = sock[t]

\* Sockets, contexts and connections stay as they are; another task's socket may
\* be crossed.
Quiet(t) ==
    /\ UNCHANGED <<inUse, stale, up, ctx>>
    /\ SameHandle(t)
    /\ past' \in {past, "crossed"}
    /\ past = "none" => past' = "none"

\* The context of the socket at hand changes, whoever it belongs to by now.
TouchesContext(t) ==
    /\ UNCHANGED <<inUse, stale, up>>
    /\ Holds(t) /\ SameHandle(t)
    /\ \E c \in {"null", "live", "ready", "freed"} :
           ctx' = [ctx EXCEPT ![sock[t]] = c]
    /\ Touch(t)

Kind(t) ==
    \/ Claim(t) \/ ReturnSocket(t) \/ CloseInvalid(t)
    \/ Close(t) \/ ActConnect(t) \/ ActReset(t) \/ Clear(t)
    \/ TouchesContext(t) \/ Quiet(t)

\* A task between its operations has its handle.
LEMMA AtHand ==
    ASSUME TypeOK, Control, NEW t \in Tasks,
           pc[t] \in {"fresh", "cleanup", "return", "done", "tls", "handshake"}
    PROVE  Holds(t) /\ sock[t] \in Sockets
<1>1. op[t] = "none"
  BY DEF Control, ControlOf, Critical
<1>2. QED
  BY <1>1, SocketsAssumption DEF Control, ControlOf, Holds, NoSocket, Sockets

\* Every step is of one of these kinds.
LEMMA Kinds ==
    ASSUME TypeOK, Control, NeverReset,
           NEW t \in Tasks, Call(t) \/ Step(t)
    PROVE  Kind(t)
<1> USE DEF TypeOK, Control, ControlOf, NeverReset, Critical, SocketOps,
           SameHandle, Holds, Sockets, NoSocket, Nums, GoTo, Stage, Enter,
           Result, Touch, Accept, poolVars, moduleVars, taskVars, historyVars
<1>1. Nums
  BY SocketsAssumption DEF Nums
<1>2. Call(t) \/ Step(t)
  OBVIOUS
<1>3. QED
  <2>1. CASE Socket(t)
    BY <2>1 DEF Socket, Kind, Quiet
  <2>2. CASE Claim(t)
    BY <2>2 DEF Kind
  <2>3. CASE Skip(t)
    BY <2>3 DEF Skip, Kind, Quiet
  <2>4. CASE NoneFree(t)
    BY <2>4 DEF NoneFree, Kind, Quiet
  <2>5. CASE Prepare(t)
    <3>1. Holds(t)
      BY <2>5, AtHand DEF Prepare
    <3>2. UNCHANGED <<inUse, stale, up, sock>> /\ pc'[t] # "scan"
      BY <2>5 DEF Prepare
    <3>3. \E c \in {"null", "live", "ready", "freed"} : ctx' = [ctx EXCEPT ![sock[t]] = c]
      BY <2>5 DEF Prepare
    <3>4. Touch(t)
      BY <2>5 DEF Prepare
    <3>5. QED
      BY <3>1, <3>2, <3>3, <3>4 DEF Kind, TouchesContext
  <2>6. CASE RequireTls(t)
    BY <2>6 DEF RequireTls, Kind, Quiet
  <2>7. CASE Shutdown(t)
    BY <2>7 DEF Shutdown, Kind, Quiet
  <2>8. CASE Connect(t)
    BY <2>8 DEF Connect, Kind, Quiet
  <2>9. ASSUME NEW o \in {"send", "recv"}, Transfer(t, o) PROVE Kind(t)
    BY <2>9 DEF Transfer, Kind, Quiet
  <2>10. CASE Close(t)
    BY <2>10 DEF Kind
  <2>11. CASE Cleanup(t)
    <3>1. Holds(t)
      BY <2>11, AtHand DEF Cleanup
    <3>2. UNCHANGED <<inUse, stale, up, sock>> /\ pc'[t] # "scan"
      BY <2>11 DEF Cleanup
    <3>3. \E c \in {"null", "live", "ready", "freed"} : ctx' = [ctx EXCEPT ![sock[t]] = c]
      BY <2>11 DEF Cleanup, Free
    <3>4. Touch(t)
      BY <2>11 DEF Cleanup
    <3>5. QED
      BY <3>1, <3>2, <3>3, <3>4 DEF Kind, TouchesContext
  <2>12. CASE CloseInvalid(t)
    BY <2>12 DEF Kind
  <2>13. CASE ReturnSocket(t)
    BY <2>13 DEF Kind
  <2>14. CASE Command(t)
    BY <2>14 DEF Command, Kind, Quiet
  <2>15. CASE Acquire(t)
    BY <2>15 DEF Acquire, Kind, Quiet
  <2>16. CASE TakeTimeout(t)
    BY <2>16 DEF TakeTimeout, After, Kind, Quiet
  <2>17. CASE Select(t)
    BY <2>17 DEF Select, Failures, Kind, Quiet
  <2>18. CASE ActConnect(t)
    BY <2>18 DEF Kind
  <2>19. CASE ActTransfer(t)
    BY <2>19 DEF ActTransfer, Failures, Kind, Quiet
  <2>20. CASE ActStop(t)
    BY <2>20 DEF ActStop, Kind, Quiet
  <2>21. CASE ActCommand(t)
    BY <2>21 DEF ActCommand, Kind, Quiet
  <2>22. CASE ActReset(t)
    BY <2>22 DEF Kind
  <2>23. CASE GiveTransfer(t)
    BY <2>23 DEF GiveTransfer, Kind, Quiet
  <2>24. CASE GiveOther(t)
    BY <2>24 DEF GiveOther, After, Kind, Quiet
  <2>25. CASE GiveReset(t)
    BY <2>25 DEF GiveReset, Kind, Quiet
  <2>26. CASE PollAgain(t)
    BY <2>26 DEF PollAgain, Kind, Quiet
  <2>27. CASE Expire(t)
    BY <2>27 DEF Expire, Kind, Quiet
  <2>28. CASE Clear(t)
    BY <2>28 DEF Kind
  <2>29. CASE Mark(t)
    BY <2>29 DEF Mark, Kind, Quiet
  <2>30. CASE Done(t)
    <3>1. CASE ret[t] = "tls" /\ res[t] = "error"
      <4>1. Holds(t)
        BY <2>30, <3>1, AtHand DEF Done
      <4>2. UNCHANGED <<inUse, stale, up, sock>> /\ pc'[t] # "scan"
        BY <2>30, <3>1 DEF Done
      <4>3. \E c \in {"null", "live", "ready", "freed"} : ctx' = [ctx EXCEPT ![sock[t]] = c]
        BY <2>30, <3>1 DEF Done
      <4>4. Touch(t)
        BY <2>30, <3>1 DEF Done
      <4>5. QED
        BY <4>1, <4>2, <4>3, <4>4 DEF Kind, TouchesContext
    <3>2. CASE ~(ret[t] = "tls" /\ res[t] = "error")
      BY <2>30, <3>2 DEF Done, Kind, Quiet
    <3>3. QED
      BY <3>1, <3>2
  <2>31. CASE TlsInit(t)
    <3>1. Holds(t)
      BY <2>31, AtHand DEF TlsInit
    <3>2. UNCHANGED <<inUse, stale, up, sock>> /\ pc'[t] # "scan"
      BY <2>31 DEF TlsInit
    <3>3. \E c \in {"null", "live", "ready", "freed"} : ctx' = [ctx EXCEPT ![sock[t]] = c]
      BY <2>31 DEF TlsInit
    <3>4. Touch(t)
      BY <2>31 DEF TlsInit
    <3>5. QED
      BY <3>1, <3>2, <3>3, <3>4 DEF Kind, TouchesContext
  <2>32. ASSUME NEW o \in {"send", "recv"}, Flight(t, o) PROVE Kind(t)
    BY <2>32 DEF Flight, Kind, Quiet
  <2>33. CASE FinishHandshake(t)
    <3>1. Holds(t)
      BY <2>33, AtHand DEF FinishHandshake
    <3>2. UNCHANGED <<inUse, stale, up, sock>> /\ pc'[t] # "scan"
      BY <2>33 DEF FinishHandshake
    <3>3. \E c \in {"null", "live", "ready", "freed"} : ctx' = [ctx EXCEPT ![sock[t]] = c]
      BY <2>33 DEF FinishHandshake
    <3>4. Touch(t)
      BY <2>33 DEF FinishHandshake
    <3>5. QED
      BY <3>1, <3>2, <3>3, <3>4 DEF Kind, TouchesContext
  <2>34. QED
    BY <2>1, <2>2, <2>3, <2>4, <2>5, <2>6, <2>7, <2>8, <2>9, <2>10, <2>11,
       <2>12, <2>13, <2>14, <2>15, <2>16, <2>17, <2>18, <2>19, <2>20, <2>21,
       <2>22, <2>23, <2>24, <2>25, <2>26, <2>27, <2>28, <2>29, <2>30, <2>31,
       <2>32, <2>33, <1>2 DEF Call, Step

-----------------------------------------------------------------------------
(* The semaphore is never lost                                             *)

\* A step leaves the semaphore and the section alone, takes it and enters, or
\* gives it.
SemaphoreKept(t) ==
    \/ holder' = holder /\ (pc'[t] \in Critical <=> pc[t] \in Critical)
    \/ holder' = {t} /\ pc'[t] \in Critical
    \/ holder' = {}

LEMMA SemaphoreSteps ==
    ASSUME TypeOK, NEW t \in Tasks, Call(t) \/ Step(t)
    PROVE  SemaphoreKept(t)
<1> USE DEF TypeOK, Critical, GoTo, Stage, Enter, Result, Touch, Accept,
           poolVars, moduleVars, taskVars, historyVars
<1>2. Call(t) \/ Step(t)
  OBVIOUS
<1>3. QED
  <2>1. CASE Socket(t)
    BY <2>1 DEF Socket, SemaphoreKept
  <2>2. CASE Claim(t)
    BY <2>2 DEF Claim, SemaphoreKept
  <2>3. CASE Skip(t)
    BY <2>3 DEF Skip, SemaphoreKept
  <2>4. CASE NoneFree(t)
    BY <2>4 DEF NoneFree, SemaphoreKept
  <2>5. CASE Prepare(t)
    BY <2>5 DEF Prepare, SemaphoreKept
  <2>6. CASE RequireTls(t)
    BY <2>6 DEF RequireTls, SemaphoreKept
  <2>7. CASE Shutdown(t)
    BY <2>7 DEF Shutdown, SemaphoreKept
  <2>8. CASE Connect(t)
    BY <2>8 DEF Connect, SemaphoreKept
  <2>9. ASSUME NEW o \in {"send", "recv"}, Transfer(t, o) PROVE SemaphoreKept(t)
    BY <2>9 DEF Transfer, SemaphoreKept
  <2>10. CASE Close(t)
    BY <2>10 DEF Close, SemaphoreKept
  <2>11. CASE Cleanup(t)
    BY <2>11 DEF Cleanup, Free, SemaphoreKept
  <2>12. CASE CloseInvalid(t)
    BY <2>12 DEF CloseInvalid, Forget, SemaphoreKept
  <2>13. CASE ReturnSocket(t)
    BY <2>13 DEF ReturnSocket, Forget, SemaphoreKept
  <2>14. CASE Command(t)
    BY <2>14 DEF Command, SemaphoreKept
  <2>15. CASE Acquire(t)
    BY <2>15 DEF Acquire, SemaphoreKept
  <2>16. CASE TakeTimeout(t)
    BY <2>16 DEF TakeTimeout, After, SemaphoreKept
  <2>17. CASE Select(t)
    BY <2>17 DEF Select, Failures, SemaphoreKept
  <2>18. CASE ActConnect(t)
    BY <2>18 DEF ActConnect, SemaphoreKept
  <2>19. CASE ActTransfer(t)
    BY <2>19 DEF ActTransfer, Failures, SemaphoreKept
  <2>20. CASE ActStop(t)
    BY <2>20 DEF ActStop, SemaphoreKept
  <2>21. CASE ActCommand(t)
    BY <2>21 DEF ActCommand, SemaphoreKept
  <2>22. CASE ActReset(t)
    BY <2>22 DEF ActReset, SemaphoreKept
  <2>23. CASE GiveTransfer(t)
    BY <2>23 DEF GiveTransfer, SemaphoreKept
  <2>24. CASE GiveOther(t)
    BY <2>24 DEF GiveOther, After, SemaphoreKept
  <2>25. CASE GiveReset(t)
    BY <2>25 DEF GiveReset, SemaphoreKept
  <2>26. CASE PollAgain(t)
    BY <2>26 DEF PollAgain, SemaphoreKept
  <2>27. CASE Expire(t)
    BY <2>27 DEF Expire, SemaphoreKept
  <2>28. CASE Clear(t)
    BY <2>28 DEF Clear, SemaphoreKept
  <2>29. CASE Mark(t)
    BY <2>29 DEF Mark, SemaphoreKept
  <2>30. CASE Done(t)
    BY <2>30 DEF Done, SemaphoreKept
  <2>31. CASE TlsInit(t)
    BY <2>31 DEF TlsInit, SemaphoreKept
  <2>32. ASSUME NEW o \in {"send", "recv"}, Flight(t, o) PROVE SemaphoreKept(t)
    BY <2>32 DEF Flight, SemaphoreKept
  <2>33. CASE FinishHandshake(t)
    BY <2>33 DEF FinishHandshake, SemaphoreKept
  <2>34. QED
    BY <2>1, <2>2, <2>3, <2>4, <2>5, <2>6, <2>7, <2>8, <2>9, <2>10, <2>11,
       <2>12, <2>13, <2>14, <2>15, <2>16, <2>17, <2>18, <2>19, <2>20, <2>21,
       <2>22, <2>23, <2>24, <2>25, <2>26, <2>27, <2>28, <2>29, <2>30, <2>31,
       <2>32, <2>33, <1>2 DEF Call, Step

\* Whoever has the semaphore is in the section it protects.
HeldInside == \A t \in holder : pc[t] \in Critical

\* Every operation on the module gives the semaphore on each of its paths: a socket
\* that cannot be selected, a command that fails, a reset.
THEOREM SemaphoreNotLost == Spec => []HeldInside
<1>1. Init => HeldInside
  BY DEF Init, HeldInside
<1>2. Inv /\ HeldInside /\ [Next]_vars => HeldInside'
  <2> SUFFICES ASSUME Inv, HeldInside, [Next]_vars PROVE HeldInside'
    OBVIOUS
  <2>1. CASE Next
    <3>1. PICK t \in Tasks : Call(t) \/ Step(t)
      BY <2>1 DEF Next
    <3>2. SemaphoreKept(t)
      BY <3>1, SemaphoreSteps DEF Inv
    <3>3. \A u \in Tasks : u # t => pc'[u] = pc[u]
      BY <3>1, Frame DEF Inv
    <3>4. holder \in SUBSET Tasks
      BY DEF Inv, TypeOK
    <3>5. QED
      BY <3>2, <3>3, <3>4 DEF SemaphoreKept, HeldInside
  <2>2. CASE UNCHANGED vars
    BY <2>2 DEF vars, taskVars, HeldInside
  <2>3. QED
    BY <2>1, <2>2
<1>3. QED
  BY <1>1, <1>2, InvHolds, PTL DEF Spec

-----------------------------------------------------------------------------
(* No socket is lost                                                       *)

\* Only these change the table of sockets in use, or the handle of the task.
LEMMA HandleKinds ==
    ASSUME TypeOK, Control, NEW t \in Tasks, Kind(t)
    PROVE  \/ Claim(t) \/ ReturnSocket(t) \/ CloseInvalid(t) \/ Clear(t)
           \/ UNCHANGED <<inUse, stale>> /\ SameHandle(t)
<1>1. CASE Close(t)
  <2>1. pc[t] = "open" /\ UNCHANGED <<inUse, stale, sock>>
    BY <1>1 DEF Close, Accept
  <2>2. pc'[t] # "scan"
    BY <1>1 DEF Close, TypeOK, Enter, GoTo
  <2>3. QED
    BY <2>1, <2>2 DEF SameHandle, Holds
<1>2. CASE ActConnect(t)
  <2>1. pc[t] = "act" /\ UNCHANGED <<inUse, stale, sock>>
    BY <1>2 DEF ActConnect
  <2>2. pc'[t] # "scan"
    BY <1>2 DEF ActConnect, TypeOK, Stage
  <2>3. QED
    BY <2>1, <2>2 DEF SameHandle, Holds
<1>3. CASE ActReset(t)
  <2>1. pc[t] = "act" /\ UNCHANGED <<inUse, stale, sock>>
    BY <1>3 DEF ActReset, poolVars
  <2>2. pc'[t] # "scan"
    BY <1>3 DEF ActReset, TypeOK, Stage
  <2>3. QED
    BY <2>1, <2>2 DEF SameHandle, Holds
<1>4. QED
  BY <1>1, <1>2, <1>3 DEF Kind, TouchesContext, Quiet

\* How the history goes: a reset is not forgotten, and only sockets that a reset has
\* taken away can be crossed.
LEMMA PastStep ==
    ASSUME TypeOK, Control, NeverReset,
           NEW t \in Tasks, Call(t) \/ Step(t)
    PROVE  \/ past' = past
           \/ past' = "reset" /\ past = "none" /\ ActReset(t)
           \/ past' = "crossed" /\ past = "reset"
<1>1. Kind(t)
  BY Kinds
<1>2. past = "none" => ~stale[t]
  BY DEF NeverReset
<1>3. past \in {"none", "reset", "crossed"}
  BY DEF TypeOK
<1>4. CASE Claim(t) \/ CloseInvalid(t) \/ Clear(t)
  BY <1>4 DEF Claim, CloseInvalid, Clear, historyVars
<1>5. CASE Touch(t)
  BY <1>2, <1>3, <1>5 DEF Touch
<1>6. CASE ActReset(t)
  BY <1>3, <1>6 DEF ActReset
<1>7. CASE Quiet(t)
  BY <1>3, <1>7 DEF Quiet
<1>8. QED
  BY <1>1, <1>4, <1>5, <1>6, <1>7
     DEF Kind, ReturnSocket, Close, Accept, ActConnect, TouchesContext

\* A handle of another task is what it was.
LEMMA OthersHandle ==
    ASSUME TypeOK, NEW t \in Tasks, Call(t) \/ Step(t), NEW u \in Tasks, u # t
    PROVE  (Holds(u)' <=> Holds(u)) /\ sock'[u] = sock[u]
BY Frame DEF Holds

\* While the module was never reset, each socket in use has a task that can close it.
EverySocketIsHeld ==
    past = "none" =>
        \A s \in Sockets : inUse[s] =>
            \E t \in Tasks : Holds(t) /\ sock[t] = s

\* While the module was never reset, SOCKETS_Socket gives every socket it takes to its
\* caller, and SOCKETS_Close, also when its operation fails, gives the socket back
\* before the handle is forgotten: the pool does not shrink.
THEOREM SocketsAreNotLost == Spec => []EverySocketIsHeld
<1>1. Init => EverySocketIsHeld
  BY DEF Init, EverySocketIsHeld
<1>2. Inv /\ EverySocketIsHeld /\ [Next]_vars => EverySocketIsHeld'
  <2> SUFFICES ASSUME Inv, EverySocketIsHeld, [Next]_vars PROVE EverySocketIsHeld'
    OBVIOUS
  <2> USE DEF Inv
  <2>1. CASE Next
    <3>1. PICK t \in Tasks : Call(t) \/ Step(t)
      BY <2>1 DEF Next
    <3>2. Kind(t)
      BY <3>1, Kinds
    <3> SUFFICES ASSUME past' = "none", NEW s \in Sockets, inUse'[s]
                 PROVE  \E u \in Tasks : Holds(u)' /\ sock'[u] = s
      BY DEF EverySocketIsHeld
    <3>3. past = "none"
      BY <3>1, PastStep
    <3>4. inUse \in [Sockets -> BOOLEAN] /\ sock \in [Tasks -> 0 .. NumSockets]
      BY DEF TypeOK
    \* Whoever else held the socket holds it still.
    <3>5. ASSUME inUse[s], ~(Holds(t) /\ sock[t] = s)
          PROVE  \E u \in Tasks : Holds(u)' /\ sock'[u] = s
      <4>1. PICK u \in Tasks : Holds(u) /\ sock[u] = s
        BY <3>3, <3>5 DEF EverySocketIsHeld
      <4>2. Holds(u)' /\ sock'[u] = sock[u]
        BY <3>1, <3>5, <4>1, OthersHandle
      <4>3. QED
        BY <4>1, <4>2
    <3>6. CASE Claim(t)
      <4>1. /\ pc[t] = "scan" /\ sock[t] # NoSocket
            /\ pc'[t] = "fresh" /\ sock' = sock
            /\ inUse' = [inUse EXCEPT ![sock[t]] = TRUE]
        BY <3>6 DEF Claim, GoTo, TypeOK
      <4>2. CASE s = sock[t]
        BY <4>1, <4>2 DEF Holds
      <4>3. CASE s # sock[t]
        <5>1. inUse[s] /\ ~(Holds(t) /\ sock[t] = s)
          BY <3>4, <4>1, <4>3
        <5>2. QED
          BY <3>5, <5>1
      <4>4. QED
        BY <4>2, <4>3
    <3>7. CASE ReturnSocket(t)
      <4>1. pc[t] = "return" /\ inUse' = [inUse EXCEPT ![sock[t]] = FALSE]
        BY <3>7 DEF ReturnSocket
      <4>2. s # sock[t]
        BY <3>4, <4>1
      <4>3. inUse[s]
        BY <3>4, <4>1, <4>2
      <4>4. QED
        BY <3>5, <4>2, <4>3
    <3>8. CASE CloseInvalid(t)
      <4>1. inUse' = inUse /\ ~inUse[sock[t]]
        BY <3>8 DEF CloseInvalid, poolVars
      <4>2. QED
        BY <3>5, <4>1
    <3>9. CASE Clear(t)
      BY <3>3, <3>9 DEF Clear, Control, ControlOf, NeverReset
    <3>10. CASE UNCHANGED <<inUse, stale>> /\ SameHandle(t)
      <4>1. CASE Holds(t) /\ sock[t] = s
        BY <3>10, <4>1 DEF SameHandle
      <4>2. CASE ~(Holds(t) /\ sock[t] = s)
        BY <3>5, <3>10, <4>2
      <4>3. QED
        BY <4>1, <4>2
    <3>11. QED
      BY <3>2, <3>6, <3>7, <3>8, <3>9, <3>10, HandleKinds
  <2>2. CASE UNCHANGED vars
    BY <2>2 DEF vars, poolVars, taskVars, historyVars, EverySocketIsHeld, Holds
  <2>3. QED
    BY <2>1, <2>2
<1>3. QED
  BY <1>1, <1>2, InvHolds, PTL DEF Spec

\* While the module was never reset, SOCKETS_Close keeps the word of its header: when
\* no task holds a socket, the sockets own no memory.
THEOREM CloseFreesUntilAReset == Spec => [](past = "none" => CloseFrees)
<1>1. Inv /\ EverySocketIsHeld => (past = "none" => CloseFrees)
  <2> SUFFICES ASSUME Inv, EverySocketIsHeld, past = "none",
                      \A t \in Tasks : pc[t] = "closed" /\ sock[t] = NoSocket,
                      NEW s \in Sockets
               PROVE  ctx[s] \notin {"live", "ready"}
    BY DEF CloseFrees
  <2>1. ~inUse[s]
    BY DEF EverySocketIsHeld, Holds
  <2>2. QED
    BY <2>1 DEF Inv, FreeOwnsNothing
<1>2. QED
  BY <1>1, InvHolds, SocketsAreNotLost, PTL

-----------------------------------------------------------------------------
(* The pool behind the calls                                               *)

Intact == past # "crossed"

Owner(s) == {t \in Tasks : Holds(t) /\ ~stale[t] /\ sock[t] = s}

PoolOwner     == [s \in Sockets |-> IF Intact THEN Owner(s) ELSE {}]
PoolConnected == {s \in Sockets : Intact /\ \E t \in Owner(s) : up[t]}
PoolMemory    == {s \in Sockets : Intact /\ ctx[s] \in {"live", "ready"}}

Pool == INSTANCE SocketPool
        WITH owner <- PoolOwner, connected <- PoolConnected, memory <- PoolMemory

\* Of a socket that a task holds and was not taken from it, it is the one owner.
LEMMA OwnerAlone ==
    ASSUME Inv, Intact, NEW t \in Tasks, Holds(t), ~stale[t]
    PROVE  sock[t] \in Sockets /\ inUse[sock[t]] /\ Owner(sock[t]) = {t}
<1>1. sock[t] \in Sockets
  BY SocketsAssumption DEF Inv, TypeOK, Holds, NoSocket, Sockets
<1>2. inUse[sock[t]] /\ \A u \in Tasks \ {t} : Holds(u) /\ ~stale[u] => sock[u] # sock[t]
  BY DEF Inv, OneOwner, Intact
<1>3. QED
  BY <1>1, <1>2 DEF Owner

\* A socket that is not in use has no owner.
LEMMA FreeHasNoOwner ==
    ASSUME Inv, Intact, NEW s \in Sockets, ~inUse[s]
    PROVE  Owner(s) = {}
BY DEF Inv, OneOwner, Intact, Owner

\* Where handles are kept the owners are.
LEMMA SameOwners ==
    ASSUME Inv, NEW t \in Tasks, Call(t) \/ Step(t),
           UNCHANGED stale, SameHandle(t), NEW s
    PROVE  Owner(s)' = Owner(s)
<1>1. \A u \in Tasks : u # t => (Holds(u)' <=> Holds(u)) /\ sock'[u] = sock[u]
  BY OthersHandle DEF Inv
<1>2. \A u \in Tasks : (Holds(u)' /\ ~stale'[u] /\ sock'[u] = s)
                           <=> (Holds(u) /\ ~stale[u] /\ sock[u] = s)
  BY <1>1 DEF SameHandle
<1>3. QED
  BY <1>2 DEF Owner

LEMMA PoolInit == Init => Pool!Init
<1> SUFFICES ASSUME Init PROVE Pool!Init
  OBVIOUS
<1>1. \A s \in Sockets : Owner(s) = {} /\ ctx[s] = "null"
  BY DEF Init, Owner, Holds
<1>2. past = "none"
  BY DEF Init
<1>3. QED
  BY <1>1, <1>2 DEF Pool!Init, PoolOwner, PoolConnected, PoolMemory, Intact

\* Once a socket is crossed nothing is promised: the pool stands still.
LEMMA PoolCrossed ==
    ASSUME Inv, NEW t \in Tasks, Call(t) \/ Step(t), past' = "crossed"
    PROVE  Pool!Cross \/ UNCHANGED <<PoolOwner, PoolConnected, PoolMemory, past>>
<1>1. PoolOwner' = [s \in Sockets |-> {}] /\ PoolConnected' = {} /\ PoolMemory' = {}
  BY DEF PoolOwner, PoolConnected, PoolMemory, Intact
<1>2. CASE past = "crossed"
  BY <1>1, <1>2 DEF PoolOwner, PoolConnected, PoolMemory, Intact
<1>3. CASE past # "crossed"
  <2>1. past = "reset"
    BY <1>3, PastStep DEF Inv
  <2>2. QED
    BY <1>1, <2>1 DEF Pool!Cross
<1>4. QED
  BY <1>2, <1>3

\* Where handles are kept, so is the pool's owner of each socket, and with the
\* connections that are up those of the pool.
LEMMA PoolKept ==
    ASSUME Inv, NEW t \in Tasks, Call(t) \/ Step(t), Intact, Intact',
           UNCHANGED stale, SameHandle(t)
    PROVE  PoolOwner' = PoolOwner /\ (up' = up => PoolConnected' = PoolConnected)
<1>1. \A s \in Sockets : Owner(s)' = Owner(s)
  BY SameOwners
<1>2. PoolOwner' = PoolOwner
  BY <1>1 DEF PoolOwner
<1>3. up' = up => PoolConnected' = PoolConnected
  BY <1>1 DEF PoolConnected
<1>4. QED
  BY <1>2, <1>3

PoolSame == UNCHANGED <<PoolOwner, PoolConnected, PoolMemory, past>>

\* prvGetFreeSocket takes a free socket.
LEMMA PoolTake ==
    ASSUME Inv, NEW t \in Tasks, Claim(t), Intact, Intact'
    PROVE  (\E s \in Sockets : Pool!Take(t, s)) \/ PoolSame
<1>1. /\ pc[t] = "scan" /\ pc'[t] = "fresh" /\ ~inUse[sock[t]] /\ sock[t] # NoSocket
      /\ UNCHANGED <<sock, ctx, up, stale, past>>
  BY DEF Claim, GoTo, Inv, TypeOK, historyVars
<1>2. sock[t] \in Sockets /\ Owner(sock[t]) = {}
  <2>1. sock[t] \in Sockets
    BY <1>1, SocketsAssumption DEF Inv, TypeOK, NoSocket, Sockets
  <2>2. QED
    BY <1>1, <2>1, FreeHasNoOwner
<1>3. \A u \in Tasks : u # t => (Holds(u)' <=> Holds(u))
  BY OthersHandle DEF Inv, Step
<1>4. ~Holds(t) /\ Holds(t)'
  BY <1>1 DEF Holds
<1>5. \A s \in Sockets \ {sock[t]} : Owner(s)' = Owner(s)
  BY <1>1, <1>3, <1>4 DEF Owner
<1>6. \A s \in Sockets : s = sock[t] => Owner(s)' = IF stale[t] THEN {} ELSE {t}
  BY <1>1, <1>2, <1>3, <1>4 DEF Owner
<1>7. PoolMemory' = PoolMemory
  BY <1>1 DEF PoolMemory, Intact
\* The socket taken has no connection yet: whoever is up holds a socket already.
<1>8. PoolConnected' = PoolConnected
  <2>1. ~up[t]
    BY <1>1 DEF Inv, Connected, Closing
  <2>2. \A s \in Sockets : (\E u \in Owner(s)' : up'[u]) <=> (\E u \in Owner(s) : up[u])
    BY <1>1, <1>2, <1>5, <1>6, <2>1
  <2>3. QED
    BY <2>2 DEF PoolConnected
<1>9. CASE stale[t]
  <2>1. \A s \in Sockets : Owner(s)' = Owner(s)
    BY <1>2, <1>5, <1>6, <1>9
  <2>2. QED
    BY <1>1, <1>7, <1>8, <2>1 DEF PoolSame, PoolOwner
<1>10. CASE ~stale[t]
  <2>1. PoolOwner' = [PoolOwner EXCEPT ![sock[t]] = {t}]
    BY <1>5, <1>6, <1>10 DEF PoolOwner
  <2>2. PoolOwner[sock[t]] = {}
    BY <1>2 DEF PoolOwner
  <2>3. QED
    BY <1>1, <1>2, <1>7, <1>8, <2>1, <2>2 DEF Pool!Take
<1>11. QED
  BY <1>9, <1>10

\* prvReturnSocket gives back a socket without connection and, until a reset, without
\* memory.
LEMMA PoolGiveBack ==
    ASSUME Inv, NEW t \in Tasks, ReturnSocket(t), Intact, Intact'
    PROVE  (\E s \in Sockets : Pool!GiveBack(t, s)) \/ PoolSame
<1>1. /\ pc[t] = "return" /\ sock'[t] = NoSocket /\ ~stale'[t]
      /\ UNCHANGED <<ctx, up>>
      /\ \A u \in Tasks \ {t} : stale'[u] = stale[u]
  BY DEF ReturnSocket, Forget, Inv, TypeOK
<1>2. past' = past
  BY DEF ReturnSocket, Touch, Intact
<1>3. Holds(t) /\ ~Holds(t)' /\ sock[t] \in Sockets
  BY <1>1, AtHand DEF Inv, Holds
<1>4. \A u \in Tasks : u # t => (Holds(u)' <=> Holds(u)) /\ sock'[u] = sock[u]
  BY OthersHandle DEF Inv, Step
<1>5. ~up[t]
  BY <1>1 DEF Inv, Connected, Closing
<1>6. \A s \in Sockets : Owner(s)' = Owner(s) \ {t}
  BY <1>1, <1>3, <1>4 DEF Owner
<1>7. PoolMemory' = PoolMemory
  BY <1>1 DEF PoolMemory, Intact
<1>8. PoolConnected' = PoolConnected
  <2>1. \A s \in Sockets : (\E u \in Owner(s)' : up'[u]) <=> (\E u \in Owner(s) : up[u])
    BY <1>1, <1>5, <1>6
  <2>2. QED
    BY <2>1 DEF PoolConnected
<1>9. CASE stale[t]
  <2>1. \A s \in Sockets : Owner(s)' = Owner(s)
    BY <1>6, <1>9 DEF Owner
  <2>2. QED
    BY <1>2, <1>7, <1>8, <2>1 DEF PoolSame, PoolOwner
<1>10. CASE ~stale[t]
  <2>1. Owner(sock[t]) = {t}
    BY <1>3, <1>10, OwnerAlone
  <2>2. \A s \in Sockets \ {sock[t]} : t \notin Owner(s)
    BY DEF Owner
  <2>3. PoolOwner' = [PoolOwner EXCEPT ![sock[t]] = {}]
    <3>1. \A s \in Sockets : Owner(s)' = IF s = sock[t] THEN {} ELSE Owner(s)
      BY <1>6, <2>1, <2>2
    <3>2. QED
      BY <3>1 DEF PoolOwner
  <2>4. PoolOwner[sock[t]] = {t}
    BY <1>3, <2>1 DEF PoolOwner
  <2>5. sock[t] \notin PoolConnected
    BY <1>5, <2>1 DEF PoolConnected
  <2>6. past = "none" => sock[t] \notin PoolMemory
    BY <1>1, <1>3 DEF Inv, Secured, SecuredOf, PoolMemory
  <2>7. QED
    BY <1>2, <1>3, <1>7, <1>8, <2>3, <2>4, <2>5, <2>6 DEF Pool!GiveBack
<1>11. QED
  BY <1>9, <1>10

\* SOCKETS_Close of a handle whose socket was taken away changes nothing.
LEMMA PoolForgotten ==
    ASSUME Inv, NEW t \in Tasks, CloseInvalid(t), Intact, Intact'
    PROVE  PoolSame
<1>1. /\ pc[t] = "open" /\ ~inUse[sock[t]]
      /\ sock'[t] = NoSocket
      /\ UNCHANGED <<ctx, past>>
      /\ \A u \in Tasks \ {t} : stale'[u] = stale[u] /\ up'[u] = up[u]
  BY DEF CloseInvalid, Forget, Inv, TypeOK, poolVars
<1>2. Holds(t) /\ ~Holds(t)'
  BY <1>1, Place DEF Inv, Holds
<1>3. stale[t]
  BY <1>1, <1>2, OwnerAlone
<1>4. \A u \in Tasks : u # t => (Holds(u)' <=> Holds(u)) /\ sock'[u] = sock[u]
  BY OthersHandle DEF Inv, Call
<1>5. \A s \in Sockets : Owner(s)' = Owner(s) /\ t \notin Owner(s)
  BY <1>1, <1>2, <1>3, <1>4 DEF Owner
<1>6. PoolOwner' = PoolOwner /\ PoolMemory' = PoolMemory
  BY <1>1, <1>5 DEF PoolOwner, PoolMemory, Intact
<1>7. PoolConnected' = PoolConnected
  <2>1. \A s \in Sockets : \A u \in Owner(s) : u \in Tasks \ {t}
    BY <1>5 DEF Owner
  <2>2. \A s \in Sockets : (\E u \in Owner(s)' : up'[u]) <=> (\E u \in Owner(s) : up[u])
    BY <1>1, <1>5, <2>1
  <2>3. QED
    BY <2>2 DEF PoolConnected
<1>8. QED
  BY <1>1, <1>6, <1>7 DEF PoolSame

\* SOCKETS_Close ends the connection of its own socket.
LEMMA PoolDisconnect ==
    ASSUME Inv, NEW t \in Tasks, Close(t), Intact, Intact'
    PROVE  \E s \in Sockets : Pool!Disconnect(t, s)
<1>1. /\ pc[t] = "open" /\ inUse[sock[t]] /\ up' = [up EXCEPT ![t] = FALSE]
      /\ UNCHANGED <<ctx, stale>>
  BY DEF Close, Accept
<1>2. past' = past /\ ~stale[t]
  BY <1>1 DEF Close, Accept, Touch, Intact
<1>3. Holds(t)
  BY <1>1, Place DEF Inv
<1>4. sock[t] \in Sockets /\ Owner(sock[t]) = {t}
  BY <1>2, <1>3, OwnerAlone
<1>5. Call(t)
  BY DEF Call
<1>6. PoolOwner' = PoolOwner /\ \A s \in Sockets : Owner(s)' = Owner(s)
  <2>1. UNCHANGED stale /\ SameHandle(t)
    BY HandleKinds, <1>1 DEF Kind, Inv, Claim, ReturnSocket, CloseInvalid, Clear
  <2>2. QED
    BY <1>5, <2>1, PoolKept, SameOwners
<1>7. PoolOwner[sock[t]] = {t}
  BY <1>4 DEF PoolOwner
<1>8. PoolConnected' = PoolConnected \ {sock[t]}
  <2>1. up \in [Tasks -> BOOLEAN]
    BY DEF Inv, TypeOK
  <2>2. \A s \in Sockets : s # sock[t] => t \notin Owner(s)
    BY DEF Owner
  <2>3. \A s \in Sockets : Owner(s) \subseteq Tasks
    BY DEF Owner
  <2>4. \A u \in Tasks : up'[u] <=> (up[u] /\ u # t)
    BY <1>1, <2>1
  <2>5. \A s \in Sockets : (\E u \in Owner(s)' : up'[u])
                               <=> s # sock[t] /\ (\E u \in Owner(s) : up[u])
    BY <1>4, <1>6, <2>2, <2>3, <2>4
  <2>6. QED
    BY <2>5 DEF PoolConnected
<1>9. PoolMemory' = PoolMemory
  BY <1>1 DEF PoolMemory, Intact
<1>10. QED
  BY <1>2, <1>4, <1>6, <1>7, <1>8, <1>9 DEF Pool!Disconnect

\* SOCKETS_Connect, when it succeeds, connects its own socket.
LEMMA PoolConnect ==
    ASSUME Inv, NEW t \in Tasks, ActConnect(t), Intact, Intact'
    PROVE  (\E s \in Sockets : Pool!Connect(t, s)) \/ PoolSame
<1>1. /\ pc[t] = "act" /\ op[t] = "connect"
      /\ up' = [up EXCEPT ![t] = TRUE] \/ up' = up
      /\ UNCHANGED <<ctx, stale>>
  BY DEF ActConnect
<1>2. past' = past
  BY DEF ActConnect, Touch, Intact
<1>3. Step(t)
  BY DEF Step
<1>4. PoolOwner' = PoolOwner /\ \A s \in Sockets : Owner(s)' = Owner(s)
  <2>1. UNCHANGED stale /\ SameHandle(t)
    BY HandleKinds, <1>1 DEF Kind, Inv, Claim, ReturnSocket, CloseInvalid, Clear
  <2>2. QED
    BY <1>3, <2>1, PoolKept, SameOwners
<1>5. PoolMemory' = PoolMemory
  BY <1>1 DEF PoolMemory, Intact
<1>6. \A s \in Sockets : Owner(s) \subseteq Tasks
  BY DEF Owner
<1>7. CASE up' = up \/ stale[t]
  <2>1. \A s \in Sockets : \A u \in Owner(s) : up'[u] <=> up[u]
    BY <1>1, <1>6, <1>7 DEF Inv, TypeOK, Owner
  <2>2. \A s \in Sockets : (\E u \in Owner(s)' : up'[u]) <=> (\E u \in Owner(s) : up[u])
    BY <1>4, <2>1
  <2>3. PoolConnected' = PoolConnected
    BY <2>2 DEF PoolConnected
  <2>4. QED
    BY <1>2, <1>4, <1>5, <2>3 DEF PoolSame
<1>8. CASE up' = [up EXCEPT ![t] = TRUE] /\ ~stale[t]
  <2>1. Holds(t)
    <3>1. sock[t] \in Sockets
      BY <1>1 DEF Inv, Control, ControlOf
    <3>2. QED
      BY <1>1, <3>1, SocketsAssumption DEF Holds, NoSocket, Sockets
  <2>2. sock[t] \in Sockets /\ Owner(sock[t]) = {t}
    BY <1>8, <2>1, OwnerAlone
  <2>3. PoolOwner[sock[t]] = {t}
    BY <2>2 DEF PoolOwner
  <2>4. PoolConnected' = PoolConnected \union {sock[t]}
    <3>1. up \in [Tasks -> BOOLEAN]
      BY DEF Inv, TypeOK
    <3>2. \A s \in Sockets : s # sock[t] => t \notin Owner(s)
      BY DEF Owner
    <3>3. \A u \in Tasks : up'[u] <=> (up[u] \/ u = t)
      BY <1>8, <3>1
    <3>4. \A s \in Sockets : (\E u \in Owner(s)' : up'[u])
                                 <=> s = sock[t] \/ (\E u \in Owner(s) : up[u])
      BY <1>4, <1>6, <2>2, <3>2, <3>3
    <3>5. QED
      BY <2>2, <3>4 DEF PoolConnected
  <2>5. QED
    BY <1>2, <1>4, <1>5, <2>2, <2>3, <2>4 DEF Pool!Connect
<1>9. QED
  BY <1>1, <1>7, <1>8

\* WIFI_Reset takes every connection and leaves the sockets where they are.
LEMMA PoolReset ==
    ASSUME Inv, NEW t \in Tasks, ActReset(t), Intact, Intact'
    PROVE  Pool!ResetModule
<1>1. /\ pc[t] = "act" /\ up' = [u \in Tasks |-> FALSE]
      /\ UNCHANGED <<inUse, ctx, stale>>
  BY DEF ActReset, poolVars
<1>2. past' = "reset"
  BY DEF ActReset, Inv, TypeOK, Intact
<1>3. PoolOwner' = PoolOwner
  <2>1. SameHandle(t)
    BY HandleKinds, <1>1 DEF Kind, Inv, Claim, ReturnSocket, CloseInvalid, Clear
  <2>2. QED
    BY <1>1, <2>1, PoolKept DEF Step
<1>4. PoolConnected' = {}
  BY <1>1 DEF PoolConnected, Owner
<1>5. PoolMemory' = PoolMemory
  BY <1>1 DEF PoolMemory, Intact
<1>6. QED
  BY <1>2, <1>3, <1>4, <1>5 DEF Pool!ResetModule

\* SOCKETS_Init takes the socket of its index away from whoever holds it.
LEMMA PoolTakeAway ==
    ASSUME Inv, NEW t \in Tasks, Clear(t), Intact, Intact'
    PROVE  \E s \in Sockets : Pool!TakeAway(s)
<1>1. /\ pc[t] = "clear" /\ pc' = [pc EXCEPT ![t] = "mark"]
      /\ stale' = [u \in Tasks |-> stale[u] \/ (Holds(u) /\ sock[u] = index)]
      /\ UNCHANGED <<ctx, sock, up, past>>
  BY DEF Clear, Stage
<1>2. index \in Sockets
  BY DEF Inv, TypeOK
<1>3. past = "reset"
  <2>1. op[t] = "init"
    BY <1>1 DEF Inv, Control, ControlOf
  <2>2. past # "none"
    BY <2>1 DEF Inv, NeverReset
  <2>3. QED
    BY <2>2 DEF Inv, TypeOK, Intact
<1>4. \A u \in Tasks : Holds(u)' <=> Holds(u)
  BY <1>1 DEF Holds, Inv, TypeOK
<1>5. \A s \in Sockets : Owner(s)' = IF s = index THEN {} ELSE Owner(s)
  BY <1>1, <1>4 DEF Owner
<1>6. PoolOwner' = [PoolOwner EXCEPT ![index] = {}]
  BY <1>5 DEF PoolOwner
<1>7. PoolConnected' = PoolConnected \ {index}
  BY <1>1, <1>5 DEF PoolConnected
<1>8. PoolMemory' = PoolMemory
  BY <1>1 DEF PoolMemory, Intact
<1>9. QED
  BY <1>1, <1>2, <1>3, <1>6, <1>7, <1>8 DEF Pool!TakeAway

\* Memory changes by its owner only, or, after a reset, where there is none.
LEMMA PoolMemoryStep ==
    ASSUME Inv, NEW t \in Tasks, Call(t) \/ Step(t), TouchesContext(t), Intact, Intact'
    PROVE  \E s \in Sockets : Pool!Allocate(t, s) \/ Pool!Release(t, s) \/ Pool!Disown(s)
<1>1. PICK c \in {"null", "live", "ready", "freed"} : ctx' = [ctx EXCEPT ![sock[t]] = c]
  BY DEF TouchesContext
<1>2. Holds(t) /\ SameHandle(t) /\ UNCHANGED <<stale, up>>
  BY DEF TouchesContext
<1>3. past' = past /\ ~(stale[t] /\ inUse[sock[t]])
  BY DEF TouchesContext, Touch, Intact
<1>4. sock[t] \in Sockets
  BY <1>2, SocketsAssumption DEF Inv, TypeOK, Holds, NoSocket, Sockets
<1>5. PoolOwner' = PoolOwner /\ PoolConnected' = PoolConnected
  BY <1>2, PoolKept
<1>6. PoolMemory' = IF c \in {"live", "ready"} THEN PoolMemory \union {sock[t]}
                                               ELSE PoolMemory \ {sock[t]}
  BY <1>1, <1>4 DEF PoolMemory, Intact, Inv, TypeOK
<1>7. CASE ~stale[t]
  <2>1. PoolOwner[sock[t]] = {t}
    BY <1>2, <1>7, OwnerAlone DEF PoolOwner
  <2>2. QED
    BY <1>3, <1>4, <1>5, <1>6, <2>1 DEF Pool!Allocate, Pool!Release
<1>8. CASE stale[t]
  <2>1. Owner(sock[t]) = {}
    BY <1>3, <1>4, <1>8, FreeHasNoOwner
  <2>2. PoolOwner[sock[t]] = {}
    BY <1>4, <2>1 DEF PoolOwner
  <2>3. past = "reset"
    BY <1>8 DEF Inv, TypeOK, NeverReset, Intact
  <2>4. QED
    BY <1>3, <1>4, <1>5, <1>6, <2>2, <2>3 DEF Pool!Disown
<1>9. QED
  BY <1>7, <1>8

\* Every step of the calls is a step of the pool, or none.
LEMMA PoolStep ==
    ASSUME Inv, NEW t \in Tasks, Call(t) \/ Step(t)
    PROVE  Pool!Next \/ PoolSame
<1>1. CASE ~Intact'
  <2>1. past' = "crossed"
    BY <1>1 DEF Intact
  <2>2. Pool!Cross \/ PoolSame
    BY <2>1, PoolCrossed DEF PoolSame
  <2>3. past = "crossed" \/ past = "reset"
    BY <2>1, PastStep DEF Inv
  <2>4. past = "crossed" => PoolSame
    BY <2>1 DEF PoolSame, PoolOwner, PoolConnected, PoolMemory, Intact
  <2>5. QED
    BY <2>2, <2>3, <2>4 DEF Pool!Next
<1>2. CASE Intact'
  <2>1. Intact
    BY <1>2, PastStep DEF Inv, Intact
  <2>2. Kind(t)
    BY Kinds DEF Inv
  <2>3. Intact => past # "crossed"
    BY DEF Intact
  <2>4. CASE Claim(t)
    BY <1>2, <2>1, <2>3, <2>4, PoolTake DEF Pool!Next
  <2>5. CASE ReturnSocket(t)
    BY <1>2, <2>1, <2>3, <2>5, PoolGiveBack DEF Pool!Next
  <2>6. CASE CloseInvalid(t)
    BY <1>2, <2>1, <2>6, PoolForgotten
  <2>7. CASE Close(t)
    BY <1>2, <2>1, <2>3, <2>7, PoolDisconnect DEF Pool!Next
  <2>8. CASE ActConnect(t)
    BY <1>2, <2>1, <2>3, <2>8, PoolConnect DEF Pool!Next
  <2>9. CASE ActReset(t)
    BY <1>2, <2>1, <2>3, <2>9, PoolReset DEF Pool!Next
  <2>10. CASE Clear(t)
    BY <1>2, <2>1, <2>3, <2>10, PoolTakeAway DEF Pool!Next
  <2>11. CASE TouchesContext(t)
    BY <1>2, <2>1, <2>3, <2>11, PoolMemoryStep DEF Pool!Next
  <2>12. CASE Quiet(t)
    <3>1. past' = past /\ PoolOwner' = PoolOwner /\ PoolConnected' = PoolConnected
      BY <1>2, <2>1, <2>12, PoolKept DEF Quiet, Intact
    <3>2. PoolMemory' = PoolMemory
      BY <1>2, <2>1, <2>12 DEF Quiet, PoolMemory, Intact
    <3>3. QED
      BY <3>1, <3>2 DEF PoolSame
  <2>13. QED
    BY <2>2, <2>4, <2>5, <2>6, <2>7, <2>8, <2>9, <2>10, <2>11, <2>12 DEF Kind
<1>3. QED
  BY <1>1, <1>2

\* The calls, through failures, timeouts and resets of the module, are the pool that
\* SocketPool describes: one owner per socket, whose connection and memory nobody
\* else touches.
THEOREM CallsAreAPool == Spec => Pool!Spec
<1>1. Inv /\ [Next]_vars => [Pool!Next]_(Pool!vars)
  <2> SUFFICES ASSUME Inv, [Next]_vars PROVE [Pool!Next]_(Pool!vars)
    OBVIOUS
  <2>1. CASE Next
    <3>1. Pool!Next \/ PoolSame
      BY <2>1, PoolStep DEF Next
    <3>2. QED
      BY <3>1 DEF PoolSame, Pool!vars
  <2>2. CASE UNCHANGED vars
    <3>1. \A s \in Sockets : Owner(s)' = Owner(s)
      BY <2>2 DEF vars, taskVars, historyVars, Owner, Holds
    <3>2. PoolSame
      BY <2>2, <3>1 DEF vars, poolVars, historyVars, PoolSame, PoolOwner,
                        PoolConnected, PoolMemory, Intact
    <3>3. QED
      BY <3>2 DEF PoolSame, Pool!vars
  <2>3. QED
    BY <2>1, <2>2
<1>2. QED
  BY PoolInit, <1>1, InvHolds, PTL DEF Spec, Pool!Spec
=============================================================================

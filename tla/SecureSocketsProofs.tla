------------------------ MODULE SecureSocketsProofs ------------------------
(***************************************************************************)
(* What SecureSockets promises for any tasks and any number of sockets.    *)
(* The inductive invariant adds to the properties where a task can be with *)
(* which handle (Control), who is in the section the semaphore protects    *)
(* (Exclusion), what a connection that is up implies (Connected), and when *)
(* a socket owns a TLS context (ContextKept, NeverReset, Secured).         *)
(***************************************************************************)
EXTENDS SecureSockets, TLAPS

Nums == NumSockets \in Nat \ {0} /\ MaxFlights \in Nat

Critical == {"select", "act", "give", "clear", "mark"}

\* Where a task is, in which operation, with which handle and return address.
ControlOf(t) ==
    /\ pc[t] \in Critical \union {"take"} <=> op[t] # "none"
    /\ pc[t] = "select" => op[t] \in SocketOps
    /\ pc[t] \in {"clear", "mark"} <=> op[t] = "init" /\ pc[t] # "take"
    /\ pc[t] \notin {"closed", "scan"} /\ op[t] # "command" => sock[t] \in Sockets
    /\ pc[t] = "closed" \/ op[t] = "command" => sock[t] = NoSocket
    /\ ret[t] # "open" => \/ pc[t] \in {"poll", "done"}
                          \/ op[t] \in {"send", "recv", "reset", "init"}

Control == \A t \in Tasks : ControlOf(t)

Exclusion == \A t \in Tasks : pc[t] \in Critical => holder = {t}

\* The task has no socket yet, or is about to give it up.
Closing(t) ==
    \/ pc[t] \in {"closed", "scan", "fresh", "cleanup", "return"}
    \/ op[t] \in {"stop", "command"}
    \/ ret[t] = "cleanup"

Connected == \A t \in Tasks : up[t] =>
    /\ ~Closing(t)
    /\ past # "crossed" /\ ~stale[t] =>
        /\ "connected" \in flags[sock[t]]
        /\ op[t] = "connect" => pc[t] = "give"

\* A socket whose memory is freed is being closed, or was never prepared.
ContextKept == past # "crossed" =>
    \A t \in Tasks : Holds(t) /\ ~stale[t] /\ ctx[sock[t]] = "freed" =>
        pc[t] \in {"fresh", "return"} \/ op[t] = "stop"

\* While the module was never reset, no handle is stale and nothing is reset now.
NeverReset == past = "none" =>
    \A t \in Tasks : /\ ~stale[t] /\ op[t] # "init"
                     /\ op[t] = "reset" => pc[t] \in {"take", "act"}

\* A prepared socket that owns a TLS context requires TLS, until it is stopped.
SecuredOf(t) ==
    /\ pc[t] \in {"tls", "handshake"} \/ ret[t] = "handshake" =>
         "secure" \in flags[sock[t]]
    /\ Holds(t) /\ pc[t] # "fresh" /\ ctx[sock[t]] \in {"live", "ready"} =>
         "secure" \in flags[sock[t]] /\ op[t] # "stop" /\ pc[t] # "return"

Secured == past = "none" => \A t \in Tasks : SecuredOf(t)

-----------------------------------------------------------------------------
\* A step of one task leaves the others where they are.
LEMMA Frame ==
    ASSUME TypeOK, NEW t \in Tasks, Call(t) \/ Step(t),
           NEW u \in Tasks, u # t
    PROVE  /\ pc'[u] = pc[u] /\ op'[u] = op[u] /\ sock'[u] = sock[u]
           /\ ret'[u] = ret[u]
<1> DEFINE Same == /\ pc'[u] = pc[u] /\ op'[u] = op[u]
                   /\ sock'[u] = sock[u] /\ ret'[u] = ret[u]
<1> USE DEF TypeOK, GoTo, Stage, Enter, Result, Touch, Accept, poolVars,
           moduleVars, taskVars, historyVars
<1>2. Call(t) \/ Step(t)
  OBVIOUS
<1>3. QED
  <2>1. CASE Socket(t)
    BY <2>1 DEF Socket
  <2>2. CASE Claim(t)
    BY <2>2 DEF Claim
  <2>3. CASE Skip(t)
    BY <2>3 DEF Skip
  <2>4. CASE NoneFree(t)
    BY <2>4 DEF NoneFree
  <2>5. CASE Prepare(t)
    BY <2>5 DEF Prepare
  <2>6. CASE RequireTls(t)
    BY <2>6 DEF RequireTls
  <2>7. CASE Shutdown(t)
    BY <2>7 DEF Shutdown
  <2>8. CASE Connect(t)
    BY <2>8 DEF Connect
  <2>9. ASSUME NEW o \in {"send", "recv"}, Transfer(t, o) PROVE Same
    BY <2>9 DEF Transfer
  <2>10. CASE Close(t)
    BY <2>10 DEF Close
  <2>11. CASE Cleanup(t)
    BY <2>11 DEF Cleanup, Free
  <2>12. CASE CloseInvalid(t)
    BY <2>12 DEF CloseInvalid, Forget
  <2>13. CASE ReturnSocket(t)
    BY <2>13 DEF ReturnSocket, Forget
  <2>14. CASE Command(t)
    BY <2>14 DEF Command
  <2>15. CASE Acquire(t)
    BY <2>15 DEF Acquire
  <2>16. CASE TakeTimeout(t)
    BY <2>16 DEF TakeTimeout, After
  <2>17. CASE Select(t)
    BY <2>17 DEF Select, Failures
  <2>18. CASE ActConnect(t)
    BY <2>18 DEF ActConnect
  <2>19. CASE ActTransfer(t)
    BY <2>19 DEF ActTransfer, Failures
  <2>20. CASE ActStop(t)
    BY <2>20 DEF ActStop
  <2>21. CASE ActCommand(t)
    BY <2>21 DEF ActCommand
  <2>22. CASE ActReset(t)
    BY <2>22 DEF ActReset
  <2>23. CASE GiveTransfer(t)
    BY <2>23 DEF GiveTransfer
  <2>24. CASE GiveOther(t)
    BY <2>24 DEF GiveOther, After
  <2>25. CASE GiveReset(t)
    BY <2>25 DEF GiveReset
  <2>26. CASE PollAgain(t)
    BY <2>26 DEF PollAgain
  <2>27. CASE Expire(t)
    BY <2>27 DEF Expire
  <2>28. CASE Clear(t)
    BY <2>28 DEF Clear
  <2>29. CASE Mark(t)
    BY <2>29 DEF Mark
  <2>30. CASE Done(t)
    BY <2>30 DEF Done
  <2>31. CASE TlsInit(t)
    BY <2>31 DEF TlsInit
  <2>32. ASSUME NEW o \in {"send", "recv"}, Flight(t, o) PROVE Same
    BY <2>32 DEF Flight
  <2>33. CASE FinishHandshake(t)
    BY <2>33 DEF FinishHandshake
  <2>34. QED
    BY <2>1, <2>2, <2>3, <2>4, <2>5, <2>6, <2>7, <2>8, <2>9, <2>10, <2>11,
       <2>12, <2>13, <2>14, <2>15, <2>16, <2>17, <2>18, <2>19, <2>20, <2>21,
       <2>22, <2>23, <2>24, <2>25, <2>26, <2>27, <2>28, <2>29, <2>30, <2>31,
       <2>32, <2>33, <1>2 DEF Call, Step

\* A step keeps the types; a selection needs Control: a socket is at hand.
LEMMA TypeStep ==
    ASSUME TypeOK, Control,
           NEW t \in Tasks, Call(t) \/ Step(t)
    PROVE  TypeOK'
<1> USE DEF TypeOK, GoTo, Stage, Enter, Result, Touch, Accept, poolVars,
           moduleVars, taskVars, historyVars
<1>1. Nums
  BY SocketsAssumption DEF Nums
<1>2. Call(t) \/ Step(t)
  OBVIOUS
<1>3. QED
  <2>1. CASE Socket(t)
    BY <2>1, <1>1 DEF Socket, Nums
  <2>2. CASE Claim(t)
    <3>1. inUse' \in [Sockets -> BOOLEAN]
      BY <2>2, Zenon DEF Claim
    <3>2. QED
      BY <2>2, <3>1 DEF Claim
  <2>3. CASE Skip(t)
    BY <2>3, <1>1 DEF Skip, NoSocket, Nums
  <2>4. CASE NoneFree(t)
    BY <2>4 DEF NoneFree
  <2>5. CASE Prepare(t)
    BY <2>5 DEF Prepare
  <2>6. CASE RequireTls(t)
    BY <2>6 DEF RequireTls
  <2>7. CASE Shutdown(t)
    BY <2>7 DEF Shutdown
  <2>8. CASE Connect(t)
    BY <2>8 DEF Connect
  <2>9. ASSUME NEW o \in {"send", "recv"}, Transfer(t, o) PROVE TypeOK'
    BY <2>9 DEF Transfer
  <2>10. CASE Close(t)
    <3>1. up' \in [Tasks -> BOOLEAN]
      BY <2>10, Zenon DEF Close
    <3>2. ret' \in [Tasks -> {"open", "tls", "handshake", "cleanup"}]
      BY <2>10 DEF Close
    <3>3. flags' \in [Sockets -> SUBSET {"shut", "secure", "connected"}]
      BY <2>10 DEF Close
    <3>4. QED
      BY <2>10, <3>1, <3>2, <3>3 DEF Close
  <2>11. CASE Cleanup(t)
    BY <2>11 DEF Cleanup, Free
  <2>12. CASE CloseInvalid(t)
    <3>1. up' \in [Tasks -> BOOLEAN] /\ stale' \in [Tasks -> BOOLEAN]
      BY <2>12, Zenon DEF CloseInvalid, Forget
    <3>2. QED
      BY <2>12, <1>1, <3>1 DEF CloseInvalid, Forget, NoSocket, Nums
  <2>13. CASE ReturnSocket(t)
    <3>1. inUse' \in [Sockets -> BOOLEAN] /\ stale' \in [Tasks -> BOOLEAN]
      BY <2>13, Zenon DEF ReturnSocket, Forget
    <3>2. QED
      BY <2>13, <1>1, <3>1 DEF ReturnSocket, Forget, NoSocket, Nums
  <2>14. CASE Command(t)
    BY <2>14 DEF Command
  <2>15. CASE Acquire(t)
    BY <2>15 DEF Acquire
  <2>16. CASE TakeTimeout(t)
    BY <2>16 DEF TakeTimeout, After
  <2>17. CASE Select(t)
    <3>1. sock[t] \in Sockets
      BY <2>17 DEF Select, Control, ControlOf, SocketOps, Critical
    <3>2. sel' \in Sockets
      BY <2>17, <3>1 DEF Select
    <3>3. res' \in [Tasks -> {"ok", "none", "error", "io"}]
      BY <2>17 DEF Select, Failures
    <3>4. QED
      BY <2>17, <3>2, <3>3 DEF Select
  <2>18. CASE ActConnect(t)
    <3>1. link' \in [Sockets -> SUBSET Tasks]
      BY <2>18 DEF ActConnect
    <3>2. up' \in [Tasks -> BOOLEAN]
      BY <2>18, Zenon DEF ActConnect
    <3>3. flags' \in [Sockets -> SUBSET {"shut", "secure", "connected"}]
      BY <2>18 DEF ActConnect
    <3>4. res' \in [Tasks -> {"ok", "none", "error", "io"}]
      BY <2>18 DEF ActConnect
    <3>5. past' \in {"none", "reset", "crossed"}
      BY <2>18 DEF ActConnect
    <3>6. QED
      BY <2>18, <3>1, <3>2, <3>3, <3>4, <3>5 DEF ActConnect
  <2>19. CASE ActTransfer(t)
    BY <2>19 DEF ActTransfer, Failures
  <2>20. CASE ActStop(t)
    BY <2>20 DEF ActStop
  <2>21. CASE ActCommand(t)
    BY <2>21 DEF ActCommand
  <2>22. CASE ActReset(t)
    <3>1. up' \in [Tasks -> BOOLEAN]
      BY <2>22, Zenon DEF ActReset
    <3>2. 0 \in Sockets
      BY <1>1 DEF Sockets, Nums
    <3>3. QED
      BY <2>22, <3>1, <3>2 DEF ActReset
  <2>23. CASE GiveTransfer(t)
    BY <2>23 DEF GiveTransfer
  <2>24. CASE GiveOther(t)
    BY <2>24 DEF GiveOther, After
  <2>25. CASE GiveReset(t)
    BY <2>25 DEF GiveReset
  <2>26. CASE PollAgain(t)
    BY <2>26 DEF PollAgain
  <2>27. CASE Expire(t)
    BY <2>27 DEF Expire
  <2>28. CASE Clear(t)
    <3>1. inUse' \in [Sockets -> BOOLEAN] /\ stale' \in [Tasks -> BOOLEAN]
      BY <2>28, Zenon DEF Clear
    <3>2. QED
      BY <2>28, <3>1 DEF Clear
  <2>29. CASE Mark(t)
    <3>1. index' \in Sockets
      BY <2>29, <1>1 DEF Mark, Sockets, Nums
    <3>2. past' \in {"none", "reset", "crossed"}
      BY <2>29 DEF Mark
    <3>3. QED
      BY <2>29, <3>1, <3>2 DEF Mark
  <2>30. CASE Done(t)
    <3>1. CASE ret[t] = "tls" /\ res[t] = "error"
      BY <2>30, <3>1 DEF Done
    <3>2. CASE ~(ret[t] = "tls" /\ res[t] = "error")
      BY <2>30, <3>2 DEF Done
    <3>3. QED
      BY <3>1, <3>2
  <2>31. CASE TlsInit(t)
    BY <2>31, <1>1 DEF TlsInit, Nums
  <2>32. ASSUME NEW o \in {"send", "recv"}, Flight(t, o) PROVE TypeOK'
    BY <2>32, <1>1 DEF Flight, Nums
  <2>33. CASE FinishHandshake(t)
    BY <2>33, <1>1 DEF FinishHandshake, Nums
  <2>34. QED
    BY <2>1, <2>2, <2>3, <2>4, <2>5, <2>6, <2>7, <2>8, <2>9, <2>10, <2>11,
       <2>12, <2>13, <2>14, <2>15, <2>16, <2>17, <2>18, <2>19, <2>20, <2>21,
       <2>22, <2>23, <2>24, <2>25, <2>26, <2>27, <2>28, <2>29, <2>30, <2>31,
       <2>32, <2>33, <1>2 DEF Call, Step

\* A step takes its task from one place of the control flow to the next.
LEMMA ControlStep ==
    ASSUME TypeOK, Control,
           NEW t \in Tasks, Call(t) \/ Step(t)
    PROVE  Control'
<1> USE DEF Control, ControlOf, Critical, SocketOps, Sockets, NoSocket, Nums,
           TypeOK, GoTo, Stage, Enter, Result, Touch, Accept, poolVars,
           moduleVars, taskVars, historyVars
<1>1. Nums
  BY SocketsAssumption DEF Nums
<1>2. Call(t) \/ Step(t)
  OBVIOUS
<1>3. ControlOf(t)'
  <2>1. CASE Socket(t)
    <3>1. /\ pc[t] = "closed"
          /\ pc'[t] = "scan" /\ op'[t] = "none"
          /\ sock'[t] = 0 /\ UNCHANGED ret
      BY <2>1 DEF Socket
    <3>2. QED
      BY <3>1, <1>1
  <2>2. CASE Claim(t)
    <3>1. op[t] = "none" /\ ret[t] = "open"
      BY <2>2 DEF Claim
    <3>2. sock[t] \in Sockets
      <4>1. sock[t] \in 0 .. NumSockets /\ sock[t] # NumSockets
        BY <2>2 DEF Claim
      <4>2. QED
        BY <4>1, <1>1
    <3>3. pc'[t] = "fresh" /\ op'[t] = "none" /\ sock'[t] = sock[t] /\ ret'[t] = ret[t]
      BY <2>2 DEF Claim
    <3>4. QED
      BY <3>1, <3>2, <3>3, <1>1
  <2>3. CASE Skip(t)
    BY <2>3, <1>1 DEF Skip
  <2>4. CASE NoneFree(t)
    <3>1. /\ pc[t] = "scan" /\ sock[t] = NoSocket
          /\ pc'[t] = "closed" /\ op'[t] = "none"
          /\ UNCHANGED <<sock, ret>>
      BY <2>4 DEF NoneFree
    <3>2. QED
      BY <3>1, <1>1
  <2>5. CASE Prepare(t)
    <3>1. /\ pc[t] = "fresh"
          /\ pc'[t] = "open" /\ op'[t] = "none"
          /\ UNCHANGED <<sock, ret>>
      BY <2>5 DEF Prepare
    <3>2. QED
      BY <3>1, <1>1
  <2>6. CASE RequireTls(t)
    BY <2>6, <1>1 DEF RequireTls
  <2>7. CASE Shutdown(t)
    BY <2>7, <1>1 DEF Shutdown
  <2>8. CASE Connect(t)
    <3>1. /\ pc'[t] = "take" /\ op'[t] = "connect"
          /\ sock'[t] = sock[t] /\ ret'[t] = ret[t]
      BY <2>8 DEF Connect
    <3>2. QED
      BY <2>8, <1>1, <3>1 DEF Connect
  <2>9. ASSUME NEW o \in {"send", "recv"}, Transfer(t, o) PROVE ControlOf(t)'
    <3>1. /\ pc'[t] = "take" /\ op'[t] = o /\ o # "none" /\ o # "command"
          /\ sock'[t] = sock[t]
      BY <2>9 DEF Transfer
    <3>2. QED
      BY <2>9, <1>1, <3>1 DEF Transfer
  <2>10. CASE Close(t)
    <3>1. op[t] = "none" /\ ret[t] = "open" /\ sock[t] \in Sockets
      BY <2>10, <1>1 DEF Close
    <3>2. CASE pc' = [pc EXCEPT ![t] = "cleanup"] /\ op' = [op EXCEPT ![t] = "none"] /\ ret' = ret
      BY <2>10, <3>1, <3>2, <1>1 DEF Close
    <3>3. CASE pc' = [pc EXCEPT ![t] = "take"] /\ op' = [op EXCEPT ![t] = "stop"] /\ ret' = ret
      BY <2>10, <3>1, <3>3, <1>1 DEF Close
    <3>4. CASE Enter(t, "send") /\ ret' = [ret EXCEPT ![t] = "cleanup"]
      BY <2>10, <3>1, <3>4, <1>1 DEF Close
    <3>5. QED
      BY <2>10, <3>2, <3>3, <3>4 DEF Close
  <2>11. CASE Cleanup(t)
    <3>1. /\ pc[t] = "cleanup"
          /\ pc'[t] = "take" /\ op'[t] = "stop"
          /\ UNCHANGED <<sock, ret>>
      BY <2>11 DEF Cleanup, Free
    <3>2. QED
      BY <3>1, <1>1
  <2>12. CASE CloseInvalid(t)
    <3>1. /\ pc[t] = "open"
          /\ pc'[t] = "closed" /\ op'[t] = "none"
          /\ sock'[t] = NoSocket /\ UNCHANGED ret
      BY <2>12 DEF CloseInvalid, Forget
    <3>2. QED
      BY <3>1, <1>1
  <2>13. CASE ReturnSocket(t)
    <3>1. /\ pc[t] = "return"
          /\ pc'[t] = "closed" /\ op'[t] = "none"
          /\ sock'[t] = NoSocket /\ UNCHANGED ret
      BY <2>13 DEF ReturnSocket, Forget
    <3>2. QED
      BY <3>1, <1>1
  <2>14. CASE Command(t)
    <3>1. /\ pc[t] = "closed"
          /\ pc'[t] = "take" /\ op'[t] = "command"
          /\ UNCHANGED <<sock, ret>>
      BY <2>14 DEF Command
    <3>2. QED
      BY <3>1, <1>1
  <2>15. CASE Acquire(t)
    <3>1. /\ pc[t] = "take" /\ op'[t] = op[t] /\ UNCHANGED <<sock, ret>>
          /\ \/ op[t] = "init" /\ pc'[t] = "clear"
             \/ op[t] \in {"command", "reset"} /\ pc'[t] = "act"
             \/ op[t] \in SocketOps /\ pc'[t] = "select"
      BY <2>15 DEF Acquire
    <3>2. QED
      BY <3>1, <1>1
  <2>16. CASE TakeTimeout(t)
    <3>1. /\ pc'[t] = After(t) /\ op'[t] = "none"
          /\ sock'[t] = sock[t] /\ ret'[t] = ret[t]
      BY <2>16 DEF TakeTimeout
    <3>2. CASE op[t] = "stop"
      <4>1. ret[t] = "open" /\ sock[t] \in Sockets
        BY <2>16, <3>2 DEF TakeTimeout
      <4>2. pc'[t] = "return"
        BY <3>1, <3>2 DEF After
      <4>3. QED
        BY <3>1, <4>1, <4>2, <1>1
    <3>3. CASE op[t] = "command"
      <4>1. ret[t] = "open" /\ sock[t] = NoSocket
        BY <2>16, <3>3 DEF TakeTimeout
      <4>2. pc'[t] = "closed"
        BY <3>1, <3>3 DEF After
      <4>3. QED
        BY <3>1, <4>1, <4>2, <1>1
    <3>4. CASE op[t] = "connect"
      <4>1. ret[t] = "open" /\ sock[t] \in Sockets
        BY <2>16, <3>4 DEF TakeTimeout
      <4>2. pc'[t] = "open"
        BY <3>1, <3>4 DEF After
      <4>3. QED
        BY <3>1, <4>1, <4>2, <1>1
    <3>5. CASE op[t] \notin {"stop", "command", "connect"}
      BY <2>16, <3>1, <3>5, <1>1 DEF TakeTimeout, After
    <3>6. QED
      BY <3>2, <3>3, <3>4, <3>5
  <2>17. CASE Select(t)
    <3>1. /\ pc[t] = "select" /\ pc'[t] \in {"act", "give"}
          /\ UNCHANGED <<op, sock, ret>>
      BY <2>17 DEF Select
    <3>2. QED
      BY <3>1, <1>1
  <2>18. CASE ActConnect(t)
    <3>1. /\ pc[t] = "act" /\ op[t] = "connect"
          /\ pc'[t] = "give" /\ op'[t] = op[t]
          /\ UNCHANGED <<sock, ret>>
      BY <2>18 DEF ActConnect
    <3>2. QED
      BY <3>1, <1>1
  <2>19. CASE ActTransfer(t)
    BY <2>19, <1>1 DEF ActTransfer, Failures
  <2>20. CASE ActStop(t)
    <3>1. /\ pc[t] = "act" /\ op[t] = "stop"
          /\ pc'[t] = "give" /\ op'[t] = op[t]
          /\ UNCHANGED <<sock, ret>>
      BY <2>20 DEF ActStop
    <3>2. QED
      BY <3>1, <1>1
  <2>21. CASE ActCommand(t)
    <3>1. /\ pc[t] = "act" /\ op[t] = "command"
          /\ pc'[t] = "give" /\ op'[t] = op[t]
          /\ UNCHANGED <<sock, ret>>
      BY <2>21 DEF ActCommand
    <3>2. QED
      BY <3>1, <1>1
  <2>22. CASE ActReset(t)
    <3>1. /\ pc[t] = "act" /\ op[t] = "reset"
          /\ pc'[t] = "give" /\ op'[t] = op[t]
          /\ UNCHANGED <<sock, ret>>
      BY <2>22 DEF ActReset
    <3>2. QED
      BY <3>1, <1>1
  <2>23. CASE GiveTransfer(t)
    BY <2>23, <1>1 DEF GiveTransfer
  <2>24. CASE GiveOther(t)
    <3>1. /\ op'[t] = "none" /\ sock'[t] = sock[t] /\ ret'[t] = ret[t]
          /\ op[t] \in {"connect", "stop", "command"} /\ pc[t] = "give"
      BY <2>24 DEF GiveOther
    <3>2. ret[t] = "open"
      BY <3>1
    <3>3. \/ pc'[t] = "tls" /\ op[t] = "connect"
          \/ pc'[t] = After(t)
      BY <2>24 DEF GiveOther
    <3>4. QED
      BY <3>1, <3>2, <3>3, <1>1 DEF After
  <2>25. CASE GiveReset(t)
    <3>1. /\ pc[t] = "give" /\ op[t] = "reset"
          /\ pc'[t] = "take" /\ op'[t] = "init"
          /\ UNCHANGED <<sock, ret>>
      BY <2>25 DEF GiveReset
    <3>2. QED
      BY <3>1, <1>1
  <2>26. CASE PollAgain(t)
    <3>1. /\ pc[t] = "poll"
          /\ pc'[t] = "take" /\ op'[t] = "recv"
          /\ UNCHANGED <<sock, ret>>
      BY <2>26 DEF PollAgain
    <3>2. QED
      BY <3>1, <1>1
  <2>27. CASE Expire(t)
    <3>1. /\ pc[t] = "poll"
          /\ pc'[t] = "done" /\ op'[t] = "none"
          /\ UNCHANGED <<sock, ret>>
      BY <2>27 DEF Expire
    <3>2. QED
      BY <3>1, <1>1
  <2>28. CASE Clear(t)
    BY <2>28, <1>1 DEF Clear
  <2>29. CASE Mark(t)
    BY <2>29, <1>1 DEF Mark
  <2>30. CASE Done(t)
    <3>1. op[t] = "none" /\ sock[t] \in Sockets
      BY <2>30, <1>1 DEF Done
    <3>2. ret'[t] = "open" /\ sock'[t] = sock[t]
      BY <2>30 DEF Done
    <3>3. \/ pc'[t] = "take" /\ op'[t] = "send"
          \/ pc'[t] \in {"open", "handshake", "cleanup"} /\ op'[t] = "none"
      BY <2>30 DEF Done
    <3>4. QED
      BY <3>1, <3>2, <3>3, <1>1
  <2>31. CASE TlsInit(t)
    <3>1. /\ pc'[t] \in {"handshake", "open"} /\ op'[t] = "none"
          /\ sock'[t] = sock[t] /\ ret'[t] = ret[t]
      BY <2>31 DEF TlsInit
    <3>2. QED
      BY <2>31, <1>1, <3>1 DEF TlsInit
  <2>32. ASSUME NEW o \in {"send", "recv"}, Flight(t, o) PROVE ControlOf(t)'
    <3>1. /\ pc'[t] = "take" /\ op'[t] = o /\ o # "none" /\ o # "command"
          /\ sock'[t] = sock[t]
      BY <2>32 DEF Flight
    <3>2. QED
      BY <2>32, <1>1, <3>1 DEF Flight
  <2>33. CASE FinishHandshake(t)
    <3>1. /\ pc[t] = "handshake"
          /\ pc'[t] = "open" /\ op'[t] = "none"
          /\ UNCHANGED <<sock, ret>>
      BY <2>33 DEF FinishHandshake
    <3>2. QED
      BY <3>1, <1>1
  <2>34. QED
    BY <2>1, <2>2, <2>3, <2>4, <2>5, <2>6, <2>7, <2>8, <2>9, <2>10, <2>11,
       <2>12, <2>13, <2>14, <2>15, <2>16, <2>17, <2>18, <2>19, <2>20, <2>21,
       <2>22, <2>23, <2>24, <2>25, <2>26, <2>27, <2>28, <2>29, <2>30, <2>31,
       <2>32, <2>33, <1>2 DEF Call, Step
<1>4. ASSUME NEW u \in Tasks, u # t PROVE ControlOf(u)'
  BY <1>4, Frame DEF Control, ControlOf
<1>5. QED
  BY <1>3, <1>4 DEF Control

\* Who is inside the section that the semaphore protects is there alone.
LEMMA AloneInside ==
    ASSUME Exclusion, NEW t \in Tasks, pc[t] \in Critical
    PROVE  \A u \in Tasks : pc[u] \in Critical => u = t
BY DEF Exclusion

\* At most one task is between taking the semaphore and giving it back.
LEMMA ExclusionStep ==
    ASSUME TypeOK, Control, Exclusion,
           NEW t \in Tasks, Call(t) \/ Step(t)
    PROVE  Exclusion'
<1> USE DEF TypeOK, Exclusion, Critical, GoTo, Stage, Enter, Result, Touch,
           Accept, poolVars, moduleVars, taskVars, historyVars
<1>1. Nums
  BY SocketsAssumption DEF Nums
<1>2. Call(t) \/ Step(t)
  OBVIOUS
<1>3. ASSUME pc[t] \in Critical
      PROVE  \A u \in Tasks : pc[u] \in Critical => u = t
  BY <1>3, AloneInside
<1>4. QED
  <2>1. CASE Socket(t)
    BY <2>1 DEF Socket
  <2>2. CASE Claim(t)
    BY <2>2 DEF Claim
  <2>3. CASE Skip(t)
    BY <2>3 DEF Skip
  <2>4. CASE NoneFree(t)
    BY <2>4 DEF NoneFree
  <2>5. CASE Prepare(t)
    BY <2>5 DEF Prepare
  <2>6. CASE RequireTls(t)
    BY <2>6 DEF RequireTls
  <2>7. CASE Shutdown(t)
    BY <2>7 DEF Shutdown
  <2>8. CASE Connect(t)
    BY <2>8 DEF Connect
  <2>9. ASSUME NEW o \in {"send", "recv"}, Transfer(t, o) PROVE Exclusion'
    BY <2>9 DEF Transfer
  <2>10. CASE Close(t)
    BY <2>10 DEF Close
  <2>11. CASE Cleanup(t)
    BY <2>11 DEF Cleanup, Free
  <2>12. CASE CloseInvalid(t)
    BY <2>12 DEF CloseInvalid, Forget
  <2>13. CASE ReturnSocket(t)
    BY <2>13 DEF ReturnSocket, Forget
  <2>14. CASE Command(t)
    BY <2>14 DEF Command
  <2>15. CASE Acquire(t)
    BY <2>15 DEF Acquire
  <2>16. CASE TakeTimeout(t)
    BY <2>16 DEF TakeTimeout, After, Control, ControlOf
  <2>17. CASE Select(t)
    BY <2>17 DEF Select, Failures
  <2>18. CASE ActConnect(t)
    BY <2>18 DEF ActConnect
  <2>19. CASE ActTransfer(t)
    BY <2>19 DEF ActTransfer, Failures
  <2>20. CASE ActStop(t)
    BY <2>20 DEF ActStop
  <2>21. CASE ActCommand(t)
    BY <2>21 DEF ActCommand
  <2>22. CASE ActReset(t)
    BY <2>22 DEF ActReset
  <2>23. CASE GiveTransfer(t)
    BY <2>23, <1>3 DEF GiveTransfer
  <2>24. CASE GiveOther(t)
    BY <2>24, <1>3 DEF GiveOther, After, Control, ControlOf
  <2>25. CASE GiveReset(t)
    BY <2>25, <1>3 DEF GiveReset
  <2>26. CASE PollAgain(t)
    BY <2>26 DEF PollAgain
  <2>27. CASE Expire(t)
    BY <2>27 DEF Expire
  <2>28. CASE Clear(t)
    BY <2>28 DEF Clear
  <2>29. CASE Mark(t)
    BY <2>29, <1>3 DEF Mark
  <2>30. CASE Done(t)
    BY <2>30 DEF Done
  <2>31. CASE TlsInit(t)
    BY <2>31 DEF TlsInit
  <2>32. ASSUME NEW o \in {"send", "recv"}, Flight(t, o) PROVE Exclusion'
    BY <2>32 DEF Flight
  <2>33. CASE FinishHandshake(t)
    BY <2>33 DEF FinishHandshake
  <2>34. QED
    BY <2>1, <2>2, <2>3, <2>4, <2>5, <2>6, <2>7, <2>8, <2>9, <2>10, <2>11,
       <2>12, <2>13, <2>14, <2>15, <2>16, <2>17, <2>18, <2>19, <2>20, <2>21,
       <2>22, <2>23, <2>24, <2>25, <2>26, <2>27, <2>28, <2>29, <2>30, <2>31,
       <2>32, <2>33, <1>2 DEF Call, Step

\* The selected socket stays the holder's.
LEMMA ActsStep ==
    ASSUME TypeOK, Control, Exclusion, ActsOnItsSocket,
           NEW t \in Tasks, Call(t) \/ Step(t)
    PROVE  ActsOnItsSocket'
<1> USE DEF TypeOK, Critical, SocketOps, ActsOnItsSocket, GoTo, Stage, Enter,
           Result, Touch, Accept, poolVars, moduleVars, taskVars, historyVars
<1>1. Nums
  BY SocketsAssumption DEF Nums
<1>2. Call(t) \/ Step(t)
  OBVIOUS
<1>3. ASSUME pc[t] \in Critical
      PROVE  \A u \in Tasks : pc[u] \in Critical => u = t
  BY <1>3, AloneInside
<1>4. QED
  <2>1. CASE Socket(t)
    BY <2>1 DEF Socket
  <2>2. CASE Claim(t)
    BY <2>2 DEF Claim
  <2>3. CASE Skip(t)
    BY <2>3 DEF Skip
  <2>4. CASE NoneFree(t)
    BY <2>4 DEF NoneFree
  <2>5. CASE Prepare(t)
    BY <2>5 DEF Prepare
  <2>6. CASE RequireTls(t)
    BY <2>6 DEF RequireTls
  <2>7. CASE Shutdown(t)
    BY <2>7 DEF Shutdown
  <2>8. CASE Connect(t)
    BY <2>8 DEF Connect
  <2>9. ASSUME NEW o \in {"send", "recv"}, Transfer(t, o) PROVE ActsOnItsSocket'
    BY <2>9 DEF Transfer
  <2>10. CASE Close(t)
    BY <2>10 DEF Close
  <2>11. CASE Cleanup(t)
    BY <2>11 DEF Cleanup, Free
  <2>12. CASE CloseInvalid(t)
    BY <2>12 DEF CloseInvalid, Forget
  <2>13. CASE ReturnSocket(t)
    BY <2>13 DEF ReturnSocket, Forget
  <2>14. CASE Command(t)
    BY <2>14 DEF Command
  <2>15. CASE Acquire(t)
    BY <2>15 DEF Acquire
  <2>16. CASE TakeTimeout(t)
    BY <2>16 DEF TakeTimeout, After
  <2>17. CASE Select(t)
    BY <2>17, <1>3 DEF Select, Failures
  <2>18. CASE ActConnect(t)
    BY <2>18 DEF ActConnect
  <2>19. CASE ActTransfer(t)
    BY <2>19 DEF ActTransfer, Failures
  <2>20. CASE ActStop(t)
    BY <2>20 DEF ActStop
  <2>21. CASE ActCommand(t)
    BY <2>21 DEF ActCommand
  <2>22. CASE ActReset(t)
    BY <2>22, <1>3 DEF ActReset
  <2>23. CASE GiveTransfer(t)
    BY <2>23 DEF GiveTransfer
  <2>24. CASE GiveOther(t)
    BY <2>24 DEF GiveOther, After
  <2>25. CASE GiveReset(t)
    BY <2>25 DEF GiveReset
  <2>26. CASE PollAgain(t)
    BY <2>26 DEF PollAgain
  <2>27. CASE Expire(t)
    BY <2>27 DEF Expire
  <2>28. CASE Clear(t)
    BY <2>28 DEF Clear
  <2>29. CASE Mark(t)
    BY <2>29 DEF Mark
  <2>30. CASE Done(t)
    BY <2>30 DEF Done
  <2>31. CASE TlsInit(t)
    BY <2>31 DEF TlsInit
  <2>32. ASSUME NEW o \in {"send", "recv"}, Flight(t, o) PROVE ActsOnItsSocket'
    BY <2>32 DEF Flight
  <2>33. CASE FinishHandshake(t)
    BY <2>33 DEF FinishHandshake
  <2>34. QED
    BY <2>1, <2>2, <2>3, <2>4, <2>5, <2>6, <2>7, <2>8, <2>9, <2>10, <2>11,
       <2>12, <2>13, <2>14, <2>15, <2>16, <2>17, <2>18, <2>19, <2>20, <2>21,
       <2>22, <2>23, <2>24, <2>25, <2>26, <2>27, <2>28, <2>29, <2>30, <2>31,
       <2>32, <2>33, <1>2 DEF Call, Step

\* Claiming, returning and recovering sockets keep one owner for each.
LEMMA OwnerStep ==
    ASSUME TypeOK, Control, OneOwner,
           NEW t \in Tasks, Call(t) \/ Step(t)
    PROVE  OneOwner'
<1> USE DEF TypeOK, Control, ControlOf, Critical, OneOwner, Holds, Sockets,
           NoSocket, Nums, GoTo, Stage, Enter, Result, Touch, Accept, poolVars,
           moduleVars, taskVars, historyVars
<1>1. Nums
  BY SocketsAssumption DEF Nums
<1>2. Call(t) \/ Step(t)
  OBVIOUS
<1>3. QED
  <2>1. CASE Socket(t)
    BY <2>1, <1>1 DEF Socket
  <2>2. CASE Claim(t)
    BY <2>2, <1>1 DEF Claim
  <2>3. CASE Skip(t)
    BY <2>3, <1>1 DEF Skip
  <2>4. CASE NoneFree(t)
    BY <2>4, <1>1 DEF NoneFree
  <2>5. CASE Prepare(t)
    BY <2>5, <1>1 DEF Prepare
  <2>6. CASE RequireTls(t)
    BY <2>6, <1>1 DEF RequireTls
  <2>7. CASE Shutdown(t)
    BY <2>7, <1>1 DEF Shutdown
  <2>8. CASE Connect(t)
    BY <2>8, <1>1 DEF Connect
  <2>9. ASSUME NEW o \in {"send", "recv"}, Transfer(t, o) PROVE OneOwner'
    BY <2>9, <1>1 DEF Transfer
  <2>10. CASE Close(t)
    BY <2>10, <1>1 DEF Close
  <2>11. CASE Cleanup(t)
    BY <2>11, <1>1 DEF Cleanup, Free
  <2>12. CASE CloseInvalid(t)
    BY <2>12, <1>1 DEF CloseInvalid, Forget
  <2>13. CASE ReturnSocket(t)
    BY <2>13, <1>1 DEF ReturnSocket, Forget
  <2>14. CASE Command(t)
    BY <2>14, <1>1 DEF Command
  <2>15. CASE Acquire(t)
    BY <2>15, <1>1 DEF Acquire
  <2>16. CASE TakeTimeout(t)
    BY <2>16, <1>1 DEF TakeTimeout, After
  <2>17. CASE Select(t)
    BY <2>17, <1>1 DEF Select, Failures
  <2>18. CASE ActConnect(t)
    BY <2>18, <1>1 DEF ActConnect
  <2>19. CASE ActTransfer(t)
    BY <2>19, <1>1 DEF ActTransfer, Failures
  <2>20. CASE ActStop(t)
    BY <2>20, <1>1 DEF ActStop
  <2>21. CASE ActCommand(t)
    BY <2>21, <1>1 DEF ActCommand
  <2>22. CASE ActReset(t)
    BY <2>22, <1>1 DEF ActReset
  <2>23. CASE GiveTransfer(t)
    BY <2>23, <1>1 DEF GiveTransfer
  <2>24. CASE GiveOther(t)
    BY <2>24, <1>1 DEF GiveOther, After
  <2>25. CASE GiveReset(t)
    BY <2>25, <1>1 DEF GiveReset
  <2>26. CASE PollAgain(t)
    BY <2>26, <1>1 DEF PollAgain
  <2>27. CASE Expire(t)
    BY <2>27, <1>1 DEF Expire
  <2>28. CASE Clear(t)
    BY <2>28, <1>1 DEF Clear
  <2>29. CASE Mark(t)
    BY <2>29, <1>1 DEF Mark
  <2>30. CASE Done(t)
    BY <2>30, <1>1 DEF Done
  <2>31. CASE TlsInit(t)
    BY <2>31, <1>1 DEF TlsInit
  <2>32. ASSUME NEW o \in {"send", "recv"}, Flight(t, o) PROVE OneOwner'
    BY <2>32, <1>1 DEF Flight
  <2>33. CASE FinishHandshake(t)
    BY <2>33, <1>1 DEF FinishHandshake
  <2>34. QED
    BY <2>1, <2>2, <2>3, <2>4, <2>5, <2>6, <2>7, <2>8, <2>9, <2>10, <2>11,
       <2>12, <2>13, <2>14, <2>15, <2>16, <2>17, <2>18, <2>19, <2>20, <2>21,
       <2>22, <2>23, <2>24, <2>25, <2>26, <2>27, <2>28, <2>29, <2>30, <2>31,
       <2>32, <2>33, <1>2 DEF Call, Step

\* What a connection attempt does to the pool, to the module and to `up`.
LEMMA ConnectEffect ==
    ASSUME TypeOK, NEW t \in Tasks, ActConnect(t)
    PROVE  /\ pc[t] = "act" /\ op[t] = "connect"
           /\ pc' = [pc EXCEPT ![t] = "give"]
           /\ UNCHANGED <<op, ret, sock, stale, inUse>>
           /\ past' # "crossed" => past # "crossed" /\ ~(stale[t] /\ inUse[sock[t]])
           /\ \A s \in Sockets : /\ flags[s] \subseteq flags'[s]
                                 /\ s # sel => link'[s] = link[s]
           /\ \/ up' = [up EXCEPT ![t] = TRUE] /\ link'[sel] = {t}
                 /\ (sock[t] \in Sockets => "connected" \in flags'[sock[t]])
              \/ up' = up /\ flags' = flags
<1>1. pc[t] = "act" /\ op[t] = "connect" /\ pc' = [pc EXCEPT ![t] = "give"]
  BY DEF ActConnect, Stage
<1>2. UNCHANGED <<op, ret, sock, stale, inUse>>
  BY DEF ActConnect, Stage
<1>3. past' # "crossed" => past # "crossed" /\ ~(stale[t] /\ inUse[sock[t]])
  BY DEF ActConnect, Touch
<1>4. \/ /\ link' = [link EXCEPT ![sel] = {t}]
         /\ flags' = [flags EXCEPT ![sock[t]] = @ \union {"connected"}]
         /\ up' = [up EXCEPT ![t] = TRUE]
      \/ /\ \E l \in {link[sel], {t}} : link' = [link EXCEPT ![sel] = l]
         /\ UNCHANGED <<flags, up>>
  BY Zenon DEF ActConnect
<1>5. \A s \in Sockets : flags[s] \subseteq flags'[s] /\ (s # sel => link'[s] = link[s])
  BY <1>4 DEF TypeOK
<1>6. \/ up' = [up EXCEPT ![t] = TRUE] /\ link'[sel] = {t}
         /\ (sock[t] \in Sockets => "connected" \in flags'[sock[t]])
      \/ up' = up /\ flags' = flags
  BY <1>4 DEF TypeOK
<1>7. QED
  BY <1>1, <1>2, <1>3, <1>5, <1>6

\* The two steps at which a connection comes up.
LEMMA ConnectKeepsConnected ==
    ASSUME TypeOK, Control, Connected, NEW t \in Tasks, ActConnect(t)
    PROVE  Connected'
<1>1. /\ pc[t] = "act" /\ op[t] = "connect" /\ pc' = [pc EXCEPT ![t] = "give"]
      /\ UNCHANGED <<op, ret, sock, stale>> /\ (past' # "crossed" => past # "crossed")
      /\ \A s \in Sockets : flags[s] \subseteq flags'[s]
  BY ConnectEffect
<1>2. ret[t] = "open" /\ sock[t] \in Sockets
  BY <1>1 DEF Control, ControlOf, Critical
<1>3. pc'[t] = "give" /\ \A u \in Tasks \ {t} : pc'[u] = pc[u]
  BY <1>1 DEF TypeOK
<1>4. ASSUME NEW u \in Tasks, up'[u]
      PROVE  /\ ~Closing(u)'
             /\ past' # "crossed" /\ ~stale[u] =>
                 /\ "connected" \in flags'[sock[u]]
                 /\ op[u] = "connect" => pc'[u] = "give"
  <2>1. CASE u = t
    <3>1. ~Closing(u)'
      BY <1>1, <1>2, <1>3, <2>1 DEF Closing
    <3>2. CASE up[t]
      BY <1>1, <1>2, <1>3, <2>1, <3>1, <3>2 DEF Connected
    <3>3. CASE ~up[t]
      <4>1. "connected" \in flags'[sock[t]]
        BY <1>2, <1>4, <2>1, <3>3, ConnectEffect
      <4>2. QED
        BY <1>3, <2>1, <3>1, <4>1
    <3>4. QED
      BY <3>2, <3>3
  <2>2. CASE u # t
    <3>1. up[u]
      BY <1>4, <2>2, ConnectEffect DEF TypeOK
    <3>2. ~Closing(u) /\ sock[u] \in Sockets
      BY <3>1 DEF Connected, Closing, Control, ControlOf
    <3>3. QED
      BY <1>1, <1>3, <2>2, <3>1, <3>2 DEF Connected, Closing
  <2>3. QED
    BY <2>1, <2>2
<1>5. QED
  BY <1>1, <1>4 DEF Connected

LEMMA ConnectKeepsOwn ==
    ASSUME TypeOK, Control, ActsOnItsSocket, OneOwner, Connected, OwnConnection,
           NEW t \in Tasks, ActConnect(t)
    PROVE  OwnConnection'
<1>1. SUFFICES ASSUME past' # "crossed", NEW u \in Tasks, up'[u], ~stale'[u]
               PROVE  link'[sock'[u]] = {u}
  BY DEF OwnConnection
<1>2. /\ pc[t] = "act" /\ op[t] = "connect" /\ UNCHANGED <<sock, stale>>
      /\ past # "crossed" /\ ~(stale[t] /\ inUse[sock[t]])
      /\ \A s \in Sockets : s # sel => link'[s] = link[s]
  BY <1>1, ConnectEffect
<1>3. sel = sock[t] /\ sock[t] \in Sockets
  BY <1>2 DEF ActsOnItsSocket, SocketOps, Control, ControlOf
<1>4. CASE u = t
  <2>1. ~up[t]
    BY <1>1, <1>2, <1>4 DEF Connected
  <2>2. QED
    BY <1>2, <1>3, <1>1, <1>4, <2>1, ConnectEffect
<1>5. CASE u # t
  <2>1. up[u] /\ ~stale[u]
    BY <1>1, <1>2, <1>5, ConnectEffect DEF TypeOK
  <2>2. ~Closing(u) /\ sock[u] \in Sockets
    BY <2>1 DEF Connected, Closing, Control, ControlOf
  <2>3. Holds(u) /\ Holds(t)
    <3>1. NoSocket \notin Sockets
      BY SocketsAssumption DEF NoSocket, Sockets
    <3>2. QED
      BY <1>2, <1>3, <2>2, <3>1 DEF Holds, Closing
  <2>4. sock[u] # sock[t]
    BY <1>2, <1>5, <2>1, <2>3 DEF OneOwner
  <2>5. QED
    BY <1>2, <1>3, <2>1, <2>2, <2>4 DEF OwnConnection
<1>6. QED
  BY <1>4, <1>5

\* A connection that is up belongs to a task that is not closing it.
LEMMA ConnectedStep ==
    ASSUME TypeOK, Control, OneOwner, Connected,
           NEW t \in Tasks, Call(t) \/ Step(t)
    PROVE  Connected'
<1> USE DEF TypeOK, Control, ControlOf, Critical, OneOwner, Holds, Sockets,
           NoSocket, Nums, Connected, Closing, GoTo, Stage, Enter, Result,
           Touch, Accept, poolVars, moduleVars, taskVars, historyVars
<1>1. Nums
  BY SocketsAssumption DEF Nums
<1>2. Call(t) \/ Step(t)
  OBVIOUS
<1>3. QED
  <2>1. CASE Socket(t)
    BY <2>1, <1>1 DEF Socket
  <2>2. CASE Claim(t)
    BY <2>2, <1>1 DEF Claim
  <2>3. CASE Skip(t)
    BY <2>3, <1>1 DEF Skip
  <2>4. CASE NoneFree(t)
    BY <2>4, <1>1 DEF NoneFree
  <2>5. CASE Prepare(t)
    BY <2>5, <1>1 DEF Prepare
  <2>6. CASE RequireTls(t)
    BY <2>6, <1>1 DEF RequireTls
  <2>7. CASE Shutdown(t)
    BY <2>7, <1>1 DEF Shutdown
  <2>8. CASE Connect(t)
    BY <2>8, <1>1 DEF Connect
  <2>9. ASSUME NEW o \in {"send", "recv"}, Transfer(t, o) PROVE Connected'
    BY <2>9, <1>1 DEF Transfer
  <2>10. CASE Close(t)
    BY <2>10, <1>1 DEF Close
  <2>11. CASE Cleanup(t)
    BY <2>11, <1>1 DEF Cleanup, Free
  <2>12. CASE CloseInvalid(t)
    BY <2>12, <1>1 DEF CloseInvalid, Forget
  <2>13. CASE ReturnSocket(t)
    BY <2>13, <1>1 DEF ReturnSocket, Forget
  <2>14. CASE Command(t)
    BY <2>14, <1>1 DEF Command
  <2>15. CASE Acquire(t)
    BY <2>15, <1>1 DEF Acquire
  <2>16. CASE TakeTimeout(t)
    BY <2>16, <1>1 DEF TakeTimeout, After
  <2>17. CASE Select(t)
    BY <2>17, <1>1 DEF Select, Failures
  <2>18. CASE ActConnect(t)
    BY <2>18, ConnectKeepsConnected
  <2>19. CASE ActTransfer(t)
    BY <2>19, <1>1 DEF ActTransfer, Failures
  <2>20. CASE ActStop(t)
    BY <2>20, <1>1 DEF ActStop
  <2>21. CASE ActCommand(t)
    BY <2>21, <1>1 DEF ActCommand
  <2>22. CASE ActReset(t)
    BY <2>22, <1>1 DEF ActReset
  <2>23. CASE GiveTransfer(t)
    BY <2>23, <1>1 DEF GiveTransfer
  <2>24. CASE GiveOther(t)
    BY <2>24, <1>1 DEF GiveOther, After
  <2>25. CASE GiveReset(t)
    BY <2>25, <1>1 DEF GiveReset
  <2>26. CASE PollAgain(t)
    BY <2>26, <1>1 DEF PollAgain
  <2>27. CASE Expire(t)
    BY <2>27, <1>1 DEF Expire
  <2>28. CASE Clear(t)
    BY <2>28, <1>1 DEF Clear
  <2>29. CASE Mark(t)
    BY <2>29, <1>1 DEF Mark
  <2>30. CASE Done(t)
    BY <2>30, <1>1 DEF Done
  <2>31. CASE TlsInit(t)
    BY <2>31, <1>1 DEF TlsInit
  <2>32. ASSUME NEW o \in {"send", "recv"}, Flight(t, o) PROVE Connected'
    BY <2>32, <1>1 DEF Flight
  <2>33. CASE FinishHandshake(t)
    BY <2>33, <1>1 DEF FinishHandshake
  <2>34. QED
    BY <2>1, <2>2, <2>3, <2>4, <2>5, <2>6, <2>7, <2>8, <2>9, <2>10, <2>11,
       <2>12, <2>13, <2>14, <2>15, <2>16, <2>17, <2>18, <2>19, <2>20, <2>21,
       <2>22, <2>23, <2>24, <2>25, <2>26, <2>27, <2>28, <2>29, <2>30, <2>31,
       <2>32, <2>33, <1>2 DEF Call, Step

\* Nobody else's command reaches the connection of a task.
LEMMA OwnConnectionStep ==
    ASSUME TypeOK, Control, ActsOnItsSocket, OneOwner, Connected,
           OwnConnection,
           NEW t \in Tasks, Call(t) \/ Step(t)
    PROVE  OwnConnection'
<1> USE DEF TypeOK, Control, ControlOf, Critical, OneOwner, Holds, Sockets,
           NoSocket, Nums, Connected, Closing, ActsOnItsSocket, SocketOps,
           OwnConnection, GoTo, Stage, Enter, Result, Touch, Accept, poolVars,
           moduleVars, taskVars, historyVars
<1>1. Nums
  BY SocketsAssumption DEF Nums
<1>2. Call(t) \/ Step(t)
  OBVIOUS
<1>3. QED
  <2>1. CASE Socket(t)
    BY <2>1, <1>1 DEF Socket
  <2>2. CASE Claim(t)
    BY <2>2, <1>1 DEF Claim
  <2>3. CASE Skip(t)
    BY <2>3, <1>1 DEF Skip
  <2>4. CASE NoneFree(t)
    BY <2>4, <1>1 DEF NoneFree
  <2>5. CASE Prepare(t)
    BY <2>5, <1>1 DEF Prepare
  <2>6. CASE RequireTls(t)
    BY <2>6, <1>1 DEF RequireTls
  <2>7. CASE Shutdown(t)
    BY <2>7, <1>1 DEF Shutdown
  <2>8. CASE Connect(t)
    BY <2>8, <1>1 DEF Connect
  <2>9. ASSUME NEW o \in {"send", "recv"}, Transfer(t, o) PROVE OwnConnection'
    BY <2>9, <1>1 DEF Transfer
  <2>10. CASE Close(t)
    BY <2>10, <1>1 DEF Close
  <2>11. CASE Cleanup(t)
    BY <2>11, <1>1 DEF Cleanup, Free
  <2>12. CASE CloseInvalid(t)
    BY <2>12, <1>1 DEF CloseInvalid, Forget
  <2>13. CASE ReturnSocket(t)
    BY <2>13, <1>1 DEF ReturnSocket, Forget
  <2>14. CASE Command(t)
    BY <2>14, <1>1 DEF Command
  <2>15. CASE Acquire(t)
    BY <2>15, <1>1 DEF Acquire
  <2>16. CASE TakeTimeout(t)
    BY <2>16, <1>1 DEF TakeTimeout, After
  <2>17. CASE Select(t)
    BY <2>17, <1>1 DEF Select, Failures
  <2>18. CASE ActConnect(t)
    BY <2>18, ConnectKeepsOwn
  <2>19. CASE ActTransfer(t)
    BY <2>19, <1>1 DEF ActTransfer, Failures
  <2>20. CASE ActStop(t)
    BY <2>20, <1>1 DEF ActStop
  <2>21. CASE ActCommand(t)
    BY <2>21, <1>1 DEF ActCommand
  <2>22. CASE ActReset(t)
    BY <2>22, <1>1 DEF ActReset
  <2>23. CASE GiveTransfer(t)
    BY <2>23, <1>1 DEF GiveTransfer
  <2>24. CASE GiveOther(t)
    BY <2>24, <1>1 DEF GiveOther, After
  <2>25. CASE GiveReset(t)
    BY <2>25, <1>1 DEF GiveReset
  <2>26. CASE PollAgain(t)
    BY <2>26, <1>1 DEF PollAgain
  <2>27. CASE Expire(t)
    BY <2>27, <1>1 DEF Expire
  <2>28. CASE Clear(t)
    BY <2>28, <1>1 DEF Clear
  <2>29. CASE Mark(t)
    BY <2>29, <1>1 DEF Mark
  <2>30. CASE Done(t)
    BY <2>30, <1>1 DEF Done
  <2>31. CASE TlsInit(t)
    BY <2>31, <1>1 DEF TlsInit
  <2>32. ASSUME NEW o \in {"send", "recv"}, Flight(t, o) PROVE OwnConnection'
    BY <2>32, <1>1 DEF Flight
  <2>33. CASE FinishHandshake(t)
    BY <2>33, <1>1 DEF FinishHandshake
  <2> HIDE DEF OwnConnection
  <2>34. QED
    BY <2>1, <2>2, <2>3, <2>4, <2>5, <2>6, <2>7, <2>8, <2>9, <2>10, <2>11,
       <2>12, <2>13, <2>14, <2>15, <2>16, <2>17, <2>18, <2>19, <2>20, <2>21,
       <2>22, <2>23, <2>24, <2>25, <2>26, <2>27, <2>28, <2>29, <2>30, <2>31,
       <2>32, <2>33, <1>2 DEF Call, Step

\* A step that frees no context and keeps the handle keeps ContextKept.
LEMMA ContextFrame ==
    ASSUME TypeOK, ContextKept, NEW t \in Tasks, Call(t) \/ Step(t),
           sock' = sock, stale' = stale, past' # "crossed" => past # "crossed",
           \A s \in Sockets : ctx'[s] = "freed" => ctx[s] = "freed",
           \/ pc[t] \notin {"scan", "fresh", "return"} /\ op[t] # "stop"
           \/ op'[t] = "stop" \/ pc'[t] = "return"
    PROVE  ContextKept'
<1>1. SUFFICES ASSUME past' # "crossed", NEW u \in Tasks, Holds(u)', ~stale[u],
                      ctx'[sock[u]] = "freed"
               PROVE  pc'[u] \in {"fresh", "return"} \/ op'[u] = "stop"
  BY DEF ContextKept
<1>2. sock[u] \in Sockets
  BY <1>1, SocketsAssumption DEF TypeOK, Holds, NoSocket, Sockets
<1>3. past # "crossed" /\ ctx[sock[u]] = "freed"
  BY <1>1, <1>2
<1>4. CASE u = t
  BY <1>1, <1>3, <1>4 DEF ContextKept, Holds
<1>5. CASE u # t
  <2>1. pc'[u] = pc[u] /\ op'[u] = op[u]
    BY <1>5, Frame
  <2>2. QED
    BY <1>1, <1>3, <2>1 DEF ContextKept, Holds
<1>6. QED
  BY <1>4, <1>5

\* Only Cleanup frees a context, and goes on to stop the connection.
LEMMA ContextStep ==
    ASSUME TypeOK, Control, OneOwner, ContextKept,
           NEW t \in Tasks, Call(t) \/ Step(t)
    PROVE  ContextKept'
<1> USE DEF TypeOK, Control, ControlOf, Critical, OneOwner, Holds, Sockets,
           NoSocket, Nums, ContextKept,
           GoTo, Stage, Enter, Result,
           Touch, Accept, poolVars, moduleVars, taskVars, historyVars
<1>1. Nums
  BY SocketsAssumption DEF Nums
<1>2. Call(t) \/ Step(t)
  OBVIOUS
<1>3. QED
  <2>1. CASE Socket(t)
    BY <2>1, <1>1 DEF Socket
  <2>2. CASE Claim(t)
    BY <2>2, <1>1 DEF Claim
  <2>3. CASE Skip(t)
    BY <2>3, <1>1 DEF Skip
  <2>4. CASE NoneFree(t)
    BY <2>4, <1>1 DEF NoneFree
  <2>5. CASE Prepare(t)
    BY <2>5, <1>1 DEF Prepare
  <2>6. CASE RequireTls(t)
    BY <2>6, <1>1 DEF RequireTls
  <2>7. CASE Shutdown(t)
    BY <2>7, <1>1 DEF Shutdown
  <2>8. CASE Connect(t)
    <3>1. /\ sock' = sock /\ stale' = stale
          /\ past' # "crossed" => past # "crossed"
      BY <2>8 DEF Connect
    <3>2. \A s \in Sockets : ctx'[s] = "freed" => ctx[s] = "freed"
      BY <2>8 DEF Connect
    <3>3. \/ pc[t] \notin {"scan", "fresh", "return"} /\ op[t] # "stop"
          \/ op'[t] = "stop" \/ pc'[t] = "return"
      BY <2>8 DEF Connect
    <3> HIDE DEF ContextKept, TypeOK, Control, Sockets
    <3>4. QED
      BY <3>1, <3>2, <3>3, ContextFrame
  <2>9. ASSUME NEW o \in {"send", "recv"}, Transfer(t, o) PROVE ContextKept'
    <3>1. /\ sock' = sock /\ stale' = stale
          /\ past' # "crossed" => past # "crossed"
      BY <2>9 DEF Transfer
    <3>2. \A s \in Sockets : ctx'[s] = "freed" => ctx[s] = "freed"
      BY <2>9 DEF Transfer
    <3>3. \/ pc[t] \notin {"scan", "fresh", "return"} /\ op[t] # "stop"
          \/ op'[t] = "stop" \/ pc'[t] = "return"
      BY <2>9 DEF Transfer
    <3> HIDE DEF ContextKept, TypeOK, Control, Sockets
    <3>4. QED
      BY <3>1, <3>2, <3>3, ContextFrame
  <2>10. CASE Close(t)
    <3>1. /\ sock' = sock /\ stale' = stale
          /\ past' # "crossed" => past # "crossed"
      BY <2>10 DEF Close
    <3>2. \A s \in Sockets : ctx'[s] = "freed" => ctx[s] = "freed"
      BY <2>10 DEF Close
    <3>3. \/ pc[t] \notin {"scan", "fresh", "return"} /\ op[t] # "stop"
          \/ op'[t] = "stop" \/ pc'[t] = "return"
      BY <2>10 DEF Close
    <3> HIDE DEF ContextKept, TypeOK, Control, Sockets
    <3>4. QED
      BY <3>1, <3>2, <3>3, ContextFrame
  <2>11. CASE Cleanup(t)
    BY <2>11, <1>1 DEF Cleanup, Free
  <2>12. CASE CloseInvalid(t)
    BY <2>12, <1>1 DEF CloseInvalid, Forget
  <2>13. CASE ReturnSocket(t)
    BY <2>13, <1>1 DEF ReturnSocket, Forget
  <2>14. CASE Command(t)
    BY <2>14, <1>1 DEF Command
  <2>15. CASE Acquire(t)
    BY <2>15, <1>1 DEF Acquire
  <2>16. CASE TakeTimeout(t)
    BY <2>16, <1>1 DEF TakeTimeout, After
  <2>17. CASE Select(t)
    <3>1. /\ sock' = sock /\ stale' = stale
          /\ past' # "crossed" => past # "crossed"
      BY <2>17 DEF Select
    <3>2. \A s \in Sockets : ctx'[s] = "freed" => ctx[s] = "freed"
      BY <2>17 DEF Select
    <3>3. \/ pc[t] \notin {"scan", "fresh", "return"} /\ op[t] # "stop"
          \/ op'[t] = "stop" \/ pc'[t] = "return"
      BY <2>17 DEF Select
    <3> HIDE DEF ContextKept, TypeOK, Control, Sockets
    <3>4. QED
      BY <3>1, <3>2, <3>3, ContextFrame
  <2>18. CASE ActConnect(t)
    BY <2>18, <1>1 DEF ActConnect
  <2>19. CASE ActTransfer(t)
    BY <2>19, <1>1 DEF ActTransfer, Failures
  <2>20. CASE ActStop(t)
    BY <2>20, <1>1 DEF ActStop
  <2>21. CASE ActCommand(t)
    BY <2>21, <1>1 DEF ActCommand
  <2>22. CASE ActReset(t)
    BY <2>22, <1>1 DEF ActReset
  <2>23. CASE GiveTransfer(t)
    <3>1. /\ sock' = sock /\ stale' = stale
          /\ past' # "crossed" => past # "crossed"
      BY <2>23 DEF GiveTransfer
    <3>2. \A s \in Sockets : ctx'[s] = "freed" => ctx[s] = "freed"
      BY <2>23 DEF GiveTransfer
    <3>3. \/ pc[t] \notin {"scan", "fresh", "return"} /\ op[t] # "stop"
          \/ op'[t] = "stop" \/ pc'[t] = "return"
      BY <2>23 DEF GiveTransfer
    <3> HIDE DEF ContextKept, TypeOK, Control, Sockets
    <3>4. QED
      BY <3>1, <3>2, <3>3, ContextFrame
  <2>24. CASE GiveOther(t)
    <3>1. /\ sock' = sock /\ stale' = stale
          /\ past' # "crossed" => past # "crossed"
      BY <2>24 DEF GiveOther, After
    <3>2. \A s \in Sockets : ctx'[s] = "freed" => ctx[s] = "freed"
      BY <2>24 DEF GiveOther, After
    <3>3. \/ pc[t] \notin {"scan", "fresh", "return"} /\ op[t] # "stop"
          \/ op'[t] = "stop" \/ pc'[t] = "return"
      BY <2>24 DEF GiveOther, After
    <3> HIDE DEF ContextKept, TypeOK, Control, Sockets
    <3>4. QED
      BY <3>1, <3>2, <3>3, ContextFrame
  <2>25. CASE GiveReset(t)
    BY <2>25, <1>1 DEF GiveReset
  <2>26. CASE PollAgain(t)
    <3>1. /\ sock' = sock /\ stale' = stale
          /\ past' # "crossed" => past # "crossed"
      BY <2>26 DEF PollAgain
    <3>2. \A s \in Sockets : ctx'[s] = "freed" => ctx[s] = "freed"
      BY <2>26 DEF PollAgain
    <3>3. \/ pc[t] \notin {"scan", "fresh", "return"} /\ op[t] # "stop"
          \/ op'[t] = "stop" \/ pc'[t] = "return"
      BY <2>26 DEF PollAgain
    <3> HIDE DEF ContextKept, TypeOK, Control, Sockets
    <3>4. QED
      BY <3>1, <3>2, <3>3, ContextFrame
  <2>27. CASE Expire(t)
    <3>1. /\ sock' = sock /\ stale' = stale
          /\ past' # "crossed" => past # "crossed"
      BY <2>27 DEF Expire
    <3>2. \A s \in Sockets : ctx'[s] = "freed" => ctx[s] = "freed"
      BY <2>27 DEF Expire
    <3>3. \/ pc[t] \notin {"scan", "fresh", "return"} /\ op[t] # "stop"
          \/ op'[t] = "stop" \/ pc'[t] = "return"
      BY <2>27 DEF Expire
    <3> HIDE DEF ContextKept, TypeOK, Control, Sockets
    <3>4. QED
      BY <3>1, <3>2, <3>3, ContextFrame
  <2>28. CASE Clear(t)
    BY <2>28, <1>1 DEF Clear
  <2>29. CASE Mark(t)
    <3>1. /\ sock' = sock /\ stale' = stale
          /\ past' # "crossed" => past # "crossed"
      BY <2>29 DEF Mark
    <3>2. \A s \in Sockets : ctx'[s] = "freed" => ctx[s] = "freed"
      BY <2>29 DEF Mark
    <3>3. \/ pc[t] \notin {"scan", "fresh", "return"} /\ op[t] # "stop"
          \/ op'[t] = "stop" \/ pc'[t] = "return"
      BY <2>29 DEF Mark
    <3> HIDE DEF ContextKept, TypeOK, Control, Sockets
    <3>4. QED
      BY <3>1, <3>2, <3>3, ContextFrame
  <2>30. CASE Done(t)
    <3>1. /\ sock' = sock /\ stale' = stale
          /\ past' # "crossed" => past # "crossed"
      BY <2>30 DEF Done
    <3>2. \A s \in Sockets : ctx'[s] = "freed" => ctx[s] = "freed"
      <4>1. \/ ctx' = ctx
            \/ \E c \in {ctx[sock[t]], "live", "ready"} :
                   ctx' = [ctx EXCEPT ![sock[t]] = c]
        BY <2>30 DEF Done
      <4> HIDE DEF ContextKept, Control, OneOwner, Holds, Sockets
      <4>2. QED
        BY <4>1
    <3>3. pc[t] \notin {"scan", "fresh", "return"} /\ op[t] # "stop"
      BY <2>30 DEF Done
    <3> HIDE DEF ContextKept, TypeOK, Control, Sockets
    <3>4. QED
      BY <3>1, <3>2, <3>3, ContextFrame
  <2>31. CASE TlsInit(t)
    <3>1. /\ sock' = sock /\ stale' = stale
          /\ past' # "crossed" => past # "crossed"
      BY <2>31 DEF TlsInit
    <3>2. \A s \in Sockets : ctx'[s] = "freed" => ctx[s] = "freed"
      <4>1. \E c \in {ctx[sock[t]], "live", "ready"} :
               ctx' = [ctx EXCEPT ![sock[t]] = c]
        BY <2>31 DEF TlsInit
      <4> HIDE DEF ContextKept, Control, OneOwner, Holds, Sockets
      <4>2. QED
        BY <4>1
    <3>3. pc[t] \notin {"scan", "fresh", "return"} /\ op[t] # "stop"
      BY <2>31 DEF TlsInit
    <3> HIDE DEF ContextKept, TypeOK, Control, Sockets
    <3>4. QED
      BY <3>1, <3>2, <3>3, ContextFrame
  <2>32. ASSUME NEW o \in {"send", "recv"}, Flight(t, o) PROVE ContextKept'
    <3>1. /\ sock' = sock /\ stale' = stale
          /\ past' # "crossed" => past # "crossed"
      BY <2>32 DEF Flight
    <3>2. \A s \in Sockets : ctx'[s] = "freed" => ctx[s] = "freed"
      BY <2>32 DEF Flight
    <3>3. \/ pc[t] \notin {"scan", "fresh", "return"} /\ op[t] # "stop"
          \/ op'[t] = "stop" \/ pc'[t] = "return"
      BY <2>32 DEF Flight
    <3> HIDE DEF ContextKept, TypeOK, Control, Sockets
    <3>4. QED
      BY <3>1, <3>2, <3>3, ContextFrame
  <2>33. CASE FinishHandshake(t)
    <3>1. /\ sock' = sock /\ stale' = stale
          /\ past' # "crossed" => past # "crossed"
      BY <2>33 DEF FinishHandshake
    <3>2. \A s \in Sockets : ctx'[s] = "freed" => ctx[s] = "freed"
      <4>1. \/ ctx' = ctx
            \/ \E c \in {ctx[sock[t]], "live", "ready"} :
                   ctx' = [ctx EXCEPT ![sock[t]] = c]
        BY <2>33 DEF FinishHandshake
      <4> HIDE DEF ContextKept, Control, OneOwner, Holds, Sockets
      <4>2. QED
        BY <4>1
    <3>3. pc[t] \notin {"scan", "fresh", "return"} /\ op[t] # "stop"
      BY <2>33 DEF FinishHandshake
    <3> HIDE DEF ContextKept, TypeOK, Control, Sockets
    <3>4. QED
      BY <3>1, <3>2, <3>3, ContextFrame
  <2>34. QED
    BY <2>1, <2>2, <2>3, <2>4, <2>5, <2>6, <2>7, <2>8, <2>9, <2>10, <2>11,
       <2>12, <2>13, <2>14, <2>15, <2>16, <2>17, <2>18, <2>19, <2>20, <2>21,
       <2>22, <2>23, <2>24, <2>25, <2>26, <2>27, <2>28, <2>29, <2>30, <2>31,
       <2>32, <2>33, <1>2 DEF Call, Step

\* A step into any operation but the reset's, which it may begin.
LEMMA NeverResetFrame ==
    ASSUME NeverReset, TypeOK, NEW t \in Tasks, Call(t) \/ Step(t),
           stale' = stale, past' = "none" => past = "none",
           op'[t] # "init" /\ (op'[t] = "reset" => pc'[t] \in {"take", "act"})
    PROVE  NeverReset'
BY Frame DEF NeverReset

\* SOCKETS_Init runs after WIFI_Reset only.
LEMMA NeverResetStep ==
    ASSUME TypeOK, Control, NeverReset,
           NEW t \in Tasks, Call(t) \/ Step(t)
    PROVE  NeverReset'
<1> USE DEF TypeOK, Control, ControlOf, Critical, OneOwner, Holds, Sockets,
           NoSocket, Nums, NeverReset,
           GoTo, Stage, Enter, Result,
           Touch, Accept, poolVars, moduleVars, taskVars, historyVars
<1>1. Nums
  BY SocketsAssumption DEF Nums
<1>2. Call(t) \/ Step(t)
  OBVIOUS
<1>3. QED
  <2>1. CASE Socket(t)
    BY <2>1, <1>1 DEF Socket
  <2>2. CASE Claim(t)
    BY <2>2, <1>1 DEF Claim
  <2>3. CASE Skip(t)
    BY <2>3, <1>1 DEF Skip
  <2>4. CASE NoneFree(t)
    BY <2>4, <1>1 DEF NoneFree
  <2>5. CASE Prepare(t)
    BY <2>5, <1>1 DEF Prepare
  <2>6. CASE RequireTls(t)
    BY <2>6, <1>1 DEF RequireTls
  <2>7. CASE Shutdown(t)
    BY <2>7, <1>1 DEF Shutdown
  <2>8. CASE Connect(t)
    BY <2>8, <1>1 DEF Connect
  <2>9. ASSUME NEW o \in {"send", "recv"}, Transfer(t, o) PROVE NeverReset'
    BY <2>9, <1>1 DEF Transfer
  <2>10. CASE Close(t)
    <3>1. op'[t] \in {"none", "send", "stop"} /\ stale' = stale
      BY <2>10 DEF Close
    <3>2. past' = "none" => past = "none"
      BY <2>10 DEF Close
    <3>3. QED
      BY <3>1, <3>2, NeverResetFrame
  <2>11. CASE Cleanup(t)
    BY <2>11, <1>1 DEF Cleanup, Free
  <2>12. CASE CloseInvalid(t)
    BY <2>12, <1>1 DEF CloseInvalid, Forget
  <2>13. CASE ReturnSocket(t)
    BY <2>13, <1>1 DEF ReturnSocket, Forget
  <2>14. CASE Command(t)
    BY <2>14, <1>1 DEF Command
  <2>15. CASE Acquire(t)
    BY <2>15, <1>1 DEF Acquire
  <2>16. CASE TakeTimeout(t)
    BY <2>16, <1>1 DEF TakeTimeout, After
  <2>17. CASE Select(t)
    BY <2>17, <1>1 DEF Select, Failures
  <2>18. CASE ActConnect(t)
    BY <2>18, <1>1 DEF ActConnect
  <2>19. CASE ActTransfer(t)
    BY <2>19, <1>1 DEF ActTransfer, Failures
  <2>20. CASE ActStop(t)
    BY <2>20, <1>1 DEF ActStop
  <2>21. CASE ActCommand(t)
    BY <2>21, <1>1 DEF ActCommand
  <2>22. CASE ActReset(t)
    BY <2>22, <1>1 DEF ActReset
  <2>23. CASE GiveTransfer(t)
    <3>1. stale' = stale /\ past' = past
      BY <2>23 DEF GiveTransfer
    <3>2. Enter(t, "reset") \/ GoTo(t, "poll") \/ GoTo(t, "done")
      BY <2>23, Zenon DEF GiveTransfer
    <3>3. CASE Enter(t, "reset")
      BY <3>1, <3>3, NeverResetFrame
    <3>4. CASE GoTo(t, "poll")
      BY <3>1, <3>4, NeverResetFrame
    <3>5. CASE GoTo(t, "done")
      BY <3>1, <3>5, NeverResetFrame
    <3>6. QED
      BY <3>2, <3>3, <3>4, <3>5
  <2>24. CASE GiveOther(t)
    <3>1. op'[t] = "none" /\ stale' = stale /\ past' = past
      BY <2>24 DEF GiveOther
    <3>2. QED
      BY <3>1, NeverResetFrame
  <2>25. CASE GiveReset(t)
    BY <2>25, <1>1 DEF GiveReset
  <2>26. CASE PollAgain(t)
    BY <2>26, <1>1 DEF PollAgain
  <2>27. CASE Expire(t)
    BY <2>27, <1>1 DEF Expire
  <2>28. CASE Clear(t)
    BY <2>28, <1>1 DEF Clear
  <2>29. CASE Mark(t)
    BY <2>29, <1>1 DEF Mark
  <2>30. CASE Done(t)
    BY <2>30, <1>1 DEF Done
  <2>31. CASE TlsInit(t)
    <3>1. op'[t] = "none" /\ stale' = stale
      BY <2>31 DEF TlsInit
    <3>2. past' = "none" => past = "none"
      BY <2>31 DEF TlsInit
    <3>3. QED
      BY <3>1, <3>2, NeverResetFrame
  <2>32. ASSUME NEW o \in {"send", "recv"}, Flight(t, o) PROVE NeverReset'
    BY <2>32, <1>1 DEF Flight
  <2>33. CASE FinishHandshake(t)
    BY <2>33, <1>1 DEF FinishHandshake
  <2>34. QED
    BY <2>1, <2>2, <2>3, <2>4, <2>5, <2>6, <2>7, <2>8, <2>9, <2>10, <2>11,
       <2>12, <2>13, <2>14, <2>15, <2>16, <2>17, <2>18, <2>19, <2>20, <2>21,
       <2>22, <2>23, <2>24, <2>25, <2>26, <2>27, <2>28, <2>29, <2>30, <2>31,
       <2>32, <2>33, <1>2 DEF Call, Step

\* A task between its operations has its handle and no return address.
LEMMA Place ==
    ASSUME TypeOK, Control, NEW t \in Tasks,
           pc[t] \in {"closed", "scan", "fresh", "open", "cleanup", "return",
                      "tls", "handshake"}
    PROVE  /\ op[t] = "none" /\ ret[t] = "open"
           /\ pc[t] \notin {"closed", "scan"} => Holds(t) /\ sock[t] \in Sockets
<1>1. op[t] = "none"
  BY DEF Control, ControlOf, Critical
<1>2. QED
  BY <1>1, SocketsAssumption
     DEF Control, ControlOf, Critical, Holds, NoSocket, Sockets

\* A step changes the context and drops the flags of its own socket at most.
LEMMA SecuredFrame ==
    ASSUME TypeOK, Control, OneOwner, NeverReset, Secured,
           NEW t \in Tasks, Call(t) \/ Step(t),
           past' = "none" => past = "none" /\ SecuredOf(t)',
           \A s \in Sockets : \/ s = sock[t] /\ Holds(t)
                              \/ ctx'[s] = ctx[s] /\ flags[s] \subseteq flags'[s]
    PROVE  Secured'
<1>1. SUFFICES ASSUME past' = "none", NEW u \in Tasks, u # t
               PROVE  SecuredOf(u)'
  BY DEF Secured
<1>2. pc'[u] = pc[u] /\ op'[u] = op[u] /\ sock'[u] = sock[u] /\ ret'[u] = ret[u]
  BY <1>1, Frame
<1>3. past = "none" /\ SecuredOf(u)
  BY <1>1 DEF Secured
<1>4. ASSUME Holds(u)
      PROVE  /\ ctx'[sock[u]] = ctx[sock[u]]
             /\ flags[sock[u]] \subseteq flags'[sock[u]]
  <2>1. sock[u] \in Sockets
    BY <1>4, SocketsAssumption DEF TypeOK, Holds, NoSocket, Sockets
  <2>2. ~stale[t] /\ ~stale[u]
    BY <1>3 DEF NeverReset
  <2>3. ~(sock[u] = sock[t] /\ Holds(t))
    BY <1>1, <1>3, <1>4, <2>2 DEF OneOwner
  <2>4. QED
    BY <2>1, <2>3
<1>5. ASSUME pc[u] \in {"tls", "handshake"} \/ ret[u] = "handshake"
      PROVE  Holds(u)
  BY <1>5, SocketsAssumption
     DEF Control, ControlOf, Critical, Holds, NoSocket, Sockets
<1>6. Holds(u)' => Holds(u)
  BY <1>2 DEF Holds
<1> HIDE DEF Holds
<1>7. QED
  BY <1>2, <1>3, <1>4, <1>5, <1>6 DEF SecuredOf, Holds

\* A context is made for a socket that requires TLS, which it does until it is closed.
LEMMA SecuredStep ==
    ASSUME TypeOK, Control, OneOwner, NeverReset, Secured,
           NEW t \in Tasks, Call(t) \/ Step(t)
    PROVE  Secured'
<1> USE DEF TypeOK, Control, ControlOf, Critical, OneOwner, Holds, Sockets,
           NoSocket, Nums, NeverReset, Secured,
           SecuredOf, GoTo, Stage, Enter, Result,
           Touch, Accept, poolVars, moduleVars, taskVars, historyVars
<1>1. Nums
  BY SocketsAssumption DEF Nums
<1>2. Call(t) \/ Step(t)
  OBVIOUS
<1>3. QED
  <2>1. CASE Socket(t)
    <3>0. pc[t] = "closed"
      BY <2>1 DEF Socket
    <3>1. past' = "none" => past = "none"
      BY <2>1 DEF Socket
    <3>2. \A s \in Sockets : \/ s = sock[t] /\ Holds(t)
                             \/ ctx'[s] = ctx[s] /\ flags[s] \subseteq flags'[s]
      BY <2>1, <1>1 DEF Socket
    <3>3. past' = "none" => SecuredOf(t)'
      <4>1. pc'[t] = "scan" /\ ret'[t] = "open"
        BY <2>1, <3>0, Place DEF Socket
      <4> HIDE DEF TypeOK, Control, OneOwner, NeverReset, Secured, Sockets
      <4>2. QED
        BY <4>1
    <3> HIDE DEF TypeOK, Control, OneOwner, NeverReset, Secured, SecuredOf,
                Holds, Sockets
    <3>4. QED
      BY <3>1, <3>2, <3>3, SecuredFrame
  <2>2. CASE Claim(t)
    BY <2>2, <1>1 DEF Claim
  <2>3. CASE Skip(t)
    <3>1. past' = "none" => past = "none"
      BY <2>3 DEF Skip
    <3>2. \A s \in Sockets : \/ s = sock[t] /\ Holds(t)
                             \/ ctx'[s] = ctx[s] /\ flags[s] \subseteq flags'[s]
      BY <2>3, <1>1 DEF Skip
    <3>3. past' = "none" => SecuredOf(t)'
      BY <2>3, <3>1, <1>1 DEF Skip
    <3> HIDE DEF TypeOK, Control, OneOwner, NeverReset, Secured, SecuredOf,
                Holds, Sockets
    <3>4. QED
      BY <3>1, <3>2, <3>3, SecuredFrame
  <2>4. CASE NoneFree(t)
    BY <2>4, <1>1 DEF NoneFree
  <2>5. CASE Prepare(t)
    <3>0. pc[t] = "fresh"
      BY <2>5 DEF Prepare
    <3>1. past' = "none" => past = "none"
      BY <2>5 DEF Prepare
    <3>2. \A s \in Sockets : \/ s = sock[t] /\ Holds(t)
                             \/ ctx'[s] = ctx[s] /\ flags[s] \subseteq flags'[s]
      <4>1. Holds(t) /\ sock[t] \in Sockets
        BY <3>0, Place
      <4>2. /\ ctx' = [ctx EXCEPT ![sock[t]] = "null"]
            /\ flags' = [flags EXCEPT ![sock[t]] = {}]
        BY <2>5 DEF Prepare
      <4>3. \A s \in Sockets : s # sock[t] => ctx'[s] = ctx[s] /\ flags'[s] = flags[s]
        <5> HIDE DEF Control, OneOwner, NeverReset, Secured, Sockets
        <5>1. QED
          BY <4>2
      <4> HIDE DEF TypeOK, Control, OneOwner, NeverReset, Secured, Sockets,
                  Holds
      <4>4. ASSUME NEW s \in Sockets, s # sock[t]
            PROVE  ctx'[s] = ctx[s] /\ flags[s] \subseteq flags'[s]
        BY <4>3, <4>4
      <4>5. QED
        BY <4>1, <4>4
    <3>3. past' = "none" => SecuredOf(t)'
      <4>1. sock[t] \in Sockets /\ ret[t] = "open"
        BY <3>0, Place
      <4>2. /\ ctx' = [ctx EXCEPT ![sock[t]] = "null"]
            /\ UNCHANGED <<sock, ret>> /\ pc' = [pc EXCEPT ![t] = "open"]
        BY <2>5 DEF Prepare
      <4> HIDE DEF Control, OneOwner, NeverReset, Secured, Sockets
      <4>3. ctx'[sock'[t]] = "null" /\ pc'[t] = "open" /\ ret'[t] = "open"
        BY <4>1, <4>2
      <4> HIDE DEF TypeOK
      <4>4. QED
        BY <4>3
    <3> HIDE DEF TypeOK, Control, OneOwner, NeverReset, Secured, SecuredOf,
                Holds, Sockets
    <3>4. QED
      BY <3>1, <3>2, <3>3, SecuredFrame
  <2>6. CASE RequireTls(t)
    BY <2>6, <1>1 DEF RequireTls
  <2>7. CASE Shutdown(t)
    BY <2>7, <1>1 DEF Shutdown
  <2>8. CASE Connect(t)
    BY <2>8, <1>1 DEF Connect
  <2>9. ASSUME NEW o \in {"send", "recv"}, Transfer(t, o) PROVE Secured'
    BY <2>9, <1>1 DEF Transfer
  <2>10. CASE Close(t)
    BY <2>10, <1>1 DEF Close
  <2>11. CASE Cleanup(t)
    BY <2>11, <1>1 DEF Cleanup, Free
  <2>12. CASE CloseInvalid(t)
    BY <2>12, <1>1 DEF CloseInvalid, Forget
  <2>13. CASE ReturnSocket(t)
    <3>0. pc[t] = "return"
      BY <2>13 DEF ReturnSocket
    <3>1. past' = "none" => past = "none"
      BY <2>13 DEF ReturnSocket, Forget
    <3>2. \A s \in Sockets : \/ s = sock[t] /\ Holds(t)
                             \/ ctx'[s] = ctx[s] /\ flags[s] \subseteq flags'[s]
      BY <2>13, <1>1 DEF ReturnSocket, Forget
    <3>3. past' = "none" => SecuredOf(t)'
      <4>1. /\ sock'[t] = NoSocket /\ pc'[t] = "closed"
            /\ ret'[t] = "open"
        BY <2>13, <3>0, Place DEF ReturnSocket, Forget
      <4> HIDE DEF TypeOK, Control, OneOwner, NeverReset, Secured, Sockets
      <4>2. QED
        BY <4>1
    <3> HIDE DEF TypeOK, Control, OneOwner, NeverReset, Secured, SecuredOf,
                Holds, Sockets
    <3>4. QED
      BY <3>1, <3>2, <3>3, SecuredFrame
  <2>14. CASE Command(t)
    BY <2>14, <1>1 DEF Command
  <2>15. CASE Acquire(t)
    BY <2>15, <1>1 DEF Acquire
  <2>16. CASE TakeTimeout(t)
    BY <2>16, <1>1 DEF TakeTimeout, After
  <2>17. CASE Select(t)
    BY <2>17, <1>1 DEF Select, Failures
  <2>18. CASE ActConnect(t)
    <3>1. past' = "none" => past = "none"
      BY <2>18 DEF ActConnect
    <3>2. \A s \in Sockets : \/ s = sock[t] /\ Holds(t)
                             \/ ctx'[s] = ctx[s] /\ flags[s] \subseteq flags'[s]
      <4>1. ctx' = ctx
        BY <2>18 DEF ActConnect
      <4>2. QED
        BY <2>18, <4>1, ConnectEffect
    <3>3. past' = "none" => SecuredOf(t)'
      BY <2>18, <3>1, <1>1 DEF ActConnect
    <3> HIDE DEF TypeOK, Control, OneOwner, NeverReset, Secured, SecuredOf,
                Holds, Sockets
    <3>4. QED
      BY <3>1, <3>2, <3>3, SecuredFrame
  <2>19. CASE ActTransfer(t)
    BY <2>19, <1>1 DEF ActTransfer, Failures
  <2>20. CASE ActStop(t)
    BY <2>20, <1>1 DEF ActStop
  <2>21. CASE ActCommand(t)
    BY <2>21, <1>1 DEF ActCommand
  <2>22. CASE ActReset(t)
    BY <2>22, <1>1 DEF ActReset
  <2>23. CASE GiveTransfer(t)
    <3>1. past' = "none" => past = "none"
      BY <2>23 DEF GiveTransfer
    <3>2. \A s \in Sockets : \/ s = sock[t] /\ Holds(t)
                             \/ ctx'[s] = ctx[s] /\ flags[s] \subseteq flags'[s]
      BY <2>23, <1>1 DEF GiveTransfer
    <3>3. past' = "none" => SecuredOf(t)'
      <4>1. /\ UNCHANGED <<ctx, flags, sock, ret, past>>
            /\ pc[t] = "give" /\ op[t] \in {"send", "recv"}
        BY <2>23 DEF GiveTransfer
      <4>2. Enter(t, "reset") \/ GoTo(t, "poll") \/ GoTo(t, "done")
        BY <2>23, Zenon DEF GiveTransfer
      <4>3. /\ pc'[t] \notin {"tls", "handshake", "fresh", "return"}
            /\ op'[t] # "stop"
        <5>1. CASE Enter(t, "reset")
          BY <5>1
        <5>2. CASE GoTo(t, "poll")
          BY <5>2
        <5>3. CASE GoTo(t, "done")
          BY <5>3
        <5>4. QED
          BY <4>2, <5>1, <5>2, <5>3
      <4>4. past = "none" => SecuredOf(t)
        BY DEF Secured
      <4> HIDE DEF TypeOK, Control, OneOwner, NeverReset, Secured, Sockets
      <4>5. QED
        BY <4>1, <4>3, <4>4
    <3> HIDE DEF TypeOK, Control, OneOwner, NeverReset, Secured, SecuredOf,
                Holds, Sockets
    <3>4. QED
      BY <3>1, <3>2, <3>3, SecuredFrame
  <2>24. CASE GiveOther(t)
    BY <2>24, <1>1 DEF GiveOther, After
  <2>25. CASE GiveReset(t)
    BY <2>25, <1>1 DEF GiveReset
  <2>26. CASE PollAgain(t)
    BY <2>26, <1>1 DEF PollAgain
  <2>27. CASE Expire(t)
    BY <2>27, <1>1 DEF Expire
  <2>28. CASE Clear(t)
    BY <2>28, <1>1 DEF Clear
  <2>29. CASE Mark(t)
    BY <2>29, <1>1 DEF Mark
  <2>30. CASE Done(t)
    BY <2>30, <1>1 DEF Done
  <2>31. CASE TlsInit(t)
    <3>0. pc[t] = "tls"
      BY <2>31 DEF TlsInit
    <3>1. past' = "none" => past = "none"
      BY <2>31 DEF TlsInit
    <3>2. \A s \in Sockets : \/ s = sock[t] /\ Holds(t)
                             \/ ctx'[s] = ctx[s] /\ flags[s] \subseteq flags'[s]
      <4>1. Holds(t) /\ sock[t] \in Sockets
        BY <3>0, Place
      <4>2. /\ flags' = flags
            /\ \E c \in {ctx[sock[t]], "live"} :
                  ctx' = [ctx EXCEPT ![sock[t]] = c]
        BY <2>31 DEF TlsInit
      <4> HIDE DEF Control, OneOwner, NeverReset, Secured, SecuredOf, Holds
      <4>3. QED
        BY <4>1, <4>2
    <3>3. past' = "none" => SecuredOf(t)'
      BY <2>31, <3>1, <1>1 DEF TlsInit
    <3> HIDE DEF TypeOK, Control, OneOwner, NeverReset, Secured, SecuredOf,
                Holds, Sockets
    <3>4. QED
      BY <3>1, <3>2, <3>3, SecuredFrame
  <2>32. ASSUME NEW o \in {"send", "recv"}, Flight(t, o) PROVE Secured'
    BY <2>32, <1>1 DEF Flight
  <2>33. CASE FinishHandshake(t)
    BY <2>33, <1>1 DEF FinishHandshake
  <2>34. QED
    BY <2>1, <2>2, <2>3, <2>4, <2>5, <2>6, <2>7, <2>8, <2>9, <2>10, <2>11,
       <2>12, <2>13, <2>14, <2>15, <2>16, <2>17, <2>18, <2>19, <2>20, <2>21,
       <2>22, <2>23, <2>24, <2>25, <2>26, <2>27, <2>28, <2>29, <2>30, <2>31,
       <2>32, <2>33, <1>2 DEF Call, Step

\* A socket is given back when its context is gone.
LEMMA FreeStep ==
    ASSUME TypeOK, Control, OneOwner, NeverReset, Secured, FreeOwnsNothing,
           NEW t \in Tasks, Call(t) \/ Step(t)
    PROVE  FreeOwnsNothing'
<1> USE DEF TypeOK, Control, ControlOf, Critical, OneOwner, Holds, Sockets,
           NoSocket, Nums, NeverReset, Secured,
           SecuredOf, FreeOwnsNothing, GoTo, Stage, Enter, Result,
           Touch, Accept, poolVars, moduleVars, taskVars, historyVars
<1>1. Nums
  BY SocketsAssumption DEF Nums
<1>2. Call(t) \/ Step(t)
  OBVIOUS
<1>3. QED
  <2>1. CASE Socket(t)
    BY <2>1, <1>1 DEF Socket
  <2>2. CASE Claim(t)
    BY <2>2, <1>1 DEF Claim
  <2>3. CASE Skip(t)
    BY <2>3, <1>1 DEF Skip
  <2>4. CASE NoneFree(t)
    BY <2>4, <1>1 DEF NoneFree
  <2>5. CASE Prepare(t)
    BY <2>5, <1>1 DEF Prepare
  <2>6. CASE RequireTls(t)
    BY <2>6, <1>1 DEF RequireTls
  <2>7. CASE Shutdown(t)
    BY <2>7, <1>1 DEF Shutdown
  <2>8. CASE Connect(t)
    BY <2>8, <1>1 DEF Connect
  <2>9. ASSUME NEW o \in {"send", "recv"}, Transfer(t, o) PROVE FreeOwnsNothing'
    BY <2>9, <1>1 DEF Transfer
  <2>10. CASE Close(t)
    BY <2>10, <1>1 DEF Close
  <2>11. CASE Cleanup(t)
    BY <2>11, <1>1 DEF Cleanup, Free
  <2>12. CASE CloseInvalid(t)
    BY <2>12, <1>1 DEF CloseInvalid, Forget
  <2>13. CASE ReturnSocket(t)
    <3>1. /\ inUse' = [inUse EXCEPT ![sock[t]] = FALSE] /\ ctx' = ctx
          /\ past' = "none" => past = "none"
      BY <2>13 DEF ReturnSocket
    <3>2. past = "none" => ctx[sock[t]] \notin {"live", "ready"}
      <4>1. pc[t] = "return"
        BY <2>13 DEF ReturnSocket
      <4>2. Holds(t)
        BY <4>1, Place
      <4> HIDE DEF TypeOK, Control, OneOwner, NeverReset, Holds
      <4>3. QED
        BY <4>1, <4>2
    <3> HIDE DEF Control, OneOwner, NeverReset, Secured, SecuredOf, Holds
    <3>3. QED
      BY <3>1, <3>2
  <2>14. CASE Command(t)
    BY <2>14, <1>1 DEF Command
  <2>15. CASE Acquire(t)
    BY <2>15, <1>1 DEF Acquire
  <2>16. CASE TakeTimeout(t)
    BY <2>16, <1>1 DEF TakeTimeout, After
  <2>17. CASE Select(t)
    BY <2>17, <1>1 DEF Select, Failures
  <2>18. CASE ActConnect(t)
    BY <2>18, <1>1 DEF ActConnect
  <2>19. CASE ActTransfer(t)
    BY <2>19, <1>1 DEF ActTransfer, Failures
  <2>20. CASE ActStop(t)
    BY <2>20, <1>1 DEF ActStop
  <2>21. CASE ActCommand(t)
    BY <2>21, <1>1 DEF ActCommand
  <2>22. CASE ActReset(t)
    BY <2>22, <1>1 DEF ActReset
  <2>23. CASE GiveTransfer(t)
    BY <2>23, <1>1 DEF GiveTransfer
  <2>24. CASE GiveOther(t)
    BY <2>24, <1>1 DEF GiveOther, After
  <2>25. CASE GiveReset(t)
    BY <2>25, <1>1 DEF GiveReset
  <2>26. CASE PollAgain(t)
    BY <2>26, <1>1 DEF PollAgain
  <2>27. CASE Expire(t)
    BY <2>27, <1>1 DEF Expire
  <2>28. CASE Clear(t)
    BY <2>28, <1>1 DEF Clear
  <2>29. CASE Mark(t)
    BY <2>29, <1>1 DEF Mark
  <2>30. CASE Done(t)
    BY <2>30, <1>1 DEF Done
  <2>31. CASE TlsInit(t)
    <3>1. /\ inUse' = inUse
          /\ past' = "none" => past = "none"
      BY <2>31 DEF TlsInit
    <3>2. \E c \in {ctx[sock[t]], "live"} :
             ctx' = [ctx EXCEPT ![sock[t]] = c]
      BY <2>31 DEF TlsInit
    <3>3. past = "none" => inUse[sock[t]]
      <4>1. pc[t] = "tls"
        BY <2>31 DEF TlsInit
      <4>2. Holds(t) /\ sock[t] \in Sockets
        BY <4>1, Place
      <4> HIDE DEF TypeOK, Control, Secured, SecuredOf, Holds
      <4>3. QED
        BY <4>2
    <3>4. \A s \in Sockets : s # sock[t] => ctx'[s] = ctx[s]
      <4> HIDE DEF Control, OneOwner, NeverReset, Secured, SecuredOf, Holds,
                  Sockets
      <4>1. QED
        BY <3>2
    <3>5. ASSUME past' = "none", NEW s \in Sockets, ~inUse'[s]
          PROVE  ctx'[s] = ctx[s] /\ past = "none" /\ ~inUse[s]
      <4> HIDE DEF FreeOwnsNothing, TypeOK, Control, OneOwner, NeverReset,
                  Secured, Sockets
      <4>1. past = "none" /\ ~inUse[s]
        BY <3>1, <3>5
      <4>2. s # sock[t]
        BY <3>3, <4>1
      <4>3. QED
        BY <3>4, <4>1, <4>2
    <3>6. QED
      BY <3>5
  <2>32. ASSUME NEW o \in {"send", "recv"}, Flight(t, o) PROVE FreeOwnsNothing'
    BY <2>32, <1>1 DEF Flight
  <2>33. CASE FinishHandshake(t)
    <3>1. /\ inUse' = inUse
          /\ past' = "none" => past = "none"
      BY <2>33 DEF FinishHandshake
    <3>2. \/ ctx' = ctx
          \/ ctx' = [ctx EXCEPT ![sock[t]] = "ready"]
      BY <2>33 DEF FinishHandshake
    <3>3. past = "none" => inUse[sock[t]]
      <4>1. pc[t] = "handshake"
        BY <2>33 DEF FinishHandshake
      <4>2. Holds(t) /\ sock[t] \in Sockets
        BY <4>1, Place
      <4> HIDE DEF TypeOK, Control, Secured, SecuredOf, Holds
      <4>3. QED
        BY <4>2
    <3>4. \A s \in Sockets : s # sock[t] => ctx'[s] = ctx[s]
      <4> HIDE DEF Control, OneOwner, NeverReset, Secured, SecuredOf, Holds,
                  Sockets
      <4>1. QED
        BY <3>2
    <3>5. ASSUME past' = "none", NEW s \in Sockets, ~inUse'[s]
          PROVE  ctx'[s] = ctx[s] /\ past = "none" /\ ~inUse[s]
      <4> HIDE DEF FreeOwnsNothing, TypeOK, Control, OneOwner, NeverReset,
                  Secured, Sockets
      <4>1. past = "none" /\ ~inUse[s]
        BY <3>1, <3>5
      <4>2. s # sock[t]
        BY <3>3, <4>1
      <4>3. QED
        BY <3>4, <4>1, <4>2
    <3>6. QED
      BY <3>5
  <2>34. QED
    BY <2>1, <2>2, <2>3, <2>4, <2>5, <2>6, <2>7, <2>8, <2>9, <2>10, <2>11,
       <2>12, <2>13, <2>14, <2>15, <2>16, <2>17, <2>18, <2>19, <2>20, <2>21,
       <2>22, <2>23, <2>24, <2>25, <2>26, <2>27, <2>28, <2>29, <2>30, <2>31,
       <2>32, <2>33, <1>2 DEF Call, Step

-----------------------------------------------------------------------------
Inv == /\ TypeOK /\ Control /\ Exclusion /\ ActsOnItsSocket
       /\ OneOwner /\ Connected /\ OwnConnection
       /\ ContextKept /\ NeverReset /\ Secured /\ FreeOwnsNothing

\* The initial state, after SOCKETS_Init and WIFI_On, satisfies the invariant.
LEMMA InvInit == Init => Inv
<1> SUFFICES ASSUME Init PROVE Inv
  OBVIOUS
<1>1. Nums /\ 0 \in Sockets
  BY SocketsAssumption DEF Nums, Sockets
<1>2. inUse \in [Sockets -> BOOLEAN] /\ up \in [Tasks -> BOOLEAN] /\ stale \in [Tasks -> BOOLEAN]
  BY Zenon DEF Init
<1>3. TypeOK
  BY <1>1, <1>2 DEF Init, TypeOK, NoSocket, Nums
<1>4. Control /\ Exclusion /\ ActsOnItsSocket
  BY DEF Init, Control, ControlOf, Exclusion, ActsOnItsSocket, Critical,
     SocketOps
<1>5. OneOwner /\ Connected /\ OwnConnection
  BY DEF Init, OneOwner, Holds, Connected, OwnConnection
<1>6. ContextKept /\ NeverReset /\ Secured
  BY DEF Init, Holds, ContextKept, NeverReset, Secured, SecuredOf
<1>7. FreeOwnsNothing
  BY DEF Init, FreeOwnsNothing
<1>8. QED
  BY <1>3, <1>4, <1>5, <1>6, <1>7 DEF Inv

\* Every step of the system keeps it.
LEMMA InvStep == Inv /\ [Next]_vars => Inv'
<1> SUFFICES ASSUME Inv, [Next]_vars PROVE Inv'
  OBVIOUS
<1>1. CASE Next
  <2>1. PICK t \in Tasks : Call(t) \/ Step(t)
    BY <1>1 DEF Next
  <2>2. TypeOK' /\ Control' /\ Exclusion' /\ ActsOnItsSocket'
    BY <2>1, TypeStep, ControlStep, ExclusionStep, ActsStep DEF Inv
  <2>3. OneOwner' /\ Connected' /\ OwnConnection'
    BY <2>1, OwnerStep, ConnectedStep, OwnConnectionStep DEF Inv
  <2>4. ContextKept' /\ NeverReset' /\ Secured' /\ FreeOwnsNothing'
    BY <2>1, ContextStep, NeverResetStep, SecuredStep, FreeStep DEF Inv
  <2>5. QED
    BY <2>2, <2>3, <2>4 DEF Inv
<1>2. CASE UNCHANGED vars
  <2> USE <1>2 DEF vars, poolVars, moduleVars, taskVars, historyVars, Inv
  <2>1. TypeOK' /\ Exclusion' /\ ActsOnItsSocket'
    BY DEF TypeOK, Exclusion, ActsOnItsSocket
  <2>2. Control'
    BY DEF Control, ControlOf
  <2>3. OneOwner' /\ OwnConnection'
    BY DEF OneOwner, Holds, OwnConnection
  <2>4. Connected'
    BY DEF Connected, Closing
  <2>5. ContextKept' /\ NeverReset'
    BY DEF ContextKept, Holds, NeverReset
  <2>6. Secured' /\ FreeOwnsNothing'
    BY DEF Secured, SecuredOf, Holds, FreeOwnsNothing
  <2>7. QED
    BY <2>1, <2>2, <2>3, <2>4, <2>5, <2>6
<1>3. QED
  BY <1>1, <1>2

\* The invariant holds for ever.
LEMMA InvHolds == Spec => []Inv
  BY InvInit, InvStep, PTL DEF Spec

\* The variables keep their types: no index leaves xSockets, whatever fails.
THEOREM TypeCorrect == Spec => []TypeOK
<1>1. Inv => TypeOK
  BY DEF Inv
<1>2. QED
  BY InvHolds, <1>1, PTL

\* Between the selection of a socket and the command that acts on it nobody else
\* uses the module: prvNetworkSend, prvNetworkRecv, SOCKETS_Connect and
\* SOCKETS_Close act on the socket they were called with.
THEOREM RightSocket == Spec => []ActsOnItsSocket
<1>1. Inv => ActsOnItsSocket
  BY DEF Inv
<1>2. QED
  BY InvHolds, <1>1, PTL

\* prvGetFreeSocket and prvReturnSocket give each socket to one task at a time,
\* until a stale handle is used after a reset.
THEOREM SocketsAreNotShared == Spec => []OneOwner
<1>1. Inv => OneOwner
  BY DEF Inv
<1>2. QED
  BY InvHolds, <1>1, PTL

\* Until then no other task's SOCKETS_Connect or SOCKETS_Close replaces or stops
\* a connection that SOCKETS_Connect has reported.
THEOREM ConnectionsAreKept == Spec => []OwnConnection
<1>1. Inv => OwnConnection
  BY DEF Inv
<1>2. QED
  BY InvHolds, <1>1, PTL

\* A socket that its owner may close holds no pointer to freed memory: SOCKETS_Close
\* keeps the pointers it frees, but prvGetFreeSocket's caller replaces them.
THEOREM NothingIsFreedTwice == Spec => []NoDanglingPointer
<1>1. Inv => NoDanglingPointer
  <2> SUFFICES ASSUME Inv, past # "crossed", NEW t \in Tasks, pc[t] = "open", ~stale[t]
               PROVE  ctx[sock[t]] # "freed"
    BY DEF NoDanglingPointer
  <2>1. Holds(t) /\ op[t] = "none"
    BY Place DEF Inv
  <2>2. QED
    BY <2>1 DEF Inv, ContextKept
<1>2. QED
  BY InvHolds, <1>1, PTL

\* While the module was never reset, SOCKETS_Close frees the TLS context of a socket
\* before prvReturnSocket gives it back, whichever of its operations fail.
THEOREM MemoryIsReturned == Spec => []FreeOwnsNothing
<1>1. Inv => FreeOwnsNothing
  BY DEF Inv
<1>2. QED
  BY InvHolds, <1>1, PTL
=============================================================================

--------------------------- MODULE SecureSockets ---------------------------
(***************************************************************************)
(* The socket pool and its calls (Network/Src/aws_secure_sockets.c), the   *)
(* semaphore that serialises the commands to the WiFi module               *)
(* (Network/Src/aws_wifi.c) and the recovery of a module that fails.       *)
(*                                                                         *)
(* Each task uses one socket at a time, as the MQTT agent and WiFiClient   *)
(* do.  An operation on the module selects a socket (command P0) and then  *)
(* acts on the selected one: two actions.  Of the memory a socket owns the *)
(* TLS context is modelled; the server name and the certificate are        *)
(* replaced and freed with it.  Time is not counted: a wait with a limit   *)
(* may end whenever the semaphore is not free.                             *)
(***************************************************************************)
EXTENDS Naturals

CONSTANTS
    Tasks,
    Agents,      \* those that use TLS, as the MQTT agent does; WiFiClient does not
    NumSockets,  \* wificonfigMAX_SOCKETS
    MaxFlights   \* bound: network calls of one TLS handshake

ASSUME SocketsAssumption ==
    Agents \subseteq Tasks /\ NumSockets \in Nat \ {0} /\ MaxFlights \in Nat

Sockets  == 0 .. NumSockets - 1
NoSocket == NumSockets      \* SOCKETS_INVALID_SOCKET

VARIABLES
    inUse,   \* xSockets[].ucInUse
    flags,   \* xSockets[].ulFlags
    ctx,     \* xSockets[].pvTLSContext: "null", "live", "ready" (after a
             \* handshake) or "freed"
    holder,  \* {} or {t}: the task that has the semaphore
    sel,     \* the socket the WiFi module has selected
    link,    \* for each socket of the module, {} or {t}: the task it serves
    pc, op,  \* where each task is, and in which operation on the module
    sock,    \* its handle, or the index its search has reached
    ret,     \* where a network call returns to
    hs,      \* the network calls its handshake may still make
    res,     \* outcome of the latest operation of the call it is in
    index,   \* of the loop in SOCKETS_Init, 0 outside it
    up,      \* history: Connect succeeded and the module was not reset since
    stale,   \* history: SOCKETS_Init has freed the socket of the handle
    past     \* history: "none", "reset", or "crossed": see Touch and Mark

poolVars   == <<inUse, flags, ctx>>
moduleVars == <<sel, link>>
taskVars   == <<pc, op, sock, ret, hs, res>>
historyVars == <<up, stale, past>>
vars == <<poolVars, holder, moduleVars, taskVars, index, historyVars>>

\* After WiFiStation::init: SOCKETS_Init, then WIFI_On.
Init ==
    /\ inUse = [s \in Sockets |-> FALSE]
    /\ flags = [s \in Sockets |-> {"shut"}]
    /\ ctx = [s \in Sockets |-> "null"]
    /\ holder = {}
    /\ sel = 0
    /\ link = [s \in Sockets |-> {}]
    /\ pc = [t \in Tasks |-> "closed"]
    /\ op = [t \in Tasks |-> "none"]
    /\ sock = [t \in Tasks |-> NoSocket]
    /\ ret = [t \in Tasks |-> "open"]
    /\ hs = [t \in Tasks |-> 0]
    /\ res = [t \in Tasks |-> "ok"]
    /\ index = 0
    /\ up = [t \in Tasks |-> FALSE]
    /\ stale = [t \in Tasks |-> FALSE]
    /\ past = "none"

GoTo(t, to)  == pc' = [pc EXCEPT ![t] = to] /\ op' = [op EXCEPT ![t] = "none"]
Stage(t, to) == pc' = [pc EXCEPT ![t] = to] /\ UNCHANGED op
Enter(t, o)  == pc' = [pc EXCEPT ![t] = "take"] /\ op' = [op EXCEPT ![t] = o]
Result(t, r) == res' = [res EXCEPT ![t] = r]
Holds(t) == sock[t] # NoSocket /\ pc[t] # "scan"

\* A task uses its socket: crossed, if SOCKETS_Init has freed it since and another
\* task has claimed it.
Touch(t) == past' = IF stale[t] /\ inUse[sock[t]] THEN "crossed" ELSE past

-----------------------------------------------------------------------------
(* SOCKETS_Socket                                                          *)

Socket(t) ==
    /\ pc[t] = "closed"
    /\ GoTo(t, "scan")
    /\ sock' = [sock EXCEPT ![t] = 0]
    /\ UNCHANGED <<poolVars, holder, moduleVars, ret, hs, res, index, historyVars>>

\* prvGetFreeSocket: one critical section per socket.
Claim(t) ==
    /\ pc[t] = "scan"
    /\ sock[t] # NoSocket
    /\ ~inUse[sock[t]]
    /\ inUse' = [inUse EXCEPT ![sock[t]] = TRUE]
    /\ GoTo(t, "fresh")
    /\ UNCHANGED <<flags, ctx, holder, moduleVars, sock, ret, hs, res, index,
                   historyVars>>

\* Mutant: one more socket is looked at than there are.
SkipTooFar(t) ==
    /\ pc[t] = "scan"
    /\ sock' = [sock EXCEPT ![t] = @ + 1]
    /\ UNCHANGED <<poolVars, holder, moduleVars, pc, op, ret, hs, res, index, historyVars>>

Skip(t) ==
    /\ pc[t] = "scan"
    /\ sock[t] # NoSocket
    /\ inUse[sock[t]]
    /\ sock' = [sock EXCEPT ![t] = @ + 1]
    /\ UNCHANGED <<poolVars, holder, moduleVars, pc, op, ret, hs, res, index, historyVars>>

NoneFree(t) ==
    /\ pc[t] = "scan"
    /\ sock[t] = NoSocket
    /\ GoTo(t, "closed")
    /\ UNCHANGED <<poolVars, holder, moduleVars, sock, ret, hs, res, index, historyVars>>

\* Mutant: the pointers of the previous owner are kept.
PrepareKeepsPointers(t) ==
    /\ pc[t] = "fresh"
    /\ flags' = [flags EXCEPT ![sock[t]] = {}]
    /\ Touch(t)
    /\ GoTo(t, "open")
    /\ UNCHANGED <<inUse, ctx, holder, moduleVars, sock, ret, hs, res, index,
                   up, stale>>

Prepare(t) ==
    /\ pc[t] = "fresh"
    /\ flags' = [flags EXCEPT ![sock[t]] = {}]
    /\ ctx' = [ctx EXCEPT ![sock[t]] = "null"]
    /\ Touch(t)
    /\ GoTo(t, "open")
    /\ UNCHANGED <<inUse, holder, moduleVars, sock, ret, hs, res, index, up, stale>>

-----------------------------------------------------------------------------
(* Calls that begin with prvIsValidSocket                                  *)

Accept(t) ==
    /\ pc[t] = "open"
    /\ inUse[sock[t]]
    /\ Touch(t)

\* SOCKETS_SetSockOpt, as the MQTT agent uses it before it connects: the check
\* and the assignment are one action, the task does not wait in between.
RequireTls(t) ==
    /\ t \in Agents
    /\ Accept(t)
    /\ "connected" \notin flags[sock[t]]
    /\ flags' = [flags EXCEPT ![sock[t]] = @ \union {"secure"}]
    /\ UNCHANGED <<inUse, ctx, holder, moduleVars, taskVars, index, up, stale>>

Shutdown(t) ==
    /\ t \in Agents
    /\ Accept(t)
    /\ flags' = [flags EXCEPT ![sock[t]] = @ \union {"shut"}]
    /\ UNCHANGED <<inUse, ctx, holder, moduleVars, taskVars, index, up, stale>>

Connect(t) ==
    /\ Accept(t)
    /\ "connected" \notin flags[sock[t]]
    /\ Enter(t, "connect")
    /\ UNCHANGED <<poolVars, holder, moduleVars, sock, ret, hs, res, index, up, stale>>

\* SOCKETS_Send, SOCKETS_Recv: TLS refuses unless its handshake has succeeded.
Transfer(t, o) ==
    /\ Accept(t)
    /\ "shut" \notin flags[sock[t]]
    /\ "secure" \in flags[sock[t]] => ctx[sock[t]] = "ready"
    /\ ret' = [ret EXCEPT ![t] = IF "secure" \in flags[sock[t]] THEN "tls" ELSE "open"]
    /\ Enter(t, o)
    /\ UNCHANGED <<poolVars, holder, moduleVars, sock, hs, res, index, up, stale>>

-----------------------------------------------------------------------------
(* SOCKETS_Close: the memory is freed, the pointers to it are kept.        *)

Free(p) == IF p = "null" THEN "null" ELSE "freed"

\* TLS_Cleanup first says goodbye over a connection whose handshake succeeded.
Close(t) ==
    /\ Accept(t)
    /\ flags' = [flags EXCEPT ![sock[t]] = @ \union {"shut"}]
    /\ up' = [up EXCEPT ![t] = FALSE]
    /\ CASE "secure" \notin flags[sock[t]] -> Enter(t, "stop") /\ UNCHANGED ret
         [] "secure" \in flags[sock[t]] /\ ctx[sock[t]] = "ready" ->
                Enter(t, "send") /\ ret' = [ret EXCEPT ![t] = "cleanup"]
         [] OTHER -> GoTo(t, "cleanup") /\ UNCHANGED ret
    /\ UNCHANGED <<inUse, ctx, holder, moduleVars, sock, hs, res, index, stale>>

\* Mutants: the TLS context is not freed; the socket is returned too early.
CleanupKeepsContext(t) ==
    /\ pc[t] = "cleanup"
    /\ Touch(t)
    /\ Enter(t, "stop")
    /\ UNCHANGED <<poolVars, holder, moduleVars, sock, ret, hs, res, index, up, stale>>

CleanupReturnsSocket(t) ==
    /\ pc[t] = "cleanup"
    /\ inUse' = [inUse EXCEPT ![sock[t]] = FALSE]
    /\ ctx' = [ctx EXCEPT ![sock[t]] = Free(@)]
    /\ Touch(t)
    /\ Enter(t, "stop")
    /\ UNCHANGED <<flags, holder, moduleVars, sock, ret, hs, res, index, up, stale>>

Cleanup(t) ==
    /\ pc[t] = "cleanup"
    /\ ctx' = [ctx EXCEPT ![sock[t]] = Free(@)]
    /\ Touch(t)
    /\ Enter(t, "stop")
    /\ UNCHANGED <<inUse, flags, holder, moduleVars, sock, ret, hs, res, index,
                   up, stale>>

\* The caller forgets its handle, whatever SOCKETS_Close returns.
Forget(t) ==
    /\ GoTo(t, "closed")
    /\ sock' = [sock EXCEPT ![t] = NoSocket]
    /\ stale' = [stale EXCEPT ![t] = FALSE]

CloseInvalid(t) ==
    /\ pc[t] = "open"
    /\ ~inUse[sock[t]]
    /\ Forget(t)
    /\ up' = [up EXCEPT ![t] = FALSE]
    /\ UNCHANGED <<poolVars, holder, moduleVars, ret, hs, res, index, past>>

\* prvReturnSocket
ReturnSocket(t) ==
    /\ pc[t] = "return"
    /\ inUse' = [inUse EXCEPT ![sock[t]] = FALSE]
    /\ Touch(t)
    /\ Forget(t)
    /\ UNCHANGED <<flags, ctx, holder, moduleVars, ret, hs, res, index, up>>

\* WIFI_* and SOCKETS_GetHostByName: one operation that selects no socket.
Command(t) ==
    /\ pc[t] = "closed"
    /\ Enter(t, "command")
    /\ UNCHANGED <<poolVars, holder, moduleVars, sock, ret, hs, res, index, historyVars>>

-----------------------------------------------------------------------------
(* The semaphore and the operation it protects                             *)

Acquire(t) ==
    /\ pc[t] = "take"
    /\ holder = {}
    /\ holder' = {t}
    /\ Stage(t, CASE op[t] = "init" -> "clear"
                  [] op[t] \in {"command", "reset"} -> "act"
                  [] OTHER -> "select")
    /\ UNCHANGED <<poolVars, moduleVars, sock, ret, hs, res, index, historyVars>>

\* Where an operation goes on after the semaphore: "done" ends a network call.
After(t) == CASE op[t] = "stop" -> "return"
              [] op[t] = "command" -> "closed"
              [] op[t] = "connect" -> "open"
              [] OTHER -> "done"

\* Mutant: the result of the take is not looked at.
TimeoutGoesOn(t) ==
    /\ pc[t] = "take"
    /\ op[t] \in {"connect", "send", "recv", "stop"}
    /\ holder # {}
    /\ Stage(t, "select")
    /\ UNCHANGED <<poolVars, holder, moduleVars, sock, ret, hs, res, index, historyVars>>

\* Only the take before SOCKETS_Init waits for ever (portMAX_DELAY).
TakeTimeout(t) ==
    /\ pc[t] = "take"
    /\ op[t] # "init"
    /\ holder # {}
    /\ GoTo(t, After(t))
    /\ IF After(t) = "done" THEN Result(t, IF op[t] = "recv" THEN "none" ELSE "error")
       ELSE UNCHANGED res
    /\ UNCHANGED <<poolVars, holder, moduleVars, sock, ret, hs, index, historyVars>>

\* What a command to the module may answer other than success; "none": no data.
Failures(o) == IF o = "recv" THEN {"none", "error", "io"} ELSE {"error", "io"}

\* Mutant: the status of the selection is not looked at.
SelectUnchecked(t) ==
    /\ pc[t] = "select"
    /\ sel' \in {sel, sock[t]}
    /\ Stage(t, "act")
    /\ UNCHANGED <<poolVars, holder, link, sock, ret, hs, res, index, historyVars>>

Select(t) ==
    /\ pc[t] = "select"
    /\ \/ sel' = sock[t] /\ Stage(t, "act") /\ UNCHANGED res
       \/ /\ \E r \in Failures(op[t]) : Result(t, r)
          /\ Stage(t, "give")
          /\ UNCHANGED sel
    /\ UNCHANGED <<poolVars, holder, link, sock, ret, hs, index, historyVars>>

\* The rest of ES_WIFI_StartClientConnection; a failed one may have connected.
ActConnect(t) ==
    /\ pc[t] = "act"
    /\ op[t] = "connect"
    /\ \/ /\ link' = [link EXCEPT ![sel] = {t}]
          /\ flags' = [flags EXCEPT ![sock[t]] = @ \union {"connected"}]
          /\ up' = [up EXCEPT ![t] = TRUE]
          /\ Result(t, "ok")
       \/ /\ \E l \in {link[sel], {t}} : link' = [link EXCEPT ![sel] = l]
          /\ Result(t, "error")
          /\ UNCHANGED <<flags, up>>
    /\ Touch(t)
    /\ Stage(t, "give")
    /\ UNCHANGED <<inUse, ctx, holder, sel, sock, ret, hs, index, stale>>

\* The rest of ES_WIFI_SendData and ES_WIFI_ReceiveData.
ActTransfer(t) ==
    /\ pc[t] = "act"
    /\ op[t] \in {"send", "recv"}
    /\ \E r \in {"ok"} \union Failures(op[t]) : Result(t, r)
    /\ Touch(t)
    /\ Stage(t, "give")
    /\ UNCHANGED <<poolVars, holder, moduleVars, sock, ret, hs, index, up, stale>>

\* The rest of ES_WIFI_StopClientConnection; it may fail.
ActStop(t) ==
    /\ pc[t] = "act"
    /\ op[t] = "stop"
    /\ \E l \in {link[sel], {}} : link' = [link EXCEPT ![sel] = l]
    /\ Touch(t)
    /\ Stage(t, "give")
    /\ UNCHANGED <<poolVars, holder, sel, sock, ret, hs, res, index, up, stale>>

ActCommand(t) ==
    /\ pc[t] = "act"
    /\ op[t] = "command"
    /\ Stage(t, "give")
    /\ UNCHANGED <<poolVars, holder, moduleVars, sock, ret, hs, res, index, historyVars>>

\* WIFI_Reset: ES_WIFI_Init, whose result is not looked at.
ActReset(t) ==
    /\ pc[t] = "act"
    /\ op[t] = "reset"
    /\ sel' = 0
    /\ link' = [s \in Sockets |-> {}]
    /\ up' = [u \in Tasks |-> FALSE]
    /\ past' = IF past = "none" THEN "reset" ELSE past
    /\ Stage(t, "give")
    /\ UNCHANGED <<poolVars, holder, sock, ret, hs, res, index, stale>>

\* A failed module is reset; Recv without data looks at the time.
GiveTransfer(t) ==
    /\ pc[t] = "give"
    /\ op[t] \in {"send", "recv"}
    /\ holder' = {}
    /\ CASE res[t] = "io" -> Enter(t, "reset")
         [] res[t] = "none" -> GoTo(t, "poll")
         [] OTHER -> GoTo(t, "done")
    /\ UNCHANGED <<poolVars, moduleVars, sock, ret, hs, res, index, historyVars>>

\* SOCKETS_Connect goes on with TLS, without the semaphore.
GiveOther(t) ==
    /\ pc[t] = "give"
    /\ op[t] \in {"connect", "stop", "command"}
    /\ holder' = {}
    /\ IF op[t] = "connect" /\ res[t] = "ok" /\ "secure" \in flags[sock[t]]
       THEN GoTo(t, "tls") ELSE GoTo(t, After(t))
    /\ Result(t, "ok")
    /\ UNCHANGED <<poolVars, moduleVars, sock, ret, hs, index, historyVars>>

\* Mutant: WIFI_Reset keeps the semaphore.
GiveResetKeeps(t) ==
    /\ pc[t] = "give"
    /\ op[t] = "reset"
    /\ Enter(t, "init")
    /\ UNCHANGED <<poolVars, holder, moduleVars, sock, ret, hs, res, index, historyVars>>

GiveReset(t) ==
    /\ pc[t] = "give"
    /\ op[t] = "reset"
    /\ holder' = {}
    /\ Enter(t, "init")
    /\ UNCHANGED <<poolVars, moduleVars, sock, ret, hs, res, index, historyVars>>

\* prvNetworkRecv after an empty answer: 5 ms later again, or the time is over.
PollAgain(t) ==
    /\ pc[t] = "poll"
    /\ Enter(t, "recv")
    /\ UNCHANGED <<poolVars, holder, moduleVars, sock, ret, hs, res, index, historyVars>>

Expire(t) ==
    /\ pc[t] = "poll"
    /\ GoTo(t, "done")
    /\ UNCHANGED <<poolVars, holder, moduleVars, sock, ret, hs, res, index, historyVars>>

-----------------------------------------------------------------------------
(* SOCKETS_Init after a reset: no critical section, so that another task   *)
(* may claim a socket between the two assignments.                         *)

Clear(t) ==
    /\ pc[t] = "clear"
    /\ inUse' = [inUse EXCEPT ![index] = FALSE]
    /\ stale' = [u \in Tasks |-> stale[u] \/ (Holds(u) /\ sock[u] = index)]
    /\ Stage(t, "mark")
    /\ UNCHANGED <<flags, ctx, holder, moduleVars, sock, ret, hs, res, index,
                   up, past>>

Mark(t) ==
    /\ pc[t] = "mark"
    /\ flags' = [flags EXCEPT ![index] = {"shut"}]
    /\ past' = IF inUse[index] THEN "crossed" ELSE past
    /\ IF index + 1 < NumSockets
       THEN index' = index + 1 /\ Stage(t, "clear") /\ UNCHANGED holder
       ELSE index' = 0 /\ GoTo(t, "done") /\ holder' = {}
    /\ Result(t, "error")  \* SOCKETS_PERIPHERAL_RESET
    /\ UNCHANGED <<inUse, ctx, moduleVars, sock, ret, hs, up, stale>>

-----------------------------------------------------------------------------
(* The end of a network call, and TLS: neither checks the socket again.    *)

\* After a hard error TLS gives up its context, and says goodbye.
Done(t) ==
    /\ pc[t] = "done"
    /\ IF ret[t] = "tls" /\ res[t] = "error"
       THEN /\ Enter(t, "send")
            /\ ret' = [ret EXCEPT ![t] = "open"]
            /\ ctx' = [ctx EXCEPT ![sock[t]] = IF @ = "ready" THEN "live" ELSE @]
            /\ Touch(t)
       ELSE /\ GoTo(t, IF ret[t] = "tls" THEN "open" ELSE ret[t])
            /\ ret' = [ret EXCEPT ![t] = "open"]
            /\ UNCHANGED <<ctx, past>>
    /\ IF ret[t] = "handshake" THEN UNCHANGED res ELSE Result(t, "ok")
    /\ UNCHANGED <<inUse, flags, holder, moduleVars, sock, hs, index, up, stale>>

\* TLS_Init may lack the memory, or fail after it has stored the context.
TlsInit(t) ==
    /\ pc[t] = "tls"
    /\ \/ /\ ctx' = [ctx EXCEPT ![sock[t]] = "live"]
          /\ hs' = [hs EXCEPT ![t] = MaxFlights]
          /\ GoTo(t, "handshake")
       \/ /\ \E c \in {ctx[sock[t]], "live"} : ctx' = [ctx EXCEPT ![sock[t]] = c]
          /\ GoTo(t, "open")
          /\ UNCHANGED hs
    /\ Touch(t)
    /\ UNCHANGED <<inUse, flags, holder, moduleVars, sock, ret, res, index,
                   up, stale>>

\* Over a call that brought nothing, or that failed, the handshake fails.
Flight(t, o) ==
    /\ pc[t] = "handshake"
    /\ hs[t] > 0
    /\ res[t] = "ok"
    /\ hs' = [hs EXCEPT ![t] = @ - 1]
    /\ ret' = [ret EXCEPT ![t] = "handshake"]
    /\ Enter(t, o)
    /\ UNCHANGED <<poolVars, holder, moduleVars, sock, res, index, historyVars>>

FinishHandshake(t) ==
    /\ pc[t] = "handshake"
    /\ hs' = [hs EXCEPT ![t] = 0]
    /\ \/ res[t] = "ok" /\ ctx' = [ctx EXCEPT ![sock[t]] = "ready"]
       \/ UNCHANGED ctx
    /\ Touch(t)
    /\ GoTo(t, "open")
    /\ Result(t, "ok")
    /\ UNCHANGED <<inUse, flags, holder, moduleVars, sock, ret, index, up, stale>>

-----------------------------------------------------------------------------
Call(t) ==
    \/ Socket(t) \/ RequireTls(t) \/ Shutdown(t) \/ Connect(t)
    \/ \E o \in {"send", "recv"} : Transfer(t, o)
    \/ Close(t) \/ CloseInvalid(t) \/ Command(t)

Step(t) ==
    \/ Claim(t) \/ Skip(t) \/ NoneFree(t) \/ Prepare(t)
    \/ Cleanup(t) \/ ReturnSocket(t)
    \/ Acquire(t) \/ TakeTimeout(t) \/ Select(t)
    \/ ActConnect(t) \/ ActTransfer(t) \/ ActStop(t) \/ ActCommand(t) \/ ActReset(t)
    \/ GiveTransfer(t) \/ GiveOther(t) \/ GiveReset(t) \/ PollAgain(t) \/ Expire(t)
    \/ Clear(t) \/ Mark(t) \/ Done(t)
    \/ TlsInit(t) \/ (\E o \in {"send", "recv"} : Flight(t, o)) \/ FinishHandshake(t)

Next == \E t \in Tasks : Call(t) \/ Step(t)

Spec == Init /\ [][Next]_vars

\* The scheduler runs every ready task.  The clock ends a Recv that keeps polling,
\* and the semaphore, free again and again, is given at last to the task that
\* waits for it before SOCKETS_Init: the others yield after a send and sleep
\* between two polls so that it may have it.
FairSpec ==
    /\ Spec
    /\ \A t \in Tasks :
        /\ WF_vars(Step(t))
        /\ SF_vars(Expire(t))
        /\ SF_vars(op[t] = "init" /\ Acquire(t))

-----------------------------------------------------------------------------
(* Properties                                                              *)

\* Every variable has a value of its kind; in particular no index leaves xSockets.
TypeOK ==
    /\ inUse \in [Sockets -> BOOLEAN]
    /\ flags \in [Sockets -> SUBSET {"shut", "secure", "connected"}]
    /\ ctx \in [Sockets -> {"null", "live", "ready", "freed"}]
    /\ holder \in SUBSET Tasks
    /\ sel \in Sockets
    /\ link \in [Sockets -> SUBSET Tasks]
    /\ pc \in [Tasks -> {"closed", "scan", "fresh", "open", "take", "select", "act",
                         "give", "poll", "clear", "mark", "done", "tls", "handshake",
                         "cleanup", "return"}]
    /\ op \in [Tasks -> {"none", "connect", "send", "recv", "stop", "command", "reset",
                         "init"}]
    /\ sock \in [Tasks -> 0 .. NumSockets]
    /\ ret \in [Tasks -> {"open", "tls", "handshake", "cleanup"}]
    /\ hs \in [Tasks -> 0 .. MaxFlights]
    /\ res \in [Tasks -> {"ok", "none", "error", "io"}]
    /\ index \in Sockets
    /\ up \in [Tasks -> BOOLEAN]
    /\ stale \in [Tasks -> BOOLEAN]
    /\ past \in {"none", "reset", "crossed"}

SocketOps == {"connect", "send", "recv", "stop"}

\* An operation acts on the socket of the task that runs it: no other task's
\* commands, and no reset, come between the selection and the action.
ActsOnItsSocket ==
    \A t \in Tasks : pc[t] = "act" /\ op[t] \in SocketOps => sel = sock[t]

\* Two tasks never hold the same socket, and a socket held is in use, until a
\* task uses a socket that a reset has taken from it and another task has claimed.
OneOwner ==
    past # "crossed" =>
        \A t \in Tasks : Holds(t) /\ ~stale[t] =>
            /\ inUse[sock[t]]
            /\ \A u \in Tasks \ {t} : Holds(u) /\ ~stale[u] => sock[u] # sock[t]

\* Until then, a task whose SOCKETS_Connect succeeded keeps its own connection:
\* nobody else's connect or close replaces it or stops it.
OwnConnection ==
    past # "crossed" =>
        \A t \in Tasks : up[t] /\ ~stale[t] => link[sock[t]] = {t}

\* A socket whose owner may close it holds no pointer to memory already freed, so
\* that SOCKETS_Close, which keeps the pointers, frees nothing twice.
NoDanglingPointer ==
    past # "crossed" =>
        \A t \in Tasks : pc[t] = "open" /\ ~stale[t] =>
            ctx[sock[t]] # "freed"

\* While the module was never reset, a free socket owns no memory.
FreeOwnsNothing ==
    past = "none" =>
        \A s \in Sockets : ~inUse[s] =>
            ctx[s] \notin {"live", "ready"}

\* Every call comes back to its caller, through failures and resets of the module.
CallReturns == \A t \in Tasks : pc[t] \notin {"open", "closed"} ~> pc[t] \in {"open", "closed"}

\* aws_secure_sockets.h of SOCKETS_Close: "Closes the socket and frees the related
\* resources".  When no task holds a socket, the sockets own no memory.
CloseFrees ==
    (\A t \in Tasks : pc[t] = "closed" /\ sock[t] = NoSocket) =>
        \A s \in Sockets : ctx[s] \notin {"live", "ready"}
=============================================================================

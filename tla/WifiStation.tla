---------------------------- MODULE WifiStation -----------------------------
(***************************************************************************)
(* The WiFi station object (enl/WiFiStation.cpp) as several threads use    *)
(* it: its lazy initialisation, which also starts the middleware           *)
(* (SYSTEM_Init) and the module (WIFI_On), and its operations, which       *)
(* serialise their commands to the module by a semaphore that WIFI_On      *)
(* creates (aws_wifi.c) in several steps, none of them guarded.             *)
(*                                                                         *)
(* A thread's operation op is at step at.  A call of a WIFI_ function      *)
(* waits for the semaphore ("wait"), is in the module ("in") and comes     *)
(* back with a result ("back").  Network settings and names are data.      *)
(***************************************************************************)
EXTENDS Naturals

CONSTANT Threads

VARIABLES
    wifiStatus,     \* pimpl->wifiStatus
    xWIFIInitDone,  \* the flag that the semaphore has been created
    semaphore,      \* "absent", "free", a thread that holds it, or "agent"
    fops,           \* the functions of the bus to the module are registered
    agents,         \* MQTT agent tasks created
    joined,         \* the module is associated with an access point
    op, at, call, result,  \* per thread
    suspect,        \* history: a WIFI_On failed, or an init began during
                    \* another thread's
    halted          \* a configASSERT failed, or the processor faulted

stationVars == <<wifiStatus, xWIFIInitDone, semaphore, fops, agents, joined, op, at,
                 call, result, suspect, halted>>

Statuses == {"no_wifi", "disconnected", "connected", "connect_failed"}
InitSteps == {"pools", "agent", "on", "clear", "create", "give", "done",
              "register", "module", "set"}
Steps == InitSteps \cup {"idle", "init", "ready", "wait", "in", "back"}
Operations == {"none", "begin", "disconnect", "RSSI", "ping", "macAddress",
               "firmwareVersion"}
Calls == {"none", "ConnectAP", "Disconnect", "GetNetworkSettings", "GetRSSI",
          "GetHostByName", "Ping", "GetMAC", "GetFirmwareVersion"}
Results == {"success", "failure", "timeout"}

\* The types of the station's variables.
StationTypeOK ==
    /\ wifiStatus \in Statuses /\ xWIFIInitDone \in BOOLEAN
    /\ semaphore \in Threads \cup {"absent", "free", "agent"} /\ fops \in BOOLEAN
    /\ agents \in Nat /\ joined \in BOOLEAN
    /\ op \in [Threads -> Operations] /\ at \in [Threads -> Steps]
    /\ call \in [Threads -> Calls] /\ result \in [Threads -> Results]
    /\ suspect \in BOOLEAN /\ halted \in BOOLEAN

StationInit ==
    /\ wifiStatus = "no_wifi" /\ xWIFIInitDone = FALSE
    /\ semaphore = "absent" /\ fops = FALSE /\ agents = 0 /\ joined = FALSE
    /\ op = [t \in Threads |-> "none"] /\ at = [t \in Threads |-> "idle"]
    /\ call = [t \in Threads |-> "none"]
    /\ result = [t \in Threads |-> "failure"]
    /\ suspect = FALSE /\ halted = FALSE

Idle(t) == at[t] = "idle"

GoTo(t, step) == at' = [at EXCEPT ![t] = step]

\* The call of a WIFI_ function: it asks for the semaphore first.
Calling(t, c) ==
    /\ GoTo(t, "wait") /\ call' = [call EXCEPT ![t] = c]
    /\ result' = [result EXCEPT ![t] = "failure"]

\* Of results, only that of RSSI is used later.
Returning(t, r) ==
    /\ GoTo(t, "idle")
    /\ op' = [op EXCEPT ![t] = "none"] /\ call' = [call EXCEPT ![t] = "none"]
    /\ result' = [result EXCEPT ![t] = IF op[t] = "RSSI" THEN r ELSE "failure"]

\* An operation whose first step is a WIFI_ function, on a station in any state.
Start(t, o, c) ==
    /\ Idle(t)
    /\ op' = [op EXCEPT ![t] = o] /\ Calling(t, c)
    /\ UNCHANGED <<wifiStatus, xWIFIInitDone, semaphore, fops, agents, joined,
                   suspect, halted>>

RSSI(t) == Start(t, "RSSI", "GetRSSI")
Ping(t) == Start(t, "ping", "GetHostByName")
MacAddress(t) == Start(t, "macAddress", "GetMAC")

\* An operation that initialises the station if need be.
StartWithInit(t, o) ==
    /\ Idle(t)
    /\ op' = [op EXCEPT ![t] = o] /\ GoTo(t, "init")
    /\ UNCHANGED <<wifiStatus, xWIFIInitDone, semaphore, fops, agents, joined, call,
                   result, suspect, halted>>

Begin(t) == StartWithInit(t, "begin")
FirmwareVersion(t) == StartWithInit(t, "firmwareVersion")

Disconnect(t) ==
    /\ wifiStatus # "no_wifi"
    /\ Start(t, "disconnect", "Disconnect")

\* Mutant: every operation initialises the station anew.
TestsNothing(t) ==
    /\ at[t] = "init"
    /\ GoTo(t, "pools")
    /\ suspect' = (suspect \/ \E u \in Threads \ {t} : at[u] \in InitSteps)
    /\ UNCHANGED <<wifiStatus, xWIFIInitDone, semaphore, fops, agents, joined, op,
                   call, result, halted>>

(* init(): nothing guards the test of the status. *)
TestStatus(t) ==
    /\ at[t] = "init"
    /\ IF wifiStatus = "no_wifi"
       THEN /\ GoTo(t, "pools")
            /\ suspect' = (suspect \/ \E u \in Threads \ {t} : at[u] \in InitSteps)
       ELSE GoTo(t, "ready") /\ UNCHANGED suspect
    /\ UNCHANGED <<wifiStatus, xWIFIInitDone, semaphore, fops, agents, joined, op,
                   call, result, halted>>

\* Mutant: MQTT_AGENT_Init does not test for its task.
AlwaysAnAgent(t) ==
    /\ at[t] = "pools"
    /\ GoTo(t, "agent")
    /\ UNCHANGED <<wifiStatus, xWIFIInitDone, semaphore, fops, agents, joined, op,
                   call, result, suspect, halted>>

\* BUFFERPOOL_Init, and the test of MQTT_AGENT_Init for an agent.
InitPools(t) ==
    /\ at[t] = "pools"
    /\ GoTo(t, IF agents = 0 THEN "agent" ELSE "on")
    /\ UNCHANGED <<wifiStatus, xWIFIInitDone, semaphore, fops, agents, joined, op,
                   call, result, suspect, halted>>

CreateAgent(t) ==
    /\ at[t] = "agent"
    /\ agents' = agents + 1
    /\ GoTo(t, "on")
    /\ UNCHANGED <<wifiStatus, xWIFIInitDone, semaphore, fops, joined, op, call,
                   result, suspect, halted>>

\* WIFI_On: the test for the semaphore.
TestInitDone(t) ==
    /\ at[t] = "on"
    /\ GoTo(t, IF xWIFIInitDone THEN "register" ELSE "clear")
    /\ UNCHANGED <<wifiStatus, xWIFIInitDone, semaphore, fops, agents, joined, op,
                   call, result, suspect, halted>>

\* memset of xWiFiModule: handle and bus functions are NULL.
ClearModule(t) ==
    /\ at[t] = "clear"
    /\ semaphore' = "absent" /\ fops' = FALSE
    /\ GoTo(t, "create")
    /\ UNCHANGED <<wifiStatus, xWIFIInitDone, agents, joined, op, call, result,
                   suspect, halted>>

\* Mutant: the bus functions are there before the flag.
CreateWithBus(t) ==
    /\ at[t] = "create"
    /\ semaphore' = "free" /\ fops' = TRUE
    /\ GoTo(t, "give")
    /\ UNCHANGED <<wifiStatus, xWIFIInitDone, agents, joined, op, call, result,
                   suspect, halted>>

\* From now on any thread may take it.
CreateSemaphore(t) ==
    /\ at[t] = "create"
    /\ semaphore' = "free"
    /\ GoTo(t, "give")
    /\ UNCHANGED <<wifiStatus, xWIFIInitDone, fops, agents, joined, op, call, result,
                   suspect, halted>>

\* The give that follows does nothing to a free mutex.  For one that is NULL, or
\* that another task holds, an assertion of the kernel fails.
GiveNew(t) ==
    /\ at[t] = "give"
    /\ IF semaphore = "free" THEN GoTo(t, "done") /\ UNCHANGED halted
       ELSE halted' = TRUE /\ UNCHANGED at
    /\ UNCHANGED <<wifiStatus, xWIFIInitDone, semaphore, fops, agents, joined, op,
                   call, result, suspect>>

SetInitDone(t) ==
    /\ at[t] = "done"
    /\ xWIFIInitDone' = TRUE
    /\ GoTo(t, "register")
    /\ UNCHANGED <<wifiStatus, semaphore, fops, agents, joined, op, call, result,
                   suspect, halted>>

\* ES_WIFI_RegisterBusIO, and ES_WIFI_Init.
RegisterBusIO(t) ==
    /\ at[t] = "register"
    /\ fops' = TRUE
    /\ GoTo(t, "module")
    /\ UNCHANGED <<wifiStatus, xWIFIInitDone, semaphore, agents, joined, op, call,
                   result, suspect, halted>>

StartModule(t) ==
    /\ at[t] = "module"
    /\ joined' = FALSE
    /\ \E r \in {"success", "failure"} :
          /\ result' = [result EXCEPT ![t] = r]
          /\ suspect' = (suspect \/ r = "failure")
    /\ GoTo(t, "set")
    /\ UNCHANGED <<wifiStatus, xWIFIInitDone, semaphore, fops, agents, op, call, halted>>

SetStatus(t) ==
    /\ at[t] = "set"
    /\ wifiStatus' = IF result[t] = "success" THEN "disconnected" ELSE "no_wifi"
    /\ GoTo(t, "ready")
    /\ UNCHANGED <<xWIFIInitDone, semaphore, fops, agents, joined, op, call, result,
                   suspect, halted>>

\* After init(): the call the operation was about, unless there is no module
\* or, for begin, no usable name and password.
Proceed(t) ==
    /\ at[t] = "ready"
    /\ \/ /\ wifiStatus # "no_wifi"
          /\ Calling(t, IF op[t] = "begin" THEN "ConnectAP"
                        ELSE "GetFirmwareVersion")
          /\ UNCHANGED op
       \/ wifiStatus = "no_wifi" /\ Returning(t, "failure")
       \/ op[t] = "begin" /\ Returning(t, "failure")
    /\ UNCHANGED <<wifiStatus, xWIFIInitDone, semaphore, fops, agents, joined,
                   suspect, halted>>

(* The semaphore around every WIFI_ function. *)
TakeSemaphore(t) ==
    /\ at[t] = "wait" /\ semaphore = "free"
    /\ semaphore' = t
    /\ GoTo(t, "in")
    /\ UNCHANGED <<wifiStatus, xWIFIInitDone, fops, agents, joined, op, call, result,
                   suspect, halted>>

\* The caller's next step: one that writes the status is a step of its own, the
\* others go on with the next call or return.
Back(t, r) ==
    /\ CASE call[t] \in {"ConnectAP", "Disconnect", "GetNetworkSettings"} ->
              /\ GoTo(t, "back") /\ result' = [result EXCEPT ![t] = r]
              /\ UNCHANGED <<op, call>>
         [] call[t] = "GetHostByName" /\ r = "success" ->
              Calling(t, "Ping") /\ UNCHANGED op
         [] OTHER -> Returning(t, r)

\* After 60 s of waiting.
GiveUp(t) ==
    /\ at[t] = "wait" /\ semaphore \notin {"absent", "free"}
    /\ Back(t, "timeout")
    /\ UNCHANGED <<wifiStatus, xWIFIInitDone, semaphore, fops, agents, joined,
                   suspect, halted>>

\* xSemaphoreTake asserts that its handle is not NULL; the assertion halts.
NoSemaphore(t) ==
    /\ at[t] = "wait" /\ semaphore = "absent"
    /\ halted' = TRUE
    /\ UNCHANGED <<wifiStatus, xWIFIInitDone, semaphore, fops, agents, joined, op,
                   at, call, result, suspect>>

\* Functions that read a copy in memory and give the module no command.
Copies == {"GetNetworkSettings", "GetFirmwareVersion"}

\* What a command does to the association.  A failing ConnectAP may have
\* connected and then not read the settings.
Outcomes(t) ==
    CASE call[t] = "ConnectAP" -> {<<"success", TRUE>>} \cup ({"failure"} \X BOOLEAN)
      [] call[t] = "Disconnect" ->
            {<<"success", FALSE>>} \cup ({"failure"} \X {joined, FALSE})
      [] call[t] \in Copies -> {<<"success", joined>>}
      [] OTHER -> {"success", "failure"} \X {joined}

GiveSemaphore(t) ==
    /\ at[t] = "in" /\ (fops \/ call[t] \in Copies)
    /\ \E o \in Outcomes(t) : Back(t, o[1]) /\ joined' = o[2]
    /\ semaphore' = "free"
    /\ UNCHANGED <<wifiStatus, xWIFIInitDone, fops, agents, suspect, halted>>

\* AT_ExecuteCommand calls a bus function that is NULL: the processor faults.
CommandFaults(t) ==
    /\ at[t] = "in" /\ ~fops /\ call[t] \notin Copies
    /\ halted' = TRUE
    /\ UNCHANGED <<wifiStatus, xWIFIInitDone, semaphore, fops, agents, joined, op,
                   at, call, result, suspect>>

\* Socket calls of the MQTT agent's task hold the semaphore as well; when they
\* do not get it they fail.
AgentInModule ==
    /\ \/ semaphore = "free" /\ semaphore' = "agent"
       \/ semaphore = "agent" /\ semaphore' = "free"
    /\ UNCHANGED <<wifiStatus, xWIFIInitDone, fops, agents, joined, op, at, call,
                   result, suspect, halted>>

\* begin and disconnect write the status after the call.
WriteStatus(t) ==
    /\ at[t] = "back"
    /\ \/ /\ call[t] = "ConnectAP" /\ result[t] = "success"
          /\ Calling(t, "GetNetworkSettings") /\ UNCHANGED <<wifiStatus, op>>
       \/ /\ call[t] = "ConnectAP" /\ result[t] # "success"
          /\ wifiStatus' = "connect_failed" /\ Returning(t, "failure")
       \/ /\ call[t] = "GetNetworkSettings" /\ op[t] = "begin"
          /\ wifiStatus' = "connected" /\ Returning(t, "failure")
       \/ /\ call[t] = "Disconnect"
          /\ wifiStatus' = "disconnected"
          /\ Calling(t, "GetNetworkSettings") /\ UNCHANGED op
       \/ /\ call[t] = "GetNetworkSettings" /\ op[t] = "disconnect"
          /\ Returning(t, "failure") /\ UNCHANGED wifiStatus
    /\ UNCHANGED <<xWIFIInitDone, semaphore, fops, agents, joined, suspect, halted>>

\* The steps of an operation under way.
StationStep(t) ==
    \/ TestStatus(t) \/ InitPools(t) \/ CreateAgent(t) \/ TestInitDone(t)
    \/ ClearModule(t) \/ CreateSemaphore(t) \/ GiveNew(t) \/ SetInitDone(t)
    \/ RegisterBusIO(t) \/ StartModule(t) \/ SetStatus(t) \/ Proceed(t)
    \/ TakeSemaphore(t) \/ GiveUp(t) \/ NoSemaphore(t) \/ GiveSemaphore(t)
    \/ CommandFaults(t) \/ WriteStatus(t)

\* Tasks that give the module commands.
InModule ==
    {t \in Threads : at[t] \in {"module", "in"}} \cup
    (IF semaphore = "agent" THEN {"agent"} ELSE {})
=============================================================================

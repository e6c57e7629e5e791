----------------------------- MODULE Application ----------------------------
(***************************************************************************)
(* The application's threads (StartApplication.cpp) around the station and *)
(* the dialog: the response thread executes the answers the command thread *)
(* queues (ResponseInterface.cpp), the cloud thread joins the network,     *)
(* connects, publishes and leaves (CloudInterface.cpp), and the MQTT agent *)
(* makes its socket calls meanwhile.                                       *)
(***************************************************************************)
EXTENDS WifiStation, Dialog

CONSTANT Publishes  \* messages the cloud thread sends

ASSUME ApplicationAssumption ==
    /\ Publishes \in Nat
    /\ Threads = {"cloud", "response"}

VARIABLES
    answering,  \* the response thread works on an answer
    todo,       \* its operations on the station to come
    cloudAt,    \* what the cloud thread is to do next
    published,
    link        \* its MQTT handle: "none", "created" or "connected"

appVars == <<answering, todo, cloudAt, published, link>>
vars == <<stationVars, dialogVars, appVars>>

CloudSteps == {"join", "joining", "create", "connect", "publish", "disconnect",
               "leave", "leaving", "done"}

AppInit ==
    /\ answering = FALSE /\ todo = <<>>
    /\ cloudAt = "join" /\ published = 0 /\ link = "none"

Init == StationInit /\ DialogInit /\ AppInit

(* The response thread. *)
\* The operations of StatusHandler and WifiStatusHandler.
Asks(answer) ==
    CASE answer = "status" -> <<"RSSI", "ping">>
      [] answer = "wifi_status" -> <<"RSSI", "macAddress", "firmwareVersion">>
      [] OTHER -> <<>>

Dequeue ==
    /\ ~answering /\ msgQueue # <<>>
    /\ answering' = TRUE /\ msgQueue' = Tail(msgQueue)
    /\ todo' = Asks(Head(msgQueue))
    /\ UNCHANGED <<stationVars, hostMode, sent, eof, cmdAt, pemSize, reply,
                   kept, cloudAt, published, link>>

AskStation ==
    /\ todo # <<>> /\ Idle("response")
    /\ todo' = Tail(todo)
    /\ \/ Head(todo) = "RSSI" /\ RSSI("response")
       \/ Head(todo) = "ping" /\ result["response"] = "success" /\ Ping("response")
       \/ Head(todo) = "macAddress" /\ MacAddress("response")
       \/ Head(todo) = "firmwareVersion" /\ FirmwareVersion("response")
       \* Without signal strength, or with one of 0, there is no ping.
       \/ Head(todo) = "ping" /\ UNCHANGED stationVars
    /\ UNCHANGED <<dialogVars, answering, cloudAt, published, link>>

\* The prompt ends every answer.
Prompt ==
    /\ answering /\ todo = <<>> /\ Idle("response")
    /\ answering' = FALSE
    /\ UNCHANGED <<stationVars, dialogVars, todo, cloudAt, published, link>>

(* The cloud thread. *)
CloudGoesOn(from, to) == cloudAt = from /\ cloudAt' = to

Join ==
    /\ CloudGoesOn("join", "joining")
    /\ Begin("cloud")
    /\ UNCHANGED <<dialogVars, answering, todo, published, link>>

\* Mutant: the thread waits for the network.
WaitsForNetwork ==
    /\ CloudGoesOn("joining", "create") /\ Idle("cloud")
    /\ wifiStatus = "connected"
    /\ UNCHANGED <<stationVars, dialogVars, answering, todo, published, link>>

\* The result of networkInit is not looked at.
Joined ==
    /\ CloudGoesOn("joining", "create") /\ Idle("cloud")
    /\ UNCHANGED <<stationVars, dialogVars, answering, todo, published, link>>

\* MQTT_AGENT_Create.
CreateClient ==
    /\ CloudGoesOn("create", "connect")
    /\ link' = "created"
    /\ UNCHANGED <<stationVars, dialogVars, answering, todo, published>>

\* MQTT_AGENT_Connect, which needs the network to succeed; after a failure the
\* handle is deleted.
ConnectClient ==
    /\ cloudAt = "connect"
    /\ \/ joined /\ link' = "connected" /\ cloudAt' = "publish"
       \/ link' = "none" /\ cloudAt' = "done"
    /\ UNCHANGED <<stationVars, dialogVars, answering, todo, published>>

\* cloudSend, whatever comes of it.
Publish ==
    /\ cloudAt = "publish"
    /\ IF published < Publishes
       THEN published' = published + 1 /\ UNCHANGED cloudAt
       ELSE cloudAt' = "disconnect" /\ UNCHANGED published
    /\ UNCHANGED <<stationVars, dialogVars, answering, todo, link>>

\* cloudDisconnect.
DisconnectClient ==
    /\ CloudGoesOn("disconnect", "leave")
    /\ link' = "none"
    /\ UNCHANGED <<stationVars, dialogVars, answering, todo, published>>

Leave ==
    /\ CloudGoesOn("leave", "leaving")
    /\ \/ Disconnect("cloud")
       \/ wifiStatus = "no_wifi" /\ UNCHANGED stationVars
    /\ UNCHANGED <<dialogVars, answering, todo, published, link>>

Left ==
    /\ CloudGoesOn("leaving", "done") /\ Idle("cloud")
    /\ UNCHANGED <<stationVars, dialogVars, answering, todo, published, link>>

CloudStep ==
    \/ Join \/ Joined \/ CreateClient \/ ConnectClient \/ Publish
    \/ DisconnectClient \/ Leave \/ Left

(* The MQTT agent's task makes socket calls for the cloud thread's handle. *)
AgentUsesSocket ==
    /\ agents > 0 /\ (link # "none" \/ semaphore = "agent")
    /\ AgentInModule
    /\ UNCHANGED <<dialogVars, appVars>>

(* The steps of the parts. *)
Station(t) == StationStep(t) /\ UNCHANGED <<dialogVars, appVars>>

CommandThread == DialogStep /\ UNCHANGED <<stationVars, appVars>>

\* The command "reset" restarts the board; the configuration stays.
Restart ==
    /\ cmdAt = "read"
    /\ hostMode = "commands" /\ ~eof
    /\ wifiStatus' = "no_wifi" /\ xWIFIInitDone' = FALSE
    /\ semaphore' = "absent" /\ fops' = FALSE /\ agents' = 0 /\ joined' = FALSE
    /\ op' = [t \in Threads |-> "none"] /\ at' = [t \in Threads |-> "idle"]
    /\ call' = [t \in Threads |-> "none"]
    /\ result' = [t \in Threads |-> "failure"]
    /\ suspect' = FALSE
    /\ sent' = 0
    /\ pemSize' = 0 /\ reply' = "text" /\ msgQueue' = <<>>
    /\ answering' = FALSE /\ todo' = <<>>
    /\ cloudAt' = "join" /\ published' = 0 /\ link' = "none"
    /\ UNCHANGED <<halted, hostMode, eof, cmdAt, kept>>

ResponseThread == Dequeue \/ AskStation \/ Prompt

Next ==
    /\ ~halted
    /\ \/ \E t \in Threads : Station(t)
       \/ ResponseThread \/ CloudStep \/ AgentUsesSocket
       \/ CommandThread \/ Restart

Spec == Init /\ [][Next]_vars

\* The scheduler runs ready threads of equal priority in turn; the command
\* thread, of higher priority, waits for lines.  Waits for the semaphore end
\* after 60 s, and the module answers every command or times out.
FairSpec ==
    /\ Spec
    /\ WF_vars(~halted /\ (Station("response") \/ ResponseThread))
    /\ WF_vars(~halted /\ (Station("cloud") \/ CloudStep))
    /\ WF_vars(~halted /\ semaphore = "agent" /\ AgentUsesSocket)

-----------------------------------------------------------------------------
TypeOK ==
    /\ StationTypeOK
    /\ DialogTypeOK
    /\ answering \in BOOLEAN /\ todo \in Seq(Operations)
    /\ cloudAt \in CloudSteps /\ published \in 0..Publishes
    /\ link \in {"none", "created", "connected"}

InOn(t) == t \in Threads /\ at[t] = "module"

\* Two tasks give the module commands at once only while one of them runs
\* WIFI_On, which uses the module without the semaphore (aws_wifi.c:56-61 wants
\* all operations serialised by it).  It rests on the semaphore being created
\* once, although nothing guards its creation: the response thread reaches init()
\* only after a command to the module, and a command that comes before the
\* bus functions are registered, which is after the flag is set, stops the board.
ModuleIsSerialised ==
    \A t \in InModule, u \in InModule :
        t = u \/ InOn(t) \/ InOn(u)

\* Although nobody looks at the result of networkInit, the cloud thread goes on
\* to the agent only when there is one, and one only, and to the sockets only
\* when there is a semaphore: the assertions on both never fail.
CloudFindsItsServices ==
    /\ agents <= 1
    /\ cloudAt \notin {"join", "joining"} => agents = 1 /\ semaphore # "absent"

\* SYSTEM_Init marks the buffers and the sockets free.  It never does so under
\* an MQTT handle, unless WIFI_On failed before or two threads initialised the
\* station at the same time (init has no lock).
PoolsResetOnlyIdle ==
    (\E t \in Threads : at[t] = "pools") /\ link # "none" => suspect

\* While the host sends a text that fits with its terminator and reads work, the
\* command thread takes in just that text: no line of it is executed as a command.
TextIsTakenAsText ==
    hostMode = "text" /\ ~eof /\ ~TooLarge => cmdAt = "text" /\ pemSize = sent

\* A certificate or key that is stored is what the host had sent by then, and, with its
\* terminator, all of it; the one exception is a text whose lines fill the buffer
\* exactly, which is stored without a terminator, although it may go on
\* (CommandInterface.cpp:378; lines 393, 399 and 415 say otherwise).
StoredTextIsWhole == kept.same /\ (kept.terminated \/ kept.full)

\* Every answer under way ends with a prompt and the cloud thread's session
\* ends, unless the board halts or restarts.
ThreadsComeBack ==
    /\ answering ~> ~answering \/ halted
    /\ cloudAt = "joining" ~> cloudAt \in {"join", "done"} \/ halted
=============================================================================

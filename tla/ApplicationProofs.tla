-------------------------- MODULE ApplicationProofs -------------------------
(***************************************************************************)
(* Proofs about Application, for every size of text, queue and session.    *)
(***************************************************************************)
EXTENDS Application, TLAPS

(* The inductive invariant. *)
\* Where the cloud thread is before WIFI_On has created the semaphore.
CloudBeforeSemaphore ==
    {"idle", "init", "pools", "agent", "on", "clear", "create"}

\* Until the bus functions are registered the cloud thread is on its way to do so,
\* and the response thread is idle with RSSI to come, or asks for the signal
\* strength in vain; the semaphore, once there is one, is free or its.
BeforeWifiOn ==
    ~fops =>
        /\ wifiStatus = "no_wifi" /\ semaphore \in {"absent", "free", "response"}
        /\ semaphore = "absent" <=> at["cloud"] \in CloudBeforeSemaphore
        /\ xWIFIInitDone <=> at["cloud"] = "register"
        /\ \/ cloudAt = "join" /\ at["cloud"] = "idle"
           \/ /\ cloudAt = "joining"
              /\ at["cloud"] \in {"init"} \cup (InitSteps \ {"module", "set"})
        /\ at["response"] \in {"idle", "wait", "in"}
        /\ at["response"] = "idle" => todo = <<>> \/ Head(todo) = "RSSI"
        /\ at["response"] # "idle" => call["response"] = "GetRSSI"
        /\ semaphore = "response" => at["response"] = "in"

\* Afterwards there is a semaphore and one agent, and nobody creates anything.
AfterWifiOn ==
    fops =>
        /\ xWIFIInitDone /\ semaphore # "absent" /\ agents = 1
        /\ \A t \in Threads : at[t] \notin {"agent", "clear", "create", "give", "done"}

\* The cloud thread creates the agent once.
AgentOnce ==
    /\ agents = 0 => at["cloud"] \in {"idle", "init", "pools", "agent"}
    /\ agents <= 1
    /\ at["cloud"] = "agent" => agents = 0

\* Where the cloud thread is, and with which handle.
CloudPlace ==
    /\ at["cloud"] \in InitSteps \cup {"init"} => cloudAt = "joining"
    /\ at["cloud"] # "idle" => cloudAt \in {"joining", "leaving"}
    /\ link # "none" => cloudAt \in {"connect", "publish", "disconnect"}

\* Who is in the module holds the semaphore.
Holder == \A t \in Threads : at[t] = "in" => semaphore = t

\* Without a failed or overlapping init the station stays initialised.
InitOnce ==
    ~suspect =>
        /\ at["response"] \notin InitSteps
        /\ at["cloud"] = "set" => result["cloud"] = "success"
        /\ fops /\ at["cloud"] \notin InitSteps => wifiStatus # "no_wifi"

\* In a text, host and command thread are in step.
InStep ==
    /\ hostMode = "commands" => sent = 0
    /\ cmdAt = "text" /\ ~eof =>
          hostMode = "text" /\ pemSize = sent /\ sent < MaxText
    /\ StoredTextIsWhole

StationInv ==
    BeforeWifiOn /\ AfterWifiOn /\ AgentOnce /\ CloudPlace /\ Holder /\ InitOnce

DialogInv == InStep /\ TextIsTakenAsText

IInv == TypeOK /\ StationInv /\ DialogInv
-----------------------------------------------------------------------------
\* The initial states.
LEMMA InitHolds == Init => IInv
<1>1. Init => TypeOK
  <2> SUFFICES ASSUME Init PROVE TypeOK  OBVIOUS
  <2>1. StationTypeOK
    BY DEF Init, StationInit, StationTypeOK, Statuses, Operations, Steps,
           InitSteps, Calls, Results
  <2>2. DialogTypeOK
    <3>1. msgQueue \in Seq(Answers) /\ Len(msgQueue) <= QueueLength
      BY DialogAssumption DEF Init, DialogInit
    <3>2. sent \in 0..(MaxText + 1) /\ pemSize \in 0..MaxText
      BY DialogAssumption DEF Init, DialogInit
    <3>3. QED
      BY <3>1, <3>2 DEF Init, DialogInit, DialogTypeOK, Answers, NothingKept
  <2>3. todo \in Seq(Operations) /\ published \in 0..Publishes
    BY ApplicationAssumption DEF Init, AppInit
  <2>4. QED  BY <2>1, <2>2, <2>3 DEF Init, AppInit, TypeOK, CloudSteps
<1>2. Init => StationInv
  BY ApplicationAssumption
     DEF Init, StationInit, AppInit, StationInv, BeforeWifiOn, CloudBeforeSemaphore,
         AfterWifiOn, AgentOnce, CloudPlace, Holder, InitOnce, InitSteps
<1>3. Init => DialogInv
  BY DEF Init, DialogInit, DialogInv, InStep, TextIsTakenAsText,
         StoredTextIsWhole, NothingKept
<1>4. QED  BY <1>1, <1>2, <1>3 DEF IInv

\* What a command may come back with.
LEMMA OutcomeTypes ==
    ASSUME NEW t, joined \in BOOLEAN, NEW o \in Outcomes(t)
    PROVE  o[1] \in Results /\ o[2] \in BOOLEAN
<1>1. CASE call[t] = "ConnectAP"
  <2>1. o \in {<<"success", TRUE>>} \cup ({"failure"} \X BOOLEAN)
    BY <1>1 DEF Outcomes, Copies
  <2>2. CASE o = <<"success", TRUE>>  BY <2>2 DEF Results
  <2>3. CASE o \in {"failure"} \X BOOLEAN  BY <2>3 DEF Results
  <2>4. QED  BY <2>1, <2>2, <2>3
<1>2. CASE call[t] = "Disconnect"
  <2>1. o \in {<<"success", FALSE>>} \cup ({"failure"} \X {joined, FALSE})
    BY <1>2 DEF Outcomes, Copies
  <2>2. CASE o = <<"success", FALSE>>  BY <2>2 DEF Results
  <2>3. CASE o \in {"failure"} \X {joined, FALSE}  BY <2>3 DEF Results
  <2>4. QED  BY <2>1, <2>2, <2>3
<1>3. CASE call[t] \in Copies
  <2>1. o = <<"success", joined>>  BY <1>3 DEF Outcomes, Copies
  <2>2. QED  BY <2>1 DEF Results
<1>4. CASE call[t] \notin {"ConnectAP", "Disconnect"} \cup Copies
  <2>1. o \in {"success", "failure"} \X {joined}  BY <1>4 DEF Outcomes
  <2>2. QED  BY <2>1 DEF Results
<1>5. QED  BY <1>1, <1>2, <1>3, <1>4

\* Every step of an operation keeps the types of the station.
LEMMA StationTypes ==
    ASSUME StationTypeOK, NEW t \in Threads, StationStep(t)
    PROVE  StationTypeOK'
<1> USE ApplicationAssumption DEF StationTypeOK, Statuses, Operations, Steps,
        InitSteps, Calls, Results, GoTo, Calling, Returning
<1>1. CASE TestStatus(t)
  <2>1. suspect' \in BOOLEAN  BY <1>1, Zenon DEF TestStatus
  <2>2. at' \in [Threads -> Steps]  BY <1>1 DEF TestStatus
  <2>3. QED  BY <1>1, <2>1, <2>2 DEF TestStatus
<1>2. CASE InitPools(t)        BY <1>2 DEF InitPools
<1>3. CASE CreateAgent(t)      BY <1>3 DEF CreateAgent
<1>4. CASE TestInitDone(t)     BY <1>4 DEF TestInitDone
<1>5. CASE CreateSemaphore(t)  BY <1>5 DEF CreateSemaphore
<1>6. CASE StartModule(t)
  <2>1. suspect' \in BOOLEAN  BY <1>6, Zenon DEF StartModule
  <2>2. joined' \in BOOLEAN   BY <1>6, Zenon DEF StartModule
  <2>3. result' \in [Threads -> Results]  BY <1>6 DEF StartModule
  <2>4. QED  BY <1>6, <2>1, <2>2, <2>3 DEF StartModule
<1>7. CASE SetStatus(t)        BY <1>7 DEF SetStatus
<1>8. CASE Proceed(t)          BY <1>8 DEF Proceed
<1>9. CASE TakeSemaphore(t)    BY <1>9 DEF TakeSemaphore
<1>10. CASE GiveUp(t)          BY <1>10 DEF GiveUp, Back
<1>11. CASE NoSemaphore(t)     BY <1>11 DEF NoSemaphore
<1>12. CASE GiveSemaphore(t)
  <2>1. PICK o \in Outcomes(t) : Back(t, o[1]) /\ joined' = o[2]
    BY <1>12 DEF GiveSemaphore
  <2>2. o[1] \in Results /\ o[2] \in BOOLEAN
    BY <2>1, OutcomeTypes DEF StationTypeOK
  <2>3. /\ op' \in [Threads -> Operations] /\ at' \in [Threads -> Steps]
        /\ call' \in [Threads -> Calls] /\ result' \in [Threads -> Results]
    BY <2>1, <2>2 DEF Back
  <2>4. QED  BY <1>12, <2>1, <2>2, <2>3 DEF GiveSemaphore
<1>13. CASE WriteStatus(t)     BY <1>13 DEF WriteStatus
<1>14. CASE ClearModule(t)     BY <1>14 DEF ClearModule
<1>15. CASE GiveNew(t)
  <2>1. halted' \in BOOLEAN  BY <1>15, Zenon DEF GiveNew
  <2>2. at' \in [Threads -> Steps]  BY <1>15 DEF GiveNew
  <2>3. QED  BY <1>15, <2>1, <2>2 DEF GiveNew
<1>16. CASE SetInitDone(t)     BY <1>16 DEF SetInitDone
<1>17. CASE RegisterBusIO(t)   BY <1>17 DEF RegisterBusIO
<1>18. CASE CommandFaults(t)   BY <1>18 DEF CommandFaults
<1>19. QED
  BY <1>1, <1>2, <1>3, <1>4, <1>5, <1>6, <1>7, <1>8, <1>9, <1>10, <1>11,
     <1>12, <1>13, <1>14, <1>15, <1>16, <1>17, <1>18 DEF StationStep

\* Every step of an operation keeps the station's part of the invariant.
LEMMA StationKeeps ==
    ASSUME TypeOK, StationInv, NEW t \in Threads, StationStep(t),
           UNCHANGED <<dialogVars, appVars>>
    PROVE  StationInv'
<1> USE ApplicationAssumption DEF TypeOK, StationTypeOK, StationInv,
        BeforeWifiOn, CloudBeforeSemaphore, AfterWifiOn, AgentOnce, CloudPlace,
        Holder, InitOnce,
        InitSteps, appVars, GoTo, Calling, Returning
<1>1. CASE TestStatus(t)       BY <1>1 DEF TestStatus
<1>2. CASE InitPools(t)        BY <1>2 DEF InitPools
<1>3. CASE CreateAgent(t)      BY <1>3 DEF CreateAgent
<1>4. CASE TestInitDone(t)     BY <1>4 DEF TestInitDone
<1>5. CASE CreateSemaphore(t)  BY <1>5 DEF CreateSemaphore
<1>6. CASE StartModule(t)      BY <1>6 DEF StartModule
<1>7. CASE SetStatus(t)        BY <1>7 DEF SetStatus
<1>8. CASE Proceed(t)          BY <1>8 DEF Proceed
<1>9. CASE TakeSemaphore(t)    BY <1>9 DEF TakeSemaphore
<1>10. CASE GiveUp(t)          BY <1>10 DEF GiveUp, Back
<1>11. CASE NoSemaphore(t)     BY <1>11 DEF NoSemaphore
<1>12. CASE GiveSemaphore(t)   BY <1>12 DEF GiveSemaphore, Back, Outcomes, Copies
<1>13. CASE WriteStatus(t)     BY <1>13 DEF WriteStatus
<1>14. CASE ClearModule(t)     BY <1>14 DEF ClearModule
<1>15. CASE GiveNew(t)         BY <1>15 DEF GiveNew
<1>16. CASE SetInitDone(t)     BY <1>16 DEF SetInitDone
<1>17. CASE RegisterBusIO(t)   BY <1>17 DEF RegisterBusIO
<1>18. CASE CommandFaults(t)   BY <1>18 DEF CommandFaults
<1>19. QED
  BY <1>1, <1>2, <1>3, <1>4, <1>5, <1>6, <1>7, <1>8, <1>9, <1>10, <1>11,
     <1>12, <1>13, <1>14, <1>15, <1>16, <1>17, <1>18 DEF StationStep

-----------------------------------------------------------------------------
(* The dialog. *)
\* The values of the history of what is stored.
Kept == [terminated : BOOLEAN, full : BOOLEAN, same : BOOLEAN]

\* Queueing an answer keeps the types.
LEMMA AnswerTypes ==
    ASSUME DialogTypeOK, NEW r \in Answers, Answer(r)
    PROVE  /\ cmdAt' \in {"read", "answer"} /\ pemSize' = 0
           /\ reply' \in Answers
           /\ msgQueue' \in Seq(Answers) /\ Len(msgQueue') <= QueueLength
<1>1. CASE Len(msgQueue) < QueueLength
  <2>1. cmdAt' = "read" /\ msgQueue' = Append(msgQueue, r) /\ reply' = reply
    BY <1>1 DEF Answer
  <2>2. msgQueue' \in Seq(Answers) /\ Len(msgQueue') = Len(msgQueue) + 1
    BY <2>1 DEF DialogTypeOK
  <2>3. QED  BY <1>1, <2>1, <2>2, DialogAssumption DEF Answer, DialogTypeOK
<1>2. CASE ~(Len(msgQueue) < QueueLength)
  BY <1>2 DEF Answer, DialogTypeOK
<1>3. QED  BY <1>1, <1>2

\* Executing a line does as well, and goes to a text for a "cert" only.
LEMMA ExecuteTypes ==
    ASSUME DialogTypeOK, NEW l \in Commands, Execute(l)
    PROVE  /\ cmdAt' \in {"read", "answer", "text"} /\ pemSize' = 0
           /\ cmdAt' = "text" <=> l = "cert"
           /\ reply' \in Answers
           /\ msgQueue' \in Seq(Answers) /\ Len(msgQueue') <= QueueLength
<1>1. CASE l = "cert"  BY <1>1 DEF Execute, DialogTypeOK
<1>2. CASE l \in {"status", "wifi_status"}
  <2>1. Answer(l) /\ l \in Answers  BY <1>2 DEF Execute, Answers
  <2>2. QED  BY <1>2, <2>1, AnswerTypes
<1>3. CASE l \notin {"cert", "status", "wifi_status"}
  <2>1. Answer("text") /\ "text" \in Answers  BY <1>3 DEF Execute, Answers
  <2>2. QED  BY <1>3, <2>1, AnswerTypes
<1>4. QED  BY <1>1, <1>2, <1>3

\* What the host sends keeps the types, and its text goes on or ends.
LEMMA HostTypes ==
    ASSUME DialogTypeOK
    PROVE  /\ \A c \in Commands : HostCommands(c) =>
                 /\ hostMode = "commands" /\ sent' = sent
                 /\ hostMode' \in {"commands", "text"}
                 /\ hostMode' = "text" <=> c = "cert"
           /\ \A n \in LineLengths : HostSendsText(n) =>
                 /\ hostMode = "text" /\ hostMode' = "text"
                 /\ sent' \in 0..(MaxText + 1)
                 /\ sent + n < MaxText => sent' = sent + n
                 /\ sent + n >= MaxText => sent' >= MaxText
           /\ HostSendsLongLine =>
                 /\ hostMode = "text" /\ hostMode' = "text" /\ sent' = MaxText + 1
           /\ HostEndsText =>
                 /\ hostMode = "text" /\ hostMode' = "commands" /\ sent' = 0
BY DialogAssumption
   DEF DialogTypeOK, HostCommands, HostSendsText, HostSendsLongLine, HostEndsText

\* Taking in a line of the text: it fits and the text goes on, or it fills the
\* buffer and what there is is stored, or it does not fit and all is dropped.
LEMMA TakeLineEffect ==
    ASSUME DialogTypeOK, NEW n \in LineLengths, TakeLine(n), StoredTextIsWhole,
           eof \/ pemSize = sent \/ pemSize + n > MaxText, cmdAt = "text"
    PROVE  /\ cmdAt' \in {"read", "answer", "text"} /\ pemSize' \in 0..MaxText
           /\ cmdAt' = "text" => pemSize' = pemSize + n /\ pemSize + n < MaxText
           /\ pemSize + n < MaxText => cmdAt' = "text"
           /\ reply' \in Answers
           /\ msgQueue' \in Seq(Answers) /\ Len(msgQueue') <= QueueLength
           /\ kept' \in Kept /\ StoredTextIsWhole'
<1>0. "text" \in Answers /\ n \in Nat /\ pemSize \in Nat /\ MaxText \in Nat
  BY DialogAssumption DEF Answers, DialogTypeOK
<1>1. CASE pemSize + n > MaxText
  <2>1. Answer("text") /\ kept' = kept  BY <1>1 DEF TakeLine, DropText
  <2>2. QED
    BY <1>0, <1>1, <2>1, AnswerTypes DEF DialogTypeOK, Kept, StoredTextIsWhole
<1>2. CASE pemSize + n = MaxText
  <2>0. ~(pemSize + n > MaxText) /\ (eof \/ pemSize = sent)  BY <1>0, <1>2
  <2>1. Store(pemSize + n, FALSE, pemSize = sent)
    BY <1>2, <2>0, Zenon DEF TakeLine
  <2>2. Answer("text")  BY <2>1 DEF Store
  <2>3. \/ kept' = kept
        \/ /\ ~eof
           /\ kept' = [terminated |-> FALSE, full |-> pemSize + n = MaxText,
                       same |-> pemSize = sent]
    BY <2>1, Zenon DEF Store
  <2>4. kept' = kept \/ kept' = [terminated |-> FALSE, full |-> TRUE, same |-> TRUE]
    BY <1>2, <2>0, <2>3
  <2>5. kept' \in Kept /\ StoredTextIsWhole'
    <3>1. CASE kept' = kept  BY <3>1 DEF DialogTypeOK, Kept, StoredTextIsWhole
    <3>2. CASE kept' = [terminated |-> FALSE, full |-> TRUE, same |-> TRUE]
      BY <3>2 DEF Kept, StoredTextIsWhole
    <3>3. QED  BY <2>4, <3>1, <3>2
  <2>6. QED  BY <1>0, <1>2, <2>2, <2>5, AnswerTypes
<1>3. CASE pemSize + n < MaxText
  <2>0. ~(pemSize + n > MaxText) /\ pemSize + n # MaxText  BY <1>0, <1>3
  <2>1. pemSize' = pemSize + n /\ UNCHANGED <<cmdAt, reply, msgQueue, kept>>
    BY <2>0, Zenon DEF TakeLine
  <2>2. kept' \in Kept /\ StoredTextIsWhole'
    BY <2>1 DEF DialogTypeOK, Kept, StoredTextIsWhole
  <2>3. QED  BY <1>0, <1>3, <2>1, <2>2 DEF DialogTypeOK
<1>4. QED  BY <1>0, <1>1, <1>2, <1>3

\* Every step of the command thread keeps the dialog's part of the invariant.
LEMMA DialogKeeps ==
    ASSUME DialogTypeOK, DialogInv, DialogStep
    PROVE  DialogTypeOK' /\ DialogInv'
<1>0. /\ "text" \in Answers /\ "other" \in Commands /\ 0 \in 0..MaxText
      /\ MaxText \in Nat \ {0} /\ sent \in Nat /\ pemSize \in Nat
      /\ LineLengths \subseteq Nat
  BY DialogAssumption DEF Answers, Commands, DialogTypeOK
<1>1. CASE ReadCommand
  <2>0. /\ cmdAt = "read" /\ ~eof /\ eof' = eof
        /\ kept' \in Kept /\ StoredTextIsWhole'
    BY <1>1 DEF ReadCommand, NothingKept, Kept, StoredTextIsWhole
  <2>1. ASSUME NEW c \in Commands, HostCommands(c), Execute(c)
        PROVE  DialogTypeOK' /\ DialogInv'
    <3>1. hostMode' = "text" <=> cmdAt' = "text"  BY <2>1, HostTypes, ExecuteTypes
    <3>2. sent' = 0 /\ pemSize' = 0
      BY <2>1, HostTypes, ExecuteTypes DEF DialogInv, InStep
    <3>3. QED
      BY <1>0, <2>0, <2>1, <3>1, <3>2, HostTypes, ExecuteTypes
         DEF DialogTypeOK, DialogInv, InStep, TextIsTakenAsText, Kept,
             StoredTextIsWhole, TooLarge
  <2>2. ASSUME NEW n \in LineLengths, HostSendsText(n), Execute("other")
        PROVE  DialogTypeOK' /\ DialogInv'
    <3>1. hostMode = "text" /\ hostMode' = "text" /\ sent' \in 0..(MaxText + 1)
      BY <2>2, HostTypes
    <3>2. sent >= MaxText
      BY <2>0, <3>1 DEF DialogInv, TextIsTakenAsText, TooLarge
    <3>3. sent' >= MaxText  BY <1>0, <2>2, <3>2, HostTypes
    <3>4. cmdAt' # "text" /\ cmdAt' \in {"read", "answer"} /\ pemSize' = 0
      BY <1>0, <2>2, ExecuteTypes
    <3>5. QED
      BY <1>0, <2>0, <2>2, <3>1, <3>3, <3>4, ExecuteTypes
         DEF DialogTypeOK, DialogInv, InStep, TextIsTakenAsText, Kept,
             StoredTextIsWhole, TooLarge
  <2>3. ASSUME HostSendsLongLine \/ HostEndsText, Execute("other")
        PROVE  DialogTypeOK' /\ DialogInv'
    <3>1. \/ hostMode' = "text" /\ sent' = MaxText + 1
          \/ hostMode' = "commands" /\ sent' = 0
      BY <2>3, HostTypes
    <3>2. cmdAt' # "text" /\ cmdAt' \in {"read", "answer"} /\ pemSize' = 0
      BY <1>0, <2>3, ExecuteTypes
    <3>3. QED
      BY <1>0, <2>0, <2>3, <3>1, <3>2, ExecuteTypes
         DEF DialogTypeOK, DialogInv, InStep, TextIsTakenAsText, Kept,
             StoredTextIsWhole, TooLarge
  <2>4. QED  BY <1>1, <2>1, <2>2, <2>3 DEF ReadCommand
<1>2. CASE ReadOldCommand
  <2>1. PICK c \in Commands : Execute(c)  BY <1>2 DEF ReadOldCommand
  <2>2. eof /\ UNCHANGED <<hostMode, sent, eof, kept>>  BY <1>2 DEF ReadOldCommand
  <2>3. QED
    BY <1>0, <2>1, <2>2, ExecuteTypes
       DEF DialogTypeOK, DialogInv, InStep, TextIsTakenAsText, Kept, StoredTextIsWhole
<1>3. CASE InputFails
  BY <1>0, <1>3 DEF InputFails, NothingKept, DialogTypeOK, DialogInv, InStep,
                    TextIsTakenAsText, Kept, StoredTextIsWhole
<1>4. ASSUME NEW n \in LineLengths, ReadTextLine(n)
      PROVE  DialogTypeOK' /\ DialogInv'
  <2>1. /\ cmdAt = "text" /\ ~eof /\ eof' = eof
        /\ HostSendsText(n) /\ TakeLine(n)
    BY <1>4 DEF ReadTextLine
  <2>2. pemSize = sent /\ sent < MaxText /\ StoredTextIsWhole
    BY <2>1 DEF DialogInv, InStep
  <2>3. hostMode' = "text" /\ sent' \in 0..(MaxText + 1)  BY <2>1, HostTypes
  <2>4. /\ sent + n < MaxText => sent' = sent + n
        /\ sent + n >= MaxText => sent' >= MaxText
    BY <2>1, HostTypes
  <2>5. /\ cmdAt' \in {"read", "answer", "text"} /\ pemSize' \in 0..MaxText
        /\ cmdAt' = "text" => pemSize' = pemSize + n /\ pemSize + n < MaxText
        /\ pemSize + n < MaxText => cmdAt' = "text"
        /\ reply' \in Answers
        /\ msgQueue' \in Seq(Answers) /\ Len(msgQueue') <= QueueLength
        /\ kept' \in Kept /\ StoredTextIsWhole'
    BY <2>1, <2>2, TakeLineEffect
  <2>6. QED
    BY <1>0, <2>1, <2>2, <2>3, <2>4, <2>5
       DEF DialogTypeOK, DialogInv, InStep, TextIsTakenAsText, Kept,
           StoredTextIsWhole, TooLarge
<1>5. CASE ReadLongLine
  <2>1. /\ ~eof /\ eof' = eof /\ HostSendsLongLine
        /\ Answer("text") /\ kept' = kept
    BY <1>5 DEF ReadLongLine, DropText
  <2>2. QED
    BY <1>0, <2>1, HostTypes, AnswerTypes
       DEF DialogTypeOK, DialogInv, InStep, TextIsTakenAsText, Kept,
           StoredTextIsWhole, TooLarge
<1>6. CASE ReadEndOfText
  <2>1. /\ cmdAt = "text" /\ ~eof /\ eof' = eof /\ HostEndsText
        /\ Store(pemSize, TRUE, pemSize = sent) /\ Answer("text")
    BY <1>6 DEF ReadEndOfText, Store
  <2>2. pemSize = sent /\ StoredTextIsWhole  BY <2>1 DEF DialogInv, InStep
  <2>3. kept' \in Kept /\ StoredTextIsWhole'
    <3>1. kept' = kept \/ kept' =
            [terminated |-> TRUE, full |-> pemSize = MaxText, same |-> pemSize = sent]
      BY <2>1, Zenon DEF Store
    <3>2. CASE kept' = kept
      BY <2>2, <3>2 DEF DialogTypeOK, Kept, StoredTextIsWhole
    <3>3. CASE kept' =
            [terminated |-> TRUE, full |-> pemSize = MaxText, same |-> pemSize = sent]
      <4> DEFINE f == pemSize = MaxText
      <4>1. f \in BOOLEAN  OBVIOUS
      <4>2. kept' = [terminated |-> TRUE, full |-> f, same |-> TRUE]  BY <2>2, <3>3
      <4> HIDE DEF f
      <4>3. QED  BY <4>1, <4>2 DEF Kept, StoredTextIsWhole
    <3>4. QED  BY <3>1, <3>2, <3>3
  <2>4. QED
    BY <1>0, <2>1, <2>3, HostTypes, AnswerTypes
       DEF DialogTypeOK, DialogInv, InStep, TextIsTakenAsText, Kept,
           StoredTextIsWhole, TooLarge
<1>7. CASE ReadOldLine
  <2>1. /\ cmdAt = "text" /\ eof /\ UNCHANGED <<hostMode, sent, eof>>
        /\ DropText \/ \E n \in LineLengths : TakeLine(n)
    BY <1>7 DEF ReadOldLine
  <2>2. CASE DropText
    <3>1. Answer("text") /\ kept' = kept  BY <2>2 DEF DropText
    <3>2. QED
      BY <1>0, <2>1, <3>1, AnswerTypes
         DEF DialogTypeOK, DialogInv, InStep, TextIsTakenAsText, Kept, StoredTextIsWhole
  <2>3. ASSUME NEW n \in LineLengths, TakeLine(n)
        PROVE  DialogTypeOK' /\ DialogInv'
    <3>1. /\ cmdAt' \in {"read", "answer", "text"} /\ pemSize' \in 0..MaxText
          /\ reply' \in Answers
          /\ msgQueue' \in Seq(Answers) /\ Len(msgQueue') <= QueueLength
          /\ kept' \in Kept /\ StoredTextIsWhole'
      BY <2>1, <2>3, TakeLineEffect DEF DialogInv, InStep
    <3>2. QED
      BY <2>1, <3>1 DEF DialogTypeOK, DialogInv, InStep, TextIsTakenAsText, Kept,
                        StoredTextIsWhole
  <2>4. QED  BY <2>1, <2>2, <2>3
<1>8. CASE Enqueue
  <2>1. msgQueue' \in Seq(Answers) /\ Len(msgQueue') <= QueueLength
    BY <1>8, DialogAssumption DEF Enqueue, DialogTypeOK
  <2>2. QED
    BY <1>0, <1>8, <2>1
       DEF Enqueue, DialogTypeOK, DialogInv, InStep, TextIsTakenAsText, Kept,
           StoredTextIsWhole, TooLarge
<1>9. QED
  BY <1>1, <1>2, <1>3, <1>4, <1>5, <1>6, <1>7, <1>8 DEF DialogStep, ReadText

-----------------------------------------------------------------------------
(* The application's threads. *)
\* An operation on the station begins with one of these steps.
LEMMA StartKeepsTypes ==
    ASSUME StationTypeOK, NEW t \in Threads,
           \/ RSSI(t) \/ Ping(t) \/ MacAddress(t) \/ FirmwareVersion(t)
           \/ Begin(t) \/ Disconnect(t)
    PROVE  StationTypeOK'
<1> USE DEF StationTypeOK, Operations, Steps, InitSteps, Calls, Results,
        Start, StartWithInit, Calling, GoTo
<1>1. CASE RSSI(t)             BY <1>1 DEF RSSI
<1>2. CASE Ping(t)             BY <1>2 DEF Ping
<1>3. CASE MacAddress(t)       BY <1>3 DEF MacAddress
<1>4. CASE FirmwareVersion(t)  BY <1>4 DEF FirmwareVersion
<1>5. CASE Begin(t)            BY <1>5 DEF Begin
<1>6. CASE Disconnect(t)       BY <1>6 DEF Disconnect
<1>7. QED  BY <1>1, <1>2, <1>3, <1>4, <1>5, <1>6

\* A step of the response thread outside the station keeps the types.
LEMMA ResponseTypes ==
    ASSUME TypeOK, ResponseThread
    PROVE  TypeOK'
<1>1. CASE Dequeue
  <2>1. StationTypeOK'
    BY <1>1 DEF Dequeue, stationVars, TypeOK, StationTypeOK
  <2>2. msgQueue' \in Seq(Answers) /\ Len(msgQueue') <= QueueLength
    BY <1>1, DialogAssumption DEF Dequeue, TypeOK, DialogTypeOK
  <2>3. DialogTypeOK'
    BY <1>1, <2>2 DEF Dequeue, TypeOK, DialogTypeOK
  <2>4. todo' \in Seq(Operations)
    <3>1. todo' = Asks(Head(msgQueue))  BY <1>1 DEF Dequeue
    <3>2. \/ todo' = <<"RSSI", "ping">>
          \/ todo' = <<"RSSI", "macAddress", "firmwareVersion">>
          \/ todo' = <<>>
      BY <3>1 DEF Asks
    <3>3. /\ <<"RSSI", "ping">> \in Seq(Operations)
          /\ <<"RSSI", "macAddress", "firmwareVersion">> \in Seq(Operations)
          /\ <<>> \in Seq(Operations)
      <4> DEFINE S == Operations
      <4>1. "RSSI" \in S /\ "ping" \in S /\ "macAddress" \in S
            /\ "firmwareVersion" \in S
        BY DEF Operations
      <4> HIDE DEF S
      <4>2. QED  BY <4>1 DEF S
    <3>4. QED  BY <3>2, <3>3
  <2>5. QED  BY <1>1, <2>1, <2>3, <2>4 DEF Dequeue, TypeOK
<1>2. CASE AskStation
  <2>1. StationTypeOK'
    <3>1. CASE UNCHANGED stationVars
      BY <3>1 DEF stationVars, TypeOK, StationTypeOK
    <3>2. CASE ~UNCHANGED stationVars
      BY <1>2, <3>2, StartKeepsTypes, ApplicationAssumption
         DEF AskStation, TypeOK
    <3>3. QED  BY <3>1, <3>2
  <2>2. DialogTypeOK'
    BY <1>2 DEF AskStation, dialogVars, TypeOK, DialogTypeOK
  <2>3. todo' \in Seq(Operations)
    <3>1. todo' = Tail(todo) /\ todo # <<>>  BY <1>2 DEF AskStation
    <3>2. todo \in Seq(Operations)           BY DEF TypeOK
    <3>3. QED  BY <3>1, <3>2
  <2>4. QED  BY <1>2, <2>1, <2>2, <2>3 DEF AskStation, TypeOK
<1>3. CASE Prompt
  <2>1. StationTypeOK' /\ DialogTypeOK'
    BY <1>3 DEF Prompt, stationVars, dialogVars, TypeOK, StationTypeOK,
                DialogTypeOK
  <2>2. answering' \in BOOLEAN  BY <1>3, Zenon DEF Prompt
  <2>3. QED  BY <1>3, <2>1, <2>2 DEF Prompt, TypeOK
<1>4. QED  BY <1>1, <1>2, <1>3 DEF ResponseThread

\* What is left to ask begins with RSSI, as long as nothing was asked.
LEMMA ResponseKeeps ==
    ASSUME TypeOK, StationInv, ResponseThread
    PROVE  StationInv'
<1> USE ApplicationAssumption DEF TypeOK, StationTypeOK, StationInv,
        BeforeWifiOn, CloudBeforeSemaphore, AfterWifiOn, AgentOnce, CloudPlace,
        Holder, InitOnce,
        InitSteps
<1>1. CASE Dequeue
  <2>1. UNCHANGED stationVars /\ UNCHANGED <<cloudAt, link>>  BY <1>1 DEF Dequeue
  <2>2. todo' = <<>> \/ Head(todo') = "RSSI"
    <3>1. todo' = Asks(Head(msgQueue))  BY <1>1 DEF Dequeue
    <3>2. \/ todo' = <<"RSSI", "ping">>
          \/ todo' = <<"RSSI", "macAddress", "firmwareVersion">>
          \/ todo' = <<>>
      BY <3>1 DEF Asks
    <3>3. QED  BY <3>2
  <2>3. QED  BY <2>1, <2>2 DEF stationVars
<1>2. CASE AskStation
  <2>0. UNCHANGED <<cloudAt, link>> /\ at["response"] = "idle" /\ todo # <<>>
    BY <1>2 DEF AskStation, Idle
  <2>1. CASE Head(todo) = "RSSI"
    <3>1. RSSI("response")  BY <1>2, <2>1 DEF AskStation
    <3>2. QED  BY <2>0, <3>1 DEF RSSI, Start, Calling, GoTo
  <2>2. CASE Head(todo) # "RSSI"
    <3>0. fops  BY <2>0, <2>2
    <3>1. CASE Ping("response")
      BY <2>0, <3>0, <3>1 DEF Ping, Start, Calling, GoTo
    <3>2. CASE MacAddress("response")
      BY <2>0, <3>0, <3>2 DEF MacAddress, Start, Calling, GoTo
    <3>3. CASE FirmwareVersion("response")
      BY <2>0, <3>0, <3>3 DEF FirmwareVersion, StartWithInit, GoTo
    <3>4. CASE UNCHANGED stationVars
      BY <2>0, <3>0, <3>4 DEF stationVars
    <3>5. QED  BY <1>2, <2>2, <3>1, <3>2, <3>3, <3>4 DEF AskStation
  <2>3. QED  BY <2>1, <2>2
<1>3. CASE Prompt  BY <1>3 DEF Prompt, stationVars
<1>4. QED  BY <1>1, <1>2, <1>3 DEF ResponseThread

\* A step of the cloud thread outside the station keeps the types.
LEMMA CloudTypes ==
    ASSUME TypeOK, CloudStep
    PROVE  TypeOK'
<1>0. UNCHANGED <<dialogVars, answering, todo>>
  BY DEF CloudStep, Join, Joined, CreateClient, ConnectClient, Publish,
         DisconnectClient, Leave, Left
<1>1. DialogTypeOK' /\ answering' \in BOOLEAN /\ todo' \in Seq(Operations)
  BY <1>0 DEF dialogVars, TypeOK, DialogTypeOK
<1>2. StationTypeOK'
  <2>1. CASE UNCHANGED stationVars
    BY <2>1 DEF stationVars, TypeOK, StationTypeOK
  <2>2. CASE ~UNCHANGED stationVars
    <3>1. Begin("cloud") \/ Disconnect("cloud")
      BY <2>2 DEF CloudStep, Join, Joined, CreateClient, ConnectClient, Publish,
                  DisconnectClient, Leave, Left
    <3>2. QED  BY <3>1, StartKeepsTypes, ApplicationAssumption DEF TypeOK
  <2>3. QED  BY <2>1, <2>2
<1>3. published' \in 0..Publishes
  BY ApplicationAssumption
     DEF CloudStep, Join, Joined, CreateClient, ConnectClient, Publish,
         DisconnectClient, Leave, Left, TypeOK
<1>4. cloudAt' \in CloudSteps /\ link' \in {"none", "created", "connected"}
  BY DEF CloudStep, Join, Joined, CreateClient, ConnectClient, Publish,
         DisconnectClient, Leave, Left, CloudGoesOn, CloudSteps, TypeOK
<1>5. QED  BY <1>1, <1>2, <1>3, <1>4 DEF TypeOK

\* The cloud thread goes on to its client only when it is through with begin.
LEMMA CloudKeeps ==
    ASSUME TypeOK, StationInv, CloudStep
    PROVE  StationInv'
<1> USE ApplicationAssumption DEF TypeOK, StationTypeOK, StationInv,
        BeforeWifiOn, CloudBeforeSemaphore, AfterWifiOn, AgentOnce, CloudPlace,
        Holder, InitOnce,
        InitSteps, CloudGoesOn, Idle, stationVars
<1>1. CASE Join              BY <1>1 DEF Join, Begin, StartWithInit, GoTo
<1>2. CASE Joined            BY <1>2 DEF Joined
<1>3. CASE CreateClient      BY <1>3 DEF CreateClient
<1>4. CASE ConnectClient     BY <1>4 DEF ConnectClient
<1>5. CASE Publish           BY <1>5 DEF Publish
<1>6. CASE DisconnectClient  BY <1>6 DEF DisconnectClient
<1>7. CASE Leave             BY <1>7 DEF Leave, Disconnect, Start, Calling, GoTo
<1>8. CASE Left              BY <1>8 DEF Left
<1>9. QED
  BY <1>1, <1>2, <1>3, <1>4, <1>5, <1>6, <1>7, <1>8 DEF CloudStep

\* The agent takes the semaphore only when it is free.
LEMMA AgentKeeps ==
    ASSUME TypeOK, StationInv, AgentUsesSocket
    PROVE  TypeOK' /\ StationInv'
<1>1. semaphore' \in {"free", "agent"} /\ semaphore \in {"free", "agent"}
  BY DEF AgentUsesSocket, AgentInModule
<1>2. UNCHANGED <<wifiStatus, xWIFIInitDone, fops, agents, joined, op, at, call,
                  result, suspect, halted, dialogVars, appVars>>
  BY DEF AgentUsesSocket, AgentInModule
<1>3. TypeOK'
  BY <1>1, <1>2 DEF TypeOK, StationTypeOK, DialogTypeOK, dialogVars, appVars
<1>4. fops
  BY DEF AgentUsesSocket, StationInv, BeforeWifiOn, CloudPlace
<1>5. StationInv'
  BY <1>1, <1>2, <1>4, ApplicationAssumption
     DEF appVars, StationInv, BeforeWifiOn, CloudBeforeSemaphore, AfterWifiOn,
         AgentOnce, CloudPlace, Holder, InitOnce, InitSteps
<1>6. QED  BY <1>3, <1>5

\* A restart begins anew, the dialog with reads that work.
LEMMA RestartKeeps ==
    ASSUME IInv, Restart
    PROVE  IInv'
<1>1. StationTypeOK'
  BY DEF Restart, IInv, TypeOK, StationTypeOK, Statuses, Operations, Steps,
         InitSteps, Calls, Results
<1>2. DialogTypeOK'
  <2>1. msgQueue' \in Seq(Answers) /\ Len(msgQueue') <= QueueLength
    BY DialogAssumption DEF Restart
  <2>2. QED
    BY <2>1, DialogAssumption DEF Restart, IInv, TypeOK, DialogTypeOK, Answers
<1>3. TypeOK'
  <2>1. todo' \in Seq(Operations) /\ published' \in 0..Publishes
    BY ApplicationAssumption DEF Restart
  <2>2. QED  BY <1>1, <1>2, <2>1 DEF Restart, TypeOK, CloudSteps
<1>4. StationInv'
  BY ApplicationAssumption
     DEF Restart, StationInv, BeforeWifiOn, CloudBeforeSemaphore, AfterWifiOn,
         AgentOnce, CloudPlace, Holder, InitOnce, InitSteps
<1>5. DialogInv'
  BY DEF Restart, IInv, DialogInv, InStep, TextIsTakenAsText, StoredTextIsWhole
<1>6. QED  BY <1>3, <1>4, <1>5 DEF IInv

-----------------------------------------------------------------------------
\* The invariant is inductive.
LEMMA InvariantKept == IInv /\ [Next]_vars => IInv'
<1> SUFFICES ASSUME IInv, [Next]_vars PROVE IInv'  OBVIOUS
<1>0. TypeOK /\ StationTypeOK /\ DialogTypeOK /\ StationInv /\ DialogInv
  BY DEF IInv, TypeOK
<1>1. ASSUME UNCHANGED dialogVars PROVE DialogTypeOK' /\ DialogInv'
  BY <1>0, <1>1
     DEF dialogVars, DialogTypeOK, DialogInv, InStep, TextIsTakenAsText, TooLarge,
         StoredTextIsWhole
<1>2. ASSUME NEW t \in Threads, Station(t) PROVE IInv'
  <2>1. StationStep(t) /\ UNCHANGED <<dialogVars, appVars>>  BY <1>2 DEF Station
  <2>2. StationTypeOK'  BY <1>0, <2>1, StationTypes
  <2>3. DialogTypeOK' /\ DialogInv'  BY <1>1, <2>1
  <2>4. TypeOK'  BY <1>0, <2>1, <2>2, <2>3 DEF TypeOK, appVars
  <2>5. StationInv'  BY <1>0, <2>1, StationKeeps
  <2>6. QED  BY <2>3, <2>4, <2>5 DEF IInv
<1>3. CASE ResponseThread
  <2>1. DialogInv'
    <3>1. UNCHANGED <<hostMode, sent, eof, cmdAt, pemSize, kept>>
      BY <1>3 DEF ResponseThread, Dequeue, AskStation, Prompt, dialogVars
    <3>2. QED
      BY <1>0, <3>1 DEF DialogInv, InStep, TextIsTakenAsText, TooLarge,
                        StoredTextIsWhole
  <2>2. QED  BY <1>0, <1>3, <2>1, ResponseTypes, ResponseKeeps DEF IInv
<1>4. CASE CloudStep
  <2>1. UNCHANGED dialogVars
    BY <1>4 DEF CloudStep, Join, Joined, CreateClient, ConnectClient, Publish,
                DisconnectClient, Leave, Left
  <2>2. QED  BY <1>0, <1>1, <1>4, <2>1, CloudTypes, CloudKeeps DEF IInv
<1>5. CASE AgentUsesSocket
  <2>1. UNCHANGED dialogVars  BY <1>5 DEF AgentUsesSocket
  <2>2. QED  BY <1>0, <1>1, <1>5, <2>1, AgentKeeps DEF IInv
<1>6. CASE CommandThread
  <2>1. DialogStep /\ UNCHANGED <<stationVars, appVars>>
    BY <1>6 DEF CommandThread
  <2>2. DialogTypeOK' /\ DialogInv'  BY <1>0, <2>1, DialogKeeps
  <2>3. StationTypeOK'  BY <1>0, <2>1 DEF stationVars, StationTypeOK
  <2>4. TypeOK'  BY <1>0, <2>1, <2>2, <2>3 DEF TypeOK, appVars
  <2>5. StationInv'
    BY <1>0, <2>1
       DEF stationVars, appVars, StationInv, BeforeWifiOn, CloudBeforeSemaphore,
           AfterWifiOn, AgentOnce, CloudPlace, Holder, InitOnce
  <2>6. QED  BY <2>2, <2>4, <2>5 DEF IInv
<1>7. CASE Restart  BY <1>7, RestartKeeps
<1>8. CASE UNCHANGED vars
  <2>1. UNCHANGED stationVars /\ UNCHANGED dialogVars /\ UNCHANGED appVars
    BY <1>8 DEF vars
  <2>2. DialogTypeOK' /\ DialogInv'  BY <1>1, <2>1
  <2>3. StationTypeOK'  BY <1>0, <2>1 DEF stationVars, StationTypeOK
  <2>4. TypeOK'  BY <1>0, <2>1, <2>2, <2>3 DEF TypeOK, appVars
  <2>5. StationInv'
    BY <1>0, <2>1
       DEF stationVars, appVars, StationInv, BeforeWifiOn, CloudBeforeSemaphore,
           AfterWifiOn, AgentOnce, CloudPlace, Holder, InitOnce
  <2>6. QED  BY <2>2, <2>4, <2>5 DEF IInv
<1>9. QED
  BY <1>2, <1>3, <1>4, <1>5, <1>6, <1>7, <1>8 DEF Next

\* The invariant holds in every reachable state.
THEOREM InvariantHolds == Spec => []IInv
BY InitHolds, InvariantKept, PTL DEF Spec

\* Every variable of the threads, the station and the dialog has its type.
THEOREM TypeCorrect == Spec => []TypeOK
<1>1. IInv => TypeOK  BY DEF IInv
<1>2. QED  BY InvariantHolds, <1>1, PTL

\* Two tasks command the module at once only while one of them runs WIFI_On, since
\* a task that could create the semaphore a second time must have given a command
\* before, and one given before the bus functions are there stops the board.
THEOREM Serialised == Spec => []ModuleIsSerialised
<1>1. IInv => ModuleIsSerialised
  <2> SUFFICES ASSUME IInv, NEW t \in InModule, NEW u \in InModule
               PROVE  t = u \/ InOn(t) \/ InOn(u)
    BY DEF ModuleIsSerialised
  <2>1. \A v \in InModule : v = semaphore \/ InOn(v)
    BY DEF IInv, StationInv, Holder, InModule, InOn
  <2>2. QED  BY <2>1
<1>2. QED  BY InvariantHolds, <1>1, PTL

\* The cloud thread finds one agent, and the semaphore its sockets need.
THEOREM ServicesFound == Spec => []CloudFindsItsServices
<1>1. IInv => CloudFindsItsServices
  BY DEF IInv, StationInv, BeforeWifiOn, CloudBeforeSemaphore, AfterWifiOn, AgentOnce,
         CloudFindsItsServices
<1>2. QED  BY InvariantHolds, <1>1, PTL

\* Buffers and sockets are reset under no MQTT handle, unless an init failed or
\* overlapped with another.
THEOREM PoolsKept == Spec => []PoolsResetOnlyIdle
<1>1. IInv => PoolsResetOnlyIdle
  BY ApplicationAssumption
     DEF IInv, StationInv, CloudPlace, InitOnce, InitSteps, PoolsResetOnlyIdle
<1>2. QED  BY InvariantHolds, <1>1, PTL

\* While reads work, a text that fits is taken in and never executed.
THEOREM TextTaken == Spec => []TextIsTakenAsText
<1>1. IInv => TextIsTakenAsText  BY DEF IInv, DialogInv
<1>2. QED  BY InvariantHolds, <1>1, PTL

\* What is stored is what the host sent, whole unless its lines fill the buffer.
THEOREM TextStoredWhole == Spec => []StoredTextIsWhole
<1>1. IInv => StoredTextIsWhole
  BY DEF IInv, DialogInv, InStep, StoredTextIsWhole
<1>2. QED  BY InvariantHolds, <1>1, PTL

-----------------------------------------------------------------------------
(* The semaphore, and the assertion on it.                                 *)

\* A thread that holds the semaphore is in the module and will give it back:
\* it is never lost, although every caller gives up after 60 s.
HeldInside == semaphore \in Threads => at[semaphore] = "in"

\* The board halts only while the cloud thread is on its way to register the
\* bus functions, and only over a question for the signal strength: the response
\* thread finds no semaphore, or holds the new one when WIFI_On gives it, or
\* calls a bus function that is not there.
HaltsOnlyBeforeWifiOn ==
    halted => /\ ~fops /\ wifiStatus = "no_wifi" /\ cloudAt \in {"join", "joining"}
              /\ at["response"] \in {"wait", "in"} /\ call["response"] = "GetRSSI"

\* The steps at which it does so.
Halts(t) == NoSemaphore(t) \/ (GiveNew(t) /\ halted') \/ CommandFaults(t)

\* Steps of one thread's operation, for both.
LEMMA StationHolds ==
    ASSUME IInv, HeldInside, ~halted, NEW t \in Threads, Station(t)
    PROVE  HeldInside' /\ HaltsOnlyBeforeWifiOn'
<1>0. StationTypeOK /\ StationInv /\ StationStep(t) /\ UNCHANGED appVars
  BY DEF IInv, TypeOK, Station
<1>1. HaltsOnlyBeforeWifiOn'
  <2>1. CASE Halts(t)
    <3>1. UNCHANGED <<fops, semaphore, at, call, wifiStatus, cloudAt>>
      BY <1>0, <2>1 DEF Halts, NoSemaphore, GiveNew, CommandFaults, appVars
    <3>2. ~fops
      BY <1>0, <2>1 DEF Halts, NoSemaphore, GiveNew, CommandFaults, StationInv,
                        AfterWifiOn, GoTo
    <3>3. at["response"] \in {"wait", "in"}
      BY <1>0, <2>1, <3>2, ApplicationAssumption
         DEF Halts, NoSemaphore, GiveNew, CommandFaults, StationInv, BeforeWifiOn,
             CloudBeforeSemaphore, InitSteps
    <3>4. QED
      BY <1>0, <3>1, <3>2, <3>3
         DEF StationInv, BeforeWifiOn, HaltsOnlyBeforeWifiOn
  <2>2. CASE ~Halts(t)
    <3>1. GiveNew(t) => halted' = halted  BY <2>2, Zenon DEF Halts, GiveNew
    <3>2. halted' = halted
      BY <1>0, <2>2, <3>1 DEF Halts, StationStep, TestStatus, InitPools, CreateAgent,
             TestInitDone, ClearModule, CreateSemaphore, SetInitDone, RegisterBusIO,
             StartModule, SetStatus, Proceed, TakeSemaphore, GiveUp, GiveSemaphore,
             WriteStatus
    <3>3. QED  BY <3>2 DEF HaltsOnlyBeforeWifiOn
  <2>3. QED  BY <2>1, <2>2
<1>2. HeldInside'
  <2>1. CASE TakeSemaphore(t)
    BY <1>0, <2>1 DEF TakeSemaphore, GoTo, StationTypeOK, HeldInside
  <2>2. CASE ClearModule(t) \/ CreateSemaphore(t) \/ GiveSemaphore(t)
    <3>1. semaphore' \in {"absent", "free"}
      BY <2>2 DEF ClearModule, CreateSemaphore, GiveSemaphore
    <3>2. semaphore' \notin Threads  BY <3>1, ApplicationAssumption
    <3>3. QED  BY <3>2 DEF HeldInside
  <2>3. CASE CommandFaults(t)
    BY <2>3 DEF CommandFaults, HeldInside
  <2>4. CASE ~(\/ TakeSemaphore(t) \/ ClearModule(t) \/ CreateSemaphore(t)
               \/ GiveSemaphore(t) \/ CommandFaults(t))
    <3>1. semaphore' = semaphore /\ at[t] # "in"
      BY <1>0, <2>4 DEF StationStep, TestStatus, InitPools, CreateAgent, TestInitDone,
             GiveNew, SetInitDone, RegisterBusIO, StartModule, SetStatus, Proceed,
             GiveUp, NoSemaphore, WriteStatus
    <3>2. \A u \in Threads \ {t} : at'[u] = at[u]
      BY <1>0, <2>4 DEF StationStep, TestStatus, InitPools, CreateAgent, TestInitDone,
             GiveNew, SetInitDone, RegisterBusIO, StartModule, SetStatus, Proceed,
             GiveUp, NoSemaphore, WriteStatus, GoTo, Back, Calling, Returning,
             StationTypeOK
    <3>3. QED  BY <3>1, <3>2 DEF HeldInside
  <2>5. QED  BY <2>1, <2>2, <2>3, <2>4
<1>3. QED  BY <1>1, <1>2

\* The other steps of the threads start an operation, if anything.
LEMMA OthersHold ==
    ASSUME IInv, HeldInside, ~halted, ResponseThread \/ CloudStep
    PROVE  HeldInside' /\ HaltsOnlyBeforeWifiOn'
<1>0. StationTypeOK  BY DEF IInv, TypeOK
<1>1. \/ UNCHANGED stationVars
      \/ \E t \in Threads : \/ RSSI(t) \/ Ping(t) \/ MacAddress(t) \/ FirmwareVersion(t)
                            \/ Begin(t) \/ Disconnect(t)
  BY ApplicationAssumption
     DEF ResponseThread, Dequeue, AskStation, Prompt, CloudStep, Join, Joined,
         CreateClient, ConnectClient, Publish, DisconnectClient, Leave, Left
<1>2. CASE UNCHANGED stationVars
  BY <1>2 DEF stationVars, HeldInside, HaltsOnlyBeforeWifiOn
<1>3. ASSUME NEW t \in Threads,
             \/ RSSI(t) \/ Ping(t) \/ MacAddress(t) \/ FirmwareVersion(t)
             \/ Begin(t) \/ Disconnect(t)
      PROVE  HeldInside' /\ HaltsOnlyBeforeWifiOn'
  <2>1. /\ at[t] = "idle" /\ halted' = halted /\ semaphore' = semaphore
        /\ \A u \in Threads \ {t} : at'[u] = at[u]
    BY <1>0, <1>3 DEF RSSI, Ping, MacAddress, FirmwareVersion, Begin, Disconnect,
                      Start, StartWithInit, Calling, GoTo, Idle, StationTypeOK
  <2>2. QED  BY <2>1 DEF HeldInside, HaltsOnlyBeforeWifiOn
<1>4. QED  BY <1>1, <1>2, <1>3

LEMMA HoldingKept ==
    IInv /\ HeldInside /\ HaltsOnlyBeforeWifiOn /\ [Next]_vars
       => HeldInside' /\ HaltsOnlyBeforeWifiOn'
<1> SUFFICES ASSUME IInv, HeldInside, HaltsOnlyBeforeWifiOn, [Next]_vars
             PROVE  HeldInside' /\ HaltsOnlyBeforeWifiOn'
  OBVIOUS
<1>1. CASE UNCHANGED vars
  BY <1>1 DEF vars, stationVars, appVars, HeldInside, HaltsOnlyBeforeWifiOn
<1>2. CASE Next
  <2>0. ~halted  BY <1>2 DEF Next
  <2>1. CASE \E t \in Threads : Station(t)  BY <2>0, <2>1, StationHolds
  <2>2. CASE ResponseThread \/ CloudStep    BY <2>0, <2>2, OthersHold
  <2>3. CASE AgentUsesSocket
    <3>1. semaphore' \in {"free", "agent"} /\ halted' = halted
      BY <2>3 DEF AgentUsesSocket, AgentInModule
    <3>2. semaphore' \notin Threads  BY <3>1, ApplicationAssumption
    <3>3. QED  BY <2>0, <3>1, <3>2 DEF HeldInside, HaltsOnlyBeforeWifiOn
  <2>4. CASE CommandThread
    BY <2>0, <2>4 DEF CommandThread, stationVars, HeldInside, HaltsOnlyBeforeWifiOn
  <2>5. CASE Restart
    <3>1. semaphore' = "absent" /\ halted' = halted  BY <2>5 DEF Restart
    <3>2. semaphore' \notin Threads  BY <3>1, ApplicationAssumption
    <3>3. QED  BY <2>0, <3>1, <3>2 DEF HeldInside, HaltsOnlyBeforeWifiOn
  <2>6. QED  BY <1>2, <2>1, <2>2, <2>3, <2>4, <2>5 DEF Next
<1>3. QED  BY <1>1, <1>2

LEMMA HoldingFirst == Init => HeldInside /\ HaltsOnlyBeforeWifiOn
<1> SUFFICES ASSUME Init PROVE HeldInside /\ HaltsOnlyBeforeWifiOn  OBVIOUS
<1>1. semaphore = "absent" /\ halted = FALSE  BY DEF Init, StationInit
<1>2. semaphore \notin Threads  BY <1>1, ApplicationAssumption
<1>3. QED  BY <1>1, <1>2 DEF HeldInside, HaltsOnlyBeforeWifiOn

\* The semaphore of the module is never lost.
THEOREM SemaphoreNotLost == Spec => []HeldInside
BY InvariantHolds, HoldingFirst, HoldingKept, PTL DEF Spec

\* A question for the signal strength before the bus functions are registered is
\* all that can halt the board.
THEOREM HaltsOnlyAtStart == Spec => []HaltsOnlyBeforeWifiOn
BY InvariantHolds, HoldingFirst, HoldingKept, PTL DEF Spec

-----------------------------------------------------------------------------
(* An operation of the station takes a bounded number of steps.            *)

FirstSteps == [idle |-> 0, ready |-> 7, set |-> 8, module |-> 9, register |-> 10,
               done |-> 11, give |-> 12, create |-> 13, clear |-> 14, on |-> 15,
               agent |-> 16, pools |-> 17, init |-> 18]
LastSteps == [back |-> 1, in |-> 2, wait |-> 3]

\* Calls that are followed by another one.
Followed == {"ConnectAP", "Disconnect", "GetHostByName"}

\* The steps an operation has still to take at most, by its place and its call.
StepsLeft(t) ==
    IF at[t] \in DOMAIN LastSteps
      THEN LastSteps[at[t]] + IF call[t] \in Followed THEN 3 ELSE 0
      ELSE FirstSteps[at[t]]

\* A step of one thread's operation, which never goes back.
LEMMA StationAdvances ==
    ASSUME StationTypeOK, NEW t \in Threads, StationStep(t)
    PROVE  StepsLeft(t)' < StepsLeft(t) \/ halted'
<1> USE DEF StationTypeOK, Steps, InitSteps, StepsLeft, FirstSteps, LastSteps, Followed,
            GoTo, Calling, Returning
<1>1. CASE TestStatus(t)       BY <1>1 DEF TestStatus
<1>2. CASE InitPools(t)        BY <1>2 DEF InitPools
<1>3. CASE CreateAgent(t)      BY <1>3 DEF CreateAgent
<1>4. CASE TestInitDone(t)     BY <1>4 DEF TestInitDone
<1>5. CASE CreateSemaphore(t)  BY <1>5 DEF CreateSemaphore
<1>6. CASE StartModule(t)      BY <1>6 DEF StartModule
<1>7. CASE SetStatus(t)        BY <1>7 DEF SetStatus
<1>8. CASE Proceed(t)          BY <1>8 DEF Proceed
<1>9. CASE TakeSemaphore(t)    BY <1>9 DEF TakeSemaphore
<1>10. ASSUME NEW r, Back(t, r), at[t] \in {"wait", "in"}
       PROVE  StepsLeft(t)' < StepsLeft(t)
  BY <1>10 DEF Back
<1>11. CASE GiveUp(t)          BY <1>10, <1>11 DEF GiveUp
<1>12. CASE NoSemaphore(t)     BY <1>12 DEF NoSemaphore
<1>13. CASE GiveSemaphore(t)   BY <1>10, <1>13 DEF GiveSemaphore
<1>14. CASE WriteStatus(t)     BY <1>14 DEF WriteStatus
<1>15. CASE ClearModule(t)     BY <1>15 DEF ClearModule
<1>16. CASE GiveNew(t)         BY <1>16 DEF GiveNew
<1>17. CASE SetInitDone(t)     BY <1>17 DEF SetInitDone
<1>18. CASE RegisterBusIO(t)   BY <1>18 DEF RegisterBusIO
<1>19. CASE CommandFaults(t)   BY <1>19 DEF CommandFaults
<1>20. QED
  BY <1>1, <1>2, <1>3, <1>4, <1>5, <1>6, <1>7, <1>8, <1>9, <1>11, <1>12, <1>13, <1>14,
     <1>15, <1>16, <1>17, <1>18, <1>19 DEF StationStep

\* Every operation comes to its end: no step of it goes back, whatever the
\* module answers and whoever holds the semaphore, and nobody else's step adds
\* to what is left of it.  An operation takes at most eighteen steps.
THEOREM OperationsAdvance ==
    Spec => [][\A t \in Threads :
                 /\ Station(t) => StepsLeft(t)' < StepsLeft(t) \/ halted'
                 /\ at[t] # "idle" => StepsLeft(t)' <= StepsLeft(t)]_vars
<1> DEFINE Advance(t) ==
             /\ Station(t) => StepsLeft(t)' < StepsLeft(t) \/ halted'
             /\ at[t] # "idle" => StepsLeft(t)' <= StepsLeft(t)
<1>1. ASSUME TypeOK, Next, NEW t \in Threads PROVE Advance(t)
  <2>0. StationTypeOK  BY <1>1 DEF TypeOK
  <2>1. ASSUME Station(t)
        PROVE  StepsLeft(t)' < StepsLeft(t) \/ halted'
    BY <2>0, <2>1, StationAdvances DEF Station
  <2>2. StepsLeft(t) \in Nat
    BY <2>0 DEF StationTypeOK, Steps, InitSteps, StepsLeft, FirstSteps, LastSteps,
                Followed
  <2>3. ASSUME at'[t] = at[t], call'[t] = call[t]
        PROVE  StepsLeft(t)' <= StepsLeft(t)
    <3>1. StepsLeft(t)' = StepsLeft(t)
      BY <2>3 DEF StepsLeft, FirstSteps, LastSteps, Followed
    <3>2. QED  BY <2>2, <3>1
  <2>4. ASSUME at[t] # "idle" PROVE StepsLeft(t)' <= StepsLeft(t)
    <3>1. CASE Station(t)
      <4>1. CASE Halts(t)
        <5>1. at' = at /\ call' = call
          BY <1>1, <4>1 DEF Halts, NoSemaphore, GiveNew, CommandFaults, Next
        <5>2. QED  BY <2>3, <5>1
      <4>2. CASE ~Halts(t)
        <5>0. GiveNew(t) => halted' = halted  BY <4>2, Zenon DEF Halts, GiveNew
        <5>1. ~halted /\ halted' = halted
          BY <1>1, <3>1, <4>2, <5>0
             DEF Next, Halts, Station, StationStep, TestStatus, InitPools, CreateAgent,
                 TestInitDone, ClearModule, CreateSemaphore, SetInitDone, RegisterBusIO,
                 StartModule, SetStatus, Proceed, TakeSemaphore, GiveUp, GiveSemaphore,
                 WriteStatus
        <5>2. StepsLeft(t)' < StepsLeft(t)  BY <2>1, <3>1, <5>1
        <5>3. StepsLeft(t)' \in Nat
          <6>1. StationTypeOK'
            BY <2>0, <3>1, StationTypes DEF Station
          <6>2. QED
            BY <6>1 DEF StationTypeOK, Steps, InitSteps, StepsLeft, FirstSteps,
                        LastSteps, Followed
        <5>4. QED  BY <2>2, <5>2, <5>3
      <4>3. QED  BY <4>1, <4>2
    <3>2. ASSUME NEW u \in Threads \ {t}, Station(u)
          PROVE  StepsLeft(t)' <= StepsLeft(t)
      <4>1. at'[t] = at[t] /\ call'[t] = call[t]
        BY <2>0, <3>2
           DEF Station, StationStep, TestStatus, InitPools, CreateAgent, TestInitDone,
               ClearModule, CreateSemaphore, GiveNew, SetInitDone, RegisterBusIO,
               StartModule, SetStatus, Proceed, TakeSemaphore, GiveUp, NoSemaphore,
               GiveSemaphore, CommandFaults, WriteStatus, Back, GoTo, Calling, Returning,
               StationTypeOK
      <4>2. QED  BY <2>3, <4>1
    <3>3. CASE ResponseThread \/ CloudStep
      <4>1. \/ UNCHANGED stationVars
            \/ \E u \in Threads : \/ RSSI(u) \/ Ping(u) \/ MacAddress(u)
                                  \/ FirmwareVersion(u) \/ Begin(u) \/ Disconnect(u)
        BY <3>3, ApplicationAssumption
           DEF ResponseThread, Dequeue, AskStation, Prompt, CloudStep, Join, Joined,
               CreateClient, ConnectClient, Publish, DisconnectClient, Leave, Left
      <4>2. at'[t] = at[t] /\ call'[t] = call[t]
        BY <2>0, <2>4, <4>1
           DEF RSSI, Ping, MacAddress, FirmwareVersion, Begin, Disconnect, Start,
               StartWithInit, Calling, GoTo, Idle, StationTypeOK, stationVars
      <4>3. QED  BY <2>3, <4>2
    <3>4. CASE AgentUsesSocket \/ CommandThread
      <4>1. at' = at /\ call' = call
        BY <3>4 DEF AgentUsesSocket, AgentInModule, CommandThread, stationVars
      <4>2. QED  BY <2>3, <4>1
    <3>5. CASE Restart
      <4>1. at'[t] = "idle"  BY <3>5 DEF Restart
      <4>2. StepsLeft(t)' = 0  BY <4>1 DEF StepsLeft, FirstSteps, LastSteps
      <4>3. QED  BY <2>2, <4>2
    <3>6. QED  BY <1>1, <3>1, <3>2, <3>3, <3>4, <3>5 DEF Next
  <2>5. QED  BY <2>1, <2>4
<1>2. TypeOK /\ [Next]_vars => [\A t \in Threads : Advance(t)]_vars  BY <1>1
<1>3. QED  BY TypeCorrect, <1>2, PTL DEF Spec
=============================================================================

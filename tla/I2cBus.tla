------------------------------- MODULE I2cBus -------------------------------
(***************************************************************************)
(* The arbiter of the I2C bus (HAL-Extension/Src/busArbitrator-I2C.c): the *)
(* tasks that read and write devices, the DMA transfers of the HAL and its *)
(* completion callbacks.                                                   *)
(*                                                                         *)
(* The model starts after BA_I2C_init.  A critical section masks the I2C   *)
(* interrupts (priority 14) and the scheduler: it is one action.  Ticks    *)
(* are not counted: a blocked call may time out whenever it is blocked.    *)
(***************************************************************************)
EXTENDS Naturals

CONSTANTS Tasks, None

ASSUME BusAssumption == None \notin Tasks

VARIABLES
    pc,               \* where each task is in BA_I2C_read or BA_I2C_write
    op,               \* which of the two it is in
    semaphoreHandle,  \* the mutex exists
    holder,           \* and is held by this task
    txTaskToNotify,
    rxTaskToNotify,
    notified,         \* tasks whose notification value is not zero
    State,            \* of the HAL: "ready" or the transfer in progress
    owner,            \* history: whose buffer the last transfer uses
    finished,         \* history: each task's latest transfer has completed
    requested,        \* history: the latest call saw its request completed
    halted            \* a configASSERT failed

callVars == <<pc, op, holder, semaphoreHandle>>
halVars  == <<txTaskToNotify, rxTaskToNotify, State, owner, finished, requested>>
vars     == <<callVars, halVars, notified, halted>>

Init ==
    /\ pc = [t \in Tasks |-> "idle"]
    /\ op = [t \in Tasks |-> "write"]
    /\ semaphoreHandle \in BOOLEAN
    /\ holder = None
    /\ txTaskToNotify = None
    /\ rxTaskToNotify = None
    /\ notified = {}
    /\ State = "ready"
    /\ owner = None
    /\ finished = [t \in Tasks |-> FALSE]
    /\ requested = [t \in Tasks |-> FALSE]
    /\ halted = FALSE

At(t, from) == ~halted /\ pc[t] = from
GoTo(t, to) == pc' = [pc EXCEPT ![t] = to]

-----------------------------------------------------------------------------
(* BA_I2C_read and BA_I2C_write                                            *)

\* Without a mutex the call returns at once.
Call(t, o) ==
    /\ At(t, "idle")
    /\ semaphoreHandle
    /\ GoTo(t, "take")
    /\ op' = [op EXCEPT ![t] = o]
    /\ requested' = [requested EXCEPT ![t] = FALSE]
    /\ UNCHANGED <<semaphoreHandle, holder, txTaskToNotify, rxTaskToNotify, State,
                   owner, finished, notified, halted>>

\* Mutant: the result of the take is not looked at.
AcquireAlways(t) ==
    /\ At(t, "take")
    /\ holder' = t
    /\ GoTo(t, "armTx")
    /\ UNCHANGED <<op, semaphoreHandle, halVars, notified, halted>>

Acquire(t) ==
    /\ At(t, "take")
    /\ holder = None
    /\ holder' = t
    /\ GoTo(t, "armTx")
    /\ UNCHANGED <<op, semaphoreHandle, halVars, notified, halted>>

\* maxAccessTime passed: the call returns without a trace.
TakeTimeout(t) ==
    /\ At(t, "take")
    /\ holder # None
    /\ GoTo(t, "idle")
    /\ UNCHANGED <<op, semaphoreHandle, holder, halVars, notified, halted>>

\* HAL_I2C_Master_..._DMA: refused while another transfer is in progress, while
\* the bus is busy, or when the DMA does not start.
Start(t, dir, wait, next) ==
    \/ /\ State = "ready"
       /\ State' = dir
       /\ owner' = t
       /\ finished' = [finished EXCEPT ![t] = FALSE]
       /\ GoTo(t, wait)
    \/ /\ GoTo(t, next)
       /\ UNCHANGED <<State, owner, finished>>

AfterTx(t) == IF op[t] = "read" THEN "armRx" ELSE "give"

ArmTx(t) ==
    /\ At(t, "armTx")
    /\ txTaskToNotify' = t
    /\ notified' = notified \ {t}
    /\ Start(t, "tx", "waitTx", AfterTx(t))
    /\ UNCHANGED <<op, semaphoreHandle, holder, rxTaskToNotify, requested, halted>>

TxNotified(t) ==
    /\ At(t, "waitTx")
    /\ t \in notified
    /\ notified' = notified \ {t}
    /\ GoTo(t, AfterTx(t))
    /\ UNCHANGED <<op, semaphoreHandle, holder, halVars, halted>>

\* Mutants: the wait never times out; a timeout withdraws the handle.
WaitForever(t) ==
    /\ At(t, "waitTx")
    /\ t \in notified
    /\ GoTo(t, AfterTx(t))
    /\ UNCHANGED <<op, semaphoreHandle, holder, halVars, notified, halted>>

TimeoutWithdraws(t) ==
    /\ At(t, "waitTx")
    /\ t \notin notified
    /\ txTaskToNotify' = None
    /\ GoTo(t, AfterTx(t))
    /\ UNCHANGED <<op, semaphoreHandle, holder, rxTaskToNotify, State, owner,
                   finished, requested, notified, halted>>

\* maxBlockTime passed: the transfer goes on, and so does the call.
TxTimeout(t) ==
    /\ At(t, "waitTx")
    /\ t \notin notified
    /\ GoTo(t, AfterTx(t))
    /\ UNCHANGED <<op, semaphoreHandle, holder, halVars, notified, halted>>

\* Mutant: notifications of the transmission are kept.
ArmRxKeepsNotification(t) ==
    /\ At(t, "armRx")
    /\ rxTaskToNotify' = t
    /\ Start(t, "rx", "waitRx", "give")
    /\ UNCHANGED <<op, semaphoreHandle, holder, txTaskToNotify, requested, notified,
                   halted>>

\* The receive phase starts whatever became of the request.
ArmRx(t) ==
    /\ At(t, "armRx")
    /\ rxTaskToNotify' = t
    /\ notified' = notified \ {t}
    /\ Start(t, "rx", "waitRx", "give")
    /\ UNCHANGED <<op, semaphoreHandle, holder, txTaskToNotify, requested, halted>>

RxNotified(t) ==
    /\ At(t, "waitRx")
    /\ t \in notified
    /\ notified' = notified \ {t}
    /\ GoTo(t, "give")
    /\ UNCHANGED <<op, semaphoreHandle, holder, halVars, halted>>

RxTimeout(t) ==
    /\ At(t, "waitRx")
    /\ t \notin notified
    /\ GoTo(t, "give")
    /\ UNCHANGED <<op, semaphoreHandle, holder, halVars, notified, halted>>

Give(t) ==
    /\ At(t, "give")
    /\ holder' = None
    /\ GoTo(t, "idle")
    /\ UNCHANGED <<op, semaphoreHandle, halVars, notified, halted>>

Step(t) ==
    \/ Acquire(t)
    \/ TakeTimeout(t)
    \/ ArmTx(t)
    \/ TxNotified(t)
    \/ TxTimeout(t)
    \/ ArmRx(t)
    \/ RxNotified(t)
    \/ RxTimeout(t)
    \/ Give(t)

\* The MQTT agent leaves its reply in the notification value of the task.
OtherNotification(t) ==
    /\ At(t, "idle")
    /\ notified' = notified \cup {t}
    /\ UNCHANGED <<callVars, halVars, halted>>

-----------------------------------------------------------------------------
(* Interrupts                                                              *)

\* The end of a transfer.
Finish ==
    /\ State' = "ready"
    /\ finished' = [finished EXCEPT ![owner] = TRUE]
    /\ UNCHANGED owner

TxCpltCallback ==
    /\ ~halted
    /\ State = "tx"
    /\ Finish
    /\ halted' = (txTaskToNotify = None)
    /\ notified' = (notified \cup {txTaskToNotify}) \ {None}
    /\ txTaskToNotify' = None
    /\ requested' = [requested EXCEPT ![owner] = (pc[owner] = "waitTx")]
    /\ UNCHANGED <<callVars, rxTaskToNotify>>

\* Mutant: the handle of the other direction is used.
RxNotifiesTxTask ==
    /\ ~halted
    /\ State = "rx"
    /\ Finish
    /\ notified' = notified \cup {txTaskToNotify}
    /\ txTaskToNotify' = None
    /\ UNCHANGED <<callVars, rxTaskToNotify, requested, halted>>

RxCpltCallback ==
    /\ ~halted
    /\ State = "rx"
    /\ Finish
    /\ halted' = (rxTaskToNotify = None)
    /\ notified' = (notified \cup {rxTaskToNotify}) \ {None}
    /\ rxTaskToNotify' = None
    /\ UNCHANGED <<callVars, txTaskToNotify, requested>>

\* NACK, arbitration loss, bus or DMA error: the HAL is ready again and its
\* error callback, which the firmware does not define, does nothing.
TransferError ==
    /\ ~halted
    /\ State # "ready"
    /\ State' = "ready"
    /\ UNCHANGED <<callVars, txTaskToNotify, rxTaskToNotify, owner, finished,
                   requested, notified, halted>>

-----------------------------------------------------------------------------
Interrupt == TxCpltCallback \/ RxCpltCallback \/ TransferError

Next ==
    \/ \E t \in Tasks :
          \/ Call(t, "read")
          \/ Call(t, "write")
          \/ Step(t)
          \/ OtherNotification(t)
    \/ Interrupt

Spec     == Init /\ [][Next]_vars
FairSpec == Spec /\ \A t \in Tasks : WF_vars(Step(t))

-----------------------------------------------------------------------------
(* Properties                                                              *)

\* The type of every variable.
TypeOK ==
    /\ pc \in [Tasks -> {"idle", "take", "armTx", "waitTx", "armRx", "waitRx", "give"}]
    /\ op \in [Tasks -> {"read", "write"}]
    /\ semaphoreHandle \in BOOLEAN
    /\ holder \in Tasks \cup {None}
    /\ txTaskToNotify \in Tasks \cup {None}
    /\ rxTaskToNotify \in Tasks \cup {None}
    /\ notified \subseteq Tasks
    /\ State \in {"ready", "tx", "rx"}
    /\ owner \in Tasks \cup {None}
    /\ finished \in [Tasks -> BOOLEAN]
    /\ requested \in [Tasks -> BOOLEAN]
    /\ halted \in BOOLEAN

\* The assertions of the callbacks (lines 214 and 249) hold: every completion,
\* however late, finds a task to notify.
NoAssertFails == ~halted

\* A wait ends by a notification only when this very transfer has completed: a
\* late completion of another task's, or of the request, cannot end it.
NotifiedMeansDone ==
    \A t \in Tasks :
        pc[t] \in {"waitTx", "waitRx"} /\ t \in notified => finished[t]

\* A task that waits for a transfer that is over has been notified of it.
DoneMeansNotified ==
    \A t \in Tasks :
        pc[t] \in {"waitTx", "waitRx"} /\ finished[t] => t \in notified

\* Every call returns, whatever the devices do.
CallReturns == \A t \in Tasks : (pc[t] # "idle") ~> (pc[t] = "idle")

\* "outbound - message to be sent to device before reading device content"
\* (line 99): what a read receives was asked for by its own request.
ReadsWhatItAsked ==
    \A t \in Tasks : pc[t] = "waitRx" => requested[t]

-----------------------------------------------------------------------------
(* The inductive invariant behind the safety properties                    *)

Section == {"armTx", "waitTx", "armRx", "waitRx", "give"}

\* Whoever is past the take holds the mutex.
MutexInv == \A t \in Tasks : pc[t] \in Section => holder = t

\* A transfer in progress has an owner and a task to notify: in its own wait
\* these are the same task.
TransferInv ==
    /\ State # "ready" => owner # None
    /\ State = "tx" => txTaskToNotify # None
    /\ State = "rx" => rxTaskToNotify # None
    /\ \A t \in Tasks :
         /\ pc[t] = "waitTx" /\ State # "ready" =>
               State = "tx" /\ owner = t /\ txTaskToNotify = t /\ ~finished[t]
         /\ pc[t] = "waitRx" /\ State # "ready" =>
               State = "rx" /\ owner = t /\ rxTaskToNotify = t /\ ~finished[t]

IInv ==
    /\ TypeOK
    /\ NoAssertFails
    /\ MutexInv
    /\ TransferInv
    /\ NotifiedMeansDone
    /\ DoneMeansNotified
=============================================================================

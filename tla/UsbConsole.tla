----------------------------- MODULE UsbConsole -----------------------------
(***************************************************************************)
(* The USB console device (HAL-Extension/Src/dvUsb1.c) between the tasks   *)
(* that write to stdout, the one task that reads stdin, and the interrupt  *)
(* side of the CDC driver (usbd_cdc_if.c, usbd_cdc.c, OTG_FS_IRQHandler).  *)
(*                                                                         *)
(* A writer t hands its own stdio buffer to the driver (zero copy), so the *)
(* buffer in flight is named by its owner, and a mutex by the task that    *)
(* created it.  A critical section masks the USB interrupt (priority 14)   *)
(* and the scheduler: it is one action.  Ticks are not counted: a blocked  *)
(* call with a timeout may time out in any state in which it is blocked.   *)
(***************************************************************************)
EXTENDS Naturals

CONSTANTS Writers,  \* tasks that write to the console (response, logging)
          Reader,   \* the task that reads it (command interface)
          Prio,     \* FreeRTOS priority of each writer
          None

ASSUME UsbAssumption ==
    /\ Reader \notin Writers
    /\ None \notin Writers
    /\ Prio \in [Writers -> Nat]

VARIABLES
    pc,            \* where each writer is in usb1_write_r
    lockRef,       \* the mutex it read from txSemaphore at the take
    initWrite,     \* the lazy initialisation flag
    txSemaphore,   \* the mutex all writers are meant to share, None = NULL
    created,       \* writers that have executed the creation of the mutex
    holder,        \* holder of each mutex
    xHandlingTask, \* task the transmit interrupt is to notify
    handleSet,     \* and whether it is to notify anyone
    notified,      \* tasks whose notification value is not zero
    configured,    \* the host has configured the device (pClassData # NULL)
    inFlight,      \* owner of the buffer the driver is sending (TxState = 1)
    xfer,          \* history: the fate of each writer's latest transfer
    halted,        \* a configASSERT failed: interrupts off, endless loop
    rxPc,          \* the reader: "busy" with a line or in the "wait" of a read
    armed,         \* the OUT endpoint may receive into the read buffer
    rxHandleSet,   \* the receive interrupt has a task to notify
    stray,         \* history: armed by an enumeration on top of an unread line
    lost           \* history: a received message was never returned by a read

txVars  == <<pc, lockRef, initWrite, txSemaphore, created, holder, xfer>>
isrVars == <<xHandlingTask, handleSet, inFlight>>
rxVars  == <<rxPc, armed, rxHandleSet, stray, lost>>
vars    == <<txVars, isrVars, rxVars, notified, configured, halted>>

Tasks   == Writers \cup {Reader}
Section == {"arm", "sent", "ok", "fail"}
PC      == {"idle", "set", "create", "lock", "block"} \cup Section
Fates   == {"none", "flying", "done", "dropped"}

Init ==
    /\ pc = [t \in Writers |-> "idle"]
    /\ lockRef = [t \in Writers |-> None]
    /\ initWrite = 0
    /\ txSemaphore = None
    /\ created = {}
    /\ holder = [m \in Writers |-> None]
    /\ xHandlingTask = None
    /\ handleSet = FALSE
    /\ notified = {}
    /\ configured = FALSE
    /\ inFlight = None
    /\ xfer = [t \in Writers |-> "none"]
    /\ halted = FALSE
    /\ rxPc = "busy"
    /\ armed = FALSE
    /\ rxHandleSet = FALSE
    /\ stray = FALSE
    /\ lost = FALSE

-----------------------------------------------------------------------------
(* Scheduling: preemptive, a task runs only while no task of a higher      *)
(* priority is ready.                                                      *)

Ready(t) ==
    /\ pc[t] # "idle"
    /\ pc[t] = "block" => holder[lockRef[t]] = None
    /\ pc[t] = "sent"  => t \in notified

Runs(t) ==
    /\ ~halted
    /\ \A u \in Writers : Prio[u] > Prio[t] => ~Ready(u)

At(t, from) == Runs(t) /\ pc[t] = from
GoTo(t, to) == pc' = [pc EXCEPT ![t] = to]

-----------------------------------------------------------------------------
(* usb1_write_r                                                            *)

\* Enter with a non-empty buffer and test the initialisation flag.
CallWrite(t) ==
    /\ At(t, "idle")
    /\ GoTo(t, IF initWrite = 0 THEN "set" ELSE "lock")
    /\ UNCHANGED <<lockRef, initWrite, txSemaphore, created, holder, xfer,
                   isrVars, rxVars, notified, configured, halted>>

SetInit(t) ==
    /\ At(t, "set")
    /\ GoTo(t, "create")
    /\ initWrite' = 1
    /\ UNCHANGED <<lockRef, txSemaphore, created, holder, xfer,
                   isrVars, rxVars, notified, configured, halted>>

\* The heap may be exhausted: the kernel then returns NULL.
CreateMutex(t) ==
    /\ At(t, "create")
    /\ GoTo(t, "lock")
    /\ txSemaphore' \in {t, None}
    /\ created' = created \cup {t}
    /\ UNCHANGED <<lockRef, initWrite, holder, xfer,
                   isrVars, rxVars, notified, configured, halted>>

\* ENOLCK when there is no mutex (yet), else call the kernel with its handle.
BeginTake(t) ==
    /\ At(t, "lock")
    /\ IF txSemaphore = None
         THEN GoTo(t, "idle") /\ UNCHANGED lockRef
         ELSE GoTo(t, "block") /\ lockRef' = [lockRef EXCEPT ![t] = txSemaphore]
    /\ UNCHANGED <<initWrite, txSemaphore, created, holder, xfer,
                   isrVars, rxVars, notified, configured, halted>>

Acquire(t) ==
    /\ At(t, "block")
    /\ holder[lockRef[t]] = None
    /\ holder' = [holder EXCEPT ![lockRef[t]] = t]
    /\ GoTo(t, "arm")
    /\ lockRef' = [lockRef EXCEPT ![t] = None]
    /\ UNCHANGED <<initWrite, txSemaphore, created, xfer,
                   isrVars, rxVars, notified, configured, halted>>

\* Mutants: the result of the take is ignored; the mutex is given all the same.
TakeResultIgnored(t) ==
    /\ At(t, "block")
    /\ holder[lockRef[t]] # None
    /\ GoTo(t, "arm")
    /\ lockRef' = [lockRef EXCEPT ![t] = None]
    /\ UNCHANGED <<initWrite, txSemaphore, created, holder, xfer,
                   isrVars, rxVars, notified, configured, halted>>

GivenAfterTimeout(t) ==
    /\ At(t, "block")
    /\ holder[lockRef[t]] # None
    /\ GoTo(t, "fail")
    /\ lockRef' = [lockRef EXCEPT ![t] = None]
    /\ UNCHANGED <<initWrite, txSemaphore, created, holder, xfer,
                   isrVars, rxVars, notified, configured, halted>>

\* xMaxBlockTime + 1 ticks passed with the mutex taken: ENOLCK.
TakeTimeout(t) ==
    /\ At(t, "block")
    /\ holder[lockRef[t]] # None
    /\ GoTo(t, "idle")
    /\ lockRef' = [lockRef EXCEPT ![t] = None]
    /\ UNCHANGED <<initWrite, txSemaphore, created, holder, xfer,
                   isrVars, rxVars, notified, configured, halted>>

\* CDC_Transmit_FS: the driver takes the buffer unless it is busy with another
\* or, without class data, fails.
Transmit(t) ==
    IF configured /\ inFlight = None
      THEN /\ inFlight' = t
           /\ xfer' = [xfer EXCEPT ![t] = "flying"]
           /\ GoTo(t, "sent")
      ELSE /\ GoTo(t, "fail")
           /\ UNCHANGED <<inFlight, xfer>>

\* Mutants: old notifications are kept; the flag for the interrupt is not set.
ArmKeepsNotification(t) ==
    /\ At(t, "arm")
    /\ xHandlingTask' = t
    /\ handleSet' = TRUE
    /\ Transmit(t)
    /\ lockRef' = [lockRef EXCEPT ![t] = None]
    /\ UNCHANGED <<initWrite, txSemaphore, created, holder,
                   rxVars, notified, configured, halted>>

ArmWithoutHandle(t) ==
    /\ At(t, "arm")
    /\ xHandlingTask' = t
    /\ notified' = notified \ {t}
    /\ Transmit(t)
    /\ lockRef' = [lockRef EXCEPT ![t] = None]
    /\ UNCHANGED <<initWrite, txSemaphore, created, holder,
                   rxVars, handleSet, configured, halted>>

\* The critical section: become the task to notify, forget old notifications,
\* start the transfer unless the driver is busy or not configured.
Arm(t) ==
    /\ At(t, "arm")
    /\ xHandlingTask' = t
    /\ handleSet' = TRUE
    /\ notified' = notified \ {t}
    /\ Transmit(t)
    /\ UNCHANGED <<lockRef, initWrite, txSemaphore, created, holder,
                   rxVars, configured, halted>>

Wake(t) ==
    /\ At(t, "sent")
    /\ t \in notified
    /\ notified' = notified \ {t}
    /\ GoTo(t, "ok")
    /\ UNCHANGED <<lockRef, initWrite, txSemaphore, created, holder, xfer,
                   isrVars, rxVars, configured, halted>>

\* Mutant: the wait for the completion has no timeout.
WaitForever(t) ==
    /\ At(t, "sent")
    /\ t \in notified
    /\ GoTo(t, "ok")
    /\ UNCHANGED <<lockRef, initWrite, txSemaphore, created, holder, xfer,
                   isrVars, rxVars, notified, configured, halted>>

\* xMaxBlockTime ticks passed without a notification.
WaitTimeout(t) ==
    /\ At(t, "sent")
    /\ t \notin notified
    /\ GoTo(t, "fail")
    /\ UNCHANGED <<lockRef, initWrite, txSemaphore, created, holder, xfer,
                   isrVars, rxVars, notified, configured, halted>>

\* The mutex is read again from txSemaphore.  The kernel refuses a mutex that
\* is free, and asserts that it exists and that its holder is the caller.
Give(t) ==
    /\ At(t, "ok") \/ At(t, "fail")
    /\ IF txSemaphore = None
         THEN halted' = TRUE /\ UNCHANGED holder
         ELSE /\ halted' = (holder[txSemaphore] \notin {t, None})
              /\ holder' = IF holder[txSemaphore] = t
                             THEN [holder EXCEPT ![txSemaphore] = None]
                             ELSE holder
    /\ GoTo(t, "idle")
    /\ UNCHANGED <<lockRef, initWrite, txSemaphore, created, xfer,
                   isrVars, rxVars, notified, configured>>

WriteStep(t) ==
    \/ SetInit(t)
    \/ CreateMutex(t)
    \/ BeginTake(t)
    \/ Acquire(t)
    \/ TakeTimeout(t)
    \/ Arm(t)
    \/ Wake(t)
    \/ WaitTimeout(t)
    \/ Give(t)

-----------------------------------------------------------------------------
(* usb1_read_r.  The buffer is the same for every read (app_SetBuffer) and *)
(* the one CDC_Init_FS hands to the driver.                                *)

\* Mutant: the receive interrupt is not told whom to notify.
ReadWithoutHandle ==
    /\ ~halted
    /\ rxPc = "busy"
    /\ rxPc' = "wait"
    /\ armed' = configured
    /\ lost' = (lost \/ Reader \in notified)
    /\ notified' = notified \ {Reader}
    /\ UNCHANGED <<txVars, isrVars, rxHandleSet, stray, configured, halted>>

\* The critical section.  Without class data ReceivePacket only fails.
BeginRead ==
    /\ ~halted
    /\ rxPc = "busy"
    /\ rxPc' = "wait"
    /\ rxHandleSet' = TRUE
    /\ armed' = configured
    /\ lost' = (lost \/ Reader \in notified)
    /\ notified' = notified \ {Reader}
    /\ UNCHANGED <<txVars, isrVars, stray, configured, halted>>

\* Mutant: the wait leaves the notification value as it is.
EndReadKeepsNotification ==
    /\ ~halted
    /\ rxPc = "wait"
    /\ Reader \in notified
    /\ rxPc' = "busy"
    /\ UNCHANGED <<txVars, isrVars, armed, rxHandleSet, stray, lost, notified,
                   configured, halted>>

EndRead ==
    /\ ~halted
    /\ rxPc = "wait"
    /\ Reader \in notified
    /\ rxPc' = "busy"
    /\ notified' = notified \ {Reader}
    /\ UNCHANGED <<txVars, isrVars, armed, rxHandleSet, stray, lost,
                   configured, halted>>

-----------------------------------------------------------------------------
(* Interrupts                                                              *)

\* SYS_CDC_TxCompleteIsr: notify the handling task, once.
TxCompleteIsr ==
    /\ handleSet' = FALSE
    /\ notified' = IF handleSet THEN notified \cup {xHandlingTask} ELSE notified

\* Mutant: every USB interrupt is taken for a completed transmission.
AnyInterruptCompletes ==
    /\ ~halted
    /\ configured
    /\ inFlight' = None
    /\ xfer' = [t \in Writers |-> IF t = inFlight THEN "done" ELSE xfer[t]]
    /\ handleSet' = FALSE
    /\ notified' = notified \cup {xHandlingTask}
    /\ UNCHANGED <<pc, lockRef, initWrite, txSemaphore, created, holder,
                   xHandlingTask, rxVars, configured, halted>>

\* OTG_FS_IRQHandler saw TxState go from 1 to 0.
TxComplete ==
    /\ ~halted
    /\ configured
    /\ inFlight # None
    /\ inFlight' = None
    /\ xfer' = [xfer EXCEPT ![inFlight] = "done"]
    /\ TxCompleteIsr
    /\ UNCHANGED <<pc, lockRef, initWrite, txSemaphore, created, holder,
                   xHandlingTask, rxVars, configured, halted>>

\* A message fills the read buffer: CDC_Receive_FS, SYS_CDC_RxMessageIsr.
\* A message that finds the previous one unread, or nobody to notify, is lost.
RxMessage ==
    /\ ~halted
    /\ configured
    /\ armed
    /\ armed' = FALSE
    /\ notified' = IF rxHandleSet THEN notified \cup {Reader} ELSE notified
    /\ lost' = (lost \/ ~rxHandleSet \/ Reader \in notified)
    /\ UNCHANGED <<txVars, isrVars, rxPc, rxHandleSet, stray, configured, halted>>

\* Bus reset or disconnection: both endpoints are closed, nothing completes.
UsbReset ==
    /\ ~halted
    /\ configured
    /\ configured' = FALSE
    /\ inFlight' = None
    /\ xfer' = IF inFlight = None THEN xfer
               ELSE [xfer EXCEPT ![inFlight] = "dropped"]
    /\ armed' = FALSE
    /\ UNCHANGED <<pc, lockRef, initWrite, txSemaphore, created, holder,
                   xHandlingTask, handleSet, rxPc, rxHandleSet, stray, lost,
                   notified, halted>>

\* The host (re)enumerates the device: USBD_CDC_Init arms the OUT endpoint.
Configure ==
    /\ ~halted
    /\ ~configured
    /\ configured' = TRUE
    /\ armed' = TRUE
    /\ stray' = (stray \/ rxPc = "busy" \/ Reader \in notified)
    /\ UNCHANGED <<txVars, isrVars, rxPc, rxHandleSet, lost, notified, halted>>

-----------------------------------------------------------------------------
Interrupt == TxComplete \/ RxMessage \/ UsbReset \/ Configure

Next ==
    \/ \E t \in Writers : CallWrite(t) \/ WriteStep(t)
    \/ BeginRead
    \/ EndRead
    \/ Interrupt

\* A writer blocked by higher priority ones runs while those wait for the host
\* or for a tick, so its steps are strongly fair; nothing is asked of the host.
Fairness == \A t \in Writers : SF_vars(WriteStep(t))

Spec     == Init /\ [][Next]_vars
FairSpec == Spec /\ Fairness

-----------------------------------------------------------------------------
(* Properties                                                              *)

\* The type of every variable (dvUsb1.c, lines 33-60).
TypeOK ==
    /\ pc \in [Writers -> PC]
    /\ lockRef \in [Writers -> Writers \cup {None}]
    /\ initWrite \in {0, 1}
    /\ txSemaphore \in Writers \cup {None}
    /\ created \subseteq Writers
    /\ holder \in [Writers -> Writers \cup {None}]
    /\ xHandlingTask \in Writers \cup {None}
    /\ handleSet \in BOOLEAN
    /\ notified \subseteq Tasks
    /\ configured \in BOOLEAN
    /\ inFlight \in Writers \cup {None}
    /\ xfer \in [Writers -> Fates]
    /\ halted \in BOOLEAN
    /\ rxPc \in {"busy", "wait"}
    /\ armed \in BOOLEAN
    /\ rxHandleSet \in BOOLEAN
    /\ stray \in BOOLEAN
    /\ lost \in BOOLEAN

\* Two writers found initWrite = 0 and each created a mutex (lines 121-123).
RacedInit == \E s, t \in created : s # t

\* At most one writer is between the take and the give of the mutex, unless
\* the lazy initialisation ran twice.
Exclusive ==
    ~RacedInit =>
        \A s, t \in Writers : pc[s] \in Section /\ pc[t] \in Section => s = t

\* The kernel's assertions on the give can only fail after that same race:
\* a writer never gives a mutex it does not hold.
HangsOnlyIfRaced == halted => RacedInit

\* configASSERT( pxTCB == pxCurrentTCB ) of xTaskPriorityDisinherit: a mutex is
\* given by the task that holds it.
GivenByHolder == ~(halted /\ txSemaphore # None)

\* A write reports success only if the host took the whole of this very
\* buffer; no stale or foreign completion can pass for it.
SuccessMeansSent == \A t \in Writers : pc[t] = "ok" => xfer[t] = "done"

\* A waiting writer is the one the interrupt will notify while its transfer is
\* in flight, and has been notified once it is done: no completion is missed.
CompletionWakes ==
    ~RacedInit =>
        \A t \in Writers : pc[t] = "sent" =>
            /\ xfer[t] = "flying" =>
                  inFlight = t /\ xHandlingTask = t /\ handleSet
            /\ xfer[t] = "done" => t \in notified

\* "To achieve zero-copy, means we have to block until transfer completes
\* before releasing buffer back to application" (lines 109-110).
BufferHeldInFlight == inFlight # None => pc[inFlight] = "sent"

\* A reader blocked in a read either still offers its buffer to the host or has
\* been notified: a message in the buffer cannot leave it blocked.
RxWakes ==
    rxPc = "wait" /\ configured => armed \/ Reader \in notified

\* Every received message is returned by a read, unless an enumeration of the
\* device has armed the endpoint on top of a line the reader still works on.
LostOnlyByEnumeration == lost => stray

\* Every write returns, whatever the host and the other writers do.
WriteReturns ==
    \A t \in Writers : (pc[t] # "idle") ~> (pc[t] = "idle" \/ halted)
-----------------------------------------------------------------------------
(* The inductive invariant behind the safety properties                    *)

\* A writer creates the mutex at most once, and only with initWrite set.
InitInv ==
    /\ created # {} => initWrite = 1
    /\ \A t \in Writers : pc[t] = "create" => initWrite = 1
    /\ \A t \in created : pc[t] \notin {"set", "create"}

\* Handles lead to created mutexes; with one creation, whoever is in the
\* section holds that mutex.
MutexInv ==
    /\ txSemaphore # None => txSemaphore \in created
    /\ \A t \in Writers : pc[t] = "block" => lockRef[t] \in created
    /\ ~RacedInit =>
         /\ ~halted
         /\ \A t \in Writers :
              /\ pc[t] = "block" => lockRef[t] = txSemaphore
              /\ pc[t] \in Section =>
                    txSemaphore # None /\ holder[txSemaphore] = t

\* The transfer in flight and the task to notify of it.
TransferInv ==
    /\ handleSet => xHandlingTask # None
    /\ inFlight # None => configured
    /\ \A t \in Writers :
         /\ inFlight = t <=> xfer[t] = "flying"
         /\ pc[t] = "sent" /\ xHandlingTask = t => inFlight \in {t, None}
         /\ pc[t] = "sent" /\ t \in notified => xfer[t] = "done"

\* Until an enumeration arms it, the endpoint is armed for a waiting reader.
RxInv ==
    /\ rxPc = "wait" => rxHandleSet
    /\ ~stray =>
         /\ ~lost
         /\ armed => rxPc = "wait" /\ Reader \notin notified
         /\ Reader \in notified => rxPc = "wait"

IInv ==
    /\ TypeOK
    /\ InitInv
    /\ MutexInv
    /\ TransferInv
    /\ RxInv
    /\ SuccessMeansSent
    /\ CompletionWakes
    /\ RxWakes
=============================================================================

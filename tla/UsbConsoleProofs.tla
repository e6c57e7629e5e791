-------------------------- MODULE UsbConsoleProofs --------------------------
(***************************************************************************)
(* Proofs about UsbConsole, for any set of writers and any priorities: the *)
(* invariant IInv is inductive, and the safety properties follow from it.  *)
(* Each lemma shows that the actions of one part preserve IInv.            *)
(***************************************************************************)
EXTENDS UsbConsole, TLAPS

\* Facts and definitions every step needs.
USE UsbAssumption
    DEF Tasks, PC, Section, Fates, txVars, isrVars, rxVars, GoTo, At, Runs,
        Transmit, TxCompleteIsr

\* Nothing has happened: every part of the invariant holds.
LEMMA InitIInv == Init => IInv
<1> SUFFICES ASSUME Init PROVE IInv
  OBVIOUS
<1> USE DEF Init
<1>1. TypeOK
  BY Zenon DEF TypeOK
<1>2. InitInv /\ MutexInv
  BY DEF InitInv, MutexInv, RacedInit
<1>3. TransferInv /\ RxInv
  BY DEF TransferInv, RxInv
<1>4. SuccessMeansSent /\ CompletionWakes /\ RxWakes
  BY DEF SuccessMeansSent, CompletionWakes, RxWakes
<1> QED BY <1>1, <1>2, <1>3, <1>4 DEF IInv

\* The lazy initialisation: where InitInv and MutexInv are at stake.
LEMMA InitialiseIInv ==
    ASSUME IInv, NEW t \in Writers,
           CallWrite(t) \/ SetInit(t) \/ CreateMutex(t)
    PROVE  IInv'
<1> USE DEF IInv, TypeOK
<1>1. CASE CallWrite(t)
  BY <1>1 DEF CallWrite, InitInv, MutexInv, RacedInit, TransferInv, RxInv,
              SuccessMeansSent, CompletionWakes, RxWakes
<1>2. CASE SetInit(t)
  BY <1>2 DEF SetInit, InitInv, MutexInv, RacedInit, TransferInv, RxInv,
              SuccessMeansSent, CompletionWakes, RxWakes
<1>3. CASE CreateMutex(t)
  <2>1. TypeOK' /\ InitInv'
    BY <1>3 DEF CreateMutex, InitInv
  \* A first creation finds nobody blocked or in the section, since a handle
  \* leads to a created mutex; any further one makes the race.
  <2>2. MutexInv'
    BY <1>3 DEF CreateMutex, InitInv, MutexInv, RacedInit
  <2>3. TransferInv' /\ RxInv' /\ SuccessMeansSent' /\ RxWakes'
    BY <1>3 DEF CreateMutex, TransferInv, RxInv, SuccessMeansSent, RxWakes
  <2>4. CompletionWakes'
    BY <1>3 DEF CreateMutex, CompletionWakes, RacedInit
  <2> QED BY <2>1, <2>2, <2>3, <2>4
<1> QED BY <1>1, <1>2, <1>3

\* The take and the give of the mutex: where exclusion is at stake.
LEMMA LockIInv ==
    ASSUME IInv, NEW t \in Writers,
           BeginTake(t) \/ Acquire(t) \/ TakeTimeout(t) \/ Give(t)
    PROVE  IInv'
<1> USE DEF IInv, TypeOK
<1>1. CASE BeginTake(t)
  BY <1>1 DEF BeginTake, InitInv, MutexInv, RacedInit, TransferInv, RxInv,
              SuccessMeansSent, CompletionWakes, RxWakes
\* The mutex taken is free, so without a race nobody else is in the section.
<1>2. CASE Acquire(t)
  <2>1. TypeOK' /\ InitInv' /\ TransferInv' /\ RxInv'
    BY <1>2 DEF Acquire, InitInv, MutexInv, TransferInv, RxInv
  <2>2. MutexInv'
    BY <1>2 DEF Acquire, InitInv, MutexInv, RacedInit
  <2>3. SuccessMeansSent' /\ CompletionWakes' /\ RxWakes'
    BY <1>2 DEF Acquire, SuccessMeansSent, CompletionWakes, RacedInit, RxWakes
  <2> QED BY <2>1, <2>2, <2>3
<1>3. CASE TakeTimeout(t)
  BY <1>3 DEF TakeTimeout, InitInv, MutexInv, RacedInit, TransferInv, RxInv,
              SuccessMeansSent, CompletionWakes, RxWakes
\* Without a race the giver is the holder: no assertion, nobody else let in.
<1>4. CASE Give(t)
  <2>1. TypeOK' /\ InitInv' /\ TransferInv' /\ RxInv'
    <3>1. halted' \in BOOLEAN
      BY <1>4, Zenon DEF Give
    <3>2. TypeOK'
      BY <1>4, <3>1 DEF Give
    <3>3. InitInv' /\ TransferInv' /\ RxInv'
      BY <1>4 DEF Give, InitInv, TransferInv, RxInv
    <3> QED BY <3>2, <3>3
  <2>2. MutexInv'
    BY <1>4 DEF Give, InitInv, MutexInv, RacedInit
  <2>3. SuccessMeansSent' /\ CompletionWakes' /\ RxWakes'
    BY <1>4 DEF Give, SuccessMeansSent, CompletionWakes, RacedInit, RxWakes
  <2> QED BY <2>1, <2>2, <2>3
<1> QED BY <1>1, <1>2, <1>3, <1>4

\* The transfer as its writer sees it.
LEMMA TransferIInv ==
    ASSUME IInv, NEW t \in Writers,
           Arm(t) \/ Wake(t) \/ WaitTimeout(t)
    PROVE  IInv'
<1> USE DEF IInv, TypeOK
\* Arming forgets the notifications of t and takes the interrupt over; without
\* a race nobody else is waiting for it.
<1>1. CASE Arm(t)
  <2>1. TypeOK' /\ InitInv' /\ MutexInv'
    BY <1>1 DEF Arm, InitInv, MutexInv, RacedInit
  <2>2. TransferInv' /\ SuccessMeansSent'
    BY <1>1 DEF Arm, TransferInv, SuccessMeansSent
  <2>3. CompletionWakes'
    BY <1>1 DEF Arm, MutexInv, TransferInv, CompletionWakes, RacedInit
  <2>4. RxInv' /\ RxWakes'
    BY <1>1 DEF Arm, RxInv, RxWakes
  <2> QED BY <2>1, <2>2, <2>3, <2>4
<1>2. CASE Wake(t)
  BY <1>2 DEF Wake, InitInv, MutexInv, RacedInit, TransferInv, RxInv,
              SuccessMeansSent, CompletionWakes, RxWakes
<1>3. CASE WaitTimeout(t)
  BY <1>3 DEF WaitTimeout, InitInv, MutexInv, RacedInit, TransferInv, RxInv,
              SuccessMeansSent, CompletionWakes, RxWakes
<1> QED BY <1>1, <1>2, <1>3

\* The reader touches nothing of the writers.
LEMMA ReaderIInv == ASSUME IInv, BeginRead \/ EndRead PROVE IInv'
<1> USE DEF IInv, TypeOK
<1>1. InitInv' /\ MutexInv'
  BY DEF BeginRead, EndRead, InitInv, MutexInv, RacedInit
<1>2. TypeOK'
  BY DEF BeginRead, EndRead
<1>3. TransferInv'
  BY DEF BeginRead, EndRead, TransferInv
<1>4. SuccessMeansSent' /\ CompletionWakes'
  BY DEF BeginRead, EndRead, SuccessMeansSent, CompletionWakes, RacedInit
<1>5. RxInv' /\ RxWakes'
  BY DEF BeginRead, EndRead, RxInv, RxWakes
<1> QED BY <1>1, <1>2, <1>3, <1>4, <1>5

\* Interrupts: the task a completion notifies, if it waits, is the owner of the
\* buffer in flight (TransferInv).
LEMMA InterruptIInv == ASSUME IInv, Interrupt PROVE IInv'
<1> USE DEF IInv, TypeOK
<1>1. CASE TxComplete
  <2>1. InitInv' /\ MutexInv'
    BY <1>1 DEF TxComplete, InitInv, MutexInv, RacedInit
  <2>2. TypeOK'
    BY <1>1 DEF TxComplete, TransferInv
  <2>3. TransferInv'
    <3>1. (handleSet' => xHandlingTask' # None) /\ (inFlight' # None => configured')
      BY <1>1 DEF TxComplete
    <3>2. ASSUME NEW t \in Writers
          PROVE  /\ inFlight' = t <=> xfer'[t] = "flying"
                 /\ pc'[t] = "sent" /\ xHandlingTask' = t =>
                       inFlight' \in {t, None}
                 /\ pc'[t] = "sent" /\ t \in notified' => xfer'[t] = "done"
      BY <1>1 DEF TxComplete, TransferInv
    <3> QED BY <3>1, <3>2 DEF TransferInv
  <2>4. SuccessMeansSent'
    BY <1>1 DEF TxComplete, TransferInv, SuccessMeansSent
  <2>5. CompletionWakes'
    BY <1>1 DEF TxComplete, TransferInv, CompletionWakes, RacedInit
  <2>6. RxInv' /\ RxWakes'
    BY <1>1 DEF TxComplete, RxInv, RxWakes, TransferInv
  <2> QED BY <2>1, <2>2, <2>3, <2>4, <2>5, <2>6
<1>2. CASE RxMessage
  <2>1. TypeOK' /\ InitInv' /\ MutexInv'
    BY <1>2 DEF RxMessage, InitInv, MutexInv, RacedInit
  <2>2. TransferInv' /\ SuccessMeansSent' /\ CompletionWakes'
    BY <1>2 DEF RxMessage, TransferInv, SuccessMeansSent, CompletionWakes,
                RacedInit
  <2>3. RxInv' /\ RxWakes'
    BY <1>2 DEF RxMessage, RxInv, RxWakes
  <2> QED BY <2>1, <2>2, <2>3
<1>3. CASE UsbReset
  <2>1. TypeOK' /\ InitInv' /\ MutexInv'
    BY <1>3 DEF UsbReset, InitInv, MutexInv, RacedInit
  <2>2. TransferInv'
    BY <1>3 DEF UsbReset, TransferInv
  <2>3. SuccessMeansSent' /\ CompletionWakes'
    BY <1>3 DEF UsbReset, TransferInv, SuccessMeansSent, CompletionWakes,
                RacedInit
  <2>4. RxInv' /\ RxWakes'
    BY <1>3 DEF UsbReset, RxInv, RxWakes
  <2> QED BY <2>1, <2>2, <2>3, <2>4
<1>4. CASE Configure
  BY <1>4 DEF Configure, InitInv, MutexInv, RacedInit, TransferInv, RxInv,
              SuccessMeansSent, CompletionWakes, RxWakes
<1> QED BY <1>1, <1>2, <1>3, <1>4 DEF Interrupt

LEMMA StutterIInv == ASSUME IInv, UNCHANGED vars PROVE IInv'
BY DEF vars, IInv, TypeOK, InitInv, MutexInv, RacedInit, TransferInv, RxInv,
       SuccessMeansSent, CompletionWakes, RxWakes

LEMMA InductiveInvariant == Spec => []IInv
<1>1. IInv /\ [Next]_vars => IInv'
  <2> SUFFICES ASSUME IInv, [Next]_vars PROVE IInv'
    OBVIOUS
  <2>1. CASE \E t \in Writers : CallWrite(t) \/ WriteStep(t)
    <3> PICK t \in Writers : CallWrite(t) \/ WriteStep(t)
      BY <2>1
    <3> QED BY InitialiseIInv, LockIInv, TransferIInv DEF WriteStep
  <2>2. CASE BeginRead \/ EndRead
    BY <2>2, ReaderIInv
  <2>3. CASE Interrupt
    BY <2>3, InterruptIInv
  <2>4. CASE UNCHANGED vars
    BY <2>4, StutterIInv
  <2> QED BY <2>1, <2>2, <2>3, <2>4 DEF Next
<1> QED BY <1>1, InitIInv, PTL DEF Spec

-----------------------------------------------------------------------------
(* What the invariant gives                                                *)

\* Every variable keeps its type.
THEOREM TypeCorrect == Spec => []TypeOK
<1>1. IInv => TypeOK
  BY DEF IInv
<1> QED BY <1>1, InductiveInvariant, PTL

\* usb1_write_r excludes concurrent writers unless its lazy initialisation ran
\* twice: two in the section would both hold the one mutex.
THEOREM WritersExclude == Spec => []Exclusive
<1>1. IInv => Exclusive
  BY DEF IInv, MutexInv, Exclusive
<1> QED BY <1>1, InductiveInvariant, PTL

\* The assertions of the kernel on the give hold unless that race happened.
THEOREM NoHangWithoutRace == Spec => []HangsOnlyIfRaced
<1>1. IInv => HangsOnlyIfRaced
  BY DEF IInv, MutexInv, HangsOnlyIfRaced
<1> QED BY <1>1, InductiveInvariant, PTL

\* A successful write was sent in full, race or no race.
THEOREM NoFalseSuccess == Spec => []SuccessMeansSent
<1>1. IInv => SuccessMeansSent
  BY DEF IInv
<1> QED BY <1>1, InductiveInvariant, PTL

\* The completion of a transfer reaches the writer that waits for it.
THEOREM NoLostCompletion == Spec => []CompletionWakes
<1>1. IInv => CompletionWakes
  BY DEF IInv
<1> QED BY <1>1, InductiveInvariant, PTL

\* A blocked reader can always be woken by the host.
THEOREM ReaderNotStuck == Spec => []RxWakes
<1>1. IInv => RxWakes
  BY DEF IInv
<1> QED BY <1>1, InductiveInvariant, PTL

\* Lines from the host are only lost to an enumeration of the device.
THEOREM NoLostLine == Spec => []LostOnlyByEnumeration
<1>1. IInv => LostOnlyByEnumeration
  BY DEF IInv, TypeOK, RxInv, LostOnlyByEnumeration
<1> QED BY <1>1, InductiveInvariant, PTL

-----------------------------------------------------------------------------
(* The mutex is never lost                                                 *)

\* Without the race a mutex that is held is the one all writers share, and its
\* holder is on the way to give it back.
HeldInside ==
    ~RacedInit =>
        \A m \in Writers : holder[m] # None =>
            m = txSemaphore /\ pc[holder[m]] \in Section

\* usb1_write_r gives the mutex on every path: when the driver refuses the buffer,
\* when the completion does not come, and after a success.
THEOREM MutexNotLost == Spec => []HeldInside
<1>1. Init => HeldInside
  BY DEF Init, HeldInside
<1>2. IInv /\ HeldInside /\ [Next]_vars => HeldInside'
  <2> SUFFICES ASSUME IInv, HeldInside, [Next]_vars PROVE HeldInside'
    OBVIOUS
  <2> USE DEF HeldInside, RacedInit, IInv, TypeOK
  <2>1. ASSUME NEW t \in Writers,
               CallWrite(t) \/ SetInit(t) \/ BeginTake(t) \/ TakeTimeout(t)
        PROVE  HeldInside'
    BY <2>1 DEF CallWrite, SetInit, BeginTake, TakeTimeout
  \* The one creation finds no mutex, hence none that is held.
  <2>2. ASSUME NEW t \in Writers, CreateMutex(t)
        PROVE  HeldInside'
    BY <2>2 DEF CreateMutex, InitInv, MutexInv
  <2>3. ASSUME NEW t \in Writers, Acquire(t)
        PROVE  HeldInside'
    BY <2>3 DEF Acquire, MutexInv
  <2>4. ASSUME NEW t \in Writers, Arm(t) \/ Wake(t) \/ WaitTimeout(t)
        PROVE  HeldInside'
    BY <2>4 DEF Arm, Wake, WaitTimeout
  <2>5. ASSUME NEW t \in Writers, Give(t)
        PROVE  HeldInside'
    BY <2>5 DEF Give, MutexInv
  <2>6. CASE BeginRead \/ EndRead
    BY <2>6 DEF BeginRead, EndRead
  <2>7. CASE Interrupt
    BY <2>7 DEF Interrupt, TxComplete, RxMessage, UsbReset, Configure
  <2>8. CASE UNCHANGED vars
    BY <2>8 DEF vars
  <2> QED BY <2>1, <2>2, <2>3, <2>4, <2>5, <2>6, <2>7, <2>8 DEF Next, WriteStep
<1> QED BY <1>1, <1>2, InductiveInvariant, PTL DEF Spec

-----------------------------------------------------------------------------
(* When the lazy initialisation is harmless                                *)

\* One writer has gone through the initialisation and no other is in it.
Settled ==
    /\ initWrite = 1
    /\ ~RacedInit
    /\ \A t \in Writers : pc[t] \notin {"set", "create"}

AtMostOneInside ==
    \A s, t \in Writers : pc[s] \in Section /\ pc[t] \in Section => s = t

\* A first write that no other writer interrupts between its test of initWrite and
\* the creation of the mutex makes usb1_write_r safe for ever: the writers exclude
\* one another and no assertion of the kernel fails, at any priorities.
THEOREM FirstWriteAloneSuffices == Spec => [](Settled => [](AtMostOneInside /\ ~halted))
<1>1. IInv /\ Settled /\ [Next]_vars => Settled'
  <2> SUFFICES ASSUME IInv, Settled, [Next]_vars PROVE Settled'
    OBVIOUS
  <2> USE DEF Settled, RacedInit, IInv, TypeOK
  <2>1. ASSUME NEW t \in Writers, CallWrite(t) \/ WriteStep(t)
        PROVE  Settled'
    BY <2>1 DEF CallWrite, WriteStep, SetInit, CreateMutex, BeginTake, Acquire,
                TakeTimeout, Arm, Wake, WaitTimeout, Give
  <2>2. CASE BeginRead \/ EndRead
    BY <2>2 DEF BeginRead, EndRead
  <2>3. CASE Interrupt
    BY <2>3 DEF Interrupt, TxComplete, RxMessage, UsbReset, Configure
  <2>4. CASE UNCHANGED vars
    BY <2>4 DEF vars
  <2> QED BY <2>1, <2>2, <2>3, <2>4 DEF Next
<1>2. IInv /\ Settled => AtMostOneInside /\ ~halted
  BY DEF IInv, MutexInv, Settled, AtMostOneInside
<1> QED BY <1>1, <1>2, InductiveInvariant, PTL DEF Spec

-----------------------------------------------------------------------------
(* The buffers lent to the driver                                          *)

\* A writer leaves its buffer to the driver in flight only when xMaxBlockTime
\* passes first: a completion that wakes it is the end of its own transfer.
THEOREM OnlyATimeoutReleases ==
    Spec => [][\A t \in Writers :
                  pc[t] = "sent" /\ inFlight = t /\ pc'[t] # "sent" =>
                      WaitTimeout(t)]_vars
<1> DEFINE Kept(t) == pc[t] = "sent" /\ inFlight = t /\ pc'[t] # "sent" =>
                          WaitTimeout(t)
<1>1. ASSUME IInv, Next, NEW t \in Writers PROVE Kept(t)
  <2> USE <1>1 DEF IInv, TypeOK, TransferInv
  <2>1. ASSUME NEW u \in Writers, CallWrite(u) \/ WriteStep(u)
        PROVE  Kept(t)
    BY <2>1 DEF CallWrite, WriteStep, SetInit, CreateMutex, BeginTake, Acquire,
                TakeTimeout, Arm, Wake, WaitTimeout, Give
  <2>2. CASE BeginRead \/ EndRead \/ Interrupt
    BY <2>2 DEF BeginRead, EndRead, Interrupt, TxComplete, RxMessage, UsbReset,
                Configure
  <2> QED BY <2>1, <2>2, <1>1 DEF Next
<1>2. IInv /\ [Next]_vars => [\A t \in Writers : Kept(t)]_vars
  BY <1>1
<1> QED BY <1>2, InductiveInvariant, PTL DEF Spec

\* The host may write into the read buffer while the reader works on the line in it
\* only after an enumeration has armed the endpoint behind its back.
THEOREM LineIsStable == Spec => [](armed /\ rxPc = "busy" => stray)
<1>1. IInv => (armed /\ rxPc = "busy" => stray)
  BY DEF IInv, TypeOK, RxInv
<1> QED BY <1>1, InductiveInvariant, PTL

-----------------------------------------------------------------------------
(* A write takes a bounded number of steps                                 *)

\* The steps a write has still to take at most, by the place it has reached.
StepsLeft == [idle |-> 0, ok |-> 1, fail |-> 1, sent |-> 2, arm |-> 3, block |-> 4,
              lock |-> 5, create |-> 6, set |-> 7]

\* usb1_write_r never goes back, whatever the host and the other writers do: a
\* write takes at most seven steps after its test of initWrite.
THEOREM WritesAdvance ==
    Spec => [][\A t \in Writers : pc[t] # "idle" /\ pc'[t] # pc[t] =>
                  StepsLeft[pc'[t]] < StepsLeft[pc[t]]]_vars
<1> DEFINE Advance(t) == pc[t] # "idle" /\ pc'[t] # pc[t] =>
                             StepsLeft[pc'[t]] < StepsLeft[pc[t]]
<1>1. ASSUME TypeOK, Next, NEW t \in Writers PROVE Advance(t)
  <2> USE <1>1 DEF TypeOK, StepsLeft
  <2>1. ASSUME NEW u \in Writers, CallWrite(u) \/ SetInit(u) \/ CreateMutex(u)
        PROVE  Advance(t)
    BY <2>1 DEF CallWrite, SetInit, CreateMutex
  <2>2. ASSUME NEW u \in Writers, BeginTake(u) \/ Acquire(u) \/ TakeTimeout(u)
        PROVE  Advance(t)
    BY <2>2 DEF BeginTake, Acquire, TakeTimeout
  <2>3. ASSUME NEW u \in Writers, Arm(u) \/ Wake(u)
        PROVE  Advance(t)
    BY <2>3 DEF Arm, Wake
  <2>4. ASSUME NEW u \in Writers, WaitTimeout(u) \/ Give(u)
        PROVE  Advance(t)
    BY <2>4 DEF WaitTimeout, Give
  <2>5. CASE BeginRead \/ EndRead \/ Interrupt
    BY <2>5 DEF BeginRead, EndRead, Interrupt, TxComplete, RxMessage, UsbReset,
                Configure
  <2> QED BY <2>1, <2>2, <2>3, <2>4, <2>5, <1>1 DEF Next, WriteStep
<1>2. TypeOK /\ [Next]_vars => [\A t \in Writers : Advance(t)]_vars
  BY <1>1
<1> QED BY <1>2, TypeCorrect, PTL DEF Spec
=============================================================================

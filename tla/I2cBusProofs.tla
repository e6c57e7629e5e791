---------------------------- MODULE I2cBusProofs ----------------------------
(***************************************************************************)
(* Proofs about I2cBus for any set of tasks: the invariant IInv is         *)
(* inductive, and the safety properties are conjuncts of it.               *)
(***************************************************************************)
EXTENDS I2cBus, TLAPS

USE BusAssumption
    DEF BusAssumption, At, GoTo, AfterTx, Section, callVars, halVars

LEMMA InitIInv == Init => IInv
<1> SUFFICES ASSUME Init PROVE IInv
  OBVIOUS
<1>1. TypeOK
  BY DEF Init, TypeOK
<1> QED BY <1>1 DEF Init, IInv, NoAssertFails, MutexInv, TransferInv,
                    NotifiedMeansDone, DoneMeansNotified

\* The steps of a task that neither start a transfer nor follow a notification.
LEMMA CallIInv ==
    ASSUME IInv, NEW t \in Tasks,
           Call(t, "read") \/ Call(t, "write") \/ Acquire(t) \/ TakeTimeout(t)
             \/ TxTimeout(t) \/ RxTimeout(t) \/ Give(t) \/ OtherNotification(t)
    PROVE  IInv'
<1> USE DEF IInv, TypeOK, NoAssertFails
<1>1. CASE Call(t, "read") \/ Call(t, "write")
  <2>1. PICK o \in {"read", "write"} : Call(t, o)
    BY <1>1
  <2>2. TypeOK'
    BY <2>1 DEF Call
  <2>3. MutexInv' /\ TransferInv'
    BY <2>1 DEF Call, MutexInv, TransferInv
  <2>4. NotifiedMeansDone' /\ DoneMeansNotified'
    BY <2>1 DEF Call, NotifiedMeansDone, DoneMeansNotified
  <2> QED BY <2>1, <2>2, <2>3, <2>4 DEF Call
<1>2. CASE Acquire(t)
  BY <1>2 DEF Acquire, MutexInv, TransferInv, NotifiedMeansDone, DoneMeansNotified
<1>3. CASE TakeTimeout(t)
  BY <1>3 DEF TakeTimeout, MutexInv, TransferInv, NotifiedMeansDone, DoneMeansNotified
<1>4. CASE TxTimeout(t)
  BY <1>4 DEF TxTimeout, MutexInv, TransferInv, NotifiedMeansDone, DoneMeansNotified
<1>5. CASE RxTimeout(t)
  BY <1>5 DEF RxTimeout, MutexInv, TransferInv, NotifiedMeansDone, DoneMeansNotified
<1>6. CASE Give(t)
  BY <1>6 DEF Give, MutexInv, TransferInv, NotifiedMeansDone, DoneMeansNotified
<1>7. CASE OtherNotification(t)
  BY <1>7 DEF OtherNotification, MutexInv, TransferInv, NotifiedMeansDone,
              DoneMeansNotified
<1> QED BY <1>1, <1>2, <1>3, <1>4, <1>5, <1>6, <1>7

\* Starting a transfer: the task clears its notifications in the same critical
\* section, and by MutexInv no other task waits.
LEMMA ArmIInv ==
    ASSUME IInv, NEW t \in Tasks, ArmTx(t) \/ ArmRx(t)
    PROVE  IInv'
<1> USE DEF IInv
<1>1. CASE ArmTx(t)
  <2> USE <1>1 DEF ArmTx, Start
  <2>1. TypeOK' /\ NoAssertFails'
    BY DEF TypeOK, NoAssertFails
  <2>2. MutexInv'
    BY DEF TypeOK, MutexInv
  <2>3. TransferInv'
    BY DEF TypeOK, MutexInv, TransferInv
  <2>4. NotifiedMeansDone' /\ DoneMeansNotified'
    BY DEF TypeOK, MutexInv, NotifiedMeansDone, DoneMeansNotified
  <2> QED BY <2>1, <2>2, <2>3, <2>4
<1>2. CASE ArmRx(t)
  <2> USE <1>2 DEF ArmRx, Start
  <2>1. TypeOK' /\ NoAssertFails'
    BY DEF TypeOK, NoAssertFails
  <2>2. MutexInv'
    BY DEF TypeOK, MutexInv
  <2>3. TransferInv'
    BY DEF TypeOK, MutexInv, TransferInv
  <2>4. NotifiedMeansDone' /\ DoneMeansNotified'
    BY DEF TypeOK, MutexInv, NotifiedMeansDone, DoneMeansNotified
  <2> QED BY <2>1, <2>2, <2>3, <2>4
<1> QED BY <1>1, <1>2

LEMMA NotifiedIInv ==
    ASSUME IInv, NEW t \in Tasks, TxNotified(t) \/ RxNotified(t)
    PROVE  IInv'
<1> USE DEF IInv, TypeOK, NoAssertFails
<1>1. CASE TxNotified(t)
  BY <1>1 DEF TxNotified, MutexInv, TransferInv, NotifiedMeansDone, DoneMeansNotified
<1>2. CASE RxNotified(t)
  BY <1>2 DEF RxNotified, MutexInv, TransferInv, NotifiedMeansDone, DoneMeansNotified
<1> QED BY <1>1, <1>2

\* Completions: TransferInv gives the callback a task to notify, and if that
\* task is in a wait the transfer is the one it waits for.
LEMMA InterruptIInv ==
    ASSUME IInv, Interrupt
    PROVE  IInv'
<1> USE DEF IInv
<1>1. CASE TxCpltCallback
  <2> USE <1>1 DEF TxCpltCallback, Finish
  <2>1. txTaskToNotify \in Tasks /\ owner \in Tasks
    BY DEF TypeOK, TransferInv
  <2>2. TypeOK' /\ NoAssertFails'
    BY <2>1 DEF TypeOK, NoAssertFails
  <2>3. MutexInv' /\ TransferInv'
    BY <2>1 DEF TypeOK, MutexInv, TransferInv
  <2>4. NotifiedMeansDone'
    BY <2>1 DEF TypeOK, MutexInv, TransferInv, NotifiedMeansDone
  <2>5. DoneMeansNotified'
    BY <2>1 DEF TypeOK, MutexInv, TransferInv, DoneMeansNotified
  <2> QED BY <2>2, <2>3, <2>4, <2>5
<1>2. CASE RxCpltCallback
  <2> USE <1>2 DEF RxCpltCallback, Finish
  <2>1. rxTaskToNotify \in Tasks /\ owner \in Tasks
    BY DEF TypeOK, TransferInv
  <2>2. TypeOK' /\ NoAssertFails'
    BY <2>1 DEF TypeOK, NoAssertFails
  <2>3. MutexInv' /\ TransferInv'
    BY <2>1 DEF TypeOK, MutexInv, TransferInv
  <2>4. NotifiedMeansDone'
    BY <2>1 DEF TypeOK, MutexInv, TransferInv, NotifiedMeansDone
  <2>5. DoneMeansNotified'
    BY <2>1 DEF TypeOK, MutexInv, TransferInv, DoneMeansNotified
  <2> QED BY <2>2, <2>3, <2>4, <2>5
<1>3. CASE TransferError
  BY <1>3 DEF TransferError, TypeOK, NoAssertFails, MutexInv, TransferInv,
              NotifiedMeansDone, DoneMeansNotified
<1> QED BY <1>1, <1>2, <1>3 DEF Interrupt

LEMMA NextIInv == IInv /\ [Next]_vars => IInv'
<1> SUFFICES ASSUME IInv, [Next]_vars PROVE IInv'
  OBVIOUS
<1>1. CASE UNCHANGED vars
  BY <1>1 DEF vars, IInv, TypeOK, NoAssertFails, MutexInv, TransferInv,
              NotifiedMeansDone, DoneMeansNotified
<1> QED BY <1>1, CallIInv, ArmIInv, NotifiedIInv, InterruptIInv DEF Next, Step

LEMMA Invariance == Spec => []IInv
BY InitIInv, NextIInv, PTL DEF Spec

\* Every variable keeps its type.
THEOREM TypeCorrect == Spec => []TypeOK
<1>1. IInv => TypeOK
  BY DEF IInv
<1> QED BY <1>1, Invariance, PTL

\* No completion, however late, finds the handle of its direction empty.
THEOREM AssertionsHold == Spec => []NoAssertFails
<1>1. IInv => NoAssertFails
  BY DEF IInv
<1> QED BY <1>1, Invariance, PTL

\* A wait ended by a notification saw the end of its own transfer.
THEOREM NoForeignCompletion == Spec => []NotifiedMeansDone
<1>1. IInv => NotifiedMeansDone
  BY DEF IInv
<1> QED BY <1>1, Invariance, PTL

\* The end of a transfer a task waits for is never missed.
THEOREM NoLostCompletion == Spec => []DoneMeansNotified
<1>1. IInv => DoneMeansNotified
  BY DEF IInv
<1> QED BY <1>1, Invariance, PTL

-----------------------------------------------------------------------------
(* The mutex is never lost                                                 *)

\* Whoever has the mutex is on the way to give it back.
HeldInside == \A t \in Tasks : holder = t => pc[t] \in Section

\* BA_I2C_read and BA_I2C_write give the mutex on every path, whatever times out or
\* is refused: it is never kept by a task that has returned.
THEOREM MutexNotLost == Spec => []HeldInside
<1>1. Init => HeldInside
  BY DEF Init, HeldInside
<1>2. IInv /\ HeldInside /\ [Next]_vars => HeldInside'
  <2> SUFFICES ASSUME IInv, HeldInside, [Next]_vars PROVE HeldInside'
    OBVIOUS
  <2> USE DEF HeldInside, IInv, TypeOK, MutexInv
  <2>1. ASSUME NEW t \in Tasks, NEW o \in {"read", "write"}, Call(t, o)
        PROVE  HeldInside'
    BY <2>1 DEF Call
  <2>2. ASSUME NEW t \in Tasks, ArmTx(t) \/ ArmRx(t)
        PROVE  HeldInside'
    BY <2>2 DEF ArmTx, ArmRx, Start
  <2>3. ASSUME NEW t \in Tasks, OtherNotification(t)
        PROVE  HeldInside'
    BY <2>3 DEF OtherNotification
  <2>4. ASSUME NEW t \in Tasks, Acquire(t) \/ TakeTimeout(t) \/ Give(t)
        PROVE  HeldInside'
    BY <2>4 DEF Acquire, TakeTimeout, Give
  <2>5. ASSUME NEW t \in Tasks,
               TxNotified(t) \/ TxTimeout(t) \/ RxNotified(t) \/ RxTimeout(t)
        PROVE  HeldInside'
    BY <2>5 DEF TxNotified, TxTimeout, RxNotified, RxTimeout
  <2>6. CASE Interrupt
    BY <2>6 DEF Interrupt, TxCpltCallback, RxCpltCallback, TransferError
  <2>7. CASE UNCHANGED vars
    BY <2>7 DEF vars
  <2> QED BY <2>1, <2>2, <2>3, <2>4, <2>5, <2>6, <2>7 DEF Next, Step
<1> QED BY <1>1, <1>2, Invariance, PTL DEF Spec

-----------------------------------------------------------------------------
(* Where a read may go on without its request                              *)

\* A call begins with no request completed; a sender has seen its request completed
\* exactly when its transfer has; and a request seen completed is over, so that
\* no late completion takes it back.
RequestInv ==
    \A t \in Tasks :
        /\ pc[t] \in {"take", "armTx"} => ~requested[t]
        /\ pc[t] = "waitTx" => (requested[t] <=> finished[t])
        /\ pc[t] \in {"armRx", "waitRx"} /\ requested[t] => State # "tx"

\* A read goes on to its receive phase, or is in it, without its request.
Unrequested(t) == pc[t] \in {"armRx", "waitRx"} /\ ~requested[t]

\* HAL_I2C_Master_Transmit_DMA refuses the request of a read.
RequestRefused(t) == ArmTx(t) /\ pc'[t] = "armRx"

LEMMA RequestStep == IInv /\ RequestInv /\ [Next]_vars => RequestInv'
<1> SUFFICES ASSUME IInv, RequestInv, [Next]_vars PROVE RequestInv'
  OBVIOUS
<1> USE DEF RequestInv, IInv, TypeOK, MutexInv, TransferInv
<1>1. ASSUME NEW t \in Tasks, NEW o \in {"read", "write"}, Call(t, o)
      PROVE  RequestInv'
  BY <1>1 DEF Call
<1>2. ASSUME NEW t \in Tasks, ArmTx(t)
      PROVE  RequestInv'
  BY <1>2 DEF ArmTx, Start
<1>3. ASSUME NEW t \in Tasks, ArmRx(t)
      PROVE  RequestInv'
  BY <1>3 DEF ArmRx, Start
\* A notified sender's transfer is over, so the HAL is ready again.
<1>4. ASSUME NEW t \in Tasks, TxNotified(t)
      PROVE  RequestInv'
  BY <1>4 DEF TxNotified, NotifiedMeansDone
\* One that gives up was not notified, hence has not seen its request completed.
<1>5. ASSUME NEW t \in Tasks, TxTimeout(t)
      PROVE  RequestInv'
  <2>1. pc[t] = "waitTx" /\ t \notin notified /\ ~finished[t]
    BY <1>5 DEF TxTimeout, DoneMeansNotified
  <2> QED BY <1>5, <2>1 DEF TxTimeout
<1>6. ASSUME NEW t \in Tasks, OtherNotification(t)
      PROVE  RequestInv'
  BY <1>6 DEF OtherNotification
<1>7. ASSUME NEW t \in Tasks, Acquire(t) \/ TakeTimeout(t) \/ Give(t)
      PROVE  RequestInv'
  BY <1>7 DEF Acquire, TakeTimeout, Give
<1>8. ASSUME NEW t \in Tasks, RxNotified(t) \/ RxTimeout(t)
      PROVE  RequestInv'
  BY <1>8 DEF RxNotified, RxTimeout
<1>9. CASE TxCpltCallback
  BY <1>9 DEF TxCpltCallback, Finish
<1>10. CASE RxCpltCallback
  BY <1>10 DEF RxCpltCallback, Finish
<1>11. CASE TransferError
  BY <1>11 DEF TransferError
<1>12. CASE UNCHANGED vars
  BY <1>12 DEF vars
<1> QED BY <1>1, <1>2, <1>3, <1>4, <1>5, <1>6, <1>7, <1>8, <1>9, <1>10, <1>11, <1>12
        DEF Next, Step, Interrupt

LEMMA RequestHolds == Spec => [](IInv /\ RequestInv)
<1>1. Init => RequestInv
  BY DEF Init, RequestInv
<1> QED BY <1>1, RequestStep, Invariance, PTL DEF Spec

\* A read whose request was notified in time receives what it asked for: the
\* receive phase is entered without the request only when the HAL refused it, or
\* when maxBlockTime passed before its completion.
THEOREM OnlyRefusedOrLate ==
    Spec => [][\A t \in Tasks :
                  ~Unrequested(t) /\ Unrequested(t)' =>
                      RequestRefused(t) \/ TxTimeout(t)]_vars
<1> DEFINE Late(t) == ~Unrequested(t) /\ Unrequested(t)' =>
                          RequestRefused(t) \/ TxTimeout(t)
<1>1. ASSUME IInv, RequestInv, Next, NEW t \in Tasks PROVE Late(t)
  <2> USE <1>1 DEF Unrequested, RequestRefused, IInv, TypeOK
  <2>1. CASE Interrupt
    <3>1. pc' = pc
      BY <2>1 DEF Interrupt, TxCpltCallback, RxCpltCallback, TransferError
    \* Only the completion of a request writes requested, and none is in
    \* progress after one that was seen completed.
    <3>2. pc[t] \in {"armRx", "waitRx"} /\ requested[t] => requested' = requested
      BY <2>1 DEF Interrupt, TxCpltCallback, RxCpltCallback, TransferError, RequestInv
    <3> QED BY <3>1, <3>2
  <2>2. CASE ~Interrupt
    <3>1. PICK u \in Tasks : \/ Call(u, "read") \/ Call(u, "write") \/ Step(u)
                             \/ OtherNotification(u)
      BY <2>2 DEF Next
    <3>2. requested' = requested \/ Call(u, "read") \/ Call(u, "write")
      BY <3>1 DEF Step, Acquire, TakeTimeout, ArmTx, TxNotified, TxTimeout, ArmRx,
                  RxNotified, RxTimeout, Give, OtherNotification
    <3>3. CASE Call(u, "read") \/ Call(u, "write")
      BY <3>3 DEF Call
    <3>4. CASE ArmTx(u)
      BY <3>4, <3>2 DEF ArmTx, Start
    \* The notification means that the transfer, hence the request, completed.
    <3>5. CASE TxNotified(u)
      BY <3>5, <3>2 DEF TxNotified, NotifiedMeansDone, RequestInv
    <3>6. CASE ArmRx(u)
      BY <3>6 DEF ArmRx, Start
    <3>7. CASE TxTimeout(u)
      BY <3>7 DEF TxTimeout
    <3>8. CASE Acquire(u) \/ TakeTimeout(u) \/ RxNotified(u) \/ RxTimeout(u) \/ Give(u)
      BY <3>8 DEF Acquire, TakeTimeout, RxNotified, RxTimeout, Give
    <3>9. CASE OtherNotification(u)
      BY <3>9 DEF OtherNotification
    <3> QED BY <3>1, <3>3, <3>4, <3>5, <3>6, <3>7, <3>8, <3>9 DEF Step
  <2> QED BY <2>1, <2>2
<1>2. IInv /\ RequestInv /\ [Next]_vars => [\A t \in Tasks : Late(t)]_vars
  BY <1>1
<1> QED BY <1>2, RequestHolds, PTL DEF Spec

-----------------------------------------------------------------------------
(* A call takes a bounded number of steps                                  *)

\* The steps a call has still to take at most, by the place it has reached.
StepsLeft == [idle |-> 0, give |-> 1, waitRx |-> 2, armRx |-> 3, waitTx |-> 4,
              armTx |-> 5, take |-> 6]

\* BA_I2C_read and BA_I2C_write never go back, whatever fails and whatever the
\* interrupts do: a call takes at most six steps.
THEOREM CallsAdvance ==
    Spec => [][\A t \in Tasks : pc[t] # "idle" /\ pc'[t] # pc[t] =>
                  StepsLeft[pc'[t]] < StepsLeft[pc[t]]]_vars
<1> DEFINE Advance(t) == pc[t] # "idle" /\ pc'[t] # pc[t] =>
                             StepsLeft[pc'[t]] < StepsLeft[pc[t]]
<1>1. ASSUME TypeOK, Next, NEW t \in Tasks PROVE Advance(t)
  <2> USE <1>1 DEF TypeOK, StepsLeft
  <2>1. CASE Interrupt
    BY <2>1 DEF Interrupt, TxCpltCallback, RxCpltCallback, TransferError
  <2>2. ASSUME NEW u \in Tasks, NEW o \in {"read", "write"}, Call(u, o)
        PROVE  Advance(t)
    BY <2>2 DEF Call
  <2>3. ASSUME NEW u \in Tasks, OtherNotification(u)
        PROVE  Advance(t)
    BY <2>3 DEF OtherNotification
  <2>4. ASSUME NEW u \in Tasks, Acquire(u) \/ TakeTimeout(u) \/ Give(u)
        PROVE  Advance(t)
    BY <2>4 DEF Acquire, TakeTimeout, Give
  <2>5. ASSUME NEW u \in Tasks, ArmTx(u) \/ TxNotified(u) \/ TxTimeout(u)
        PROVE  Advance(t)
    BY <2>5 DEF ArmTx, Start, TxNotified, TxTimeout
  <2>6. ASSUME NEW u \in Tasks, ArmRx(u) \/ RxNotified(u) \/ RxTimeout(u)
        PROVE  Advance(t)
    BY <2>6 DEF ArmRx, Start, RxNotified, RxTimeout
  <2> QED BY <2>1, <2>2, <2>3, <2>4, <2>5, <2>6 DEF Next, Step
<1>2. TypeOK /\ [Next]_vars => [\A t \in Tasks : Advance(t)]_vars
  BY <1>1
<1> QED BY <1>2, TypeCorrect, PTL DEF Spec
=============================================================================

------------------------- MODULE ConfigStoreProofs --------------------------
(***************************************************************************)
(* Proofs about ConfigStore, for records of any length, any layout of      *)
(* fields and pages and any way of stdio to cut the record into writes.    *)
(***************************************************************************)
EXTENDS ConfigStore, TLAPS

\* The assumptions about sizes, and those about the contents of a row.
LEMMA Sizes ==
    /\ N \in Nat /\ N > 0
    /\ Pages \in Nat /\ Pages > 0
    /\ PageOf \in [Rows -> 1..Pages]
    /\ \A s \in 0..(N - 1) : ChunkEnd[s] \in 1..N /\ ChunkEnd[s] > s
BY StoreAssumption DEF StoreAssumption, Rows

LEMMA Contents ==
    /\ FieldOf \in [2..N -> Fields]
    /\ Header \notin Data /\ Erased \notin Data /\ Torn \notin Data
    /\ Header # Erased /\ Header # Torn /\ Erased # Torn
    /\ Garbage \notin Values \cup {Zero, Header}
BY StoreAssumption DEF StoreAssumption, Data

USE Sizes

\* What a load returns is always a record, and a record in flash is returned
\* as it is.
LEMMA LoadedRecord ==
    ASSUME NEW rows \in [Rows -> Data \cup {Header, Erased, Torn}]
    PROVE  Loaded(rows) \in Record
<1>1. CASE rows[1] = Header
  BY <1>1, Contents DEF Loaded, Read, Record, Rows, Data
<1>2. CASE rows[1] # Header
  BY <1>2, Contents DEF Loaded, NewRecord, Record, Rows, Data
<1> QED BY <1>1, <1>2

LEMMA LoadedStored ==
    ASSUME NEW m \in Record
    PROVE  Loaded(m) = m
<1>1. m[1] = Header /\ \A r \in Rows : m[r] \notin {Erased, Torn}
  BY Contents DEF Record
<1>2. Loaded(m) = [r \in Rows |-> m[r]]
  BY <1>1 DEF Loaded, Read
<1> QED BY <1>2 DEF Record

LEMMA NewRecordRecord == NewRecord \in Record
BY Contents DEF NewRecord, Record, Rows, Data

LEMMA EditRecord ==
    ASSUME NEW m \in Record, NEW f \in Fields, NEW v \in Values
    PROVE  Edit(m, f, v) \in Record
BY Contents DEF Edit, Record, Rows, Data

\* A write that is cut off damages only the rows it was working on.
LEMMA InterruptedRows ==
    ASSUME TypeOK, NEW rows \in SUBSET Rows, NEW fl \in Interrupted(rows)
    PROVE  /\ fl \in [Rows -> Data \cup {Header, Erased, Torn}]
           /\ \A r \in Rows \ rows : fl[r] = flash[r]
           /\ \A r \in rows : fl[r] \in {flash[r], Torn}
BY DEF Interrupted, TypeOK

LEMMA InitIInv == Init => IInv
<1> SUFFICES ASSUME Init PROVE IInv
  OBVIOUS
<1>1. TypeOK
  <2>1. error \in BOOLEAN /\ result \in BOOLEAN
    BY DEF Init
  <2> QED BY <2>1, NewRecordRecord DEF Init, TypeOK
<1>2. StoreInv /\ SuccessStored
  BY DEF Init, StoreInv, SuccessStored
<1> QED BY <1>1, <1>2 DEF IInv

\* The store before and after it touches the flash.
LEMMA OutsideIInv ==
    ASSUME IInv,
           (\E f \in Fields, v \in Values : StartSet(f, v)) \/ Open \/ OpenFails
             \/ Write \/ Close
    PROVE  IInv'
<1> USE DEF IInv
<1>1. ASSUME NEW f \in Fields, NEW v \in Values, StartSet(f, v)
      PROVE  IInv'
  <2>1. Edit(Loaded(flash), f, v) \in Record
    BY LoadedRecord, EditRecord DEF TypeOK
  <2>2. TypeOK'
    BY <1>1, <2>1 DEF StartSet, TypeOK
  <2> QED BY <1>1, <2>2 DEF StartSet, StoreInv, SuccessStored
<1>2. CASE Open
  <2>1. error' \in BOOLEAN
    BY <1>2 DEF Open
  <2>2. TypeOK'
    BY <1>2, <2>1 DEF Open, TypeOK
  <2> QED BY <1>2, <2>2 DEF Open, StoreInv, SuccessStored
<1>3. CASE OpenFails \/ Close
  <2>1. error' \in BOOLEAN /\ result' \in BOOLEAN
    BY <1>3 DEF OpenFails, Close, Leave
  <2>2. TypeOK'
    BY <1>3, <2>1, NewRecordRecord DEF OpenFails, Close, Leave, TypeOK
  <2> QED BY <1>3, <2>2 DEF OpenFails, Close, Leave, StoreInv, SuccessStored
<1>4. CASE Write
  <2>1. TypeOK'
    BY <1>4 DEF Write, TypeOK
  <2>2. StoreInv'
    <3>1. CASE positionIndicator = 0
      BY <1>4, <3>1 DEF Write, TypeOK, StoreInv
    <3>2. CASE positionIndicator # 0
      <4>1. Written(sent + 0)'
        BY <1>4, <3>2 DEF Write, TypeOK, StoreInv, Written
      <4> QED BY <1>4, <3>2, <4>1 DEF Write, TypeOK, StoreInv
    <3> QED BY <3>1, <3>2
  <2> QED BY <1>4, <2>1, <2>2 DEF Write, SuccessStored
<1> QED BY <1>1, <1>2, <1>3, <1>4

LEMMA EraseIInv ==
    ASSUME IInv, ErasePage \/ EraseFails
    PROVE  IInv'
<1> USE DEF IInv
<1>1. CASE ErasePage
  <2>1. TypeOK'
    BY <1>1 DEF ErasePage, TypeOK, StoreInv
  <2>2. \A r \in Rows : PageOf[r] < page' => flash'[r] = Erased
    BY <1>1 DEF ErasePage, TypeOK, StoreInv
  <2>3. pc' = "program" => Written(0)'
    BY <1>1, <2>2 DEF ErasePage, TypeOK, StoreInv, Written, Rows
  <2> QED BY <1>1, <2>1, <2>2, <2>3 DEF ErasePage, TypeOK, StoreInv, SuccessStored
<1>2. CASE EraseFails
  BY <1>2, InterruptedRows DEF EraseFails, RowsOf, TypeOK, StoreInv, SuccessStored
<1> QED BY <1>1, <1>2

\* One turn of the program loop extends the written part of the record by one
\* row; a failure leaves it as it is.
LEMMA ProgramIInv ==
    ASSUME IInv, ProgramRow \/ ProgramFails
    PROVE  IInv'
<1> USE DEF IInv
<1>1. CASE ProgramRow
  <2> DEFINE n == sent + count
  <2>1. n \in Nat /\ NextRow = n + 1 /\ n + 1 \in Rows /\ Written(n)
    BY <1>1 DEF ProgramRow, TypeOK, StoreInv, NextRow
  <2>2. modify[n + 1] \in Data \cup {Header}
    BY <2>1 DEF TypeOK, Record
  <2>3. TypeOK'
    BY <1>1, <2>1, <2>2 DEF ProgramRow, TypeOK, StoreInv, Rows
  <2>4. n' = n + 1 /\ flash' = [flash EXCEPT ![n + 1] = modify[n + 1]]
    BY <1>1, <2>1 DEF ProgramRow, TypeOK
  <2>5. Written(n)'
    <3>1. /\ modify' = modify
          /\ \A r \in Rows : flash'[r] = IF r = n + 1 THEN modify[r] ELSE flash[r]
      BY <1>1, <2>1, <2>4 DEF ProgramRow, TypeOK
    <3>2. ASSUME NEW r \in 1..(n + 1)
          PROVE  flash'[r] = modify'[r]
      <4>1. r \in Rows /\ (r = n + 1 \/ r \in 1..n)  BY <2>1 DEF Rows
      <4>2. CASE r = n + 1   BY <3>1, <4>1, <4>2
      <4>3. CASE r \in 1..n
        <5>1. r # n + 1  BY <2>1, <4>3
        <5>2. flash[r] = modify[r]  BY <2>1, <4>3 DEF Written
        <5>3. QED  BY <3>1, <4>1, <5>1, <5>2
      <4>4. QED  BY <4>1, <4>2, <4>3
    <3>3. ASSUME NEW r \in (n + 2)..N
          PROVE  flash'[r] = Erased
      <4>1. r \in (n + 1)..N /\ r \in Rows /\ r # n + 1
        BY <2>1 DEF Rows
      <4> QED BY <2>1, <3>1, <4>1 DEF Written
    <3>4. n' = n + 1 /\ (n' + 1)..N = (n + 2)..N
      BY <2>1, <2>4
    <3> HIDE DEF n
    <3> QED BY <3>2, <3>3, <3>4 DEF Written
  <2>6. ChunkEnd[sent] \in Nat /\ n < ChunkEnd[sent] /\ n' <= ChunkEnd[sent]
    BY <1>1, <2>1, <2>4 DEF ProgramRow, TypeOK, StoreInv
  <2>7. StoreInv'
    BY <1>1, <2>3, <2>5, <2>6 DEF ProgramRow, TypeOK, StoreInv
  <2> QED BY <1>1, <2>3, <2>7 DEF ProgramRow, SuccessStored
<1>2. CASE ProgramFails
  <2>1. /\ flash' \in [Rows -> Data \cup {Header, Erased, Torn}]
        /\ \A r \in Rows : flash'[r] = flash[r] \/ (r = NextRow /\ flash'[r] = Torn)
    BY <1>2, InterruptedRows DEF ProgramFails, TypeOK
  <2>2. TypeOK'
    BY <1>2, <2>1 DEF ProgramFails, TypeOK
  <2>3. Written(sent + count)'
    BY <1>2, <2>1 DEF ProgramFails, TypeOK, StoreInv, Written, NextRow, Rows
  <2> QED BY <1>2, <2>2, <2>3 DEF ProgramFails, TypeOK, StoreInv, SuccessStored, Rows
<1> QED BY <1>1, <1>2

\* The last write to return with nothing missing has the whole record behind it.
LEMMA ReturnIInv ==
    ASSUME IInv, Return
    PROVE  IInv'
<1> USE DEF IInv
<1>1. TypeOK'
  BY DEF Return, TypeOK, StoreInv, Rows
<1>2. Written(sent + count)
  BY DEF Return, StoreInv
<1>3. StoreInv'
  BY <1>2 DEF Return, TypeOK, StoreInv, Written, Rows
<1>4. SuccessStored'
  <2>1. CASE sent + count = N
    <3>1. \A r \in Rows : flash[r] = modify[r]
      BY <1>2, <2>1 DEF Written, Rows
    <3>2. flash = modify
      BY <3>1 DEF TypeOK, Record
    <3> QED BY <3>2 DEF Return, SuccessStored
  <2>2. CASE sent + count # N
    BY <2>2 DEF Return, SuccessStored, TypeOK
  <2> QED BY <2>1, <2>2
<1> QED BY <1>1, <1>3, <1>4

LEMMA RestartIInv ==
    ASSUME IInv, Restart
    PROVE  IInv'
<1> USE DEF IInv
<1>1. flash' \in [Rows -> Data \cup {Header, Erased, Torn}]
  BY InterruptedRows DEF Restart, TypeOK, RowsOf
<1>2. error' \in BOOLEAN
  BY DEF Restart, Leave
<1>3. TypeOK'
  BY <1>1, <1>2, LoadedRecord, NewRecordRecord DEF Restart, Leave, TypeOK
<1> QED BY <1>3 DEF Restart, Leave, StoreInv, SuccessStored

LEMMA NextIInv == IInv /\ [Next]_vars => IInv'
<1> SUFFICES ASSUME IInv, [Next]_vars PROVE IInv'
  OBVIOUS
<1>1. CASE UNCHANGED vars
  BY <1>1 DEF vars, IInv, TypeOK, StoreInv, SuccessStored, Written
<1> QED BY <1>1, OutsideIInv, EraseIInv, ProgramIInv, ReturnIInv, RestartIInv
        DEF Next, SetStep

LEMMA Invariance == Spec => []IInv
BY InitIInv, NextIInv, PTL DEF Spec

\* Every variable keeps its type.
THEOREM TypeCorrect == Spec => []TypeOK
<1>1. IInv => TypeOK
  BY DEF IInv
<1> QED BY <1>1, Invariance, PTL

\* No row that holds data is programmed (the ECC rule of dvStorage.c, 185-186).
THEOREM RowsProgrammedOnce == Spec => []NoOverwrite
<1>1. IInv => NoOverwrite
  <2> SUFFICES ASSUME IInv, pc = "program", NextRow \in Rows
               PROVE  flash[NextRow] \in {Erased, Torn}
    BY DEF NoOverwrite
  <2>1. NextRow = sent + count + 1 /\ Written(sent + count)
    BY DEF IInv, StoreInv, NextRow
  <2>2. NextRow \in (sent + count + 1)..N
    BY <2>1 DEF IInv, TypeOK, Rows
  <2> QED BY <2>1, <2>2 DEF Written
<1> QED BY <1>1, Invariance, PTL

\* A store that reports success has stored the whole record in its place.
THEOREM SuccessIsComplete == Spec => []SuccessStored
<1>1. IInv => SuccessStored
  BY DEF IInv
<1> QED BY <1>1, Invariance, PTL

-----------------------------------------------------------------------------
(* The store implements the register: each action maps to one of its steps *)

LEMMA InitRefines == Init => Register!Init
<1> SUFFICES ASSUME Init PROVE Register!Init
  OBVIOUS
<1>1. Loaded(flash) = NewRecord
  BY Contents DEF Init, Loaded, Rows
<1> QED BY <1>1 DEF Init, Register!Init

\* Steps that leave the flash alone.
LEMMA OutsideRefines ==
    ASSUME IInv,
           (\E f \in Fields, v \in Values : StartSet(f, v)) \/ Open \/ OpenFails
             \/ Write \/ Return \/ Close
    PROVE  [Register!Next]_(Register!vars)
<1>1. ASSUME NEW f \in Fields, NEW v \in Values, StartSet(f, v)
      PROVE  Register!StartUpdate
  <2>1. Loaded(flash) \in Record
    BY LoadedRecord DEF IInv, TypeOK
  <2> QED BY <1>1, <2>1 DEF StartSet, Register!StartUpdate
<1>2. CASE Open \/ Write \/ Return
  <2>1. UNCHANGED <<flash, modify, config, result>> /\ pc # "idle" /\ pc' # "idle"
    BY <1>2 DEF Open, Write, Return
  <2> QED BY <2>1 DEF Register!vars
<1>3. CASE OpenFails
  BY <1>3 DEF OpenFails, Leave, Register!Abort, Register!Next
<1>4. CASE Close
  <2>1. CASE error
    BY <1>4, <2>1 DEF Close, Leave, Register!Abort, Register!Next
  <2>2. CASE ~error
    <3>1. flash = modify /\ Loaded(flash) = modify
      BY <1>4, <2>2, LoadedStored DEF Close, IInv, TypeOK, SuccessStored
    <3> QED BY <1>4, <2>2, <3>1 DEF Close, Leave, Register!Commit, Register!Next
  <2> QED BY <2>1, <2>2
<1> QED BY <1>1, <1>2, <1>3, <1>4 DEF Register!Next

\* Steps that change the flash: until the store ends the content is anything.
LEMMA InsideRefines ==
    ASSUME IInv, IInv',
           ErasePage \/ EraseFails \/ ProgramRow \/ ProgramFails
    PROVE  Register!Progress
<1>1. Loaded(flash') \in Record
  BY LoadedRecord DEF IInv, TypeOK
<1>2. UNCHANGED <<modify, config, result>> /\ pc # "idle" /\ pc' # "idle"
  BY DEF ErasePage, EraseFails, ProgramRow, ProgramFails
<1> QED BY <1>1, <1>2 DEF Register!Progress

LEMMA RestartRefines ==
    ASSUME IInv, IInv', Restart
    PROVE  Register!Restart
<1>1. Loaded(flash') \in Record
  BY LoadedRecord DEF IInv, TypeOK
<1>2. pc = "idle" => flash' = flash
  BY DEF Restart
<1>3. pc' = "idle" /\ config' = Loaded(flash') /\ UNCHANGED result
  BY DEF Restart, Leave
<1> QED BY <1>1, <1>2, <1>3 DEF Register!Restart

LEMMA NextRefines ==
    IInv /\ IInv' /\ [Next]_vars => [Register!Next]_(Register!vars)
<1> SUFFICES ASSUME IInv, IInv', [Next]_vars
             PROVE  [Register!Next]_(Register!vars)
  OBVIOUS
<1>1. CASE UNCHANGED vars
  BY <1>1 DEF vars, Register!vars
<1>2. CASE ErasePage \/ EraseFails \/ ProgramRow \/ ProgramFails
  BY <1>2, InsideRefines DEF Register!Next
<1>3. CASE Restart
  BY <1>3, RestartRefines DEF Register!Next
<1> QED BY <1>1, <1>2, <1>3, OutsideRefines DEF Next, SetStep

\* What a load returns changes only while a store is in progress; a store that
\* reports success has changed its one field, and the consumers' copy is what
\* the last boot loaded.
THEOREM StoreIsRegister == Spec => ImplementsRegister
BY InitRefines, NextRefines, Invariance, PTL
   DEF Spec, ImplementsRegister, Register!Spec

-----------------------------------------------------------------------------
(* What a store that does not end well can leave                           *)

\* Rows of two records never lie side by side: a step of the flash either destroys
\* rows of the record it finds, or leaves rows of the record being stored and none
\* of any other.  A store cut off at any point, or one whose writes fail and are
\* tried again, leaves the old record damaged or the beginning of the new one.
THEOREM OldAndNewNeverMix ==
    Spec => [][flash' # flash =>
                  \/ \A r \in Rows : flash'[r] \in {flash[r], Erased, Torn}
                  \/ \A r \in Rows : flash'[r] \in {modify[r], Erased, Torn}]_vars
<1> DEFINE Damaged == \A r \in Rows : flash'[r] \in {flash[r], Erased, Torn}
           New     == \A r \in Rows : flash'[r] \in {modify[r], Erased, Torn}
<1>1. ASSUME IInv, Next, flash' # flash PROVE Damaged \/ New
  <2> USE <1>1 DEF IInv, TypeOK
  <2>1. CASE ErasePage
    BY <2>1 DEF ErasePage
  <2>2. CASE EraseFails
    BY <2>2, InterruptedRows DEF EraseFails, RowsOf
  <2>3. CASE Restart
    BY <2>3, InterruptedRows DEF Restart, RowsOf
  <2>4. CASE ProgramFails
    BY <2>4, InterruptedRows DEF ProgramFails
  <2>5. CASE ProgramRow
    <3>1. /\ sent + count \in Nat /\ NextRow = sent + count + 1
          /\ Written(sent + count)
      BY <2>5 DEF ProgramRow, StoreInv, NextRow
    <3>2. \A r \in Rows : flash[r] \in {modify[r], Erased, Torn}
      BY <3>1 DEF Written, Rows
    <3>3. flash' = [flash EXCEPT ![NextRow] = modify[NextRow]]
      BY <2>5, <3>1 DEF ProgramRow
    <3> QED BY <3>2, <3>3
  <2>6. CASE ~(ErasePage \/ EraseFails \/ ProgramRow \/ ProgramFails \/ Restart)
    BY <2>6 DEF Next, SetStep, StartSet, Open, OpenFails, Write, Return, Close
  <2> QED BY <2>1, <2>2, <2>3, <2>4, <2>5, <2>6
<1>2. IInv /\ [Next]_vars => [flash' # flash => Damaged \/ New]_vars
  BY <1>1
<1> QED BY <1>2, Invariance, PTL DEF Spec

\* The store in progress may have changed the flash.
Touched ==
    \/ pc \in {"erase", "program", "return", "close"}
    \/ (pc = "write" /\ sent > 0)

\* A store is cut off by a reset, or gives up.
CutOff == (Restart /\ Touched) \/ (Close /\ error)

Legible(m) == \A r \in Rows : m[r] # Garbage

LegibleInv ==
    /\ Legible(modify)
    /\ KnownState
    /\ ~Touched => Legible(Loaded(flash))

LEMMA LegibleStep == IInv /\ LegibleInv /\ [Next]_vars /\ [~CutOff]_vars => LegibleInv'
<1> SUFFICES ASSUME IInv, LegibleInv, [Next]_vars, [~CutOff]_vars PROVE LegibleInv'
  OBVIOUS
<1>1. Legible(NewRecord)
  BY Contents DEF Legible, NewRecord
<1>2. ASSUME NEW f \in Fields, NEW v \in Values, StartSet(f, v)
      PROVE  LegibleInv'
  <2>1. Legible(Loaded(flash))
    BY <1>2 DEF LegibleInv, Touched, StartSet
  <2>2. Legible(Edit(Loaded(flash), f, v))
    BY <2>1, Contents DEF Legible, Edit
  <2> QED BY <1>2, <2>1, <2>2 DEF StartSet, LegibleInv, KnownState, Touched, Legible
<1>3. CASE Open \/ Write
  BY <1>3 DEF Open, Write, LegibleInv, KnownState, Touched, Legible
<1>4. CASE OpenFails
  <2>1. Legible(Loaded(flash))
    BY <1>4 DEF OpenFails, LegibleInv, Touched
  <2> QED BY <1>1, <1>4, <2>1 DEF OpenFails, Leave, LegibleInv, KnownState, Touched, Legible
<1>5. CASE ErasePage \/ EraseFails \/ ProgramRow \/ ProgramFails
  <2>1. Touched' /\ UNCHANGED <<modify, config>>
    BY <1>5 DEF ErasePage, EraseFails, ProgramRow, ProgramFails, Touched
  <2> QED BY <2>1 DEF LegibleInv, KnownState, Legible
<1>6. CASE Return
  <2>1. Touched' /\ UNCHANGED <<modify, config>>
    BY <1>6 DEF Return, Touched, IInv, TypeOK, StoreInv
  <2> QED BY <2>1 DEF LegibleInv, KnownState, Legible
\* A store that ends well leaves its record, which is legible.
<1>7. CASE Close
  <2>1. CASE Close /\ error /\ UNCHANGED vars
    BY <2>1 DEF Close, Leave, vars
  <2>2. CASE ~error
    <3>1. flash = modify /\ Loaded(flash) = modify
      BY <1>7, <2>2, LoadedStored DEF Close, IInv, TypeOK, SuccessStored
    <3> QED BY <1>1, <1>7, <3>1 DEF Close, Leave, LegibleInv, KnownState, Touched, Legible
  <2> QED BY <1>7, <2>1, <2>2 DEF CutOff
\* A reset that cuts nothing off finds the flash as the last store left it.
<1>8. CASE Restart
  <2>1. CASE Touched
    <3>1. UNCHANGED vars
      BY <1>8, <2>1 DEF CutOff
    <3> QED BY <1>8, <2>1, <3>1 DEF Restart, Leave, vars, Touched
  <2>2. CASE ~Touched
    <3>1. flash' = flash
      BY <1>8, <2>2 DEF Restart, Touched
    <3>2. Legible(Loaded(flash))
      BY <2>2 DEF LegibleInv
    <3> QED BY <1>1, <1>8, <3>1, <3>2 DEF Restart, Leave, LegibleInv, KnownState,
                                         Touched, Legible
  <2> QED BY <2>1, <2>2
<1>9. CASE UNCHANGED vars
  BY <1>9 DEF vars, LegibleInv, KnownState, Touched, Legible
<1> QED BY <1>2, <1>3, <1>4, <1>5, <1>6, <1>7, <1>8, <1>9 DEF Next, SetStep

\* The consumers read a known configuration, as UserConfig.cpp (57-58) says, after
\* any stores, those whose stream does not open, writes cut short and resets before
\* the erase included, unless one of them was cut off or gave up after its erase had
\* begun.
THEOREM KnownUnlessCutOff == Spec /\ [][~CutOff]_vars => []KnownState
<1>1. Init => LegibleInv
  <2> SUFFICES ASSUME Init PROVE LegibleInv
    OBVIOUS
  <2>1. Legible(NewRecord)
    BY Contents DEF Legible, NewRecord
  <2>2. Loaded(flash) = NewRecord
    BY Contents DEF Init, Loaded, Rows
  <2> QED BY <2>1, <2>2 DEF Init, LegibleInv, KnownState, Legible
<1>2. LegibleInv => KnownState
  BY DEF LegibleInv
<1> QED BY <1>1, <1>2, LegibleStep, Invariance, PTL DEF Spec

-----------------------------------------------------------------------------
(* A store ends                                                            *)

\* How far a store is from its next device write, or from its end.
Stage ==
    CASE pc = "idle"    -> 0
      [] pc = "close"   -> 1
      [] pc = "return"  -> 2
      [] pc = "program" -> 3 + N - count
      [] pc = "erase"   -> 4 + N + Pages - page
      [] pc = "write"   -> 4 + N + Pages
      [] pc = "open"    -> 5 + N + Pages

\* Each step of a store brings it nearer to its end: more rows are written, or fewer
\* steps are left until that is so.  Writes that fail, or write a part, are not tried
\* for ever.
THEOREM StoresAdvance ==
    Spec => [][SetStep => /\ Stage \in Nat
                          /\ \/ sent < sent' /\ sent' <= N
                             \/ Stage' < Stage]_vars
<1> DEFINE Advance == SetStep => /\ Stage \in Nat
                                 /\ \/ sent < sent' /\ sent' <= N
                                    \/ Stage' < Stage
<1>1. ASSUME IInv, IInv', SetStep
      PROVE  /\ Stage \in Nat
             /\ (sent < sent' /\ sent' <= N) \/ Stage' < Stage
  <2> USE <1>1 DEF IInv, TypeOK, Stage
  <2>1. Stage \in Nat
    BY SMT
  <2>2. CASE Open
    BY <2>2 DEF Open
  <2>3. CASE OpenFails \/ Close
    BY <2>3 DEF OpenFails, Close, Leave
  <2>4. CASE Write
    BY <2>4 DEF Write, StoreInv
  <2>5. CASE ErasePage \/ EraseFails
    BY <2>5 DEF ErasePage, EraseFails, StoreInv
  <2>6. CASE ProgramRow \/ ProgramFails
    BY <2>6 DEF ProgramRow, ProgramFails, StoreInv
  <2>7. CASE Return
    BY <2>7 DEF Return, StoreInv
  <2> QED BY <2>1, <2>2, <2>3, <2>4, <2>5, <2>6, <2>7 DEF SetStep
<1>2. IInv /\ IInv' /\ [Next]_vars => [Advance]_vars
  BY <1>1
<1> QED BY <1>2, Invariance, PTL DEF Spec
=============================================================================

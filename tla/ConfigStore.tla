---------------------------- MODULE ConfigStore -----------------------------
(***************************************************************************)
(* The configuration record in flash: UserConfig.cpp on top of stdio, the  *)
(* storage device (dvStorage.c) and the flash driver of the HAL.           *)
(*                                                                         *)
(* The record is a sequence of rows (the double words that are programmed  *)
(* at once).  Row 1 holds tableSize and tableVersion, every other row some *)
(* bytes of one field.  One task stores (the command interface), so nobody *)
(* interferes with a load or a store but a reset or a power loss.  The     *)
(* lock and the error flags of the flash controller are opened and closed  *)
(* within each device write and stay implicit.                             *)
(***************************************************************************)
EXTENDS Naturals

CONSTANTS
    N,         \* rows of the record
    Fields,
    FieldOf,   \* the field each row belongs to
    Values,    \* what a caller may store in a field
    Pages,     \* flash pages, erased from 1 to Pages
    PageOf,    \* the page each row is in
    ChunkEnd,  \* stdio: where the device write that starts after a row ends
    Header,    \* tableSize and tableVersion of this firmware
    Zero, Garbage, Erased, Torn

Rows   == 1..N
Data   == Values \cup {Zero, Garbage}
Record == {m \in [Rows -> Data \cup {Header}] : m[1] = Header}

ASSUME StoreAssumption ==
    /\ N \in Nat \ {0}
    /\ Pages \in Nat \ {0}
    /\ FieldOf \in [2..N -> Fields]
    /\ PageOf \in [Rows -> 1..Pages]
    /\ ChunkEnd \in [0..(N - 1) -> Rows]
    /\ \A s \in 0..(N - 1) : ChunkEnd[s] > s
    /\ {Header, Erased, Torn} \cap Data = {}
    /\ Garbage \notin Values \cup {Zero}
    /\ Header \notin {Erased, Torn} /\ Erased # Torn

VARIABLES
    flash,              \* the rows as they are in flash
    positionIndicator,  \* of the device, in rows
    pc,                 \* where the store is
    modify,             \* the record being stored
    sent,               \* rows the device has reported as written to stdio
    page,               \* the page to erase next
    count,              \* rows programmed in this device write
    error,              \* ferror
    result,             \* what the last store returned
    config              \* the copy in RAM the consumers read

vars == <<flash, positionIndicator, pc, modify, sent, page, count, error, result,
          config>>
-----------------------------------------------------------------------------
\* storage_read_r: an erased or half programmed row reads as some bytes.
Read(rows) ==
    [r \in Rows |-> IF rows[r] \in {Erased, Torn} THEN Garbage ELSE rows[r]]

\* GetConfig: a record with the header of this firmware is taken as it is; in
\* place of any other all fields are zero.
NewRecord == [r \in Rows |-> IF r = 1 THEN Header ELSE Zero]

Loaded(rows) == IF rows[1] = Header THEN Read(rows) ELSE NewRecord

Edit(m, f, v) == [r \in Rows |-> IF r > 1 /\ FieldOf[r] = f THEN v ELSE m[r]]

\* The flash after a write to some rows was cut off.
Interrupted(rows) ==
    {[r \in Rows |-> IF r \in torn THEN Torn ELSE flash[r]] : torn \in SUBSET rows}

RowsOf(k) == {r \in Rows : PageOf[r] = k}
NextRow   == positionIndicator + count + 1

\* A chip that was never used, and the load of the constructor at boot.
Init ==
    /\ flash = [r \in Rows |-> Erased]
    /\ positionIndicator = N
    /\ pc = "idle"
    /\ modify = NewRecord
    /\ sent = 0
    /\ page = 1
    /\ count = 0
    /\ error = FALSE
    /\ result = FALSE
    /\ config = NewRecord

\* The store is over and its locals are gone.
Leave ==
    /\ pc' = "idle"
    /\ modify' = NewRecord
    /\ sent' = 0
    /\ page' = 1
    /\ count' = 0
    /\ error' = FALSE

-----------------------------------------------------------------------------
(* SetCloudKey ... SetWifiSsid, SetConfig and the device write             *)

\* GetConfig, then one field of the record is replaced.
StartSet(f, v) ==
    /\ pc = "idle"
    /\ pc' = "open"
    /\ positionIndicator' = N
    /\ modify' = Edit(Loaded(flash), f, v)
    /\ UNCHANGED <<flash, sent, page, count, error, result, config>>

\* fopen, which rewinds the device.
Open ==
    /\ pc = "open"
    /\ pc' = "write"
    /\ positionIndicator' = 0
    /\ sent' = 0
    /\ error' = FALSE
    /\ UNCHANGED <<flash, modify, page, count, result, config>>

\* No memory for the stream: SetConfig returns false.
OpenFails ==
    /\ pc = "open"
    /\ result' = FALSE
    /\ Leave
    /\ UNCHANGED <<flash, positionIndicator, config>>

\* Mutant: the old record is not erased.
WriteWithoutErase ==
    /\ pc = "write"
    /\ pc' = "program"
    /\ page' = 1
    /\ count' = 0
    /\ UNCHANGED <<flash, positionIndicator, modify, sent, error, result, config>>

\* storage_write_r: the first write erases.
Write ==
    /\ pc = "write"
    /\ pc' = IF positionIndicator = 0 THEN "erase" ELSE "program"
    /\ page' = 1
    /\ count' = 0
    /\ UNCHANGED <<flash, positionIndicator, modify, sent, error, result, config>>

\* Mutant: one page too many is erased.
EraseOneMore ==
    /\ pc = "erase"
    /\ flash' = [r \in Rows |-> IF PageOf[r] = page THEN Erased ELSE flash[r]]
    /\ page' = page + 1
    /\ pc' = IF page > Pages THEN "program" ELSE "erase"
    /\ UNCHANGED <<positionIndicator, modify, sent, count, error, result, config>>

ErasePage ==
    /\ pc = "erase"
    /\ flash' = [r \in Rows |-> IF PageOf[r] = page THEN Erased ELSE flash[r]]
    /\ page' = page + 1
    /\ pc' = IF page = Pages THEN "program" ELSE "erase"
    /\ UNCHANGED <<positionIndicator, modify, sent, count, error, result, config>>

\* EIO: stdio gives up.
EraseFails ==
    /\ pc = "erase"
    /\ flash' \in Interrupted(RowsOf(page))
    /\ pc' = "close"
    /\ error' = TRUE
    /\ UNCHANGED <<positionIndicator, modify, sent, page, count, result, config>>

\* WriteAllStorage, one turn of its loop: the row must be erased.
ProgramRow ==
    /\ pc = "program"
    /\ NextRow \in Rows
    /\ flash[NextRow] = Erased
    /\ flash' = [flash EXCEPT ![NextRow] = modify[sent + count + 1]]
    /\ count' = count + 1
    /\ pc' = IF sent + count + 1 = ChunkEnd[sent] THEN "return" ELSE "program"
    /\ UNCHANGED <<positionIndicator, modify, sent, page, error, result, config>>

\* The driver reports an error, or the storage is full: the loop ends.
ProgramFails ==
    /\ pc = "program"
    /\ pc' = "return"
    /\ flash' \in IF NextRow \in Rows /\ flash[NextRow] = Erased
                    THEN Interrupted({NextRow}) ELSE {flash}
    /\ UNCHANGED <<positionIndicator, modify, sent, page, count, error, result, config>>

\* Mutants: the position is left at the start of the chunk; a write of nothing
\* is not an error, so that stdio tries again.
ReturnWithoutAdvance ==
    /\ pc = "return"
    /\ sent' = sent + count
    /\ error' = (count = 0)
    /\ pc' = IF count = 0 \/ sent + count = N THEN "close" ELSE "write"
    /\ UNCHANGED <<flash, positionIndicator, modify, page, count, result, config>>

ReturnNothingWritten ==
    /\ pc = "return"
    /\ positionIndicator' = positionIndicator + count
    /\ sent' = sent + count
    /\ pc' = IF sent + count = N THEN "close" ELSE "write"
    /\ UNCHANGED <<flash, modify, page, count, error, result, config>>

\* The end of storage_write_r.  After a short write stdio writes the rest in
\* another call, after one of nothing (ENOSPC) it gives up.
Return ==
    /\ pc = "return"
    /\ positionIndicator' = positionIndicator + count
    /\ sent' = sent + count
    /\ error' = (count = 0)
    /\ pc' = IF count = 0 \/ sent + count = N THEN "close" ELSE "write"
    /\ UNCHANGED <<flash, modify, page, count, result, config>>

\* Mutant: the stream's error is not looked at.
CloseUnchecked ==
    /\ pc = "close"
    /\ result' = TRUE
    /\ Leave
    /\ UNCHANGED <<flash, positionIndicator, config>>

\* ferror and fclose.
Close ==
    /\ pc = "close"
    /\ result' = ~error
    /\ Leave
    /\ UNCHANGED <<flash, positionIndicator, config>>

SetStep ==
    \/ Open
    \/ OpenFails
    \/ Write
    \/ ErasePage
    \/ EraseFails
    \/ ProgramRow
    \/ ProgramFails
    \/ Return
    \/ Close

\* A reset or a power loss at any moment, and the next boot.  The row or page
\* the controller was working on is left in any state.
Restart ==
    /\ flash' \in CASE pc = "erase"   -> Interrupted(RowsOf(page))
                    [] pc = "program" -> Interrupted({NextRow} \cap Rows)
                    [] OTHER          -> {flash}
    /\ positionIndicator' = N
    /\ config' = Loaded(flash')
    /\ Leave
    /\ UNCHANGED result

Next ==
    \/ \E f \in Fields, v \in Values : StartSet(f, v)
    \/ SetStep
    \/ Restart

Spec     == Init /\ [][Next]_vars
FairSpec == Spec /\ WF_vars(SetStep)

-----------------------------------------------------------------------------
(* Properties                                                              *)

\* The type of every variable.
TypeOK ==
    /\ flash \in [Rows -> Data \cup {Header, Erased, Torn}]
    /\ positionIndicator \in 0..N
    /\ pc \in {"idle", "open", "write", "erase", "program", "return", "close"}
    /\ modify \in Record
    /\ sent \in 0..N
    /\ page \in 1..(Pages + 1)
    /\ count \in 0..N
    /\ error \in BOOLEAN
    /\ result \in BOOLEAN
    /\ config \in Record

\* "once a value is written to a row, the ECC is set and the contents of the
\* row cannot be changed" (dvStorage.c, lines 185-186): a row that holds data
\* is never programmed again, however the record is cut into device writes.
NoOverwrite ==
    pc = "program" /\ NextRow \in Rows => flash[NextRow] \in {Erased, Torn}

\* A store that is about to report success has left its whole record, each row
\* in its place, whatever failed and was tried again on the way.
SuccessStored == pc = "close" /\ ~error => flash = modify

\* The store is a register (see ConfigRegister): what a load would return
\* changes only while a store is in progress, a successful store changes the
\* one field it was called for, and consumers see it from the next boot on.
Register == INSTANCE ConfigRegister WITH
    Contents <- Record,
    Fresh    <- NewRecord,
    Edits    <- [m \in Record |-> {Edit(m, f, v) : f \in Fields, v \in Values}],
    content  <- Loaded(flash),
    pending  <- IF pc = "idle" THEN {} ELSE {modify},
    loaded   <- config

ImplementsRegister == Register!Spec

\* Every store returns, also when the flash fails or is full.
SetReturns == (pc # "idle") ~> (pc = "idle")

\* "Reads one full object worth of configuration parameters from storage, if
\* invalid, initializes to known state" (UserConfig.cpp, lines 57-58).
KnownState == \A r \in Rows : config[r] # Garbage

-----------------------------------------------------------------------------
(* The inductive invariant behind NoOverwrite, SuccessStored and the       *)
(* refinement                                                              *)

\* The first n rows are those of the new record, the others are erased but
\* for the first of them, which a failure may have damaged.
Written(n) ==
    /\ \A r \in 1..n : flash[r] = modify[r]
    /\ \A r \in (n + 1)..N : flash[r] = Erased \/ (r = n + 1 /\ flash[r] = Torn)

\* Stdio and the device agree on how far the record has been written.
StoreInv ==
    /\ pc \in {"write", "erase", "program", "return"} =>
          sent < N /\ positionIndicator = sent
    /\ pc = "write" /\ sent > 0 => Written(sent)
    /\ pc = "erase" =>
          /\ sent = 0 /\ count = 0 /\ page <= Pages
          /\ \A r \in Rows : PageOf[r] < page => flash[r] = Erased
    /\ pc = "program" => sent + count < ChunkEnd[sent] /\ Written(sent + count)
    /\ pc = "return" => sent + count <= ChunkEnd[sent] /\ Written(sent + count)

IInv ==
    /\ TypeOK
    /\ StoreInv
    /\ SuccessStored
=============================================================================

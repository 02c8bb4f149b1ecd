-------------------------- MODULE FileTableProofs --------------------------
(***************************************************************************)
(* Proofs about FileTable and FileTableHistory, for any names, contents,   *)
(* table size and pool sizes.                                              *)
(***************************************************************************)
EXTENDS FileTableHistory, TLAPS

USE NamesAssumption, ContentsAssumption, NoFileAssumption, SizesAssumption
    DEF NamesAssumption, ContentsAssumption, NoFileAssumption, SizesAssumption

-----------------------------------------------------------------------------
(* Types *)

\* What TypeOK says of the table.
TableTyped ==
    /\ fileName \in [Entries -> Names \union {NoName}]
    /\ fileData \in [Entries -> Locs \union {NoFile}]
    /\ FILE_COUNT \in 0 .. MAX_FILES

\* Only slots below the fill mark of their pool are referenced.
Below(loc, wnext, dnext) ==
    \/ \E s \in WSlots : loc = <<"write", s>> /\ s < wnext
    \/ \E s \in DSlots : loc = <<"disk", s>> /\ s < dnext

Allocated(loc) == Below(loc, WRITE_POOL_NEXT, FILE_BUF_NEXT)

Refs == /\ \A i \in Entries : fileName[i] # NoName => Allocated(fileData[i])
        /\ \A r \in held : Allocated(r[1])

\* The inductive invariant behind HeldBytesStable: references stay below the
\* fill marks, and the pools are only written above them.
FInv == TypeOK /\ Refs /\ HeldBytesStable

\* remove_file keeps the table's type.
LEMMA RemovedTyped ==
    ASSUME TypeOK, NEW n \in Names
    PROVE  /\ Removed(n).names \in [Entries -> Names \union {NoName}]
           /\ Removed(n).data \in [Entries -> Locs \union {NoFile}]
           /\ \A i \in Entries :
                \/ Removed(n).names[i] = fileName[i] /\ Removed(n).data[i] = fileData[i]
                \/ fileName[i] = n /\ Removed(n).names[i] = NoName
  BY DEF Removed, TypeOK, IsFirstMatch, Matches

\* register_file keeps the table's type, whatever typed table it is given.
LEMMA RegisterTyped ==
    ASSUME TypeOK, NEW table, NEW n \in Names, NEW loc \in Locs,
           table.names \in [Entries -> Names \union {NoName}],
           table.data \in [Entries -> Locs \union {NoFile}],
           Register(table, n, loc)
    PROVE  TableTyped'
  <1>1. CASE FILE_COUNT < MAX_FILES
    <2>1. FILE_COUNT \in Entries /\ FILE_COUNT + 1 \in 0 .. MAX_FILES
      BY <1>1 DEF TypeOK, Entries
    <2>. QED
      BY <1>1, <2>1 DEF Register, RegisterAt, TableTyped
  <1>2. CASE ~(FILE_COUNT < MAX_FILES)
    BY <1>2 DEF Register, TypeOK, TableTyped
  <1>. QED
    BY <1>1, <1>2

\* A slot of the write pool that alloc_write_buf may return.
LEMMA AllocTyped ==
    ASSUME TypeOK, NEW c \in Contents, CanAlloc(c)
    PROVE  /\ AllocSlot \in WSlots
           /\ <<"write", AllocSlot>> \in Locs
           /\ Alloc(c) => /\ WRITE_POOL' \in [WSlots -> Contents]
                          /\ WRITE_POOL_NEXT' \in 0 .. WRITE_SLOTS
  <1>1. AllocSlot \in WSlots /\ WRITE_POOL_NEXT + 1 \in 0 .. WRITE_SLOTS
    BY DEF TypeOK, CanAlloc, AllocSlot, WSlots
  <1>2. <<"write", AllocSlot>> \in Locs
    BY <1>1 DEF Locs
  <1>3. ASSUME Alloc(c)
        PROVE  WRITE_POOL' \in [WSlots -> Contents] /\ WRITE_POOL_NEXT' \in 0 .. WRITE_SLOTS
    BY <1>1, <1>3 DEF TypeOK, Alloc
  <1>. QED
    BY <1>1, <1>2, <1>3

\* alloc_write_buf followed by register_file keeps the types.
LEMMA AllocAndRegisterTyped ==
    ASSUME TypeOK, NEW n \in Names, NEW c \in Contents, AllocAndRegister(Table, n, c)
    PROVE  /\ TableTyped'
           /\ WRITE_POOL' \in [WSlots -> Contents]
           /\ WRITE_POOL_NEXT' \in 0 .. WRITE_SLOTS
  <1>1. CASE CanAlloc(c)
    <2>1. Alloc(c) /\ Register(Table, n, <<"write", AllocSlot>>)
      BY <1>1 DEF AllocAndRegister
    <2>2. /\ Table.names \in [Entries -> Names \union {NoName}]
          /\ Table.data \in [Entries -> Locs \union {NoFile}]
      BY DEF Table, TypeOK
    <2>. QED
      BY <1>1, <2>1, <2>2, AllocTyped, RegisterTyped
  <1>2. CASE ~CanAlloc(c)
    BY <1>2 DEF AllocAndRegister, TypeOK, TableTyped, tableVars, poolVars
  <1>. QED
    BY <1>1, <1>2

\* A write to the volume keeps the volume's type.
LEMMA FatWriteTyped ==
    ASSUME TypeOK, NEW n \in Names, NEW c \in Contents, NEW ok, FatWrite(n, c, ok)
    PROVE  fat' \in [Names -> Contents \union {NoFile}]
  BY DEF TypeOK, FatWrite

\* What a slice reads as is a content.
LEMMA BytesTyped ==
    ASSUME TypeOK, NEW loc \in Locs
    PROVE  Bytes(loc) \in Contents
  <1>1. CASE loc \in {"write"} \X WSlots
    BY <1>1 DEF TypeOK, Bytes
  <1>2. CASE loc \in {"disk"} \X DSlots
    BY <1>2 DEF TypeOK, Bytes
  <1>. QED
    BY <1>1, <1>2 DEF Locs

LEMMA InitTyped == Init => TypeOK
  BY DEF Init, TypeOK, Entries, WSlots, DSlots

LEMMA StepTyped == TypeOK /\ Refs /\ [Next]_vars => TypeOK'
  <1> SUFFICES ASSUME TypeOK, Refs, [Next]_vars PROVE TypeOK'
    OBVIOUS
  <1> USE DEF tableVars, poolVars, bufVars
  <1>1. ASSUME NEW n \in Names, BootLoad(n) PROVE TypeOK'
    <2>1. CASE UNCHANGED <<tableVars, bufVars>>
      BY <1>1, <2>1 DEF BootLoad, TypeOK
    <2>2. CASE ~UNCHANGED <<tableVars, bufVars>>
      <3>1. /\ FILE_BUF_NEXT < DISK_CAP
            /\ FILE_BUF' = [FILE_BUF EXCEPT ![FILE_BUF_NEXT] = fat[n]]
            /\ FILE_BUF_NEXT' = FILE_BUF_NEXT + 1
            /\ Register(Table, n, <<"disk", FILE_BUF_NEXT>>)
        BY <1>1, <2>2 DEF BootLoad
      <3>2. fat[n] \in Contents
        BY <1>1, <2>2 DEF BootLoad, TypeOK
      <3>3. FILE_BUF_NEXT \in DSlots /\ FILE_BUF_NEXT + 1 \in 0 .. DISK_CAP
        BY <3>1 DEF TypeOK, DSlots
      <3>4. <<"disk", FILE_BUF_NEXT>> \in Locs
        BY <3>3 DEF Locs
      <3>5. /\ Table.names \in [Entries -> Names \union {NoName}]
            /\ Table.data \in [Entries -> Locs \union {NoFile}]
        BY DEF Table, TypeOK
      <3>6. TableTyped'
        BY <3>1, <3>4, <3>5, RegisterTyped
      <3>7. FILE_BUF' \in [DSlots -> Contents] /\ FILE_BUF_NEXT' \in 0 .. DISK_CAP
        BY <3>1, <3>2, <3>3 DEF TypeOK
      <3>. QED
        BY <1>1, <3>6, <3>7 DEF BootLoad, TypeOK, TableTyped
    <2>. QED
      BY <2>1, <2>2
  <1>2. ASSUME NEW n \in Names, NEW c \in Contents, NEW ok \in BOOLEAN, CmdWrite(n, c, ok)
        PROVE  TypeOK'
    <2>1. fat' \in [Names -> Contents \union {NoFile}]
      BY <1>2, FatWriteTyped DEF CmdWrite
    <2>2. CASE ok
      BY <1>2, <2>1, <2>2, AllocAndRegisterTyped DEF CmdWrite, TypeOK, TableTyped
    <2>3. CASE ~ok
      BY <1>2, <2>1, <2>3 DEF CmdWrite, TypeOK
    <2>. QED
      BY <2>2, <2>3
  <1>3. ASSUME NEW n \in Names, NEW c \in Contents, NEW ok \in BOOLEAN, CmdEdit(n, c, ok)
        PROVE  TypeOK'
    <2>1. fat' \in [Names -> Contents \union {NoFile}]
      BY <1>3, FatWriteTyped DEF CmdEdit
    <2>. QED
      BY <1>3, <2>1, AllocAndRegisterTyped DEF CmdEdit, TypeOK, TableTyped
  <1>4. ASSUME NEW n \in Names, NEW c \in Contents, NEW ok \in BOOLEAN,
               NEW inRoot \in BOOLEAN, CmdAsm(n, c, ok, inRoot)
        PROVE  TypeOK'
    <2>1. fat' \in [Names -> Contents \union {NoFile}]
      BY <1>4, FatWriteTyped DEF CmdAsm, TypeOK
    <2>. QED
      BY <1>4, <2>1, AllocAndRegisterTyped DEF CmdAsm, TypeOK, TableTyped
  <1>5. ASSUME NEW n \in Names, NEW ok \in BOOLEAN, CmdRm(n, ok) PROVE TypeOK'
    BY <1>5, RemovedTyped DEF CmdRm, TypeOK
  <1>6. ASSUME NEW n \in Names, NEW c \in Contents, NEW ok \in BOOLEAN, HostFsWrite(n, c, ok)
        PROVE  TypeOK'
    <2>1. CASE CanAlloc(c)
      <3>1. Alloc(c) /\ Register(Removed(n), n, <<"write", AllocSlot>>) /\ FatWrite(n, c, ok)
        BY <1>6, <2>1 DEF HostFsWrite
      <3>2. TableTyped'
        BY <2>1, <3>1, RemovedTyped, AllocTyped, RegisterTyped
      <3>. QED
        BY <1>6, <2>1, <3>1, <3>2, AllocTyped, FatWriteTyped DEF HostFsWrite, TypeOK, TableTyped
    <2>2. CASE ~CanAlloc(c)
      BY <1>6, <2>2 DEF HostFsWrite, TypeOK
    <2>. QED
      BY <2>1, <2>2
  <1>7. ASSUME NEW n \in Names, Take(n) PROVE TypeOK'
    <2>1. PICK i \in Matches(n) :
             held' = held \union {<<fileData[i], Bytes(fileData[i])>>}
      BY <1>7 DEF Take
    <2>2. fileData[i] \in Locs
      BY <1>7, <2>1 DEF Matches, Refs, Allocated, Below, Locs
    <2>. QED
      BY <1>7, <2>1, <2>2, BytesTyped DEF Take, TypeOK
  <1>8. ASSUME NEW r \in held, Release(r) PROVE TypeOK'
    BY <1>8 DEF Release, TypeOK
  <1>9. ASSUME NEW ok \in BOOLEAN, SaveStep(ok) PROVE TypeOK'
    <2>1. saveIdx \in Entries /\ saveIdx + 1 \in 0 .. MAX_FILES
      BY <1>9 DEF SaveStep, TypeOK, Entries
    <2>2. CASE fileName[saveIdx] = NoName
      BY <1>9, <2>1, <2>2 DEF SaveStep, TypeOK
    <2>3. CASE fileName[saveIdx] # NoName
      <3>1. fileData[saveIdx] \in Locs /\ fileName[saveIdx] \in Names
        BY <2>1, <2>3 DEF Refs, Allocated, Below, Locs, TypeOK
      <3>2. fat' \in [Names -> Contents \union {NoFile}]
        BY <1>9, <2>3, <3>1, BytesTyped, FatWriteTyped DEF SaveStep
      <3>. QED
        BY <1>9, <2>1, <3>2 DEF SaveStep, TypeOK
    <2>. QED
      BY <2>2, <2>3
  <1>10. CASE BootDone \/ SaveBegin \/ SaveEnd
    BY <1>10 DEF BootDone, SaveBegin, SaveEnd, TypeOK
  <1>11. CASE Reboot
    BY <1>11 DEF Reboot, TypeOK, Entries, WSlots, DSlots
  <1>12. CASE UNCHANGED vars
    BY <1>12 DEF vars, TypeOK
  <1>. QED
    BY <1>1, <1>2, <1>3, <1>4, <1>5, <1>6, <1>7, <1>8, <1>9, <1>10, <1>11, <1>12 DEF Next, Step

-----------------------------------------------------------------------------
(* Slices handed out stay valid *)

\* The pools keep what is below their fill marks.
PoolsKept ==
    /\ WRITE_POOL_NEXT' >= WRITE_POOL_NEXT
    /\ FILE_BUF_NEXT' >= FILE_BUF_NEXT
    /\ \A s \in WSlots : s < WRITE_POOL_NEXT => WRITE_POOL'[s] = WRITE_POOL[s]
    /\ \A s \in DSlots : s < FILE_BUF_NEXT => FILE_BUF'[s] = FILE_BUF[s]

\* Then a slice that was handed out is still handed out and reads the same.
LEMMA KeptBytes ==
    ASSUME TypeOK, PoolsKept, NEW loc, Allocated(loc), TypeOK'
    PROVE  Allocated(loc)' /\ Bytes(loc)' = Bytes(loc)
  <1>1. CASE \E s \in WSlots : loc = <<"write", s>> /\ s < WRITE_POOL_NEXT
    <2>1. PICK s \in WSlots : loc = <<"write", s>> /\ s < WRITE_POOL_NEXT
      BY <1>1
    <2>2. s < WRITE_POOL_NEXT'
      BY <2>1 DEF TypeOK, PoolsKept, WSlots
    <2>. QED
      BY <2>1, <2>2 DEF PoolsKept, Allocated, Below, Bytes
  <1>2. CASE \E s \in DSlots : loc = <<"disk", s>> /\ s < FILE_BUF_NEXT
    <2>1. PICK s \in DSlots : loc = <<"disk", s>> /\ s < FILE_BUF_NEXT
      BY <1>2
    <2>2. s < FILE_BUF_NEXT'
      BY <2>1 DEF TypeOK, PoolsKept, DSlots
    <2>. QED
      BY <2>1, <2>2 DEF PoolsKept, Allocated, Below, Bytes
  <1>. QED
    BY <1>1, <1>2 DEF Allocated, Below

\* Every step but a reboot keeps what the pools hold.
LEMMA StepKeepsPools ==
    ASSUME TypeOK, [Step]_vars
    PROVE  PoolsKept
  <1> USE DEF tableVars, poolVars, bufVars
  <1>1. UNCHANGED poolVars \/ \E c \in Contents : Alloc(c)
    BY ZenonT(30) DEF Step, vars, BootLoad, Take, CmdRm, CmdWrite, CmdEdit, HostFsWrite, CmdAsm,
           SaveStep, Release, BootDone, SaveBegin, SaveEnd, AllocAndRegister
  <1>2. UNCHANGED bufVars \/ \E c : /\ FILE_BUF' = [FILE_BUF EXCEPT ![FILE_BUF_NEXT] = c]
                                    /\ FILE_BUF_NEXT' = FILE_BUF_NEXT + 1
    BY DEF Step, vars, BootLoad, Take, CmdRm, CmdWrite, CmdEdit, HostFsWrite, CmdAsm,
           SaveStep, Release, BootDone, SaveBegin, SaveEnd
  <1>3. /\ WRITE_POOL_NEXT' >= WRITE_POOL_NEXT
        /\ \A s \in WSlots : s < WRITE_POOL_NEXT => WRITE_POOL'[s] = WRITE_POOL[s]
    BY <1>1 DEF Alloc, AllocSlot, TypeOK, WSlots
  <1>4. /\ FILE_BUF_NEXT' >= FILE_BUF_NEXT
        /\ \A s \in DSlots : s < FILE_BUF_NEXT => FILE_BUF'[s] = FILE_BUF[s]
    BY <1>2 DEF TypeOK, DSlots
  <1>. QED
    BY <1>3, <1>4 DEF PoolsKept

\* register_file keeps the entries of the table it is given, or adds one.
LEMMA RegisterEntries ==
    ASSUME TypeOK, NEW table, NEW n \in Names, NEW loc,
           table.names \in [Entries -> Names \union {NoName}],
           table.data \in [Entries -> Locs \union {NoFile}],
           Register(table, n, loc), NEW i \in Entries
    PROVE  \/ fileName'[i] = table.names[i] /\ fileData'[i] = table.data[i]
           \/ i = FILE_COUNT /\ fileName'[i] = n /\ fileData'[i] = loc
  BY DEF Register, RegisterAt, TypeOK, Entries

\* An entry of the table after a step is an old one, or refers to an allocated slot.
LEMMA StepEntries ==
    ASSUME TypeOK, [Step]_vars, NEW i \in Entries, fileName'[i] # NoName
    PROVE  \/ fileName'[i] = fileName[i] /\ fileData'[i] = fileData[i]
           \/ Below(fileData'[i], WRITE_POOL_NEXT', FILE_BUF_NEXT')
  <1> USE DEF tableVars, poolVars, bufVars
  <1> DEFINE Goal == \/ fileName'[i] = fileName[i] /\ fileData'[i] = fileData[i]
                     \/ Below(fileData'[i], WRITE_POOL_NEXT', FILE_BUF_NEXT')
  <1>1. /\ Table.names \in [Entries -> Names \union {NoName}]
        /\ Table.data \in [Entries -> Locs \union {NoFile}]
        /\ Table.names = fileName /\ Table.data = fileData
    BY DEF Table, TypeOK
  <1>2. ASSUME NEW c \in Contents, CanAlloc(c), Alloc(c)
        PROVE  Below(<<"write", AllocSlot>>, WRITE_POOL_NEXT', FILE_BUF_NEXT')
    <2>1. AllocSlot \in WSlots /\ AllocSlot < WRITE_POOL_NEXT'
      BY <1>2 DEF CanAlloc, Alloc, AllocSlot, TypeOK, WSlots
    <2>. QED
      BY <2>1 DEF Below
  <1>3. ASSUME NEW n \in Names, NEW c \in Contents, AllocAndRegister(Table, n, c)
        PROVE  Goal
    <2>1. CASE CanAlloc(c)
      <3>1. Alloc(c) /\ Register(Table, n, <<"write", AllocSlot>>)
        BY <1>3, <2>1 DEF AllocAndRegister
      <3>2. \/ fileName'[i] = Table.names[i] /\ fileData'[i] = Table.data[i]
            \/ fileData'[i] = <<"write", AllocSlot>>
        <4>1. PICK loc, table : loc = <<"write", AllocSlot>> /\ table = Table
          OBVIOUS
        <4>2. /\ Register(table, n, loc)
              /\ table.names \in [Entries -> Names \union {NoName}]
              /\ table.data \in [Entries -> Locs \union {NoFile}]
          BY <1>1, <3>1, <4>1
        <4>3. \/ fileName'[i] = table.names[i] /\ fileData'[i] = table.data[i]
              \/ fileData'[i] = loc
          BY <1>3, <4>2, RegisterEntries, SMTT(30)
        <4>. QED
          BY <4>1, <4>3
      <3>3. Below(<<"write", AllocSlot>>, WRITE_POOL_NEXT', FILE_BUF_NEXT')
        BY <1>2, <1>3, <2>1, <3>1
      <3>. QED
        BY <1>1, <3>2, <3>3
    <2>2. CASE ~CanAlloc(c)
      BY <1>3, <2>2 DEF AllocAndRegister
    <2>. QED
      BY <2>1, <2>2
  <1>4. ASSUME NEW n \in Names, BootLoad(n) PROVE Goal
    <2>1. CASE UNCHANGED <<tableVars, bufVars>>
      BY <2>1
    <2>2. CASE ~UNCHANGED <<tableVars, bufVars>>
      <3>1. /\ FILE_BUF_NEXT < DISK_CAP
            /\ FILE_BUF_NEXT' = FILE_BUF_NEXT + 1
            /\ Register(Table, n, <<"disk", FILE_BUF_NEXT>>)
        BY <1>4, <2>2 DEF BootLoad
      <3>2. FILE_BUF_NEXT \in DSlots /\ FILE_BUF_NEXT < FILE_BUF_NEXT'
        BY <3>1 DEF TypeOK, DSlots
      <3>3. Below(<<"disk", FILE_BUF_NEXT>>, WRITE_POOL_NEXT', FILE_BUF_NEXT')
        BY <3>2 DEF Below
      <3>4. \/ fileName'[i] = Table.names[i] /\ fileData'[i] = Table.data[i]
            \/ fileData'[i] = <<"disk", FILE_BUF_NEXT>>
        <4>1. PICK loc, table : loc = <<"disk", FILE_BUF_NEXT>> /\ table = Table
          OBVIOUS
        <4>2. /\ Register(table, n, loc)
              /\ table.names \in [Entries -> Names \union {NoName}]
              /\ table.data \in [Entries -> Locs \union {NoFile}]
          BY <1>1, <3>1, <4>1
        <4>3. \/ fileName'[i] = table.names[i] /\ fileData'[i] = table.data[i]
              \/ fileData'[i] = loc
          BY <1>4, <4>2, RegisterEntries
        <4>. QED
          BY <4>1, <4>3
      <3>. QED
        BY <1>1, <3>3, <3>4
    <2>. QED
      BY <2>1, <2>2
  <1>5. ASSUME NEW n \in Names, NEW c \in Contents, NEW ok \in BOOLEAN, CmdWrite(n, c, ok)
        PROVE  Goal
    BY <1>3, <1>5 DEF CmdWrite
  <1>6. ASSUME NEW n \in Names, NEW c \in Contents, NEW ok \in BOOLEAN, CmdEdit(n, c, ok)
        PROVE  Goal
    BY <1>3, <1>6 DEF CmdEdit
  <1>7. ASSUME NEW n \in Names, NEW c \in Contents, NEW ok \in BOOLEAN,
               NEW inRoot \in BOOLEAN, CmdAsm(n, c, ok, inRoot)
        PROVE  Goal
    BY <1>3, <1>7 DEF CmdAsm
  <1>8. ASSUME NEW n \in Names, NEW ok \in BOOLEAN, CmdRm(n, ok) PROVE Goal
    BY <1>8, RemovedTyped DEF CmdRm
  <1>9. ASSUME NEW n \in Names, NEW c \in Contents, NEW ok \in BOOLEAN, HostFsWrite(n, c, ok)
        PROVE  Goal
    <2>1. CASE CanAlloc(c)
      <3>1. Alloc(c) /\ Register(Removed(n), n, <<"write", AllocSlot>>)
        BY <1>9, <2>1 DEF HostFsWrite
      <3>2. \/ fileName'[i] = Removed(n).names[i] /\ fileData'[i] = Removed(n).data[i]
            \/ fileData'[i] = <<"write", AllocSlot>>
        <4>1. /\ Removed(n).names \in [Entries -> Names \union {NoName}]
              /\ Removed(n).data \in [Entries -> Locs \union {NoFile}]
          BY <1>9, RemovedTyped
        <4>2. PICK loc, table : loc = <<"write", AllocSlot>> /\ table = Removed(n)
          OBVIOUS
        <4>3. /\ Register(table, n, loc)
              /\ table.names \in [Entries -> Names \union {NoName}]
              /\ table.data \in [Entries -> Locs \union {NoFile}]
          BY <3>1, <4>1, <4>2
        <4>4. \/ fileName'[i] = table.names[i] /\ fileData'[i] = table.data[i]
              \/ fileData'[i] = loc
          BY <1>9, <4>3, RegisterEntries
        <4>. QED
          BY <4>2, <4>4
      <3>3. Below(<<"write", AllocSlot>>, WRITE_POOL_NEXT', FILE_BUF_NEXT')
        BY <1>2, <1>9, <2>1, <3>1
      <3>4. \/ Removed(n).names[i] = fileName[i] /\ Removed(n).data[i] = fileData[i]
            \/ Removed(n).names[i] = NoName
        BY <1>9, RemovedTyped
      <3>. QED
        BY <3>2, <3>3, <3>4
    <2>2. CASE ~CanAlloc(c)
      BY <1>9, <2>2 DEF HostFsWrite
    <2>. QED
      BY <2>1, <2>2
  <1>10. ASSUME UNCHANGED tableVars PROVE Goal
    BY <1>10
  <1>11. ASSUME \/ \E n \in Names : Take(n)
                \/ \E r \in held : Release(r)
                \/ \E ok \in BOOLEAN : SaveStep(ok)
                \/ BootDone \/ SaveBegin \/ SaveEnd
                \/ UNCHANGED vars
         PROVE  UNCHANGED tableVars
    BY <1>11 DEF Take, Release, SaveStep, BootDone, SaveBegin, SaveEnd, vars
  <1>. QED
    BY <1>4, <1>5, <1>6, <1>7, <1>8, <1>9, <1>10, <1>11 DEF Step

LEMMA InitFInv == Init => FInv
  BY InitTyped DEF Init, FInv, Refs, HeldBytesStable

LEMMA StepFInv == FInv /\ [Next]_vars => FInv'
  <1> SUFFICES ASSUME FInv, [Next]_vars PROVE FInv'
    OBVIOUS
  <1>1. TypeOK /\ Refs /\ HeldBytesStable /\ TypeOK'
    BY StepTyped DEF FInv
  <1>2. CASE Reboot
    BY <1>1, <1>2 DEF Reboot, FInv, Refs, HeldBytesStable
  <1>3. CASE [Step]_vars
    <2>1. PoolsKept
      BY <1>1, <1>3, StepKeepsPools
    <2>2. ASSUME NEW loc, Allocated(loc) PROVE Allocated(loc)' /\ Bytes(loc)' = Bytes(loc)
      BY <1>1, <2>1, <2>2, KeptBytes
    <2>3. ASSUME NEW i \in Entries, fileName'[i] # NoName
          PROVE  Below(fileData'[i], WRITE_POOL_NEXT', FILE_BUF_NEXT')
      <3>1. CASE fileName'[i] = fileName[i] /\ fileData'[i] = fileData[i]
        BY <1>1, <2>2, <2>3, <3>1 DEF Refs, Allocated
      <3>. QED
        BY <1>1, <1>3, <2>3, <3>1, StepEntries
    <2>4. ASSUME NEW r \in held'
          PROVE  r \in held \/ \E loc : Allocated(loc) /\ r = <<loc, Bytes(loc)>>
      <3>1. ASSUME NEW n \in Names, Take(n)
            PROVE  r \in held \/ \E loc : Allocated(loc) /\ r = <<loc, Bytes(loc)>>
        <4>1. PICK i \in Matches(n) :
                 held' = held \union {<<fileData[i], Bytes(fileData[i])>>}
          BY <3>1 DEF Take
        <4>2. Allocated(fileData[i])
          BY <1>1, <3>1, <4>1 DEF Matches, Refs
        <4>. QED
          BY <2>4, <4>1, <4>2
      <3>2. CASE \E n \in Names : Take(n)
        BY <3>1, <3>2
      <3>3. CASE ~\E n \in Names : Take(n)
        BY <1>3, <2>4, <3>3
           DEF Step, vars, BootLoad, CmdRm, CmdWrite, CmdEdit, HostFsWrite, CmdAsm,
               SaveStep, Release, BootDone, SaveBegin, SaveEnd
      <3>. QED
        BY <3>2, <3>3
    <2>5. ASSUME NEW r \in held' PROVE Allocated(r[1])' /\ Bytes(r[1])' = r[2]
      <3>1. Allocated(r[1]) /\ Bytes(r[1]) = r[2]
        BY <1>1, <2>4, <2>5 DEF Refs, HeldBytesStable
      <3>. QED
        BY <2>2, <3>1
    <2>. QED
      BY <1>1, <2>3, <2>5 DEF FInv, Refs, HeldBytesStable, Allocated
  <1>. QED
    BY <1>2, <1>3 DEF Next

\* Every variable of the file system keeps its type: in particular the fill marks
\* stay within the table and the pools (register_file, alloc_write_buf).
THEOREM FilesTyped == Spec => []TypeOK
  BY InitFInv, StepFInv, PTL DEF Spec, FInv

\* The bytes an instance executes never change under it, whatever is written,
\* removed or saved meanwhile (find_file's 'static slices).
THEOREM HeldStable == Spec => []HeldBytesStable
  BY InitFInv, StepFInv, PTL DEF Spec, FInv

-----------------------------------------------------------------------------
(* The last entry of a name is the newest *)

LEMMA HistoryRefines == (HStep => Step) /\ (HNext => Next)
  <1>1. HStep => Step
    BY DEF HStep, Step
  <1>. QED
    BY <1>1 DEF HNext, HReboot, Next

HistoryTyped ==
    /\ newest \in [Names -> Contents \union {NoFile}]
    /\ diskOnly \subseteq Names

NewestIsLast(n) ==
    \E i \in Matches(n) : IsLastMatch(n, i) /\ Bytes(fileData[i]) = newest[n]

\* A save in progress has already put the newest contents of the names it is
\* past on the volume.
SaveProgress ==
    pc = "saving" /\ ~saveFailed =>
        \A n \in Names \ diskOnly, i \in Entries :
            newest[n] # NoFile /\ IsLastMatch(n, i) /\ i < saveIdx => fat[n] = newest[n]

HInv == FInv /\ HistoryTyped /\ LastIsNewest /\ SaveProgress

\* The entries of name n are the same after the step.
SameEntries(n) ==
    \A i \in Entries :
        /\ (i < FILE_COUNT' /\ fileName'[i] = n) <=> (i < FILE_COUNT /\ fileName[i] = n)
        /\ i < FILE_COUNT /\ fileName[i] = n => fileData'[i] = fileData[i]

\* Then its newest contents are still in its last entry.
LEMMA KeepNewest ==
    ASSUME FInv, TypeOK', PoolsKept, NEW n \in Names, SameEntries(n),
           newest'[n] = newest[n], NewestIsLast(n)
    PROVE  NewestIsLast(n)'
  <1>1. PICK i \in Matches(n) : IsLastMatch(n, i) /\ Bytes(fileData[i]) = newest[n]
    BY DEF NewestIsLast
  <1>2. i \in Entries /\ i < FILE_COUNT /\ fileName[i] = n
    BY <1>1 DEF Matches
  <1>3. i \in Matches(n)' /\ fileData'[i] = fileData[i]
    BY <1>2 DEF SameEntries, Matches
  <1>4. IsLastMatch(n, i)'
    BY <1>1, <1>2, <1>3 DEF SameEntries, Matches, IsLastMatch
  <1>5. Allocated(fileData[i])
    BY <1>2 DEF FInv, Refs
  <1>6. PICK loc : loc = fileData[i]
    OBVIOUS
  <1>7. Bytes(loc)' = Bytes(loc)
    BY <1>5, <1>6, KeptBytes DEF FInv
  <1>. QED
    BY <1>1, <1>3, <1>4, <1>6, <1>7 DEF NewestIsLast, Bytes

\* register_file, possibly after remove_file of the same name: other names keep
\* their entries, and a new entry is the last of its name.
LEMMA RegisterNewest ==
    ASSUME TypeOK, NEW table, NEW n \in Names, NEW loc,
           table.names \in [Entries -> Names \union {NoName}],
           table.data \in [Entries -> Locs \union {NoFile}],
           \A i \in Entries :
              \/ table.names[i] = fileName[i] /\ table.data[i] = fileData[i]
              \/ fileName[i] = n /\ table.names[i] = NoName,
           Register(table, n, loc)
    PROVE  /\ \A m \in Names \ {n} : SameEntries(m)
           /\ Entered => /\ FILE_COUNT \in Entries
                         /\ fileName'[FILE_COUNT] = n
                         /\ fileData'[FILE_COUNT] = loc
  <1>1. CASE FILE_COUNT < MAX_FILES
    <2>1. FILE_COUNT \in Entries /\ FILE_COUNT' = FILE_COUNT + 1
      BY <1>1 DEF TypeOK, Entries, Register
    <2>2. /\ fileName' = [table.names EXCEPT ![FILE_COUNT] = n]
          /\ fileData' = [table.data EXCEPT ![FILE_COUNT] = loc]
      BY <1>1 DEF Register, RegisterAt
    <2>. QED
      BY <2>1, <2>2 DEF SameEntries, Entries, TypeOK
  <1>2. CASE ~(FILE_COUNT < MAX_FILES)
    <2>1. fileName' = table.names /\ fileData' = table.data /\ FILE_COUNT' = FILE_COUNT
      BY <1>2 DEF Register
    <2>. QED
      BY <2>1 DEF SameEntries, TypeOK, Entered
  <1>. QED
    BY <1>1, <1>2

\* So a step that stores c under n through register_file keeps LastIsNewest.
LEMMA StoredNewest ==
    ASSUME HInv, TypeOK', PoolsKept, NEW n \in Names, NEW c \in Contents, Stored(n, c),
           \A m \in Names \ {n} : SameEntries(m),
           Entered => /\ FILE_COUNT \in Entries
                      /\ fileName'[FILE_COUNT] = n
                      /\ \E loc : fileData'[FILE_COUNT] = loc /\ Bytes(loc)' = c
    PROVE  LastIsNewest' /\ HistoryTyped'
  <1>1. HistoryTyped'
    BY DEF HInv, HistoryTyped, Stored
  <1>2. ASSUME NEW m \in Names \ diskOnly', newest'[m] # NoFile
        PROVE  NewestIsLast(m)'
    <2>1. CASE m # n
      <3>1. m \in Names \ diskOnly /\ newest'[m] = newest[m]
        BY <1>2, <2>1 DEF Stored, HInv, HistoryTyped
      <3>2. NewestIsLast(m)
        BY <1>2, <3>1 DEF HInv, LastIsNewest, NewestIsLast
      <3>. QED
        BY <1>2, <2>1, <3>1, <3>2, KeepNewest DEF HInv
    <2>2. CASE m = n
      <3>1. Entered
        BY <1>2, <2>2 DEF Stored
      <3>2. newest'[n] = c
        BY DEF Stored, HInv, HistoryTyped
      <3>3. PICK loc : fileData'[FILE_COUNT] = loc /\ Bytes(loc)' = c
        BY <3>1
      <3>4. PICK k \in Entries : k = FILE_COUNT /\ k < FILE_COUNT'
        BY <3>1 DEF Entered, HInv, FInv, TypeOK
      <3>5. k \in Matches(n)'
        BY <3>1, <3>4 DEF Matches
      <3>6. \A j \in Matches(n)' : j <= k
        BY <3>1, <3>4 DEF Matches, Entered, Entries, HInv, FInv, TypeOK
      <3>7. IsLastMatch(n, k)'
        BY <3>5, <3>6 DEF IsLastMatch
      <3>8. Bytes(fileData[k])' = newest'[n]
        BY <3>2, <3>3, <3>4 DEF Bytes
      <3>. QED
        BY <2>2, <3>5, <3>7, <3>8 DEF NewestIsLast
    <2>. QED
      BY <2>1, <2>2
  <1>. QED
    BY <1>1, <1>2 DEF LastIsNewest, NewestIsLast

\* A step that leaves the table, the history and the pools alone keeps LastIsNewest.
LEMMA SameNewest ==
    ASSUME HInv, TypeOK', PoolsKept, UNCHANGED tableVars, UNCHANGED <<newest, diskOnly>>
    PROVE  LastIsNewest' /\ HistoryTyped'
  <1>1. HistoryTyped'
    BY DEF HInv, HistoryTyped
  <1>2. ASSUME NEW m \in Names \ diskOnly, newest[m] # NoFile
        PROVE  NewestIsLast(m)'
    <2>1. NewestIsLast(m)
      BY <1>2 DEF HInv, LastIsNewest, NewestIsLast
    <2>2. SameEntries(m)
      BY DEF SameEntries, tableVars
    <2>. QED
      BY <1>2, <2>1, <2>2, KeepNewest DEF HInv
  <1>. QED
    BY <1>1, <1>2 DEF LastIsNewest, NewestIsLast

\* What alloc_write_buf(c) returns reads as c.
LEMMA AllocBytes ==
    ASSUME TypeOK, NEW c \in Contents, CanAlloc(c), Alloc(c)
    PROVE  \A loc : loc = <<"write", AllocSlot>> => Bytes(loc)' = c
  <1>1. AllocSlot \in WSlots
    BY DEF TypeOK, CanAlloc, AllocSlot, WSlots
  <1>. QED
    BY <1>1 DEF Alloc, Bytes, TypeOK

\* write, edit and asm: alloc_write_buf, register_file.
LEMMA AllocAndRegisterNewest ==
    ASSUME HInv, TypeOK', PoolsKept, NEW n \in Names, NEW c \in Contents,
           AllocAndRegister(Table, n, c),
           Stored(n, c) \/ (~CanAlloc(c) /\ Same)
    PROVE  LastIsNewest' /\ HistoryTyped'
  <1>1. TypeOK /\ HistoryTyped
    BY DEF HInv, FInv
  <1>2. CASE CanAlloc(c)
    <2>1. Alloc(c) /\ Register(Table, n, <<"write", AllocSlot>>) /\ Stored(n, c)
      BY <1>2 DEF AllocAndRegister
    <2>2. /\ Table.names \in [Entries -> Names \union {NoName}]
          /\ Table.data \in [Entries -> Locs \union {NoFile}]
          /\ Table.names = fileName /\ Table.data = fileData
      BY <1>1 DEF Table, TypeOK
    <2>3. PICK loc, table : loc = <<"write", AllocSlot>> /\ table = Table
      OBVIOUS
    <2>4. /\ \A m \in Names \ {n} : SameEntries(m)
          /\ Entered => /\ FILE_COUNT \in Entries
                        /\ fileName'[FILE_COUNT] = n
                        /\ fileData'[FILE_COUNT] = loc
      BY <1>1, <2>1, <2>2, <2>3, RegisterNewest DEF AllocSlot
    <2>5. Bytes(loc)' = c
      BY <1>1, <1>2, <2>1, <2>3, AllocBytes
    <2>. QED
      BY <2>1, <2>4, <2>5, StoredNewest
  <1>3. CASE ~CanAlloc(c)
    <2>1. UNCHANGED tableVars /\ FILE_COUNT' = FILE_COUNT
      BY <1>3 DEF AllocAndRegister, tableVars
    <2>2. CASE Stored(n, c)
      <3>1. ~Entered
        BY <1>1, <2>1 DEF Entered, TypeOK
      <3>2. \A m \in Names \ {n} : SameEntries(m)
        BY <2>1 DEF SameEntries, tableVars
      <3>. QED
        BY <2>2, <3>1, <3>2, StoredNewest
    <2>3. CASE Same
      BY <2>1, <2>3, SameNewest DEF Same
    <2>. QED
      BY <1>3, <2>2, <2>3
  <1>. QED
    BY <1>2, <1>3

LEMMA InitHInv == HInit => HInv
  BY InitFInv DEF HInit, HInv, Init, HistoryTyped, LastIsNewest, SaveProgress

LEMMA StepNewest ==
    ASSUME HInv, TypeOK', [HNext]_hvars
    PROVE  LastIsNewest' /\ HistoryTyped'
  <1> DEFINE Goal == LastIsNewest' /\ HistoryTyped'
  <1>1. TypeOK /\ Refs /\ HistoryTyped
    BY DEF HInv, FInv
  <1>2. CASE HReboot
    BY <1>2 DEF HReboot, LastIsNewest, HistoryTyped
  <1>3. CASE [HStep]_hvars
    <2>1. PoolsKept
      BY <1>1, <1>3, HistoryRefines, StepKeepsPools DEF hvars
    <2>2. ASSUME NEW n \in Names, BootLoad(n), IF Entered THEN Stored(n, fat[n]) ELSE Same
          PROVE  Goal
      <3>1. CASE Entered
        <4>1. /\ fat[n] \notin {NoFile, Empty}
              /\ FILE_BUF_NEXT < DISK_CAP
              /\ FILE_BUF' = [FILE_BUF EXCEPT ![FILE_BUF_NEXT] = fat[n]]
              /\ Register(Table, n, <<"disk", FILE_BUF_NEXT>>)
          BY <1>1, <2>2, <3>1 DEF BootLoad, Entered, tableVars, TypeOK
        <4>2. /\ Table.names \in [Entries -> Names \union {NoName}]
              /\ Table.data \in [Entries -> Locs \union {NoFile}]
              /\ Table.names = fileName /\ Table.data = fileData
          BY <1>1 DEF Table, TypeOK
        <4>3. PICK loc, table : loc = <<"disk", FILE_BUF_NEXT>> /\ table = Table
          OBVIOUS
        <4>4. /\ \A m \in Names \ {n} : SameEntries(m)
              /\ FILE_COUNT \in Entries
              /\ fileName'[FILE_COUNT] = n
              /\ fileData'[FILE_COUNT] = loc
          BY <1>1, <2>2, <3>1, <4>1, <4>2, <4>3, RegisterNewest
        <4>5. fat[n] \in Contents /\ FILE_BUF_NEXT \in DSlots
          BY <1>1, <2>2, <4>1 DEF TypeOK, DSlots
        <4>6. Bytes(loc)' = fat[n]
          BY <1>1, <4>1, <4>3, <4>5 DEF Bytes, TypeOK
        <4>. QED
          BY <2>1, <2>2, <3>1, <4>4, <4>5, <4>6, StoredNewest
      <3>2. CASE ~Entered
        <4>1. UNCHANGED tableVars
          BY <1>1, <2>2, <3>2
             DEF BootLoad, Register, Entered, tableVars, Table, TypeOK
        <4>. QED
          BY <2>1, <2>2, <3>2, <4>1, SameNewest DEF Same
      <3>. QED
        BY <3>1, <3>2
    <2>3. ASSUME NEW n \in Names, NEW c \in Contents, NEW ok \in BOOLEAN, CmdWrite(n, c, ok),
                 IF ok THEN Stored(n, c) ELSE Same
          PROVE  Goal
      <3>1. CASE ok
        BY <2>1, <2>3, <3>1, AllocAndRegisterNewest DEF CmdWrite
      <3>2. CASE ~ok
        BY <2>1, <2>3, <3>2, SameNewest DEF CmdWrite, Same
      <3>. QED
        BY <3>1, <3>2
    <2>4. ASSUME NEW n \in Names, NEW c \in Contents, NEW ok \in BOOLEAN, CmdEdit(n, c, ok),
                 IF ok \/ CanAlloc(c) THEN Stored(n, c) ELSE Same
          PROVE  Goal
      BY <2>1, <2>4, AllocAndRegisterNewest DEF CmdEdit
    <2>5. ASSUME NEW n \in Names, NEW c \in Contents, NEW ok \in BOOLEAN,
                 NEW inRoot \in BOOLEAN, CmdAsm(n, c, ok, inRoot),
                 IF (inRoot /\ ok) \/ CanAlloc(c) THEN Stored(n, c) ELSE Same
          PROVE  Goal
      BY <2>1, <2>5, AllocAndRegisterNewest DEF CmdAsm
    <2>6. ASSUME NEW n \in Names, NEW c \in Contents, NEW ok \in BOOLEAN, HostFsWrite(n, c, ok),
                 IF CanAlloc(c) THEN Stored(n, c) ELSE Same
          PROVE  Goal
      <3>1. CASE CanAlloc(c)
        <4>1. Alloc(c) /\ Register(Removed(n), n, <<"write", AllocSlot>>) /\ Stored(n, c)
          BY <2>6, <3>1 DEF HostFsWrite
        <4>2. PICK loc, table : loc = <<"write", AllocSlot>> /\ table = Removed(n)
          OBVIOUS
        <4>3. /\ table.names \in [Entries -> Names \union {NoName}]
              /\ table.data \in [Entries -> Locs \union {NoFile}]
              /\ \A i \in Entries :
                    \/ table.names[i] = fileName[i] /\ table.data[i] = fileData[i]
                    \/ fileName[i] = n /\ table.names[i] = NoName
          BY <1>1, <2>6, <4>2, RemovedTyped
        <4>4. /\ \A m \in Names \ {n} : SameEntries(m)
              /\ Entered => /\ FILE_COUNT \in Entries
                            /\ fileName'[FILE_COUNT] = n
                            /\ fileData'[FILE_COUNT] = loc
          <5>1. Register(table, n, loc)
            BY <4>1, <4>2, Zenon
          <5>. QED
            BY <1>1, <2>6, <4>3, <5>1, RegisterNewest
        <4>5. Bytes(loc)' = c
          BY <1>1, <2>6, <3>1, <4>1, <4>2, AllocBytes
        <4>. QED
          BY <2>1, <2>6, <4>1, <4>4, <4>5, StoredNewest
      <3>2. CASE ~CanAlloc(c)
        BY <2>1, <2>6, <3>2, SameNewest DEF HostFsWrite, Same
      <3>. QED
        BY <3>1, <3>2
    <2>7. ASSUME NEW n \in Names, NEW ok \in BOOLEAN, CmdRm(n, ok),
                 newest' = [newest EXCEPT ![n] = NoFile], diskOnly' = diskOnly \ {n}
          PROVE  Goal
      <3>1. HistoryTyped'
        BY <1>1, <2>7 DEF HistoryTyped
      <3>2. ASSUME NEW m \in Names \ diskOnly', newest'[m] # NoFile
            PROVE  NewestIsLast(m)'
        <4>1. m # n /\ m \in Names \ diskOnly /\ newest'[m] = newest[m]
          BY <1>1, <2>7, <3>2 DEF HistoryTyped
        <4>2. NewestIsLast(m)
          BY <3>2, <4>1 DEF HInv, LastIsNewest, NewestIsLast
        <4>3. SameEntries(m)
          BY <1>1, <2>7, <3>2, <4>1, RemovedTyped, ZenonT(30) DEF SameEntries, CmdRm
        <4>. QED
          BY <2>1, <3>2, <4>1, <4>2, <4>3, KeepNewest DEF HInv
      <3>. QED
        BY <3>1, <3>2 DEF LastIsNewest, NewestIsLast
    <2>8. ASSUME UNCHANGED tableVars, UNCHANGED <<newest, diskOnly>> PROVE Goal
      BY <2>1, <2>8, SameNewest
    <2>9. ASSUME \/ \E ok \in BOOLEAN : SaveStep(ok) /\ UNCHANGED <<newest, diskOnly>>
                 \/ SaveBegin /\ UNCHANGED <<newest, diskOnly>>
                 \/ BootDone /\ Same
                 \/ SaveEnd /\ Same
                 \/ \E n \in Names : Take(n) /\ Same
                 \/ \E r \in held : Release(r) /\ Same
                 \/ UNCHANGED hvars
          PROVE  UNCHANGED tableVars /\ UNCHANGED <<newest, diskOnly>>
      BY <2>9 DEF SaveStep, SaveBegin, BootDone, SaveEnd, Take, Release, Same, hvars, vars
    <2>. QED
      BY <1>3, <2>2, <2>3, <2>4, <2>5, <2>6, <2>7, <2>8, <2>9 DEF HStep
  <1>. QED
    BY <1>2, <1>3 DEF HNext

\* What a save has written so far stays the newest: nothing else touches the
\* volume or the table meanwhile, and the last entry of a name comes last.
LEMMA StepSaveProgress ==
    ASSUME HInv, [HNext]_hvars
    PROVE  SaveProgress'
  <1>1. TypeOK /\ HistoryTyped /\ LastIsNewest /\ SaveProgress
    BY DEF HInv, FInv
  <1>2. CASE UNCHANGED <<tableVars, poolVars, bufVars, fat, newest, diskOnly, saveFailed, pc, saveIdx>>
    BY <1>1, <1>2 DEF SaveProgress, IsLastMatch, Matches, tableVars
  <1>3. CASE pc' # "saving"
    BY <1>3 DEF SaveProgress
  <1>4. CASE SaveBegin
    BY <1>1, <1>4, SMTT(30) DEF SaveBegin, SaveProgress, TypeOK, Entries
  <1>5. ASSUME NEW ok \in BOOLEAN, SaveStep(ok), saveFailed' = (saveFailed \/ ~ok),
               UNCHANGED <<newest, diskOnly>>
        PROVE  SaveProgress'
    <2> SUFFICES ASSUME ~saveFailed', NEW n \in Names \ diskOnly, NEW i \in Entries,
                        newest[n] # NoFile, IsLastMatch(n, i), i < saveIdx + 1
                 PROVE  fat'[n] = newest[n]
      BY <1>1, <1>5 DEF SaveProgress, SaveStep, IsLastMatch, Matches, tableVars, TypeOK
    <2>1. ok /\ ~saveFailed /\ pc = "saving" /\ saveIdx < FILE_COUNT /\ saveIdx \in Entries
      <3>1. ok /\ ~saveFailed
        BY <1>5, Zenon
      <3>2. pc = "saving" /\ saveIdx < FILE_COUNT /\ saveIdx \in Entries
        <4>1. pc = "saving" /\ saveIdx < FILE_COUNT
          BY <1>5, Zenon DEF SaveStep
        <4>2. saveIdx \in 0 .. MAX_FILES /\ FILE_COUNT \in 0 .. MAX_FILES
          BY <1>1, Zenon DEF TypeOK
        <4>. QED
          BY <4>1, <4>2 DEF Entries
      <3>. QED
        BY <3>1, <3>2, Zenon
    <2>2. i \in Matches(n) /\ fileName[i] = n /\ Bytes(fileData[i]) = newest[n]
      BY <1>1 DEF LastIsNewest, IsLastMatch, Matches, Entries
    <2>3. CASE i = saveIdx
      <3>1. n # NoName
        BY NamesAssumption DEF NamesAssumption
      <3>2. FatWrite(n, newest[n], ok)
        BY <1>5, <2>2, <2>3, <3>1 DEF SaveStep
      <3>. QED
        BY <1>1, <2>1, <3>2 DEF FatWrite, TypeOK
    <2>4. CASE i < saveIdx
      <3>1. fat[n] = newest[n]
        BY <1>1, <2>1, <2>4 DEF SaveProgress
      <3>2. fileName[saveIdx] # n
        <4>1. saveIdx \notin Matches(n)
          BY <2>1, <2>4 DEF IsLastMatch, Entries
        <4>. QED
          BY <2>1, <4>1 DEF Matches
      <3>. QED
        BY <1>1, <1>5, <3>1, <3>2 DEF SaveStep, FatWrite, TypeOK
    <2>5. i = saveIdx \/ i < saveIdx
      BY <2>1 DEF Entries
    <2>. QED
      BY <2>3, <2>4, <2>5
  <1>6. ASSUME HReboot \/ BootDone \/ SaveEnd PROVE pc' # "saving"
    BY <1>6 DEF HReboot, Reboot, BootDone, SaveEnd
  <1>7. ASSUME \/ \E n \in Names : BootLoad(n) \/ Take(n)
               \/ \E n \in Names, ok \in BOOLEAN : CmdRm(n, ok)
               \/ \E n \in Names, c \in Contents, ok \in BOOLEAN :
                    CmdWrite(n, c, ok) \/ CmdEdit(n, c, ok) \/ HostFsWrite(n, c, ok)
               \/ \E n \in Names, c \in Contents, ok, inRoot \in BOOLEAN :
                    CmdAsm(n, c, ok, inRoot)
               \/ \E r \in held : Release(r)
        PROVE  pc' # "saving"
    BY <1>7 DEF BootLoad, Take, CmdRm, CmdWrite, CmdEdit, HostFsWrite, CmdAsm, Release
  <1>8. CASE UNCHANGED hvars
    BY <1>2, <1>8 DEF hvars, vars
  <1>. QED
    BY <1>3, <1>4, <1>5, <1>6, <1>7, <1>8 DEF HNext, HStep

LEMMA StepHInv == HInv /\ [HNext]_hvars => HInv'
  <1> SUFFICES ASSUME HInv, [HNext]_hvars PROVE HInv'
    OBVIOUS
  <1>1. [Next]_vars
    BY HistoryRefines DEF hvars
  <1>2. FInv'
    BY <1>1, StepFInv DEF HInv
  <1>3. LastIsNewest' /\ HistoryTyped'
    BY <1>2, StepNewest DEF FInv
  <1>. QED
    BY <1>2, <1>3, StepSaveProgress DEF HInv

\* Whatever sequence of writes, edits, removals and reboots came before, the last
\* table entry of a name holds its newest contents (register_file appends).
THEOREM NewestLast == HSpec => []LastIsNewest
  BY InitHInv, StepHInv, PTL DEF HSpec, HInv

\* A save without a failing write leaves the newest contents of every file that
\* is in the table on the volume (save_to_fat).
THEOREM SaveSafe == HSpec => SaveKeepsNewest
  <1>1. ASSUME HInv, SaveEnd, ~saveFailed, NEW n \in Names \ diskOnly, newest[n] # NoFile
        PROVE  fat[n] = newest[n]
    <2>1. PICK i \in Matches(n) : IsLastMatch(n, i)
      BY <1>1 DEF HInv, LastIsNewest
    <2>2. i \in Entries /\ i < saveIdx /\ pc = "saving"
      BY <1>1, <2>1 DEF Matches, SaveEnd
    <2>. QED
      BY <1>1, <2>1, <2>2 DEF HInv, SaveProgress
  <1>2. HInv => [SaveEnd /\ ~saveFailed =>
                   \A n \in Names \ diskOnly : newest[n] # NoFile => fat[n] = newest[n]]_hvars
    BY <1>1
  <1>. QED
    BY <1>2, InitHInv, StepHInv, PTL DEF HSpec, SaveKeepsNewest

=============================================================================

----------------------------- MODULE FileTable -----------------------------
(***************************************************************************)
(* Files: the in-memory table and the two static pools of fs/mod.rs, the   *)
(* shell commands write, edit, asm, rm and save, the host functions        *)
(* fs_write and fs_read, and a reboot at any point.  The FAT volume behind *)
(* fs/fat.rs is external: a map from names to contents whose writes may    *)
(* fail and leave the file as it was, emptied or torn.                     *)
(*                                                                         *)
(* A &'static [u8] is a location, <<pool, slot>>; what it reads as is      *)
(* whatever the pool holds there now.  Option<File> is held as one         *)
(* function per field, with name NoName for an empty entry.                *)
(***************************************************************************)
EXTENDS Integers, FiniteSets

CONSTANTS
    Names,          \* file names of at most 64 bytes
    NoName,
    Contents,       \* what a file may hold
    Empty, Torn,    \* the empty file; what a write that failed half way leaves
    Big,            \* contents of more than WRITE_SLOT_CAP bytes
    NoFile,         \* no such file
    MAX_FILES,      \* entries of FILE_TABLE, also DISK_SLOTS
    WRITE_SLOTS,    \* slots of WRITE_POOL
    DISK_CAP,       \* files that fit in FILE_BUF
    MaxHeld         \* bound: slices that are followed at a time

ASSUME NamesAssumption    == NoName \notin Names
ASSUME ContentsAssumption ==
    Empty \in Contents /\ Torn \in Contents /\ Big \subseteq Contents
ASSUME NoFileAssumption   == NoFile \notin Contents
ASSUME SizesAssumption    ==
    MAX_FILES \in Nat /\ WRITE_SLOTS \in Nat /\ DISK_CAP \in Nat /\ MaxHeld \in Nat

VARIABLES
    fileName, fileData, FILE_COUNT,    \* FILE_TABLE and its fill mark
    WRITE_POOL, WRITE_POOL_NEXT,
    FILE_BUF, FILE_BUF_NEXT,
    fat,         \* the root directory of the mounted volume
    toLoad,      \* names load_fat_files_to_table has still to read
    pc,          \* "boot", "ready", or "saving" inside save_to_fat
    saveIdx,     \* `i` of save_to_fat
    held         \* slices handed to live instances, with their bytes at that time

tableVars == <<fileName, fileData, FILE_COUNT>>
poolVars  == <<WRITE_POOL, WRITE_POOL_NEXT>>
bufVars   == <<FILE_BUF, FILE_BUF_NEXT>>
vars == <<tableVars, poolVars, bufVars, fat, toLoad, pc, saveIdx, held>>

Entries == 0 .. MAX_FILES - 1
WSlots  == 0 .. WRITE_SLOTS - 1
DSlots  == 0 .. DISK_CAP - 1
Locs    == ({"write"} \X WSlots) \union ({"disk"} \X DSlots)

TypeOK ==
    /\ fileName \in [Entries -> Names \union {NoName}]
    /\ fileData \in [Entries -> Locs \union {NoFile}]
    /\ FILE_COUNT \in 0 .. MAX_FILES
    /\ WRITE_POOL \in [WSlots -> Contents]
    /\ WRITE_POOL_NEXT \in 0 .. WRITE_SLOTS
    /\ FILE_BUF \in [DSlots -> Contents]
    /\ FILE_BUF_NEXT \in 0 .. DISK_CAP
    /\ fat \in [Names -> Contents \union {NoFile}]
    /\ toLoad \subseteq Names
    /\ pc \in {"boot", "ready", "saving"}
    /\ saveIdx \in 0 .. MAX_FILES
    /\ held \subseteq (Locs \X Contents)

-----------------------------------------------------------------------------
(* The table and the pools *)

\* The bytes a slice reads as.
Bytes(loc) == IF loc[1] = "write" THEN WRITE_POOL[loc[2]] ELSE FILE_BUF[loc[2]]

Matches(n) == {i \in Entries : i < FILE_COUNT /\ fileName[i] = n}

\* i is the entry find_file and remove_file stop at.
IsFirstMatch(n, i) == i \in Matches(n) /\ \A j \in Matches(n) : i <= j

find_file(n) ==
    IF Matches(n) = {} THEN NoFile
    ELSE Bytes(fileData[CHOOSE i \in Matches(n) : IsFirstMatch(n, i)])

\* remove_file(n): the table after its first match became a hole.
Removed(n) ==
    [names |-> [i \in Entries |-> IF IsFirstMatch(n, i) THEN NoName ELSE fileName[i]],
     data  |-> [i \in Entries |-> IF IsFirstMatch(n, i) THEN NoFile ELSE fileData[i]]]

RegisterAtHole ==
    IF \E i \in Entries : i < FILE_COUNT /\ fileName[i] = NoName
    THEN CHOOSE i \in Entries : i < FILE_COUNT /\ fileName[i] = NoName
    ELSE FILE_COUNT

\* The entry register_file fills: holes are never filled again.
RegisterAt == FILE_COUNT

\* register_file(n, loc) on `table`.
Register(table, n, loc) ==
    IF FILE_COUNT < MAX_FILES
    THEN /\ fileName' = [table.names EXCEPT ![RegisterAt] = n]
         /\ fileData' = [table.data EXCEPT ![RegisterAt] = loc]
         /\ FILE_COUNT' = FILE_COUNT + 1
    ELSE /\ fileName' = table.names
         /\ fileData' = table.data
         /\ UNCHANGED FILE_COUNT

\* alloc_write_buf(c) finds room ...
CanAlloc(c) == c \notin Big /\ WRITE_POOL_NEXT < WRITE_SLOTS

AllocSlotReclaims ==
    IF \E s \in WSlots : s < WRITE_POOL_NEXT /\ \A i \in Entries : fileData[i] # <<"write", s>>
    THEN CHOOSE s \in WSlots : \A i \in Entries : fileData[i] # <<"write", s>>
    ELSE WRITE_POOL_NEXT

\* ... and takes the next slot.
AllocSlot == WRITE_POOL_NEXT
Alloc(c) ==
    /\ WRITE_POOL' = [WRITE_POOL EXCEPT ![AllocSlot] = c]
    /\ WRITE_POOL_NEXT' = WRITE_POOL_NEXT + 1

\* alloc_write_buf(c), then register_file(n, ...) if it returned a slice.
AllocAndRegister(table, n, c) ==
    IF CanAlloc(c)
    THEN Alloc(c) /\ Register(table, n, <<"write", AllocSlot>>)
    ELSE UNCHANGED <<poolVars, tableVars>>

\* fat_write_file(n, c): what the volume may hold afterwards.
FatWrite(n, c, ok) ==
    IF ok THEN fat' = [fat EXCEPT ![n] = c]
    ELSE \E left \in {fat[n], Empty, Torn} : fat' = [fat EXCEPT ![n] = left]

Table == [names |-> fileName, data |-> fileData]

-----------------------------------------------------------------------------
(* Boot: fs::init, mount, load_fat_files_to_table *)

Init ==
    /\ fileName = [i \in Entries |-> NoName]
    /\ fileData = [i \in Entries |-> NoFile]
    /\ FILE_COUNT = 0
    /\ WRITE_POOL = [s \in WSlots |-> Empty]
    /\ WRITE_POOL_NEXT = 0
    /\ FILE_BUF = [s \in DSlots |-> Empty]
    /\ FILE_BUF_NEXT = 0
    /\ fat \in [Names -> Contents \union {NoFile}]
    /\ toLoad = {n \in Names : fat[n] # NoFile}
    /\ pc = "boot"
    /\ saveIdx = 0
    /\ held = {}

\* One turn of the loader's second loop, in the order the directory lists the
\* names: an unreadable or empty file, or one that does not fit, is skipped.
BootLoad(n) ==
    /\ pc = "boot"
    /\ n \in toLoad
    /\ toLoad' = toLoad \ {n}
    /\ \/ UNCHANGED <<tableVars, bufVars>>
       \/ /\ fat[n] \notin {NoFile, Empty}
          /\ FILE_BUF_NEXT < DISK_CAP
          /\ FILE_BUF' = [FILE_BUF EXCEPT ![FILE_BUF_NEXT] = fat[n]]
          /\ FILE_BUF_NEXT' = FILE_BUF_NEXT + 1
          /\ Register(Table, n, <<"disk", FILE_BUF_NEXT>>)
    /\ UNCHANGED <<poolVars, fat, pc, saveIdx, held>>

BootDone ==
    /\ pc = "boot"
    /\ toLoad = {}
    /\ pc' = "ready"
    /\ UNCHANGED <<tableVars, poolVars, bufVars, fat, toLoad, saveIdx, held>>

\* The machine is reset, at any point: only the volume survives.
Reboot ==
    /\ fileName' = [i \in Entries |-> NoName]
    /\ fileData' = [i \in Entries |-> NoFile]
    /\ FILE_COUNT' = 0
    /\ WRITE_POOL' = [s \in WSlots |-> Empty]
    /\ WRITE_POOL_NEXT' = 0
    /\ FILE_BUF' = [s \in DSlots |-> Empty]
    /\ FILE_BUF_NEXT' = 0
    /\ toLoad' = {n \in Names : fat[n] # NoFile}
    /\ pc' = "boot"
    /\ saveIdx' = 0
    /\ held' = {}
    /\ UNCHANGED fat

-----------------------------------------------------------------------------
(* Shell commands and host functions *)

\* write <name> <hex>: the volume first; if that fails the table is not touched.
CmdWrite(n, c, ok) ==
    /\ pc = "ready"
    /\ c \notin Big
    /\ FatWrite(n, c, ok)
    /\ IF ok THEN AllocAndRegister(Table, n, c) ELSE UNCHANGED <<poolVars, tableVars>>
    /\ UNCHANGED <<bufVars, toLoad, pc, saveIdx, held>>

\* edit <name> up to :w, which stores in both places whatever the volume says.
\* The lines are read inside the command, so nothing else happens meanwhile.
CmdEdit(n, c, ok) ==
    /\ pc = "ready"
    /\ fat[n] \notin Big
    /\ c \notin Big
    /\ FatWrite(n, c, ok)
    /\ AllocAndRegister(Table, n, c)
    /\ UNCHANGED <<bufVars, toLoad, pc, saveIdx, held>>

\* asm <name>.wat stores <name>.wasm the same way; in a subdirectory the file
\* on the volume is not the one of this name in the root directory.
CmdAsm(n, c, ok, inRoot) ==
    /\ pc = "ready"
    /\ IF inRoot THEN FatWrite(n, c, ok) ELSE UNCHANGED fat
    /\ AllocAndRegister(Table, n, c)
    /\ UNCHANGED <<bufVars, toLoad, pc, saveIdx, held>>

\* rm <name>: both places, one entry of the table.
CmdRm(n, ok) ==
    /\ pc = "ready"
    /\ fat' = IF ok THEN [fat EXCEPT ![n] = NoFile] ELSE fat
    /\ fileName' = Removed(n).names
    /\ fileData' = Removed(n).data
    /\ UNCHANGED <<FILE_COUNT, poolVars, bufVars, toLoad, pc, saveIdx, held>>

\* fs_write past its pointer checks; it returns -1 when there is no slot.
HostFsWrite(n, c, ok) ==
    /\ pc = "ready"
    /\ IF CanAlloc(c)
       THEN /\ Alloc(c)
            /\ Register(Removed(n), n, <<"write", AllocSlot>>)
            /\ FatWrite(n, c, ok)
       ELSE UNCHANGED <<poolVars, tableVars, fat>>
    /\ UNCHANGED <<bufVars, toLoad, pc, saveIdx, held>>

\* run and task-run hand the slice find_file returns to engine::spawn, and the
\* instance keeps it.
Take(n) ==
    /\ pc = "ready"
    /\ Cardinality(held) < MaxHeld
    /\ \E i \in Matches(n) :
         /\ IsFirstMatch(n, i)
         /\ held' = held \union {<<fileData[i], Bytes(fileData[i])>>}
    /\ UNCHANGED <<tableVars, poolVars, bufVars, fat, toLoad, pc, saveIdx>>

\* engine::destroy drops the instance that held r.
Release(r) ==
    /\ pc = "ready"
    /\ held' = held \ {r}
    /\ UNCHANGED <<tableVars, poolVars, bufVars, fat, toLoad, pc, saveIdx>>

\* save: save_to_fat, one table entry at a time.
SaveBegin ==
    /\ pc = "ready"
    /\ pc' = "saving"
    /\ saveIdx' = 0
    /\ UNCHANGED <<tableVars, poolVars, bufVars, fat, toLoad, held>>

SaveStepBackwards(ok) ==
    LET i == FILE_COUNT - 1 - saveIdx IN
    /\ pc = "saving"
    /\ saveIdx < FILE_COUNT
    /\ IF fileName[i] = NoName
       THEN UNCHANGED fat
       ELSE FatWrite(fileName[i], Bytes(fileData[i]), ok)
    /\ saveIdx' = saveIdx + 1
    /\ UNCHANGED <<tableVars, poolVars, bufVars, toLoad, pc, held>>

SaveStep(ok) ==
    /\ pc = "saving"
    /\ saveIdx < FILE_COUNT
    /\ IF fileName[saveIdx] = NoName
       THEN UNCHANGED fat
       ELSE FatWrite(fileName[saveIdx], Bytes(fileData[saveIdx]), ok)
    /\ saveIdx' = saveIdx + 1
    /\ UNCHANGED <<tableVars, poolVars, bufVars, toLoad, pc, held>>

SaveEnd ==
    /\ pc = "saving"
    /\ saveIdx = FILE_COUNT
    /\ pc' = "ready"
    /\ saveIdx' = 0
    /\ UNCHANGED <<tableVars, poolVars, bufVars, fat, toLoad, held>>

\* What the kernel does while the machine is up.
Step ==
    \/ \E n \in Names : BootLoad(n) \/ Take(n)
    \/ \E n \in Names, ok \in BOOLEAN : CmdRm(n, ok)
    \/ \E n \in Names, c \in Contents, ok \in BOOLEAN :
         CmdWrite(n, c, ok) \/ CmdEdit(n, c, ok) \/ HostFsWrite(n, c, ok)
    \/ \E n \in Names, c \in Contents, ok, inRoot \in BOOLEAN :
         CmdAsm(n, c, ok, inRoot)
    \/ \E ok \in BOOLEAN : SaveStep(ok)
    \/ \E r \in held : Release(r)
    \/ BootDone \/ SaveBegin \/ SaveEnd

Next == Step \/ Reboot

Spec == Init /\ [][Next]_vars

-----------------------------------------------------------------------------
(* Properties *)

\* "The returned slice is 'static - safe to hand directly to the WASM engine"
\* (find_file): whatever is written, removed or saved later, the module bytes an
\* instance executes never change under it.
HeldBytesStable == \A r \in held : Bytes(r[1]) = r[2]

=============================================================================

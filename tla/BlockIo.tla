------------------------------- MODULE BlockIo -------------------------------
(***************************************************************************)
(* BlockIo (fs/fat.rs): the byte stream the FAT library reads and writes,  *)
(* with its one-block write-back cache over a block device.  One step is   *)
(* one turn of the loop in read or write, that is one block, so that a     *)
(* device error or a reset may come between any two blocks of a call.      *)
(*                                                                         *)
(* The device is the BlockDevice trait: it refuses blocks out of its range *)
(* and may fail any other request; a write that fails may have happened.   *)
(* The byte position is kept as block and offset.                          *)
(***************************************************************************)
EXTENDS Naturals, FiniteSets

CONSTANTS
    BLOCK_SIZE,   \* cells of a block
    NumBlocks,    \* block_count of the device
    MaxLba,       \* the largest block number a caller asks for
    Vals,         \* contents of a cell
    Zero,         \* 0u8
    MaxLen,       \* bound: cells a call moves
    NoLba         \* buf_lba = None

ASSUME BlockSizeAssumption == BLOCK_SIZE \in Nat \ {0}
ASSUME LbaAssumption == MaxLba \in Nat /\ NumBlocks \in Nat /\ NoLba \notin 0..MaxLba
ASSUME ZeroAssumption == Zero \in Vals
ASSUME LenAssumption == MaxLen \in Nat \ {0}

Lbas == 0..MaxLba
Cells == 0..(BLOCK_SIZE - 1)
Block == [Cells -> Vals]

VARIABLES
    disk,        \* the medium
    pos,         \* BlockIo.pos
    buf, buf_lba, buf_dirty,
    call,        \* the call in progress: "none", "read" or "write"
    left,        \* cells it still has to move
    out          \* cells the last turn of a read copied out

vars == <<disk, pos, buf, buf_lba, buf_dirty, call, left, out>>
cacheVars == <<buf, buf_lba, buf_dirty>>

Start == [lba |-> 0, off |-> 0]

TypeOK ==
    /\ disk \in [Lbas -> Block]
    /\ pos \in [lba : 0..(MaxLba + 1), off : Cells]
    /\ buf \in Block
    /\ buf_lba \in Lbas \union {NoLba}
    /\ buf_dirty \in BOOLEAN
    /\ call \in {"none", "read", "write"}
    /\ left \in 0..MaxLen
    /\ call = "none" <=> left = 0

Init ==
    /\ disk \in [Lbas -> Block]
    /\ pos = Start
    /\ buf = [c \in Cells |-> Zero]
    /\ buf_lba = NoLba
    /\ buf_dirty = FALSE
    /\ call = "none"
    /\ left = 0
    /\ out = <<>>

-----------------------------------------------------------------------------
(* The device *)

\* write_block(lba, buf): Err out of range; an error may come after the write.
WriteBlock(lba, ok) ==
    IF lba < NumBlocks
    THEN disk' = [disk EXCEPT ![lba] = buf] \/ (~ok /\ UNCHANGED disk)
    ELSE ~ok /\ UNCHANGED disk

-----------------------------------------------------------------------------
(* The cache; dirty is the dirty flag after the call *)

FlushDirtyIgnoresError(dirty, ok) ==
    \/ /\ ~buf_dirty \/ buf_lba = NoLba
       /\ ok /\ dirty = buf_dirty
       /\ UNCHANGED disk
    \/ /\ buf_dirty /\ buf_lba # NoLba
       /\ \E done \in BOOLEAN : WriteBlock(buf_lba, done)
       /\ ok /\ dirty = FALSE

flush_dirty(dirty, ok) ==
    \/ /\ ~buf_dirty \/ buf_lba = NoLba
       /\ ok /\ dirty = buf_dirty
       /\ UNCHANGED disk
    \/ /\ buf_dirty /\ buf_lba # NoLba
       /\ WriteBlock(buf_lba, ok)
       /\ dirty = ~ok

\* read_block(lba, buf) of ensure_block, after the flush: an error leaves buf alone.
Load(lba, b, ok) ==
    IF ok THEN lba < NumBlocks /\ b = disk'[lba] /\ buf_lba' = lba
          ELSE b = buf /\ UNCHANGED buf_lba

\* The buffer holds b and the dirty flag is dirty when it returns.
ensure_block(lba, b, dirty, ok) ==
    \/ /\ buf_lba = lba
       /\ ok /\ b = buf /\ dirty = buf_dirty
       /\ UNCHANGED <<disk, buf_lba>>
    \/ /\ buf_lba # lba
       /\ flush_dirty(dirty, TRUE)
       /\ Load(lba, b, ok)
    \/ /\ buf_lba # lba
       /\ flush_dirty(dirty, FALSE)
       /\ ~ok /\ b = buf
       /\ UNCHANGED buf_lba

-----------------------------------------------------------------------------
(* read, write, flush, seek *)

\* min(BLOCK_SIZE - off, len - done)
Avail == IF BLOCK_SIZE - pos.off < left THEN BLOCK_SIZE - pos.off ELSE left
Chunk == pos.off..(pos.off + Avail - 1)

AdvancedPos ==
    IF pos.off + Avail < BLOCK_SIZE THEN [pos EXCEPT !.off = pos.off + Avail]
                                    ELSE [lba |-> pos.lba + 1, off |-> 0]

\* The turn of the loop is over: the next one, the end of the call, or its error.
EndTurn(ok) ==
    IF ok THEN /\ pos' = AdvancedPos
               /\ left' = left - Avail
               /\ call' = IF left' = 0 THEN "none" ELSE call
          ELSE left' = 0 /\ call' = "none" /\ UNCHANGED pos

Begin(kind, len) ==
    /\ call = "none"
    /\ call' = kind
    /\ left' = len
    /\ UNCHANGED <<disk, cacheVars, pos, out>>

ReadTurn(ok) ==
    /\ call = "read"
    /\ pos.lba \in Lbas
    /\ \E b \in Block, dirty \in BOOLEAN :
         /\ ensure_block(pos.lba, b, dirty, ok)
         /\ buf' = b
         /\ buf_dirty' = dirty
         /\ out' = IF ok THEN [c \in Chunk |-> b[c]] ELSE out
    /\ EndTurn(ok)

Overlay(b, d) == [c \in Cells |-> IF c \in Chunk THEN d[c] ELSE b[c]]

PartialWrite(d, ok) ==
    \E b \in Block, dirty \in BOOLEAN :
        /\ ensure_block(pos.lba, b, dirty, ok)
        /\ buf' = IF ok THEN Overlay(b, d) ELSE b
        /\ buf_dirty' = IF ok THEN TRUE ELSE dirty

\* A full-sector write that takes the buffer over without writing it back.
FullWriteUnflushed(d, ok) ==
    /\ ok
    /\ buf_lba' = pos.lba
    /\ buf' = Overlay(buf, d)
    /\ buf_dirty' = TRUE
    /\ UNCHANGED disk

\* A full-sector write does not read the block first.
FullWrite(d, ok) ==
    /\ \E dirty \in BOOLEAN :
         /\ flush_dirty(dirty, ok)
         /\ buf_dirty' = IF ok THEN TRUE ELSE dirty
    /\ buf_lba' = IF ok THEN pos.lba ELSE buf_lba
    /\ buf' = IF ok THEN Overlay(buf, d) ELSE buf

WriteTurn(d, ok) ==
    /\ call = "write"
    /\ pos.lba \in Lbas
    /\ IF pos.off # 0 \/ left < BLOCK_SIZE THEN PartialWrite(d, ok) ELSE FullWrite(d, ok)
    /\ EndTurn(ok)
    /\ UNCHANGED out

Flush(ok) ==
    /\ call = "none"
    /\ \E dirty \in BOOLEAN : flush_dirty(dirty, ok) /\ buf_dirty' = dirty
    /\ UNCHANGED <<pos, buf, buf_lba, call, left, out>>

\* SeekFrom::Start and ::Current; negative targets and ::End return an error.
Seek(lba, off) ==
    /\ call = "none"
    /\ pos' = [lba |-> lba, off |-> off]
    /\ UNCHANGED <<disk, cacheVars, call, left, out>>

\* The machine is reset and BlockIo::new starts over on what the medium holds.
Reset ==
    /\ pos' = Start
    /\ buf' = [c \in Cells |-> Zero]
    /\ buf_lba' = NoLba
    /\ buf_dirty' = FALSE
    /\ call' = "none"
    /\ left' = 0
    /\ out' = <<>>
    /\ UNCHANGED disk

Next ==
    \/ \E kind \in {"read", "write"}, len \in 1..MaxLen : Begin(kind, len)
    \/ \E ok \in BOOLEAN : ReadTurn(ok) \/ Flush(ok)
    \/ \E d \in Block, ok \in BOOLEAN : WriteTurn(d, ok)
    \/ \E lba \in Lbas, off \in Cells : Seek(lba, off)
    \/ Reset

Spec == Init /\ [][Next]_vars

-----------------------------------------------------------------------------
(* Properties *)

\* What a read of block lba returns: the cache if it is there, else the medium.
View == [lba \in Lbas |-> IF buf_lba = lba THEN buf ELSE disk[lba]]

\* The cache never hands out stale bytes: a block in it that is not marked dirty
\* is what the medium holds, after failed loads and failed write-backs too.
CleanIsOnDisk == buf_lba \in Lbas /\ ~buf_dirty => buf = disk[buf_lba]

\* A flush that reports success leaves nothing a reset could lose.
FlushDurable == [][Flush(TRUE) => disk' = View]_vars

\* Seen through the cache, the stream is a plain array of cells: every read
\* returns what was last written, errors change nothing, and a reset loses at
\* most the writes to one block since it was last written back.
Volume == INSTANCE ByteDisk WITH data <- View, durable <- disk
ImplementsByteDisk == Volume!Spec

=============================================================================

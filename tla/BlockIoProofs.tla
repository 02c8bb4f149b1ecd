---------------------------- MODULE BlockIoProofs ----------------------------
(***************************************************************************)
(* The one-block cache is coherent and implements ByteDisk, for every      *)
(* block size, device size and length of a call.                           *)
(***************************************************************************)
EXTENDS BlockIo, TLAPS

USE BlockSizeAssumption DEF BlockSizeAssumption
USE LbaAssumption DEF LbaAssumption
USE LenAssumption DEF LenAssumption
USE ZeroAssumption DEF ZeroAssumption

\* A dirty buffer belongs to some block; with the type this makes CleanIsOnDisk
\* inductive.
CacheInv == TypeOK /\ CleanIsOnDisk /\ (buf_dirty => buf_lba \in Lbas)

\* What the cache must look like after a step, in terms of its parts.
Coherent(d, b, lba, dirty) ==
    /\ d \in [Lbas -> Block]
    /\ b \in Block
    /\ lba \in Lbas \union {NoLba}
    /\ dirty \in BOOLEAN
    /\ dirty => lba \in Lbas
    /\ lba \in Lbas /\ ~dirty => b = d[lba]

\* flush_dirty writes back the whole difference between medium and view, or none.
LEMMA FlushEffect ==
    ASSUME CacheInv, NEW dirty \in BOOLEAN, NEW ok \in BOOLEAN, flush_dirty(dirty, ok)
    PROVE  /\ Coherent(disk', buf, buf_lba, dirty)
           /\ disk' = disk \/ disk' = View
           /\ ok => disk' = View /\ ~dirty
           /\ \A l \in Lbas : buf_lba # l => disk'[l] = disk[l]
  <1>1. disk \in [Lbas -> Block] /\ buf \in Block /\ buf_lba \in Lbas \union {NoLba}
    BY DEF CacheInv, TypeOK
  <1>2. CASE ~buf_dirty
    <2>1. ok /\ dirty = buf_dirty /\ disk' = disk
      BY <1>2 DEF flush_dirty
    <2>2. View = disk
      BY <1>1, <1>2 DEF View, CacheInv, CleanIsOnDisk
    <2>. QED
      BY <1>1, <1>2, <2>1, <2>2 DEF Coherent, CacheInv, CleanIsOnDisk
  <1>3. CASE buf_dirty
    <2>1. buf_lba \in Lbas /\ buf_lba # NoLba
      BY <1>3 DEF CacheInv, Lbas
    <2>2. WriteBlock(buf_lba, ok) /\ dirty = ~ok
      BY <1>3, <2>1 DEF flush_dirty
    <2>3. disk' = disk \/ disk' = [disk EXCEPT ![buf_lba] = buf]
      BY <2>2 DEF WriteBlock
    <2>4. ok => disk' = [disk EXCEPT ![buf_lba] = buf]
      BY <2>2 DEF WriteBlock
    <2>5. View = [disk EXCEPT ![buf_lba] = buf]
      BY <1>1, <2>1 DEF View
    <2>6. dirty <=> ~ok
      BY <2>2
    <2>. QED
      BY <1>1, <2>1, <2>3, <2>4, <2>5, <2>6 DEF Coherent
  <1>. QED
    BY <1>2, <1>3

\* ensure_block leaves the view as it was; on success the block is in the buffer
\* and everything else is on the medium.
LEMMA EnsureEffect ==
    ASSUME CacheInv, NEW lba \in Lbas, NEW b \in Block, NEW dirty \in BOOLEAN,
           NEW ok \in BOOLEAN, ensure_block(lba, b, dirty, ok)
    PROVE  /\ Coherent(disk', b, buf_lba', dirty)
           /\ disk' = disk \/ disk' = View
           /\ ok => /\ buf_lba' = lba
                    /\ b = View[lba]
                    /\ \A l \in Lbas \ {lba} : disk'[l] = View[l]
           /\ ~ok => /\ b = buf
                     /\ buf_lba' = buf_lba
                     /\ \A l \in Lbas : buf_lba # l => disk'[l] = disk[l]
  <1>1. disk \in [Lbas -> Block] /\ buf \in Block /\ buf_lba \in Lbas \union {NoLba}
    BY DEF CacheInv, TypeOK
  <1>2. CASE buf_lba = lba
    <2>1. ok /\ b = buf /\ dirty = buf_dirty /\ disk' = disk /\ buf_lba' = buf_lba
      BY <1>2 DEF ensure_block
    <2>2. Coherent(disk', b, buf_lba', dirty)
      BY <1>1, <1>2, <2>1 DEF Coherent, CacheInv, CleanIsOnDisk
    <2>. QED
      BY <1>1, <1>2, <2>1, <2>2 DEF View
  <1>3. CASE buf_lba # lba /\ flush_dirty(dirty, TRUE) /\ Load(lba, b, ok)
    <2>1. /\ Coherent(disk', buf, buf_lba, dirty)
          /\ disk' = View /\ ~dirty
          /\ \A l \in Lbas : buf_lba # l => disk'[l] = disk[l]
      BY <1>3, FlushEffect
    <2>2. CASE ok
      <3>1. b = disk'[lba] /\ buf_lba' = lba
        BY <1>3, <2>2 DEF Load
      <3>. QED
        BY <2>1, <2>2, <3>1 DEF Coherent
    <2>3. CASE ~ok
      <3>1. b = buf /\ buf_lba' = buf_lba
        BY <1>3, <2>3 DEF Load
      <3>. QED
        BY <2>1, <2>3, <3>1
    <2>. QED
      BY <2>2, <2>3
  <1>4. CASE buf_lba # lba /\ flush_dirty(dirty, FALSE) /\ ~ok /\ b = buf /\ UNCHANGED buf_lba
    BY <1>4, FlushEffect
  <1>. QED
    BY <1>2, <1>3, <1>4 DEF ensure_block

\* The cursor stays inside a block, and moves as ByteDisk's does.
LEMMA TurnTyped ==
    ASSUME TypeOK, pos.lba \in Lbas, left > 0
    PROVE  /\ Avail \in 1..BLOCK_SIZE
           /\ Avail <= left
           /\ pos.off + Avail <= BLOCK_SIZE
           /\ AdvancedPos \in [lba : 0..(MaxLba + 1), off : Cells]
           /\ AdvancedPos = Volume!Advance(pos, Avail)
           /\ Chunk \subseteq Cells
  <1>1. pos.off \in Cells /\ left \in Nat /\ pos \in [lba : 0..(MaxLba + 1), off : Cells]
    BY DEF TypeOK
  <1>2. Avail \in 1..BLOCK_SIZE /\ Avail <= left /\ pos.off + Avail <= BLOCK_SIZE
    BY <1>1 DEF Avail, Cells
  <1>3. AdvancedPos \in [lba : 0..(MaxLba + 1), off : Cells]
    BY <1>1, <1>2 DEF AdvancedPos, Lbas, Cells
  <1>4. AdvancedPos = Volume!Advance(pos, Avail)
    BY DEF AdvancedPos, Volume!Advance
  <1>5. Chunk \subseteq Cells
    BY <1>1, <1>2 DEF Chunk, Cells
  <1>. QED
    BY <1>2, <1>3, <1>4, <1>5

\* The end of a turn keeps the type of cursor and call.
LEMMA EndTurnTyped ==
    ASSUME TypeOK, pos.lba \in Lbas, call # "none", NEW ok \in BOOLEAN, EndTurn(ok)
    PROVE  /\ pos' \in [lba : 0..(MaxLba + 1), off : Cells]
           /\ call' \in {"none", "read", "write"}
           /\ left' \in 0..MaxLen
           /\ call' = "none" <=> left' = 0
  <1>1. left > 0 /\ left \in 0..MaxLen
    BY DEF TypeOK
  <1>. QED
    BY <1>1, TurnTyped DEF EndTurn, TypeOK

LEMMA InitCache == Init => CacheInv
  <1> SUFFICES ASSUME Init PROVE CacheInv
    OBVIOUS
  <1>1. pos \in [lba : 0..(MaxLba + 1), off : Cells]
    BY DEF Init, Start, Cells
  <1>2. buf \in Block
    BY DEF Init, Block
  <1>3. ~buf_dirty /\ buf_dirty \in BOOLEAN /\ buf_lba \notin Lbas
    BY DEF Init, Lbas
  <1>. QED
    BY <1>1, <1>2, <1>3 DEF Init, CacheInv, TypeOK, CleanIsOnDisk

\* A turn of read: the view does not change and out is a part of it.
LEMMA ReadStep ==
    ASSUME CacheInv, NEW ok \in BOOLEAN, ReadTurn(ok)
    PROVE  CacheInv' /\ Volume!Next
  <1>1. TypeOK /\ pos.lba \in Lbas /\ call = "read" /\ left > 0 /\ EndTurn(ok)
    BY DEF CacheInv, TypeOK, ReadTurn
  <1>2. PICK b \in Block, dirty \in BOOLEAN :
           /\ ensure_block(pos.lba, b, dirty, ok)
           /\ buf' = b
           /\ buf_dirty' = dirty
           /\ out' = IF ok THEN [c \in Chunk |-> b[c]] ELSE out
    BY DEF ReadTurn
  <1>3. PICK lba \in Lbas : lba = pos.lba
    BY <1>1
  <1>4. /\ Coherent(disk', b, buf_lba', dirty)
        /\ disk' = disk \/ disk' = View
        /\ ok => /\ buf_lba' = lba
                 /\ b = View[lba]
                 /\ \A l \in Lbas \ {lba} : disk'[l] = View[l]
        /\ ~ok => /\ b = buf
                  /\ buf_lba' = buf_lba
                  /\ \A l \in Lbas : buf_lba # l => disk'[l] = disk[l]
    BY <1>2, <1>3, EnsureEffect
  <1>5. CacheInv'
    BY <1>1, <1>2, <1>4, EndTurnTyped DEF Coherent, CacheInv, TypeOK, CleanIsOnDisk
  <1>6. View' = View
    BY <1>2, <1>4 DEF View
  <1>7. CASE ok
    <2>1. /\ pos' = Volume!Advance(pos, Avail) /\ left' = left - Avail
          /\ Avail \in 1..BLOCK_SIZE /\ Avail <= left /\ pos.off + Avail <= BLOCK_SIZE
      BY <1>1, <1>7, TurnTyped DEF EndTurn
    <2>2. out' = [c \in pos.off..(pos.off + Avail - 1) |-> View[pos.lba][c]]
      BY <1>2, <1>3, <1>4, <1>7 DEF Chunk
    <2>3. Volume!Read(Avail)
      BY <1>1, <1>4, <1>6, <2>1, <2>2 DEF Volume!Read, Volume!MayWriteBack, Volume!Lbas, Lbas
    <2>. QED
      BY <1>5, <2>1, <2>3 DEF Volume!Next
  <1>8. CASE ~ok
    <2>1. left' = 0 /\ pos' = pos /\ out' = out
      BY <1>1, <1>2, <1>8 DEF EndTurn
    <2>. QED
      BY <1>4, <1>5, <1>6, <2>1 DEF Volume!Next, Volume!Fail, Volume!MayWriteBack
  <1>. QED
    BY <1>7, <1>8

\* What a successful turn of write must have done: the block is in the buffer with
\* the new cells over the old ones, and all other blocks are on the medium.
Overwritten(d) ==
    /\ buf_lba' = pos.lba
    /\ buf' = Overlay(View[pos.lba], d)
    /\ buf_dirty' = TRUE
    /\ \A l \in Lbas \ {pos.lba} : disk'[l] = View[l]

\* And a failed one: nothing but a write-back.
Rejected ==
    /\ buf' = buf /\ buf_lba' = buf_lba
    /\ \A l \in Lbas : buf_lba # l => disk'[l] = disk[l]

LEMMA PartialWriteEffect ==
    ASSUME CacheInv, NEW d \in Block, NEW ok \in BOOLEAN, pos.lba \in Lbas, left > 0,
           PartialWrite(d, ok)
    PROVE  /\ Coherent(disk', buf', buf_lba', buf_dirty')
           /\ disk' = disk \/ disk' = View
           /\ IF ok THEN Overwritten(d) ELSE Rejected
  <1>1. PICK b \in Block, dirty \in BOOLEAN :
           /\ ensure_block(pos.lba, b, dirty, ok)
           /\ buf' = IF ok THEN Overlay(b, d) ELSE b
           /\ buf_dirty' = IF ok THEN TRUE ELSE dirty
    BY DEF PartialWrite
  <1>2. PICK lba \in Lbas : lba = pos.lba
    OBVIOUS
  <1>3. /\ Coherent(disk', b, buf_lba', dirty)
        /\ disk' = disk \/ disk' = View
        /\ ok => /\ buf_lba' = lba
                 /\ b = View[lba]
                 /\ \A l \in Lbas \ {lba} : disk'[l] = View[l]
        /\ ~ok => /\ b = buf
                  /\ buf_lba' = buf_lba
                  /\ \A l \in Lbas : buf_lba # l => disk'[l] = disk[l]
    BY <1>1, <1>2, EnsureEffect
  <1>4. Overlay(b, d) \in Block
    BY DEF Overlay, Block
  <1>. QED
    BY <1>1, <1>2, <1>3, <1>4 DEF Coherent, Overwritten, Rejected

LEMMA FullWriteEffect ==
    ASSUME CacheInv, NEW d \in Block, NEW ok \in BOOLEAN, pos.lba \in Lbas,
           pos.off = 0, left >= BLOCK_SIZE, FullWrite(d, ok)
    PROVE  /\ Coherent(disk', buf', buf_lba', buf_dirty')
           /\ disk' = disk \/ disk' = View
           /\ IF ok THEN Overwritten(d) ELSE Rejected
  <1>1. PICK dirty \in BOOLEAN :
           flush_dirty(dirty, ok) /\ buf_dirty' = IF ok THEN TRUE ELSE dirty
    BY DEF FullWrite
  <1>2. /\ Coherent(disk', buf, buf_lba, dirty)
        /\ disk' = disk \/ disk' = View
        /\ ok => disk' = View /\ ~dirty
        /\ \A l \in Lbas : buf_lba # l => disk'[l] = disk[l]
    BY <1>1, FlushEffect
  <1>3. Chunk = Cells
    BY DEF Chunk, Cells, Avail, CacheInv, TypeOK
  <1>4. Overlay(buf, d) = Overlay(View[pos.lba], d) /\ Overlay(buf, d) \in Block
    BY <1>3 DEF Overlay, Block
  <1>5. /\ buf_lba' = IF ok THEN pos.lba ELSE buf_lba
        /\ buf' = IF ok THEN Overlay(buf, d) ELSE buf
    BY DEF FullWrite
  <1>. QED
    BY <1>1, <1>2, <1>4, <1>5 DEF Coherent, Overwritten, Rejected

\* A turn of write: only the cells of the chunk change in the view.
LEMMA WriteStep ==
    ASSUME CacheInv, NEW d \in Block, NEW ok \in BOOLEAN, WriteTurn(d, ok)
    PROVE  CacheInv' /\ Volume!Next
  <1>1. TypeOK /\ pos.lba \in Lbas /\ call = "write" /\ left > 0 /\ EndTurn(ok) /\ out' = out
    BY DEF CacheInv, TypeOK, WriteTurn
  <1>2. /\ Coherent(disk', buf', buf_lba', buf_dirty')
        /\ disk' = disk \/ disk' = View
        /\ IF ok THEN Overwritten(d) ELSE Rejected
    <2>1. CASE pos.off # 0 \/ left < BLOCK_SIZE
      BY <1>1, <2>1, PartialWriteEffect DEF WriteTurn
    <2>2. CASE ~(pos.off # 0 \/ left < BLOCK_SIZE)
      BY <1>1, <2>2, FullWriteEffect DEF WriteTurn, TypeOK
    <2>. QED
      BY <2>1, <2>2
  <1>3. CacheInv'
    BY <1>1, <1>2, EndTurnTyped DEF Coherent, CacheInv, TypeOK, CleanIsOnDisk
  <1>4. CASE ok
    <2>1. /\ pos' = Volume!Advance(pos, Avail) /\ left' = left - Avail
          /\ Avail \in 1..BLOCK_SIZE /\ Avail <= left /\ pos.off + Avail <= BLOCK_SIZE
      BY <1>1, <1>4, TurnTyped DEF EndTurn
    <2>2. View' = [View EXCEPT ![pos.lba] =
                     [c \in Cells |-> IF c \in pos.off..(pos.off + Avail - 1) THEN d[c]
                                      ELSE View[pos.lba][c]]]
      BY <1>1, <1>2, <1>4 DEF Overwritten, Overlay, Chunk, View
    <2>3. \A l \in Lbas \ {pos.lba} : disk'[l] = View[l]
      BY <1>2, <1>4 DEF Overwritten
    <2>4. Volume!Write(Avail)
      BY <1>1, <1>2, <2>1, <2>2, <2>3
         DEF Volume!Write, Volume!MayWriteBack, Volume!Lbas, Lbas, Volume!Cells, Cells,
             Volume!Block, Block
    <2>. QED
      BY <1>3, <2>1, <2>4 DEF Volume!Next
  <1>5. CASE ~ok
    <2>1. left' = 0 /\ pos' = pos
      BY <1>1, <1>5 DEF EndTurn
    <2>2. View' = View
      BY <1>2, <1>5 DEF Rejected, View
    <2>. QED
      BY <1>1, <1>2, <1>3, <2>1, <2>2 DEF Volume!Next, Volume!Fail, Volume!MayWriteBack
  <1>. QED
    BY <1>4, <1>5

LEMMA FlushStep ==
    ASSUME CacheInv, NEW ok \in BOOLEAN, Flush(ok)
    PROVE  CacheInv' /\ Volume!Next /\ (ok => disk' = View)
  <1>1. PICK dirty \in BOOLEAN : flush_dirty(dirty, ok) /\ buf_dirty' = dirty
    BY DEF Flush
  <1>2. /\ Coherent(disk', buf, buf_lba, dirty)
        /\ disk' = disk \/ disk' = View
        /\ ok => disk' = View
        /\ \A l \in Lbas : buf_lba # l => disk'[l] = disk[l]
    BY <1>1, FlushEffect
  <1>3. call = "none" /\ UNCHANGED <<pos, buf, buf_lba, call, left, out>>
    BY DEF Flush
  <1>4. CacheInv'
    BY <1>1, <1>2, <1>3 DEF Coherent, CacheInv, TypeOK, CleanIsOnDisk
  <1>5. View' = View
    BY <1>2, <1>3 DEF View
  <1>6. left' = 0
    BY <1>3 DEF CacheInv, TypeOK
  <1>. QED
    BY <1>2, <1>3, <1>4, <1>5, <1>6 DEF Volume!Next, Volume!Fail, Volume!MayWriteBack

\* Every step keeps the cache coherent and is one of ByteDisk's.
LEMMA CacheStep ==
    ASSUME CacheInv, [Next]_vars
    PROVE  CacheInv' /\ [Volume!Next]_Volume!vars
  <1>1. ASSUME NEW kind \in {"read", "write"}, NEW len \in 1..MaxLen, Begin(kind, len)
        PROVE  CacheInv' /\ Volume!Next
    <2>1. CacheInv'
      BY <1>1 DEF Begin, cacheVars, CacheInv, TypeOK, CleanIsOnDisk
    <2>2. View' = View
      BY <1>1 DEF Begin, cacheVars, View
    <2>3. left = 0 /\ left' > 0
      BY <1>1 DEF Begin, CacheInv, TypeOK
    <2>. QED
      BY <1>1, <2>1, <2>2, <2>3 DEF Begin, Volume!Next, Volume!Begin
  <1>2. ASSUME NEW lba \in Lbas, NEW off \in Cells, Seek(lba, off)
        PROVE  CacheInv' /\ Volume!Next
    <2>1. pos' \in [lba : Lbas, off : Cells] /\ pos' \in [lba : 0..(MaxLba + 1), off : Cells]
      BY <1>2 DEF Seek, Lbas
    <2>2. CacheInv'
      BY <1>2, <2>1 DEF Seek, cacheVars, CacheInv, TypeOK, CleanIsOnDisk
    <2>3. View' = View /\ left = 0
      BY <1>2 DEF Seek, cacheVars, View, CacheInv, TypeOK
    <2>. QED
      BY <1>2, <2>1, <2>2, <2>3
         DEF Seek, Volume!Next, Volume!Seek, Volume!Lbas, Lbas, Volume!Cells, Cells
  <1>3. CASE Reset
    <2>1. pos' \in [lba : 0..(MaxLba + 1), off : Cells] /\ buf' \in Block
      BY <1>3 DEF Reset, Start, Cells, Block
    <2>2. ~buf_dirty' /\ buf_dirty' \in BOOLEAN /\ buf_lba' = NoLba /\ NoLba \notin Lbas
      BY <1>3 DEF Reset, Lbas
    <2>3. CacheInv'
      BY <1>3, <2>1, <2>2 DEF Reset, CacheInv, TypeOK, CleanIsOnDisk
    <2>4. View' = disk
      BY <1>3, <2>2 DEF Reset, View, CacheInv, TypeOK
    <2>. QED
      BY <1>3, <2>3, <2>4 DEF Reset, Start, Volume!Next, Volume!Reset, Volume!Start
  <1>4. CASE UNCHANGED vars
    BY <1>4 DEF vars, CacheInv, TypeOK, CleanIsOnDisk, View, Volume!vars
  <1>. QED
    BY <1>1, <1>2, <1>3, <1>4, ReadStep, WriteStep, FlushStep DEF Next

\* Every variable keeps its type: the cursor stays inside a block and no turn of
\* the loops in read and write moves more than the call asked for.
THEOREM StreamTyped == Spec => []TypeOK
  BY InitCache, CacheStep, PTL DEF Spec, CacheInv

\* A cached block that is not dirty is what the medium holds, whatever device
\* requests failed before (ensure_block, flush_dirty).
THEOREM Coherence == Spec => []CleanIsOnDisk
  BY InitCache, CacheStep, PTL DEF Spec, CacheInv

\* After a successful flush nothing is left that a reset could lose (flush).
THEOREM Durability == Spec => FlushDurable
  <1>1. CacheInv => [Flush(TRUE) => disk' = View]_vars
    BY FlushStep
  <1>. QED
    BY <1>1, InitCache, CacheStep, PTL DEF Spec, FlushDurable

\* BlockIo is a ByteDisk: reads return what was last written, failed calls change
\* nothing, a reset loses unflushed writes to one block at most.
THEOREM StreamRefines == Spec => ImplementsByteDisk
  <1>1. Init => Volume!Init
    <2> SUFFICES ASSUME Init PROVE Volume!Init
      OBVIOUS
    <2>1. View = disk
      BY DEF Init, View, Lbas
    <2>. QED
      BY <2>1 DEF Init, Start, Volume!Init, Volume!Start, Volume!Lbas, Lbas, Volume!Block,
                  Block, Volume!Cells, Cells
  <1>. QED
    BY <1>1, InitCache, CacheStep, PTL DEF Spec, ImplementsByteDisk, Volume!Spec

=============================================================================

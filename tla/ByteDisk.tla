------------------------------ MODULE ByteDisk ------------------------------
(***************************************************************************)
(* What the FAT library is promised by the byte stream below it: a volume  *)
(* of cells, grouped in blocks, that a cursor moves over.  Reads return    *)
(* what was written last.  The medium may lag behind, by one block at most *)
(* and never past a flush, and a reset falls back to the medium.           *)
(***************************************************************************)
EXTENDS Naturals

CONSTANTS
    BLOCK_SIZE,   \* cells of a block
    MaxLba,       \* the largest block number a caller asks for
    Vals          \* contents of a cell

Lbas == 0..MaxLba
Cells == 0..(BLOCK_SIZE - 1)
Block == [Cells -> Vals]

VARIABLES
    data,      \* data[lba][cell]: what a read returns
    durable,   \* what survives a reset
    pos,       \* the cursor: block and offset
    left,      \* cells the call in progress still has to move, 0: none
    out        \* cells the last read copied to its caller

vars == <<data, durable, pos, left, out>>

Start == [lba |-> 0, off |-> 0]

\* The cursor n cells further, within the block or at the start of the next.
Advance(p, n) ==
    IF p.off + n < BLOCK_SIZE THEN [p EXCEPT !.off = p.off + n]
                              ELSE [lba |-> p.lba + 1, off |-> 0]

Init ==
    /\ durable \in [Lbas -> Block]
    /\ data = durable
    /\ pos = Start
    /\ left = 0
    /\ out = <<>>

\* The medium catches up at a moment of its own choosing, or does not.
MayWriteBack == durable' = durable \/ durable' = data

Begin ==
    /\ left = 0
    /\ left' > 0
    /\ UNCHANGED <<data, durable, pos, out>>

\* n cells of one block are handed out.
Read(n) ==
    /\ pos.lba \in Lbas
    /\ n <= left
    /\ pos.off + n <= BLOCK_SIZE
    /\ out' = [c \in pos.off..(pos.off + n - 1) |-> data[pos.lba][c]]
    /\ pos' = Advance(pos, n)
    /\ left' = left - n
    /\ MayWriteBack
    /\ UNCHANGED data

\* n cells of one block get new contents; the medium now has all the rest.
Write(n) ==
    /\ pos.lba \in Lbas
    /\ n <= left
    /\ pos.off + n <= BLOCK_SIZE
    /\ \E b \in Block :
         data' = [data EXCEPT ![pos.lba] =
                    [c \in Cells |-> IF c \in pos.off..(pos.off + n - 1) THEN b[c]
                                     ELSE data[pos.lba][c]]]
    /\ MayWriteBack
    /\ \A l \in Lbas \ {pos.lba} : durable'[l] = data[l]
    /\ pos' = Advance(pos, n)
    /\ left' = left - n
    /\ UNCHANGED out

\* The call gives up; what it has moved so far stays.
Fail ==
    /\ left' = 0
    /\ MayWriteBack
    /\ UNCHANGED <<data, pos, out>>

Seek ==
    /\ left = 0
    /\ pos' \in [lba : Lbas, off : Cells]
    /\ UNCHANGED <<data, durable, left, out>>

Reset ==
    /\ data' = durable
    /\ pos' = Start
    /\ left' = 0
    /\ out' = <<>>
    /\ UNCHANGED durable

Next ==
    \/ Begin
    \/ \E n \in 1..BLOCK_SIZE : Read(n) \/ Write(n)
    \/ Fail
    \/ Seek
    \/ Reset

Spec == Init /\ [][Next]_vars

=============================================================================

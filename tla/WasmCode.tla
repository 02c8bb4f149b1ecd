------------------------------ MODULE WasmCode ------------------------------
(***************************************************************************)
(* How the kernel reads a function body: LEB128 immediates, the scan for   *)
(* the end of a block, and the table of jumps that is filled when a module *)
(* is instantiated.  A body is a sequence of bytes and positions in it     *)
(* count from 0, as in the code.  I32_BITS and I64_BITS are 32 and 64 in   *)
(* the kernel.                                                             *)
(***************************************************************************)
EXTENDS Integers, Sequences, FiniteSets

CONSTANTS I32_BITS, I64_BITS, JUMP_SLOTS, jump_hash(_, _)

ASSUME WidthAssumption == I32_BITS \in Nat \ {0} /\ I64_BITS \in Nat \ {0}
ASSUME SlotsAssumption == JUMP_SLOTS \in Nat \ {0}

At(b, i) == b[i + 1]

\* An Option is a set of at most one element; The(S) is that element.
The(S) == CHOOSE x \in S : TRUE
Least(S) == CHOOSE x \in S : \A y \in S : x <= y

-----------------------------------------------------------------------------
(* LEB128.                                                                 *)

\* The number of bytes of the value at i.
skip_leb128(b, i) ==
  {n \in 1 .. Len(b) - i : At(b, i + n - 1) < 128 /\ \A k \in i .. i + n - 2 : At(b, k) >= 128}

Groups(b, i, n) ==
  LET sum[k \in 0 .. n] ==
        IF k = 0 THEN 0 ELSE sum[k - 1] + (At(b, i + k - 1) % 128) * 128^(k - 1)
  IN  sum[n]

Signed(x, w) == IF x % 2^w >= 2^(w - 1) THEN (x % 2^w) - 2^w ELSE x % 2^w

\* A reader takes no more groups of seven bits than w bits need.  A negative
\* value is extended from the sign bit of a last group that lies inside w.
MaxGroups(w) == (w + 6) \div 7

read_unsigned(b, i, w) ==
  {[val |-> Groups(b, i, n) % 2^w, n |-> n] : n \in skip_leb128(b, i) \cap 1 .. MaxGroups(w)}

read_signed(b, i, w) ==
  {[val |-> IF 7 * n < w /\ At(b, i + n - 1) >= 64 THEN Groups(b, i, n) - 128^n
            ELSE Signed(Groups(b, i, n), w), n |-> n] :
     n \in skip_leb128(b, i) \cap 1 .. MaxGroups(w)}

read_u32_leb128(b, i) == read_unsigned(b, i, I32_BITS)
read_i32_leb128(b, i) == read_signed(b, i, I32_BITS)
read_i64_leb128(b, i) == read_signed(b, i, I64_BITS)

\* The position after k values that follow each other.
Lebs(b, i, k) ==
  LET after[j \in 0 .. k] ==
        IF j = 0 THEN {i}
        ELSE UNION {{e + n : n \in skip_leb128(b, e)} : e \in after[j - 1]}
  IN  after[k]

read_memarg(b, i) ==
  UNION {{[val |-> offset.val, n |-> align.n + offset.n] :
            offset \in read_u32_leb128(b, i + align.n)} : align \in read_u32_leb128(b, i)}

-----------------------------------------------------------------------------
(* Opcodes.                                                                *)

UNREACHABLE == 0
NOP == 1
BLOCK == 2
LOOP == 3
IF_OP == 4
ELSE_OP == 5
END_OP == 11
BR == 12
BR_IF == 13
BR_TABLE == 14
RETURN == 15
CALL == 16
CALL_INDIRECT == 17
DROP == 26
SELECT == 27
LOCAL_GET == 32
LOCAL_SET == 33
LOCAL_TEE == 34
GLOBAL_GET == 35
GLOBAL_SET == 36
LoadOps == 40 .. 53
StoreOps == 54 .. 62
MEMORY_SIZE == 63
MEMORY_GROW == 64
I32_CONST == 65
I64_CONST == 66
F32_CONST == 67
F64_CONST == 68
PREFIX == 252
BlockOps == {BLOCK, LOOP, IF_OP}
Indexed == {BR, BR_IF, CALL} \cup LOCAL_GET .. GLOBAL_SET
OneLeb == Indexed \cup {I32_CONST, I64_CONST}
MemOps == LoadOps \cup StoreOps

\* The position after the instruction at i, as the scan sees it.
After(b, i) ==
  LET op == At(b, i)
  IN  CASE op \in BlockOps                     -> {i + 2}
        [] op \in OneLeb \cup {PREFIX}         -> Lebs(b, i + 1, 1)
        [] op \in MemOps \cup {CALL_INDIRECT}  -> Lebs(b, i + 1, 2)
        [] op = BR_TABLE                       ->
             UNION {Lebs(b, i + 1 + count.n, count.val + 1) : count \in read_u32_leb128(b, i + 1)}
        [] op \in {MEMORY_SIZE, MEMORY_GROW}   -> {i + 2}
        [] op = F32_CONST                      -> {i + 5}
        [] op = F64_CONST                      -> {i + 9}
        [] OTHER                               -> {i + 1}

-----------------------------------------------------------------------------
(* scan_block_end: the matching end and the else at the same depth.        *)

NO_ELSE == -1

scan_block_end(b, start) ==
  LET Scan[i \in Nat, depth \in Nat, else_pc \in Int] ==
        IF i >= Len(b) THEN {}
        ELSE LET op == At(b, i)
             IN  UNION {CASE op \in BlockOps           -> Scan[next, depth + 1, else_pc]
                          [] op = ELSE_OP /\ depth = 1 -> Scan[next, depth, i]
                          [] op = END_OP /\ depth = 1  -> {[end_pc |-> i, else_pc |-> else_pc]}
                          [] op = END_OP /\ depth > 1  -> Scan[next, depth - 1, else_pc]
                          [] OTHER                     -> Scan[next, depth, else_pc] :
                          next \in After(b, i)}
  IN  Scan[start, 1, NO_ELSE]

-----------------------------------------------------------------------------
(* The jump table: open addressing with linear probing, filled by one pass *)
(* over every body.  A pass over a body whose last immediate is cut short  *)
(* sees only bytes above 127 from there on and records nothing more, so it *)
(* may as well stop.                                                       *)

Slots == 0 .. JUMP_SLOTS - 1
Probe(body, pc, k) == (jump_hash(body, pc) + k) % JUMP_SLOTS

\* A slot is empty or holds one entry.
jump_insert(table, e) ==
  LET free == {k \in Slots : table[Probe(e.body, e.pc, k)] = {}}
  IN  IF free = {} THEN table
      ELSE [table EXCEPT ![Probe(e.body, e.pc, Least(free))] = {e}]

\* The blocks, loops and ifs of a body that have an end, outer ones first.
pre_scan_body_jumps(b, body) ==
  LET Entry(pc, jumps) == [k \in 1 .. Cardinality(jumps) |->
                             [body |-> body, pc |-> pc, jump |-> The(jumps)]]
      Pass[i \in Nat] ==
        IF i >= Len(b) \/ After(b, i) = {} THEN <<>>
        ELSE IF At(b, i) \in BlockOps /\ i + 1 < Len(b)
             THEN Entry(i + 2, scan_block_end(b, i + 2)) \o Pass[i + 2]
             ELSE Pass[The(After(b, i))]
  IN  Pass[0]

new_table(bodies) ==
  LET Entries[n \in 0 .. Len(bodies)] ==
        IF n = 0 THEN <<>>
        ELSE Entries[n - 1] \o pre_scan_body_jumps(At(bodies, n - 1), n - 1)
      entries == Entries[Len(bodies)]
      Table[n \in 0 .. Len(entries)] ==
        IF n = 0 THEN [s \in Slots |-> {}] ELSE jump_insert(Table[n - 1], entries[n])
  IN  Table[Len(entries)]

\* Mutant: the lookup does not stop at an empty slot.
StopsAtKey(table, body, pc) ==
  {k \in Slots : \E e \in table[Probe(body, pc, k)] : e.body = body /\ e.pc = pc}
\* jump_lookup stops at the key or at an empty slot, and nowhere else.
Stops(table, body, pc) ==
  {k \in Slots : \A e \in table[Probe(body, pc, k)] : e.body = body /\ e.pc = pc}
jump_lookup(table, body, pc) ==
  {e.jump : e \in table[Probe(body, pc, Least(Stops(table, body, pc)))]}

\* What block, loop and if use: the table, else the scan.
NoEnd == [end_pc |-> -1, else_pc |-> NO_ELSE]
Endless == [end_pc |-> -2, else_pc |-> NO_ELSE]

Jump(table, bodies, body, pc) ==
  LET found == jump_lookup(table, body, pc)
      scanned == scan_block_end(At(bodies, body), pc)
  IN  CASE Stops(table, body, pc) = {} -> Endless
        [] Stops(table, body, pc) # {} /\ found # {} -> The(found)
        [] OTHER -> IF scanned = {} THEN NoEnd ELSE The(scanned)

-----------------------------------------------------------------------------
(* What run() reads at a position: the opcode, its immediates, the next    *)
(* position and, for a block, its jump.  ok: no immediate is cut short;    *)
(* the labels of a br_table are read apart, after its operand is popped.   *)

\* The first immediate, and a second one where run() reads it at once.
FirstImm(b, i) ==
  LET op == At(b, i)
  IN  CASE op = I32_CONST -> read_i32_leb128(b, i + 1)
        [] op = I64_CONST -> read_i64_leb128(b, i + 1)
        [] op = F32_CONST -> {[val |-> 0, n |-> 4] : k \in {4} \cap 0 .. Len(b) - 1 - i}
        [] op = F64_CONST -> {[val |-> 0, n |-> 8] : k \in {8} \cap 0 .. Len(b) - 1 - i}
        [] op \in MemOps  -> read_memarg(b, i + 1)
        [] op \in Indexed \cup {BR_TABLE, CALL_INDIRECT, PREFIX} -> read_u32_leb128(b, i + 1)
        [] op \in BlockOps \cup {MEMORY_SIZE, MEMORY_GROW} -> {[val |-> 0, n |-> 1]}
        [] OTHER          -> {[val |-> 0, n |-> 0]}

SecondLen(b, op, val, at) ==
  LET index == {imm.n : imm \in read_u32_leb128(b, at)}
  IN  CASE op = CALL_INDIRECT         -> index
        [] op = PREFIX /\ val = 8     -> {n + 1 : n \in index}
        [] op = PREFIX /\ val = 9     -> index
        [] op = PREFIX /\ val = 10    -> {2}
        [] op = PREFIX /\ val = 11    -> {1}
        [] OTHER                      -> {0}

Labels(b, i, n) ==
  LET after[k \in 0 .. n] ==
        IF k = 0 THEN {[labels |-> <<>>, at |-> i]}
        ELSE UNION {{[labels |-> Append(l.labels, imm.val), at |-> l.at + imm.n] :
                       imm \in read_u32_leb128(b, l.at)} : l \in after[k - 1]}
  IN  {l.labels : l \in after[n]}

Decode(b, i, jump) ==
  LET op == At(b, i)
      Instr(ok, val, next) ==
        LET labels == IF ok /\ op = BR_TABLE THEN Labels(b, next, val + 1) ELSE {}
        IN  [op |-> op, ok |-> ok, val |-> val, next |-> next, jump |-> jump,
             labels |-> IF labels = {} THEN <<>> ELSE The(labels)]
      read == UNION {{Instr(TRUE, imm.val, i + 1 + imm.n + n) :
                        n \in SecondLen(b, op, imm.val, i + 1 + imm.n)} : imm \in FirstImm(b, i)}
  IN  IF read = {} THEN Instr(FALSE, 0, i + 1) ELSE The(read)

\* The code of a module: its bodies, decoded at every position.
decode_bodies(bodies) ==
  LET table == new_table(bodies)
      JumpAt(body, i) == IF At(At(bodies, body), i) \in BlockOps
                         THEN Jump(table, bodies, body, i + 2) ELSE NoEnd
  IN  [body \in 0 .. Len(bodies) - 1 |->
         [i \in 0 .. Len(At(bodies, body)) - 1 |->
            Decode(At(bodies, body), i, JumpAt(body, i))]]
=============================================================================

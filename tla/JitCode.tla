------------------------------ MODULE JitCode -------------------------------
(***************************************************************************)
(* The JIT compiler: which bodies jit_compile_body accepts, and what the   *)
(* x86 code it emits for them computes.  The WASM operand stack is the     *)
(* machine stack, the locals are the caller's buffer, and every emitted    *)
(* operation works on the whole 64-bit register.                           *)
(***************************************************************************)
EXTENDS WasmInt

JitArith == {106, 107, 108, 113, 114, 115, 116, 117, 118}
JitImm == {I32_CONST, I64_CONST, LOCAL_GET, LOCAL_SET, LOCAL_TEE}

\* c is the body, decoded: whether the pass that is at position i gets to the end.
compiles(c) ==
  LET Compiles[i \in Nat] ==
        \/ i \notin DOMAIN c
        \/ c[i].op \in JitImm /\ c[i].ok /\ Compiles[c[i].next]
        \/ c[i].op \in JitArith \cup {DROP, NOP} /\ Compiles[c[i].next]
        \/ c[i].op = RETURN
        \/ c[i].op = END_OP /\ i + 1 \notin DOMAIN c
  IN  Compiles
jit_compile_body(c, result_count) == result_count <= 1 /\ compiles(c)[0]

\* Mutant: the operands are popped in the wrong order.
emit_arithSwapped(op, x, y) == Arith(ArithNames[op - 102], y, x, I64_BITS).val

\* add, sub, imul, and, or, xor, shl, sar, shr of 64-bit registers; the CPU
\* masks a shift count in CL to six bits.
emit_arith(op, x, y) == Arith(ArithNames[op - 102], x, y, I64_BITS).val

emit_return(stack, locals, result_count) ==
  [val |-> IF result_count > 0 THEN stack[Len(stack)] ELSE 0, locals |-> locals]

\* A call of the emitted code: what it returns and what it leaves in the
\* caller's locals buffer (a sequence: local i is its element i + 1).
jit_fn(c, args, result_count) ==
  LET Run[i \in Nat, st \in Seq(Int), loc \in Seq(Int)] ==
        IF i \notin DOMAIN c THEN emit_return(st, loc, result_count)
        ELSE LET op == c[i].op
                 val == c[i].val
                 next == c[i].next
                 top == st[Len(st)]
                 Drop(k) == SubSeq(st, 1, Len(st) - k)
             IN  CASE op \in {I32_CONST, I64_CONST} -> Run[next, Append(st, val), loc]
                   [] op = LOCAL_GET -> Run[next, Append(st, loc[val + 1]), loc]
                   [] op = LOCAL_SET -> Run[next, Drop(1), [loc EXCEPT ![val + 1] = top]]
                   [] op = LOCAL_TEE -> Run[next, st, [loc EXCEPT ![val + 1] = top]]
                   [] op \in JitArith ->
                        Run[next, Append(Drop(2), emit_arith(op, st[Len(st) - 1], top)), loc]
                   [] op = DROP -> Run[next, Drop(1), loc]
                   [] op = NOP  -> Run[next, st, loc]
                   [] OTHER     -> emit_return(st, loc, result_count)
  IN  Run[0, <<>>, args]
=============================================================================

----------------------------- MODULE InterpMap ------------------------------
(***************************************************************************)
(* What the interpreter owes a module that is valid WASM.  The kernel does *)
(* not validate: it trusts the compiler that made the module.  Here that   *)
(* trust is a certificate, a map that gives every reachable position of    *)
(* every body the blocks that enclose it and the number of operands the    *)
(* frame has there, and is closed under the static meaning of each         *)
(* instruction.  Compiled code also branches with no operands left over    *)
(* besides those of the target, which the certificate asks for: do_br      *)
(* leaves surplus operands where they are.  And every block is found, in   *)
(* the jump table or by the scan: a module with more blocks than the table *)
(* has slots has no certificate.                                           *)
(***************************************************************************)
EXTENDS Interp

Certified(mod) == mod.map # <<>>

Bodies(mod) == 0 .. Len(mod.bodies) - 1

\* Position pc of body b is in the map, inside nest, with height operands.
Has(mod, b, pc, nest, height) ==
  /\ pc \in DOMAIN mod.map[b]
  /\ mod.map[b][pc] = [nest |-> nest, height |-> height]

\* An instruction that pops and pushes, at a point with h operands, and goes on.
On(mod, b, next, nest, h, pops, pushes) ==
  h >= pops /\ Has(mod, b, next, nest, h - pops + pushes)

-----------------------------------------------------------------------------
(* The certificate.                                                        *)

\* A branch to label n with h operands left.
BranchOk(mod, b, nest, h, n) ==
  IF n >= Len(nest) THEN h >= FuncType(mod, Len(mod.hosts) + b).results
  ELSE LET target == nest[Len(nest) - n]
       IN  IF target.kind = LOOP
           THEN Has(mod, b, target.pc_start, SubSeq(nest, 1, Len(nest) - n), h)
           ELSE Has(mod, b, target.end_pc + 1, SubSeq(nest, 1, Len(nest) - n - 1), h)

\* The declared locals come after the parameters.
NLocals(mod, b) == FuncType(mod, Len(mod.hosts) + b).params + At(mod.locals, b)

PlainOps ==
  NOP_OPS \cup ConstOps \cup {LOCAL_GET, LOCAL_SET, LOCAL_TEE, GLOBAL_GET, GLOBAL_SET, DROP,
    SELECT, MEMORY_SIZE, MEMORY_GROW, PREFIX} \cup NumericOps \cup LoadOps \cup StoreOps

\* Instructions that only move operands, and what validation asks of their immediates.
PlainOk(mod, b, i, nest, h) ==
  LET Moves(pops, pushes) == On(mod, b, i.next, nest, h, pops, pushes)
  IN  /\ i.op \in NOP_OPS => Moves(0, 0)
      /\ i.op \in ConstOps \cup {LOCAL_GET, GLOBAL_GET, MEMORY_SIZE} => Moves(0, 1)
      /\ i.op \in {LOCAL_SET, GLOBAL_SET, DROP} => Moves(1, 0)
      /\ i.op \in {LOCAL_TEE, MEMORY_GROW} \cup LoadOps => Moves(1, 1)
      /\ i.op \in StoreOps => Moves(2, 0)
      /\ i.op = SELECT => Moves(3, 1)
      /\ i.op \in NumericOps => Moves(Operands(i.op), 1)
      /\ i.op = PREFIX => /\ i.val \in 0 .. 11
                          /\ i.val \in 0 .. 7 => Moves(1, 1)
                          /\ i.val \in {8, 10, 11} => Moves(3, 0)
                          /\ i.val = 9 => Moves(0, 0)
      /\ i.op \in {LOCAL_GET, LOCAL_SET, LOCAL_TEE} => i.val < NLocals(mod, b)
      /\ i.op \in {GLOBAL_GET, GLOBAL_SET} => i.val < Len(mod.globals)
      /\ i.op = GLOBAL_SET => mod.mutable[i.val + 1]

HostOk(mod, f) ==
  LET host == At(mod.hosts, f)
      t == FuncType(mod, f)
  IN  host.pops = t.params /\ host.pushes = t.results

\* i is the instruction at pc.
PointOk(mod, b, pc, i) ==
  LET nest == mod.map[b][pc].nest
      h == mod.map[b][pc].height
      inner == Append(nest, [kind |-> i.op, pc_start |-> i.next, end_pc |-> i.jump.end_pc])
      outer == SubSeq(nest, 1, Len(nest) - 1)
      results == FuncType(mod, Len(mod.hosts) + b).results
      CallOk(t, n) == On(mod, b, i.next, nest, n, t.params, t.results)
  IN  /\ i.ok
      /\ PlainOk(mod, b, i, nest, h)
      /\ i.op \in {BLOCK, LOOP} => i.jump.end_pc >= 0 /\ Has(mod, b, i.next, inner, h)
      /\ i.op = IF_OP => /\ i.jump.end_pc >= 0 /\ h >= 1
                         /\ Has(mod, b, i.next, inner, h - 1)
                         /\ IF i.jump.else_pc = NO_ELSE
                            THEN Has(mod, b, i.jump.end_pc + 1, nest, h - 1)
                            ELSE Has(mod, b, i.jump.else_pc + 1, inner, h - 1)
      /\ i.op = ELSE_OP => nest # <<>> /\ Has(mod, b, nest[Len(nest)].end_pc + 1, outer, h)
      /\ i.op = END_OP => IF nest = <<>> THEN h >= results ELSE Has(mod, b, i.next, outer, h)
      /\ i.op = RETURN => h >= results
      /\ i.op = BR => BranchOk(mod, b, nest, h, i.val)
      /\ i.op = BR_IF => /\ h >= 1
                         /\ Has(mod, b, i.next, nest, h - 1)
                         /\ BranchOk(mod, b, nest, h - 1, i.val)
      /\ i.op = BR_TABLE => /\ h >= 1 /\ Len(i.labels) = i.val + 1
                            /\ \A n \in 1 .. Len(i.labels) :
                                 BranchOk(mod, b, nest, h - 1, i.labels[n])
      /\ i.op = CALL => /\ i.val < Len(mod.hosts) + Len(mod.bodies)
                        /\ CallOk(FuncType(mod, i.val), h)
      /\ i.op = CALL_INDIRECT =>
           /\ h >= 1 /\ i.val < Len(mod.types)
           /\ CallOk(At(mod.types, i.val), h - 1)
      /\ i.op \in PlainOps \cup BlockOps \cup {UNREACHABLE, ELSE_OP, END_OP, RETURN, BR,
                                               BR_IF, BR_TABLE, CALL, CALL_INDIRECT}

Points == [nest : Seq([kind : BlockOps, pc_start : Nat, end_pc : Nat]), height : Nat]

ASSUME CertificateAssumption ==
  \A mod \in Modules : Certified(mod) =>
    /\ \A f \in 0 .. Len(mod.hosts) - 1 : HostOk(mod, f)
    /\ \A e \in DOMAIN mod.table : mod.table[e] < Len(mod.hosts) + Len(mod.bodies)
    /\ \A b \in Bodies(mod) :
         /\ Has(mod, b, 0, <<>>, 0)
         /\ \A pc \in DOMAIN mod.map[b] :
              /\ mod.map[b][pc] \in Points
              /\ pc \in DOMAIN mod.code[b] /\ PointOk(mod, b, pc, mod.code[b][pc])

-----------------------------------------------------------------------------
(* Properties.                                                             *)

\* A valid module, as long as no shadow run failed: run_shadow then leaves the frame
\* of the callee, which is run on as if it had been called.
Orderly == Certified(M) /\ ~shadow.failed

\* A shadow run has just ended and its result is still on the stack.
InShadow == shadow.on /\ fi <= stop

\* Frame j owns its part of the control stack and of the value stack.
CtrlTop(j) == IF j = fi THEN ctrl_depth ELSE frames[j + 1].ctrl_base
ValueTop(j) == IF j = fi THEN vsp
               ELSE frames[j + 1].vsp_base + frames[j + 1].result_count

FrameMapped(j) ==
  LET f == frames[j]
      p == M.map[f.body][f.pc]
  IN  /\ f.body \in Bodies(M) /\ f.pc \in DOMAIN M.map[f.body]
      /\ f.result_count = NResults(f.body)
      /\ f.ctrl_base + Len(p.nest) = CtrlTop(j)
      /\ \A d \in 1 .. Len(p.nest) : ctrl[f.ctrl_base + d - 1] = p.nest[d]
      /\ f.vsp_base + p.height = ValueTop(j)

\* In a valid module every frame is where the map says: the blocks it is in
\* are its own stretch of the shared control stack, and the operands above its
\* base are as many as validation counts, with the results of a pending call
\* already counted for the caller.
StackMapHolds ==
  Orderly /\ ~Over /\ ~InShadow => \A j \in 1 .. fi : FrameMapped(j)

HonestTraps == {"Unreachable", "DivisionByZero", "InvalidConversion", "MemOutOfBounds",
                "IndirectCallNull", "IndirectCallTypeMismatch", "UnknownOpcode",
                "StackOverflow", "CallStackOverflow", "CtrlStackOverflow", "TooManyLocals"}

Blocks(mod) == UNION {{<<b, pc>> : pc \in {pc \in DOMAIN mod.code[b] :
                                    mod.code[b][pc].op \in BlockOps}} : b \in Bodies(mod)}

\* A valid module that was entered stops only for reasons of its own or for a
\* limit of the interpreter: never by an underflow, malformed code, a bad
\* index or a panic of the kernel.
StopsHonestly ==
  Orderly /\ frames # <<>> /\ Over => status \in HonestTraps \cup {"done", "exited"}

\* In any module the lookup of a block ends, unless the jump table may be full: then
\* jump_lookup meets neither its key nor an empty slot.
LookupEnds == status = "hung" => Cardinality(Blocks(M)) >= JUMP_SLOTS

\* What runs cannot reach its callers: a step of the innermost frame leaves
\* the frames below it, and the operands below its base, as they are.
CallersKept ==
  [][Orderly /\ fi > 0 =>
       /\ \A j \in 1 .. fi - 1 : frames'[j] = frames[j]
       /\ \A a \in 0 .. F.vsp_base - 1 : vstack'[a] = vstack[a]]_vars

\* Whatever the bytes of a module, the three stacks stay within their arrays, and the
\* size of memory that run() keeps to itself, against which every access is checked,
\* is the real one: whatever was grown before a yield, in a callee or in the loop.
InBounds ==
  /\ vsp \in 0 .. STACK_DEPTH /\ fi <= CALL_DEPTH /\ ctrl_depth \in 0 .. MAX_CTRL_DEPTH
  /\ \A j \in 1 .. fi : /\ frames[j].ctrl_base \in 0 .. MAX_CTRL_DEPTH
                        /\ frames[j].vsp_base \in 0 .. STACK_DEPTH
                        /\ Len(frames[j].locals) <= MAX_LOCALS
  /\ current_pages <= MAX_PAGES
  /\ status = "running" => active_mem = current_pages * PAGE_SIZE

\* Where native code and interpreter do the same 32-bit arithmetic and no
\* parameter is written, the shadow run ends with the word the native code
\* returned: JIT code may leave other bits above that word.
WordBody(c) ==
  \A i \in DOMAIN c : c[i].op \notin {LOCAL_SET, LOCAL_TEE, I64_CONST} \cup 116 .. 118
NativeAgrees ==
  InShadow /\ shadow.n_results > 0 /\ vsp > shadow.saved_vsp /\ WordBody(M.code[shadow.body])
    => U32(vstack[vsp - 1]) = U32(shadow.jit)

\* A valid module without loops and without calls backwards comes to an end,
\* however often it yields.
LoopFree(mod) ==
  \A b \in Bodies(mod) : \A i \in {mod.code[b][pc] : pc \in DOMAIN mod.map[b]} :
    /\ i.op \notin {LOOP, CALL_INDIRECT}
    /\ i.op = CALL => i.val \notin Len(mod.hosts) .. Len(mod.hosts) + b
LoopFreeStops == (Certified(M) /\ LoopFree(M)) ~> (Over \/ shadow.failed)
=============================================================================

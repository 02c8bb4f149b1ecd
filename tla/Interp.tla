------------------------------- MODULE Interp -------------------------------
(***************************************************************************)
(* The WASM interpreter of one instance: the value stack, the call frames  *)
(* and the control stack that all frames share, one action per family of   *)
(* instructions, calls into the host that may suspend the task, and calls  *)
(* of JIT-compiled functions with the shadow run of the default build.     *)
(*                                                                         *)
(* An instruction that fails changes nothing but the status: what it has   *)
(* already popped is reset before the instance is entered again.           *)
(***************************************************************************)
EXTENDS JitCode

CONSTANTS
  Modules,         \* the modules that are run: a set of records
  Args,            \* argument lists a task is started with
  HostValues,      \* what a host function may return or write
  STACK_DEPTH, CALL_DEPTH, MAX_CTRL_DEPTH, MAX_LOCALS,
  PAGE_SIZE, MAX_PAGES

ASSUME LimitsAssumption ==
  /\ STACK_DEPTH \in Nat /\ CALL_DEPTH \in Nat
  /\ MAX_CTRL_DEPTH \in Nat /\ MAX_LOCALS \in Nat
  /\ PAGE_SIZE \in Nat \ {0} /\ MAX_PAGES \in Nat
\* A module comes with its bodies decoded, so that a step need not do it.
ASSUME CodeAssumption == \A mod \in Modules : mod.code = decode_bodies(mod.bodies)
ASSUME InputAssumption == Args \subseteq Seq(Int) /\ HostValues \subseteq Int

NULL_FUNC == -1

\* What the loader leaves in the tables of an instance, and what decoding a body
\* yields: only the constants have immediates with a sign.
Instructions ==
  [op : 0 .. 255, ok : BOOLEAN, val : Int, next : Nat,
   jump : [end_pc : Int, else_pc : Int], labels : Seq(Nat)]
HostFns == [ends : {"running", "yielded", "exited"}, pops : Nat, pushes : 0 .. 1,
            writes : BOOLEAN]
ASSUME ModuleAssumption ==
  \A mod \in Modules :
    /\ mod.hosts \in Seq(HostFns) /\ mod.ftype \in Seq(Nat)
    /\ mod.types \in Seq([params : Nat, results : Nat])
    /\ mod.bodies \in Seq(Seq(0 .. 255)) /\ mod.locals \in Seq(Nat)
    /\ Len(mod.locals) = Len(mod.bodies)
    /\ mod.table \in Seq(Nat \cup {NULL_FUNC})
    /\ mod.globals \in Seq(Int) /\ mod.mutable \in Seq(BOOLEAN)
    /\ mod.pages \in 0 .. MAX_PAGES /\ mod.entry \in Nat
    /\ DOMAIN mod.code = 0 .. Len(mod.bodies) - 1
    /\ \A b \in DOMAIN mod.code : \A pc \in DOMAIN mod.code[b] :
         /\ pc \in Nat /\ mod.code[b][pc] \in Instructions
         /\ mod.code[b][pc].op \notin {I32_CONST, I64_CONST} => mod.code[b][pc].val \in Nat
         /\ mod.code[b][pc].labels # <<>> =>
              Len(mod.code[b][pc].labels) = mod.code[b][pc].val + 1

VARIABLES
  M,               \* the module of the instance
  jit_fns,         \* the bodies that compile_jit compiled
  vstack, vsp,     \* value stack
  frames,          \* call frames, the innermost last
  ctrl, ctrl_depth, \* control stack of all frames together, an array and its fill
  globals,
  mem, current_pages,
  active_mem,      \* run()'s copy of the size of the active memory
  status,          \* "idle", "running", "yielded", "done", "exited" or an error
  stop,            \* shadow_stop_fdepth
  shadow           \* the JIT call whose shadow run is going on; failed is history: has
                   \* one ended with an error and left its frame

exec == <<vstack, vsp, frames, ctrl, ctrl_depth>>
store == <<globals, mem, current_pages, active_mem>>
control == <<status, stop, shadow>>
fixed == <<M, jit_fns>>
vars == <<fixed, exec, store, control>>

import_count == Len(M.hosts)
NoShadow == [saved_stop |-> 0, saved_vsp |-> 0, jit |-> 0, n_results |-> 0,
             body |-> 0, on |-> FALSE, failed |-> FALSE]

Or(e1, e2) == IF e1 # "" THEN e1 ELSE e2
Check(p, e) == IF p THEN "" ELSE e

-----------------------------------------------------------------------------
(* The instruction at hand.                                                *)

fi == Len(frames)
F == frames[fi]
body == M.code[F.body]
I == body[F.pc]
Running == status = "running" /\ fi > stop
Fetch(ops) == Running /\ F.pc \in DOMAIN body /\ I.op \in ops

arg(k) == vstack[vsp - k]
U32(x) == x % 2^I32_BITS

TypeIndex(mod, f) == IF f < Len(mod.ftype) THEN At(mod.ftype, f) ELSE 0
FuncType(mod, f) ==
  IF TypeIndex(mod, f) < Len(mod.types) THEN At(mod.types, TypeIndex(mod, f))
  ELSE [params |-> 0, results |-> 0]

StackTrap(pops, pushes) ==
  IF vsp < pops THEN "StackUnderflow"
  ELSE Check(vsp - pops + pushes <= STACK_DEPTH, "StackOverflow")

\* The cells popped, then nothing or one value pushed, and on to pc.
Pop(k, pc) ==
  /\ vsp' = vsp - k
  /\ frames' = [frames EXCEPT ![fi].pc = pc]
  /\ UNCHANGED <<vstack, ctrl, ctrl_depth, control>>
PopPush(k, v, pc) ==
  /\ vstack' = [vstack EXCEPT ![vsp - k] = v]
  /\ vsp' = vsp - k + 1
  /\ frames' = [frames EXCEPT ![fi].pc = pc]
  /\ UNCHANGED <<ctrl, ctrl_depth, control>>

-----------------------------------------------------------------------------
(* Errors.  run() returns the error to the task, or to run_shadow, which   *)
(* cuts the value stack back and lets the call finish with the result of   *)
(* the JIT code.                                                           *)

FinishJitCall(failed) ==
  /\ stop' = shadow.saved_stop
  /\ shadow' = [NoShadow EXCEPT !.failed = failed]
  /\ IF shadow.n_results = 0
     THEN vsp' = shadow.saved_vsp /\ UNCHANGED <<vstack, status>>
     ELSE IF shadow.saved_vsp >= STACK_DEPTH
     THEN vsp' = shadow.saved_vsp /\ status' = "StackOverflow" /\ UNCHANGED vstack
     ELSE /\ vstack' = [vstack EXCEPT ![shadow.saved_vsp] = shadow.jit]
          /\ vsp' = shadow.saved_vsp + 1
          /\ UNCHANGED status
  /\ UNCHANGED <<frames, ctrl, ctrl_depth>>

Panic == status' = "panic" /\ UNCHANGED <<exec, stop, shadow>>

Fail(e) ==
  /\ IF shadow.on THEN FinishJitCall(TRUE)
     ELSE status' = e /\ UNCHANGED <<exec, stop, shadow>>
  /\ UNCHANGED <<fixed, store>>

-----------------------------------------------------------------------------
(* Constants, locals, globals, drop, select.                               *)

NOP_OPS == {NOP, 189, 190, 191}
ConstOps == I32_CONST .. F64_CONST

ImmTrap == Check(I.ok, "MalformedCode")
IndexTrap(size, e) == Or(ImmTrap, Check(I.val < size, e))

Plain == UNCHANGED <<fixed, store>>

Nop == Fetch(NOP_OPS) /\ Pop(0, I.next) /\ Plain

ConstTrap == Or(ImmTrap, StackTrap(0, 1))
Const ==
  /\ Fetch({I32_CONST, I64_CONST}) /\ ConstTrap = ""
  /\ PopPush(0, I.val, I.next)
  /\ Plain
FloatConst ==
  /\ Fetch({F32_CONST, F64_CONST}) /\ ConstTrap = ""
  /\ \E bits \in FloatBits : PopPush(0, bits, I.next)
  /\ Plain

LocalTrap ==
  Or(IndexTrap(Len(F.locals), "LocalIndexOutOfRange"),
     StackTrap(IF I.op = LOCAL_GET THEN 0 ELSE 1, IF I.op = LOCAL_SET THEN 0 ELSE 1))
LocalGet ==
  /\ Fetch({LOCAL_GET}) /\ LocalTrap = ""
  /\ PopPush(0, F.locals[I.val + 1], I.next)
  /\ Plain
LocalSet ==
  /\ Fetch({LOCAL_SET, LOCAL_TEE}) /\ LocalTrap = ""
  /\ frames' = [frames EXCEPT ![fi].locals[I.val + 1] = arg(1), ![fi].pc = I.next]
  /\ vsp' = IF I.op = LOCAL_SET THEN vsp - 1 ELSE vsp
  /\ UNCHANGED <<vstack, ctrl, ctrl_depth, control>> /\ Plain

GlobalTrap ==
  Or(IndexTrap(Len(globals), "GlobalIndexOutOfRange"),
     IF I.op = GLOBAL_GET THEN StackTrap(0, 1)
     ELSE Or(Check(M.mutable[I.val + 1], "GlobalImmutable"), StackTrap(1, 0)))
GlobalGet ==
  /\ Fetch({GLOBAL_GET}) /\ GlobalTrap = ""
  /\ PopPush(0, globals[I.val + 1], I.next)
  /\ Plain
GlobalSet ==
  /\ Fetch({GLOBAL_SET}) /\ GlobalTrap = ""
  /\ globals' = [globals EXCEPT ![I.val + 1] = arg(1)]
  /\ Pop(1, I.next)
  /\ UNCHANGED <<fixed, mem, current_pages, active_mem>>

Drop == Fetch({DROP}) /\ StackTrap(1, 0) = "" /\ Pop(1, I.next) /\ Plain
Select ==
  /\ Fetch({SELECT}) /\ StackTrap(3, 1) = ""
  /\ PopPush(3, IF arg(1) # 0 THEN arg(3) ELSE arg(2), I.next)
  /\ Plain

-----------------------------------------------------------------------------
(* Numeric instructions.                                                   *)

NumericTrap == StackTrap(Operands(I.op), 1)
Numeric ==
  /\ Fetch(NumericOps) /\ NumericTrap = ""
  /\ \E r \in NumericResults(I.op, arg(Operands(I.op)), arg(1)) :
       IF r.err # "" THEN Fail(r.err)
       ELSE PopPush(Operands(I.op), r.val, I.next) /\ Plain

-----------------------------------------------------------------------------
(* Linear memory.                                                          *)

Width == IF I.op \in LoadOps
         THEN <<4, 8, 4, 8, 1, 1, 2, 2, 1, 1, 2, 2, 4, 4>>[I.op - 39]
         ELSE <<4, 8, 4, 8, 1, 2, 1, 2, 4>>[I.op - 53]
SignedLoads == {40, 41, 43, 44, 46, 48, 50, 52}

Loaded(ea, width) ==
  LET sum[k \in 0 .. width] ==
        IF k = 0 THEN 0
        ELSE sum[k - 1] + mem[ea + k - 1] * 2^(BYTE_BITS * (k - 1))
  IN  IF I.op \in SignedLoads THEN Signed(sum[width], BYTE_BITS * width)
      ELSE sum[width]

AccessTrap(k) ==
  Or(ImmTrap,
  Or(StackTrap(k, 2 - k),
     Check(U32(arg(k)) + I.val + Width <= active_mem, "MemOutOfBounds")))

Load ==
  /\ Fetch(LoadOps) /\ AccessTrap(1) = ""
  /\ PopPush(1, Loaded(U32(arg(1)) + I.val, Width), I.next)
  /\ Plain

Store ==
  /\ Fetch(StoreOps) /\ AccessTrap(2) = ""
  /\ LET ea == U32(arg(2)) + I.val
     IN  mem' = [a \in DOMAIN mem |->
                   IF a \in ea .. ea + Width - 1
                   THEN (arg(1) \div 2^(BYTE_BITS * (a - ea))) % 2^BYTE_BITS
                   ELSE mem[a]]
  /\ Pop(2, I.next)
  /\ UNCHANGED <<fixed, globals, current_pages, active_mem>>

MemorySize ==
  /\ Fetch({MEMORY_SIZE}) /\ StackTrap(0, 1) = ""
  /\ PopPush(0, current_pages, I.next)
  /\ Plain

\* Mutant: run()'s copy of the size is not updated.
MemoryGrowStale ==
  /\ Fetch({MEMORY_GROW}) /\ StackTrap(1, 1) = ""
  /\ current_pages + U32(arg(1)) <= MAX_PAGES
  /\ current_pages' = current_pages + U32(arg(1))
  /\ PopPush(1, current_pages, I.next)
  /\ UNCHANGED <<fixed, globals, mem, active_mem>>

\* The pages that become active are cleared: a host function may have written
\* there, since it is given the whole memory of the slot.
MemoryGrow ==
  /\ Fetch({MEMORY_GROW}) /\ StackTrap(1, 1) = ""
  /\ LET new == current_pages + U32(arg(1))
     IN  IF new <= MAX_PAGES
         THEN /\ mem' = [a \in DOMAIN mem |->
                           IF a \in current_pages * PAGE_SIZE .. new * PAGE_SIZE - 1
                           THEN 0 ELSE mem[a]]
              /\ current_pages' = new
              /\ active_mem' = new * PAGE_SIZE
              /\ PopPush(1, current_pages, I.next)
         ELSE PopPush(1, -1, I.next) /\ UNCHANGED <<mem, current_pages, active_mem>>
  /\ UNCHANGED <<fixed, globals>>

\* 0xFC: saturating truncation and bulk memory.
InMemory(from, n) == from >= 0 /\ n >= 0 /\ from + n <= active_mem
PrefixPops == IF I.val \in 0 .. 7 THEN 1 ELSE IF I.val = 9 THEN 0 ELSE 3
PrefixTrap ==
  Or(ImmTrap,
  Or(Check(I.val \in 0 .. 11, "UnknownOpcode"),
  Or(StackTrap(PrefixPops, IF I.val \in 0 .. 7 THEN 1 ELSE 0),
  Or(Check(I.val = 8 => arg(1) = 0, "UnknownOpcode"),
  Or(Check(I.val = 10 => InMemory(arg(2), arg(1)), "MemOutOfBounds"),
     Check(I.val \in {10, 11} => InMemory(arg(3), arg(1)), "MemOutOfBounds"))))))

TruncSat ==
  /\ Fetch({PREFIX}) /\ PrefixTrap = "" /\ I.val \in 0 .. 7
  /\ \E v \in FloatBits : PopPush(1, v, I.next)
  /\ Plain
DataSegment ==
  /\ Fetch({PREFIX}) /\ PrefixTrap = "" /\ I.val \in {8, 9}
  /\ Pop(PrefixPops, I.next)
  /\ Plain
BulkMemory ==
  /\ Fetch({PREFIX}) /\ PrefixTrap = "" /\ I.val \in {10, 11}
  /\ mem' = [a \in DOMAIN mem |->
               IF a \notin arg(3) .. arg(3) + arg(1) - 1 THEN mem[a]
               ELSE IF I.val = 10 THEN mem[arg(2) + a - arg(3)]
               ELSE arg(2) % 2^BYTE_BITS]
  /\ Pop(PrefixPops, I.next)
  /\ UNCHANGED <<fixed, globals, current_pages, active_mem>>

-----------------------------------------------------------------------------
(* Blocks and branches.                                                    *)

\* Mutants: a loop that restarts at its own opcode; a block that restarts.
CtrlFrameAtOpcode == [kind |-> I.op, pc_start |-> F.pc, end_pc |-> I.jump.end_pc]
CtrlFrameLoops == [kind |-> LOOP, pc_start |-> I.next, end_pc |-> I.jump.end_pc]

CtrlFrame == [kind |-> I.op, pc_start |-> I.next, end_pc |-> I.jump.end_pc]

BLANK_CTRL == [kind |-> BLOCK, pc_start |-> 0, end_pc |-> 0]

Taken == I.op # IF_OP \/ arg(1) # 0
CtrlTrap == Check(ctrl_depth < MAX_CTRL_DEPTH, "CtrlStackOverflow")
BlockTrap ==
  Or(Check(I.jump # NoEnd, "MalformedCode"),
     IF I.op = IF_OP
     THEN Or(StackTrap(1, 0),
             IF Taken \/ I.jump.else_pc # NO_ELSE THEN CtrlTrap ELSE "")
     ELSE CtrlTrap)

\* A lookup that meets neither its key nor an empty slot never ends.
LookupHangs ==
  /\ Fetch(BlockOps) /\ I.jump = Endless
  /\ status' = "hung"
  /\ UNCHANGED <<exec, stop, shadow>> /\ Plain

ctrl_push ==
  ctrl' = [ctrl EXCEPT ![ctrl_depth] = CtrlFrame] /\ ctrl_depth' = ctrl_depth + 1

Block ==
  /\ Fetch({BLOCK, LOOP}) /\ I.jump # Endless /\ BlockTrap = ""
  /\ ctrl_push
  /\ frames' = [frames EXCEPT ![fi].pc = I.next]
  /\ UNCHANGED <<vstack, vsp, control>> /\ Plain

If ==
  /\ Fetch({IF_OP}) /\ I.jump # Endless /\ BlockTrap = ""
  /\ LET pc == IF Taken THEN I.next
               ELSE IF I.jump.else_pc # NO_ELSE THEN I.jump.else_pc + 1
               ELSE I.jump.end_pc + 1
     IN  /\ frames' = [frames EXCEPT ![fi].pc = pc]
         /\ IF Taken \/ I.jump.else_pc # NO_ELSE THEN ctrl_push
            ELSE UNCHANGED <<ctrl, ctrl_depth>>
  /\ vsp' = vsp - 1
  /\ UNCHANGED <<vstack, control>> /\ Plain

\* The innermost block of all frames, even where this frame has none.
Else ==
  /\ Fetch({ELSE_OP})
  /\ IF ctrl_depth = 0 THEN Panic
     ELSE /\ ctrl_depth' = ctrl_depth - 1
          /\ frames' = [frames EXCEPT ![fi].pc = ctrl[ctrl_depth - 1].end_pc + 1]
          /\ UNCHANGED <<vstack, vsp, ctrl, control>>
  /\ Plain

\* The results move down to the frame's base, one after the other.
do_return(sp) ==
  LET rc == F.result_count
      base == F.vsp_base
      src == IF sp < rc THEN 0 ELSE sp - rc
      moved[i \in 0 .. rc - 1] ==
        IF src < base /\ src + i >= base THEN moved[src + i - base]
        ELSE vstack[src + i]
  IN  IF base + rc > STACK_DEPTH
      THEN Panic
      ELSE /\ vstack' = [i \in DOMAIN vstack |->
                           IF i \in base .. base + rc - 1 THEN moved[i - base]
                           ELSE vstack[i]]
           /\ vsp' = base + rc
           /\ ctrl_depth' = F.ctrl_base
           /\ frames' = SubSeq(frames, 1, fi - 1)
           /\ UNCHANGED <<ctrl, control>>

\* A branch cuts the control stack back to its target, not the value stack.
do_br(n, sp) ==
  IF ctrl_depth < F.ctrl_base THEN Panic
  ELSE IF n >= ctrl_depth - F.ctrl_base THEN do_return(sp)
  ELSE LET target == ctrl[ctrl_depth - 1 - n]
           loop == target.kind = LOOP
       IN  /\ ctrl_depth' = IF loop THEN ctrl_depth - n ELSE ctrl_depth - 1 - n
           /\ frames' = [frames EXCEPT ![fi].pc =
                           IF loop THEN target.pc_start ELSE target.end_pc + 1]
           /\ vsp' = sp
           /\ UNCHANGED <<vstack, ctrl, control>>

End ==
  /\ Fetch({END_OP})
  /\ IF ctrl_depth > F.ctrl_base
     THEN /\ ctrl_depth' = ctrl_depth - 1
          /\ frames' = [frames EXCEPT ![fi].pc = I.next]
          /\ UNCHANGED <<vstack, vsp, ctrl, control>>
     ELSE do_return(vsp)
  /\ Plain

BrTrap == Or(ImmTrap,
             IF I.op = BR_IF THEN StackTrap(1, 0) ELSE "")
Br ==
  /\ Fetch({BR}) /\ BrTrap = ""
  /\ do_br(I.val, vsp) /\ Plain
BrIf ==
  /\ Fetch({BR_IF}) /\ BrTrap = ""
  /\ IF arg(1) # 0 THEN do_br(I.val, vsp - 1) ELSE Pop(1, I.next)
  /\ Plain

BrTableTrap ==
  Or(ImmTrap, Or(StackTrap(1, 0), Check(I.labels # <<>>, "MalformedCode")))
BrTable ==
  /\ Fetch({BR_TABLE}) /\ BrTableTrap = ""
  /\ LET k == IF U32(arg(1)) \in 0 .. I.val - 1 THEN U32(arg(1)) ELSE I.val
     IN  do_br(I.labels[k + 1], vsp - 1)
  /\ Plain

Return ==
  /\ Running
  /\ F.pc \in DOMAIN body => I.op = RETURN
  /\ do_return(vsp) /\ Plain

-----------------------------------------------------------------------------
(* Calls.                                                                  *)

\* Mutant: results forgotten.
NResultsDropped(b) == 0

NParams(b) == FuncType(M, import_count + b).params
NResults(b) == FuncType(M, import_count + b).results

FrameTrap(b, sp) ==
  Or(Check(fi < CALL_DEPTH, "CallStackOverflow"),
  Or(Check(NParams(b) + At(M.locals, b) <= MAX_LOCALS, "TooManyLocals"),
     Check(sp >= NParams(b), "StackUnderflow")))

\* Mutant: the base is taken before the parameters are popped.
NewFrameHigh(b, params, sp) ==
  [body |-> b, pc |-> 0,
   locals |-> params \o [i \in 1 .. At(M.locals, b) |-> 0],
   ctrl_base |-> ctrl_depth, vsp_base |-> sp + Len(params), result_count |-> NResults(b)]

NewFrame(b, params, sp) ==
  [body |-> b, pc |-> 0,
   locals |-> params \o [i \in 1 .. At(M.locals, b) |-> 0],
   ctrl_base |-> ctrl_depth, vsp_base |-> sp, result_count |-> NResults(b)]

Params(st, sp, n) == [i \in 1 .. n |-> st[sp - n + i - 1]]

push_frame(b, sp, pc) ==
  /\ frames' = Append([frames EXCEPT ![fi].pc = pc],
                      NewFrame(b, Params(vstack, sp, NParams(b)), sp - NParams(b)))
  /\ vsp' = sp - NParams(b)
  /\ UNCHANGED <<vstack, ctrl, ctrl_depth, control>>

\* The callee: the immediate of call, the table entry of call_indirect.
callee == IF I.op = CALL THEN I.val ELSE At(M.table, U32(arg(1)))
Popped == IF I.op = CALL THEN vsp ELSE vsp - 1

IndirectTrap ==
  Or(StackTrap(1, 0),
  Or(Check(U32(arg(1)) \in 0 .. Len(M.table) - 1, "IndirectCallNull"),
  Or(Check(callee # NULL_FUNC, "IndirectCallNull"),
     Check(TypeIndex(M, callee) = I.val, "IndirectCallTypeMismatch"))))
CalleeTrap ==
  Or(ImmTrap,
  Or(IF I.op = CALL THEN "" ELSE IndirectTrap,
     Check(callee < import_count + Len(M.bodies), "FuncIndexOutOfRange")))

Host == At(M.hosts, callee)
CallTrap ==
  Or(CalleeTrap,
     IF callee < import_count
     THEN IF Popped < Host.pops THEN "StackUnderflow"
          ELSE Check(Popped - Host.pops + Host.pushes <= STACK_DEPTH, "StackOverflow")
     ELSE IF I.op = CALL /\ callee - import_count \in jit_fns
     THEN Check(vsp >= NParams(callee - import_count), "StackUnderflow")
     ELSE FrameTrap(callee - import_count, Popped))

\* A host function: it pops, may write to any byte of the slot's memory, and
\* returns a value, suspends the task or ends it.
HostCall ==
  /\ Fetch({CALL, CALL_INDIRECT}) /\ CallTrap = "" /\ callee < import_count
  /\ frames' = [frames EXCEPT ![fi].pc = I.next]
  /\ vsp' = Popped - Host.pops + Host.pushes
  /\ IF Host.pushes = 0 THEN UNCHANGED vstack
     ELSE \E v \in HostValues : vstack' = [vstack EXCEPT ![Popped - Host.pops] = v]
  /\ IF Host.writes
     THEN \E a \in DOMAIN mem, v \in HostValues :
            mem' = [mem EXCEPT ![a] = v % 2^BYTE_BITS]
     ELSE UNCHANGED mem
  /\ status' = Host.ends
  /\ UNCHANGED <<fixed, ctrl, ctrl_depth, globals, current_pages, active_mem, stop, shadow>>

Call ==
  /\ Fetch({CALL, CALL_INDIRECT}) /\ CallTrap = "" /\ callee >= import_count
  /\ I.op = CALL_INDIRECT \/ callee - import_count \notin jit_fns
  /\ push_frame(callee - import_count, Popped, I.next)
  /\ Plain

\* The JIT code runs on a copy of the arguments; run_shadow is then given that
\* copy, as the code left it, and runs the body until its frame is gone.
JitCall ==
  /\ Fetch({CALL}) /\ CallTrap = "" /\ callee >= import_count
  /\ callee - import_count \in jit_fns
  /\ LET b == callee - import_count
         n == NParams(b)
         args == Params(vstack, vsp, n)
         ran == jit_fn(M.code[b], args \o [i \in 1 .. At(M.locals, b) |-> 0],
                       NResults(b))
         params == [i \in 1 .. n |-> ran.locals[i]]
         runs == FrameTrap(b, vsp) = ""
         caller == [frames EXCEPT ![fi].pc = I.next]
     IN  /\ vstack' = [i \in DOMAIN vstack |->
                         IF i \in vsp - n .. vsp - 1 THEN params[i - (vsp - n) + 1]
                         ELSE vstack[i]]
         /\ vsp' = vsp - n
         /\ stop' = fi
         /\ shadow' = [saved_stop |-> stop, saved_vsp |-> vsp - n, jit |-> ran.val,
                       n_results |-> NResults(b), body |-> b, on |-> TRUE,
                       failed |-> shadow.failed]
         /\ frames' = IF runs THEN Append(caller, NewFrame(b, params, vsp - n)) ELSE caller
  /\ UNCHANGED <<ctrl, ctrl_depth, status>> /\ Plain

\* The shadow run is over: its result is compared, a difference is printed.
ShadowReturns ==
  /\ status = "running" /\ fi <= stop /\ shadow.on
  /\ FinishJitCall(shadow.failed) /\ Plain

-----------------------------------------------------------------------------
(* Errors of the instruction at hand.                                      *)

TrapOf ==
  CASE I.op = UNREACHABLE -> "Unreachable"
    [] I.op \in ConstOps -> ConstTrap
    [] I.op \in {LOCAL_GET, LOCAL_SET, LOCAL_TEE} -> LocalTrap
    [] I.op \in {GLOBAL_GET, GLOBAL_SET} -> GlobalTrap
    [] I.op = DROP -> StackTrap(1, 0)
    [] I.op = SELECT -> StackTrap(3, 1)
    [] I.op \in NumericOps -> NumericTrap
    [] I.op \in LoadOps -> AccessTrap(1)
    [] I.op \in StoreOps -> AccessTrap(2)
    [] I.op = MEMORY_SIZE -> StackTrap(0, 1)
    [] I.op = MEMORY_GROW -> StackTrap(1, 1)
    [] I.op = PREFIX -> PrefixTrap
    [] I.op \in BlockOps -> BlockTrap
    [] I.op \in {BR, BR_IF} -> BrTrap
    [] I.op = BR_TABLE -> BrTableTrap
    [] I.op \in {CALL, CALL_INDIRECT} -> CallTrap
    [] I.op \in NOP_OPS \cup {ELSE_OP, END_OP, RETURN} -> ""
    [] OTHER -> "UnknownOpcode"

Trap ==
  /\ Running /\ F.pc \in DOMAIN body
  /\ I.op \in BlockOps => I.jump # Endless
  /\ TrapOf # ""
  /\ Fail(TrapOf)

-----------------------------------------------------------------------------
(* The life of an instance.                                                *)

Bytes == 0 .. MAX_PAGES * PAGE_SIZE - 1

\* compile_jit goes through the bodies in order and stops where the code
\* buffer, shared with all instances before, has no room left.
compile_jit(mod, room) ==
  {b \in DOMAIN mod.code :
     /\ b < room
     /\ jit_compile_body(mod.code[b], FuncType(mod, Len(mod.hosts) + b).results)}

\* spawn: the whole slot is cleared, then the data segments are copied in.
Init ==
  /\ M \in Modules
  /\ \E room \in 0 .. Len(M.bodies) : jit_fns = compile_jit(M, room)
  /\ vstack = [i \in 0 .. STACK_DEPTH - 1 |-> 0] /\ vsp = 0
  /\ frames = <<>>
  /\ ctrl = [i \in 0 .. MAX_CTRL_DEPTH - 1 |-> BLANK_CTRL] /\ ctrl_depth = 0
  /\ globals = M.globals
  /\ mem = [a \in Bytes |-> IF a \in DOMAIN M.data THEN M.data[a] ELSE 0]
  /\ current_pages = M.pages /\ active_mem = 0
  /\ status = "idle" /\ stop = 0 /\ shadow = NoShadow

\* start_task: reset_for_call, the arguments pushed, then call.
StartTrap(args) ==
  IF Len(args) > STACK_DEPTH THEN "StackOverflow"
  ELSE IF M.entry < import_count THEN "ImportNotFound"
  ELSE IF M.entry - import_count >= Len(M.bodies) THEN "FuncIndexOutOfRange"
  ELSE FrameTrap(M.entry - import_count, Len(args))

Start ==
  /\ status = "idle"
  /\ \E args \in Args :
       IF StartTrap(args) # ""
       THEN status' = StartTrap(args) /\ UNCHANGED <<exec, active_mem>>
       ELSE LET b == M.entry - import_count
                n == NParams(b)
            IN  /\ vstack' = [i \in DOMAIN vstack |->
                                IF i < Len(args) THEN args[i + 1] ELSE vstack[i]]
                /\ vsp' = Len(args) - n
                /\ frames' = <<NewFrame(b, SubSeq(args, Len(args) - n + 1, Len(args)),
                                        Len(args) - n)>>
                /\ active_mem' = current_pages * PAGE_SIZE
                /\ status' = "running"
                /\ UNCHANGED <<ctrl, ctrl_depth>>
  /\ UNCHANGED <<fixed, globals, mem, current_pages, stop, shadow>>

Resume ==
  /\ status = "yielded"
  /\ status' = "running"
  /\ active_mem' = current_pages * PAGE_SIZE
  /\ UNCHANGED <<fixed, exec, globals, mem, current_pages, stop, shadow>>

Completes ==
  /\ status = "running" /\ fi <= stop /\ ~shadow.on
  /\ status' = "done"
  /\ UNCHANGED <<fixed, exec, store, stop, shadow>>

Over == status \notin {"idle", "running", "yielded"}
Stopped == Over /\ UNCHANGED vars

Instruction ==
  \/ Nop \/ Const \/ FloatConst \/ LocalGet \/ LocalSet \/ GlobalGet \/ GlobalSet
  \/ Drop \/ Select \/ Numeric \/ Load \/ Store \/ MemorySize \/ MemoryGrow
  \/ TruncSat \/ DataSegment \/ BulkMemory
  \/ LookupHangs \/ Block \/ If \/ Else \/ End \/ Br \/ BrIf \/ BrTable \/ Return
  \/ HostCall \/ Call \/ JitCall \/ Trap

Next == Start \/ Instruction \/ ShadowReturns \/ Completes \/ Resume \/ Stopped

Spec == Init /\ [][Next]_vars

\* A task that is entered is run, and one that yields is entered again.
FairSpec == Spec /\ WF_vars(Next)
=============================================================================

---------------------------- MODULE InterpProofs ----------------------------
EXTENDS InterpMap, TLAPS

\* s is a sequence of n elements of any kind.
IsSeqOf(s, n) == n \in Nat /\ s = [i \in 1 .. n |-> s[i]]

-----------------------------------------------------------------------------
(* The inductive invariant of the stacks and of memory.                    *)

IsFrame(f) ==
  f = [body |-> f.body, pc |-> f.pc, locals |-> f.locals, ctrl_base |-> f.ctrl_base,
       vsp_base |-> f.vsp_base, result_count |-> f.result_count]
FrameOk(mod, f) ==
  /\ IsFrame(f)
  /\ f.body \in Bodies(mod)
  /\ f.ctrl_base \in 0 .. MAX_CTRL_DEPTH /\ f.vsp_base \in 0 .. STACK_DEPTH
  /\ f.result_count \in Nat
  /\ IsSeqOf(f.locals, NLocals(mod, f.body)) /\ NLocals(mod, f.body) <= MAX_LOCALS

\* The three stacks of any module.
StackInv ==
  /\ M \in Modules
  /\ DOMAIN vstack = 0 .. STACK_DEPTH - 1 /\ vsp \in 0 .. STACK_DEPTH
  /\ DOMAIN ctrl = 0 .. MAX_CTRL_DEPTH - 1 /\ ctrl_depth \in 0 .. MAX_CTRL_DEPTH
  /\ IsSeqOf(frames, fi) /\ fi <= CALL_DEPTH
  /\ \A j \in 1 .. fi : FrameOk(M, frames[j])
  /\ shadow.saved_vsp \in 0 .. STACK_DEPTH /\ shadow.n_results \in Nat
  /\ stop \in Nat /\ shadow.saved_stop \in Nat
  /\ IsSeqOf(globals, Len(M.globals))
  /\ \A b \in jit_fns :
       b \in Bodies(M) /\ NResults(b) \in 0 .. 1 /\ compiles(M.code[b])[0]

MemInv ==
  /\ current_pages <= MAX_PAGES
  /\ status = "running" => active_mem = current_pages * PAGE_SIZE

-----------------------------------------------------------------------------
(* Sequences of elements of any kind.                                      *)

LEMMA SeqLen ==
  ASSUME NEW s, NEW n, IsSeqOf(s, n)
  PROVE  Len(s) = n /\ DOMAIN s = 1 .. n /\ s \in Seq({s[i] : i \in 1 .. n})
  <1>1. DOMAIN s = 1 .. n
    BY DEF IsSeqOf
  <1>2. s \in [1 .. n -> {s[i] : i \in 1 .. n}]
    BY DEF IsSeqOf
  <1>3. s \in Seq({s[i] : i \in 1 .. n})
    BY <1>2 DEF IsSeqOf
  <1> QED
    BY <1>1, <1>3 DEF IsSeqOf

LEMMA SetAt ==
  ASSUME NEW s, NEW n, IsSeqOf(s, n), NEW i \in 1 .. n, NEW e
  PROVE  /\ IsSeqOf([s EXCEPT ![i] = e], n)
         /\ [s EXCEPT ![i] = e][i] = e
         /\ \A j \in 1 .. n : j # i => [s EXCEPT ![i] = e][j] = s[j]
  <1>1. DOMAIN s = 1 .. n
    BY DEF IsSeqOf
  <1> QED
    BY <1>1 DEF IsSeqOf

\* r is s, of n elements, and e after them.
Longer(r, s, n, e) == IsSeqOf(r, n + 1) /\ r[n + 1] = e /\ \A j \in 1 .. n : r[j] = s[j]

LEMMA AppendAt ==
  ASSUME NEW s, NEW n, IsSeqOf(s, n), NEW e, NEW r, r = Append(s, e)
  PROVE  Longer(r, s, n, e)
  <1> DEFINE S == {s[i] : i \in 1 .. n} \cup {e}
  <1>1. s \in Seq(S) /\ e \in S /\ Len(s) = n /\ n \in Nat
    BY SeqLen DEF IsSeqOf
  <1>2. Append(s, e) \in Seq(S) /\ Len(Append(s, e)) = n + 1
    BY <1>1
  <1>3. Append(s, e)[n + 1] = e /\ \A j \in 1 .. n : Append(s, e)[j] = s[j]
    BY <1>1
  <1> QED
    BY <1>1, <1>2, <1>3 DEF IsSeqOf, Longer

LEMMA ConcatAt ==
  ASSUME NEW s, NEW n, IsSeqOf(s, n), NEW t, NEW m, IsSeqOf(t, m)
  PROVE  IsSeqOf(s \o t, n + m)
  <1> DEFINE S == {s[i] : i \in 1 .. n} \cup {t[i] : i \in 1 .. m}
  <1>0. Len(s) = n /\ Len(t) = m /\ n \in Nat /\ m \in Nat
    BY SeqLen DEF IsSeqOf
  <1>a. s \in [1 .. n -> S] /\ t \in [1 .. m -> S]
    BY DEF IsSeqOf
  <1>1. s \in Seq(S) /\ t \in Seq(S)
    <2> HIDE DEF S
    <2> QED
      BY <1>0, <1>a
  <1> HIDE DEF S
  <1>2. s \o t \in Seq(S) /\ Len(s \o t) = n + m
    BY <1>0, <1>1
  <1> QED
    BY <1>0, <1>1, <1>2 DEF IsSeqOf

LEMMA CutTo ==
  ASSUME NEW s, NEW n, IsSeqOf(s, n), NEW m \in 0 .. n
  PROVE  /\ IsSeqOf(SubSeq(s, 1, m), m)
         /\ \A j \in 1 .. m : SubSeq(s, 1, m)[j] = s[j]
  <1> DEFINE S == {s[i] : i \in 1 .. n}
  <1>1. s \in Seq(S) /\ Len(s) = n /\ n \in Nat
    BY SeqLen DEF IsSeqOf
  <1>2. SubSeq(s, 1, m) \in Seq(S) /\ Len(SubSeq(s, 1, m)) = m
    BY <1>1
  <1>3. \A j \in 1 .. m : SubSeq(s, 1, m)[j] = s[j]
    BY <1>1
  <1> QED
    BY <1>1, <1>2, <1>3 DEF IsSeqOf
-----------------------------------------------------------------------------
(* Changes of the frames.                                                  *)

LEMMA Entry ==
  ASSUME NEW S, NEW s \in Seq(S), NEW i \in Nat, i < Len(s)
  PROVE  At(s, i) \in S
  BY DEF At

LEMMA TypesOk ==
  ASSUME NEW mod \in Modules, NEW f \in Nat
  PROVE  FuncType(mod, f) \in [params : Nat, results : Nat]
  <1>1. mod.ftype \in Seq(Nat) /\ mod.types \in Seq([params : Nat, results : Nat])
    BY ModuleAssumption
  <1>2. TypeIndex(mod, f) \in Nat
    BY <1>1 DEF TypeIndex, At
  <1>3. TypeIndex(mod, f) < Len(mod.types) =>
          At(mod.types, TypeIndex(mod, f)) \in [params : Nat, results : Nat]
    BY <1>1, <1>2, Entry, Zenon
  <1>4. [params |-> 0, results |-> 0] \in [params : Nat, results : Nat]
    OBVIOUS
  <1> QED
    BY <1>3, <1>4 DEF FuncType

LEMMA BodyFacts ==
  ASSUME NEW mod \in Modules, NEW b \in Bodies(mod)
  PROVE  /\ b \in Nat /\ Len(mod.hosts) \in Nat /\ Len(mod.hosts) + b \in Nat
         /\ FuncType(mod, Len(mod.hosts) + b).params \in Nat
         /\ FuncType(mod, Len(mod.hosts) + b).results \in Nat
         /\ At(mod.locals, b) \in Nat /\ NLocals(mod, b) \in Nat
         /\ b \in DOMAIN mod.code
  <1>0. /\ mod.hosts \in Seq(HostFns) /\ mod.bodies \in Seq(Seq(0 .. 255))
        /\ mod.locals \in Seq(Nat) /\ Len(mod.locals) = Len(mod.bodies)
        /\ DOMAIN mod.code = 0 .. Len(mod.bodies) - 1
    BY ModuleAssumption
  <1>1. b \in Nat /\ Len(mod.hosts) \in Nat /\ Len(mod.hosts) + b \in Nat
    BY <1>0 DEF Bodies
  <1>2. At(mod.locals, b) \in Nat /\ b \in DOMAIN mod.code
    BY <1>0 DEF Bodies, At
  <1>3. FuncType(mod, Len(mod.hosts) + b) \in [params : Nat, results : Nat]
    BY <1>1, TypesOk, Zenon
  <1> QED
    BY <1>1, <1>2, <1>3 DEF NLocals

\* Only the innermost frame changes: its position, and perhaps its locals.
InFrame(fr, pc) ==
  /\ IsSeqOf(fr, fi)
  /\ \A j \in 1 .. fi : j # fi => fr[j] = frames[j]
  /\ IsFrame(fr[fi])
  /\ fr[fi].body = F.body /\ fr[fi].pc = pc
  /\ fr[fi].ctrl_base = F.ctrl_base /\ fr[fi].vsp_base = F.vsp_base
  /\ fr[fi].result_count = F.result_count
  /\ IsSeqOf(fr[fi].locals, NLocals(M, F.body))

LEMMA SetPc ==
  ASSUME StackInv, fi > 0, NEW pc, NEW fr, fr = [frames EXCEPT ![fi].pc = pc]
  PROVE  InFrame(fr, pc)
  <1>1. IsSeqOf(frames, fi) /\ fi \in 1 .. fi /\ FrameOk(M, F)
    BY DEF StackInv, IsSeqOf, F, fi
  <1> DEFINE e == [F EXCEPT !.pc = pc]
  <1>2. fr = [frames EXCEPT ![fi] = e]
    BY DEF F
  <1>3. /\ IsSeqOf(fr, fi) /\ fr[fi] = e
        /\ \A j \in 1 .. fi : j # fi => fr[j] = frames[j]
    <2> HIDE DEF e
    <2>1. DOMAIN frames = 1 .. fi
      BY <1>1 DEF IsSeqOf
    <2> QED
      BY <1>1, <1>2, <2>1, Zenon DEF IsSeqOf
  <1>4. e = [body |-> F.body, pc |-> pc, locals |-> F.locals, ctrl_base |-> F.ctrl_base,
             vsp_base |-> F.vsp_base, result_count |-> F.result_count]
    BY <1>1 DEF FrameOk, IsFrame
  <1> HIDE DEF e
  <1> QED
    BY <1>1, <1>3, <1>4 DEF InFrame, FrameOk, IsFrame

-----------------------------------------------------------------------------
(* Instructions that move operands and go on.                              *)

LEMMA Fields ==
  ASSUME NEW i \in Instructions
  PROVE  /\ i.op \in 0 .. 255 /\ i.val \in Int /\ i.ok \in BOOLEAN /\ i.next \in Nat
         /\ i.jump \in [end_pc : Int, else_pc : Int] /\ i.labels \in Seq(Nat)
  BY Zenon DEF Instructions

LEMMA InstrOk ==
  ASSUME StackInv, Running, F.pc \in DOMAIN body
  PROVE  /\ fi \in Nat /\ fi > 0 /\ FrameOk(M, F) /\ F.body \in Bodies(M)
         /\ I \in Instructions
         /\ I.op \notin {I32_CONST, I64_CONST} => I.val \in Nat
         /\ I.labels # <<>> => Len(I.labels) = I.val + 1
  <1>1. fi \in Nat /\ fi > 0 /\ M \in Modules /\ stop \in Nat
    BY DEF StackInv, IsSeqOf, Running
  <1>2. FrameOk(M, F) /\ F.body \in Bodies(M)
    BY <1>1 DEF StackInv, FrameOk, F
  <1>3. F.body \in DOMAIN M.code
    BY <1>1, <1>2, BodyFacts, Zenon
  <1>4. /\ M.code[F.body][F.pc] \in Instructions
        /\ M.code[F.body][F.pc].op \notin {I32_CONST, I64_CONST} => M.code[F.body][F.pc].val \in Nat
        /\ M.code[F.body][F.pc].labels # <<>> =>
             Len(M.code[F.body][F.pc].labels) = M.code[F.body][F.pc].val + 1
    BY <1>1, <1>3, ModuleAssumption, Zenon DEF body
  <1> QED
    BY <1>1, <1>2, <1>4 DEF I, body

\* k operands popped, p pushed, and on to the next instruction.
Move(k, p) ==
  /\ k \in Nat /\ p \in 0 .. 1 /\ k <= vsp /\ vsp - k + p <= STACK_DEPTH
  /\ vsp' = vsp - k + p
  /\ vstack' = vstack \/ (p = 1 /\ \E v : vstack' = [vstack EXCEPT ![vsp - k] = v])
  /\ InFrame(frames', I.next)
  /\ M' = M /\ ctrl' = ctrl /\ ctrl_depth' = ctrl_depth
  /\ status' = status /\ stop' = stop /\ shadow' = shadow

LEMMA StackTrapOk ==
  ASSUME StackInv, NEW k \in Nat, NEW p \in Nat
  PROVE  /\ StackTrap(k, p) = "" <=> k <= vsp /\ vsp - k + p <= STACK_DEPTH
         /\ k <= vsp => StackTrap(k, p) \in {"", "StackOverflow"}
  BY LimitsAssumption DEF StackInv, StackTrap, Check

LEMMA PopMoves ==
  ASSUME StackInv, fi > 0, NEW k \in Nat, k <= vsp, Pop(k, I.next), M' = M
  PROVE  Move(k, 0)
  <1>1. InFrame(frames', I.next)
    BY SetPc, Zenon DEF Pop
  <1> QED
    BY <1>1, LimitsAssumption DEF Move, Pop, control, StackInv

LEMMA PushMoves ==
  ASSUME StackInv, fi > 0, NEW k \in Nat, k <= vsp, vsp - k + 1 <= STACK_DEPTH,
         NEW v, PopPush(k, v, I.next), M' = M
  PROVE  Move(k, 1)
  <1>1. InFrame(frames', I.next)
    BY SetPc, Zenon DEF PopPush
  <1>2. \E w : vstack' = [vstack EXCEPT ![vsp - k] = w]
    BY Zenon DEF PopPush
  <1> QED
    <2>1. vsp' = vsp - k + 1 /\ 1 \in 0 .. 1
      BY DEF PopPush
    <2>2. /\ ctrl' = ctrl /\ ctrl_depth' = ctrl_depth
          /\ status' = status /\ stop' = stop /\ shadow' = shadow
      BY DEF PopPush, control
    <2> QED
      BY <1>1, <1>2, <2>1, <2>2, Zenon DEF Move

\* The point of the map where the innermost frame is, and what the map says of an
\* instruction there.
Point == M.map[F.body][F.pc]
Goes(k, p) == On(M, F.body, I.next, Point.nest, Point.height, k, p)
AtPoint == PointOk(M, F.body, F.pc, I)

LEMMA PlainGoes ==
  ASSUME AtPoint
  PROVE  /\ I.op \in NOP_OPS => Goes(0, 0)
         /\ I.op \in ConstOps \cup {LOCAL_GET, GLOBAL_GET, MEMORY_SIZE} => Goes(0, 1)
         /\ I.op \in {LOCAL_SET, GLOBAL_SET, DROP} => Goes(1, 0)
         /\ I.op \in {LOCAL_TEE, MEMORY_GROW} \cup LoadOps => Goes(1, 1)
         /\ I.op \in StoreOps => Goes(2, 0)
         /\ I.op = SELECT => Goes(3, 1)
         /\ I.op \in NumericOps => Goes(Operands(I.op), 1)
         /\ I.op = PREFIX /\ I.val \in 0 .. 7 => Goes(1, 1)
         /\ I.op = PREFIX /\ I.val \in {8, 10, 11} => Goes(3, 0)
         /\ I.op = PREFIX /\ I.val = 9 => Goes(0, 0)
  <1>1. PlainOk(M, F.body, I, Point.nest, Point.height)
    BY Zenon DEF AtPoint, PointOk, Point
  <1> QED
    BY <1>1 DEF PlainOk, Goes

PlainStep(k, p) == Move(k, p) /\ (AtPoint => Goes(k, p))
SomePlain == \E k \in 0 .. 3, p \in 0 .. 1 : PlainStep(k, p)

LEMMA Plainly ==
  ASSUME NEW k \in 0 .. 3, NEW p \in 0 .. 1, PlainStep(k, p)
  PROVE  SomePlain
  BY DEF SomePlain

LEMMA PushStep ==
  ASSUME StackInv, Running, F.pc \in DOMAIN body, NEW k \in 0 .. 3, k <= vsp,
         vsp - k + 1 <= STACK_DEPTH, NEW v, PopPush(k, v, I.next), M' = M,
         AtPoint => Goes(k, 1)
  PROVE  SomePlain
  <1>0. k \in Nat /\ 1 \in 0 .. 1
    OBVIOUS
  <1>1. fi > 0
    BY InstrOk
  <1>2. Move(k, 1)
    BY <1>0, <1>1, PushMoves, Zenon
  <1>3. PlainStep(k, 1)
    BY <1>2 DEF PlainStep
  <1> QED
    BY <1>0, <1>3, Plainly, Zenon

LEMMA Small ==
  0 \in 0 .. 3 /\ 1 \in 0 .. 3 /\ 2 \in 0 .. 3 /\ 3 \in 0 .. 3
  OBVIOUS

LEMMA Opcodes ==
  /\ LOCAL_GET # LOCAL_SET /\ LOCAL_TEE # LOCAL_SET /\ LOCAL_TEE # LOCAL_GET
  /\ GLOBAL_SET # GLOBAL_GET /\ BR # BR_IF /\ CALL # CALL_INDIRECT
  BY DEF LOCAL_GET, LOCAL_SET, LOCAL_TEE, GLOBAL_GET, GLOBAL_SET, BR, BR_IF, CALL, CALL_INDIRECT

LEMMA OrEmpty ==
  ASSUME NEW a, NEW b, Or(a, b) = ""
  PROVE  a = "" /\ b = ""
  BY Zenon DEF Or

LEMMA CheckEmpty ==
  ASSUME NEW p \in BOOLEAN, NEW e, e # "", Check(p, e) = ""
  PROVE  p
  BY Zenon DEF Check

LEMMA OrSecond ==
  ASSUME NEW a, NEW b, NEW c, Or(a, Or(b, c)) = ""
  PROVE  b = "" /\ c = ""
  BY Zenon DEF Or

LEMMA Room ==
  ASSUME StackInv
  PROVE  /\ StackTrap(1, 0) = "" => 1 <= vsp
         /\ StackTrap(2, 0) = "" => 2 <= vsp
         /\ StackTrap(3, 0) = "" => 3 <= vsp
         /\ StackTrap(1, 1) = "" => 1 <= vsp /\ vsp - 1 + 1 <= STACK_DEPTH
         /\ StackTrap(2, 1) = "" => 2 <= vsp /\ vsp - 2 + 1 <= STACK_DEPTH
         /\ StackTrap(3, 1) = "" => 3 <= vsp /\ vsp - 3 + 1 <= STACK_DEPTH
  BY LimitsAssumption DEF StackInv, StackTrap, Check

LEMMA OperandsOk ==
  ASSUME NEW op
  PROVE  Operands(op) \in {1, 2}
  BY Zenon DEF Operands

\* An instruction of numbers either moves operands or stops at an error.
LEMMA NumericPlain ==
  ASSUME StackInv, Numeric
  PROVE  \/ SomePlain /\ Plain
         \/ \E r \in NumericResults(I.op, arg(Operands(I.op)), arg(1)) :
              r.err # "" /\ Fail(r.err)
  <1>0. /\ Running /\ F.pc \in DOMAIN body /\ I.op \in NumericOps
        /\ StackTrap(Operands(I.op), 1) = ""
    BY Zenon DEF Numeric, Fetch, NumericTrap
  <1>1. PICK r \in NumericResults(I.op, arg(Operands(I.op)), arg(1)) :
          IF r.err # "" THEN Fail(r.err)
          ELSE PopPush(Operands(I.op), r.val, I.next) /\ Plain
    BY Zenon DEF Numeric
  <1>2. CASE r.err # ""
    BY <1>1, <1>2, Zenon
  <1>3. CASE r.err = ""
    <2>a. PopPush(Operands(I.op), r.val, I.next) /\ Plain
      BY <1>1, <1>3, Zenon
    <2>1. PopPush(Operands(I.op), r.val, I.next) /\ M' = M
      BY <2>a, Zenon DEF Plain, fixed
    <2>2. AtPoint => Goes(Operands(I.op), 1)
      BY <1>0, PlainGoes, Zenon
    <2>3. /\ Operands(I.op) \in 0 .. 3 /\ Operands(I.op) <= vsp
          /\ vsp - Operands(I.op) + 1 <= STACK_DEPTH
      BY <1>0, OperandsOk, Small, Room, Zenon
    <2>4. SomePlain
      BY <1>0, <2>1, <2>2, <2>3, PushStep, Zenon
    <2> QED
      BY <2>a, <2>4
  <1> QED
    BY <1>2, <1>3, Zenon
-----------------------------------------------------------------------------
(* The stacks of any module stay within their arrays.                      *)

Limits ==
  /\ vsp' \in 0 .. STACK_DEPTH /\ ctrl_depth' \in 0 .. MAX_CTRL_DEPTH
  /\ DOMAIN vstack' = DOMAIN vstack /\ DOMAIN ctrl' = DOMAIN ctrl
Tables == M' = M /\ jit_fns' = jit_fns /\ IsSeqOf(globals', Len(M.globals))
Marks == shadow'.saved_vsp \in 0 .. STACK_DEPTH /\ shadow'.n_results \in Nat
           /\ stop' \in Nat /\ shadow'.saved_stop \in Nat

LEMMA FramesNow ==
  ASSUME StackInv
  PROVE  fi \in Nat /\ fi <= CALL_DEPTH /\ IsSeqOf(frames, fi) /\ \A j \in 1 .. fi : FrameOk(M, frames[j])
  BY DEF StackInv, IsSeqOf

PlainAction ==
  \/ Nop \/ Const \/ FloatConst \/ LocalGet \/ LocalSet \/ GlobalGet \/ GlobalSet
  \/ Drop \/ Select \/ Load \/ Store \/ MemorySize \/ MemoryGrow
  \/ TruncSat \/ DataSegment \/ BulkMemory

LEMMA PlainActions ==
  ASSUME StackInv, PlainAction
  PROVE  SomePlain /\ Running /\ F.pc \in DOMAIN body
  <1>PopStep.
    ASSUME StackInv, Running, F.pc \in DOMAIN body, NEW k \in 0 .. 3, k <= vsp,
           Pop(k, I.next), M' = M, AtPoint => Goes(k, 0)
    PROVE  SomePlain
    <2> USE <1>PopStep
    <2>0. k \in Nat /\ 0 \in 0 .. 1
      OBVIOUS
    <2>1. fi > 0
      BY InstrOk
    <2>2. Move(k, 0)
      BY <2>0, <2>1, PopMoves, Zenon
    <2>3. PlainStep(k, 0)
      BY <2>2 DEF PlainStep
    <2> QED
      BY <2>0, <2>3, Plainly, Zenon
  <1>NopPlain.
    ASSUME StackInv, Nop
    PROVE  SomePlain
    <2> USE <1>NopPlain
    <2>1. Running /\ F.pc \in DOMAIN body /\ I.op \in NOP_OPS /\ M' = M /\ Pop(0, I.next)
      BY DEF Nop, Plain, fixed, Fetch
    <2>2. AtPoint => Goes(0, 0)
      BY <2>1, PlainGoes
    <2>3. 0 <= vsp
      BY DEF StackInv
    <2> QED
      BY <2>1, <2>2, <2>3, Small, <1>PopStep, Zenon
  <1>ConstPlain.
    ASSUME StackInv, Const \/ FloatConst
    PROVE  SomePlain
    <2> USE <1>ConstPlain
    <2>0. {I32_CONST, I64_CONST} \subseteq ConstOps /\ {F32_CONST, F64_CONST} \subseteq ConstOps
      BY DEF ConstOps, I32_CONST, I64_CONST, F32_CONST, F64_CONST
    <2>1. Running /\ F.pc \in DOMAIN body /\ I.op \in ConstOps /\ M' = M
      BY <2>0, Zenon DEF Const, FloatConst, Plain, fixed, Fetch
    <2>2. PICK v : PopPush(0, v, I.next)
      BY Zenon DEF Const, FloatConst
    <2>3. 0 <= vsp /\ vsp - 0 + 1 <= STACK_DEPTH
      <3>1. ConstTrap = ""
        BY Zenon DEF Const, FloatConst
      <3> QED
        BY <3>1, LimitsAssumption DEF StackInv, ConstTrap, ImmTrap, Or, StackTrap, Check
    <2>4. AtPoint => Goes(0, 1)
      BY <2>1, PlainGoes
    <2> QED
      BY <2>1, <2>2, <2>3, <2>4, Small, PushStep, Zenon
  <1>GetPlain.
    ASSUME StackInv, LocalGet \/ GlobalGet \/ MemorySize
    PROVE  SomePlain
    <2> USE <1>GetPlain
    <2>1. /\ Running /\ F.pc \in DOMAIN body /\ M' = M
          /\ I.op \in {LOCAL_GET, GLOBAL_GET, MEMORY_SIZE}
      BY Zenon DEF LocalGet, GlobalGet, MemorySize, Plain, fixed, Fetch
    <2>2. PICK v : PopPush(0, v, I.next)
      BY Zenon DEF LocalGet, GlobalGet, MemorySize
    <2>3. 0 <= vsp /\ vsp - 0 + 1 <= STACK_DEPTH
      <3>1. StackTrap(0, 1) = ""
        <4>1. LocalGet => I.op = LOCAL_GET /\ I.op # LOCAL_SET /\ LocalTrap = ""
          BY Opcodes, Zenon DEF LocalGet, Fetch
        <4>2. GlobalGet => I.op = GLOBAL_GET /\ GlobalTrap = ""
          BY Zenon DEF GlobalGet, Fetch
        <4> QED
          BY <4>1, <4>2, OrEmpty, Zenon DEF MemorySize, LocalTrap, GlobalTrap
      <3> QED
        BY <3>1, LimitsAssumption DEF StackInv, StackTrap, Check
    <2>4. AtPoint => Goes(0, 1)
      BY <2>1, PlainGoes
    <2> QED
      BY <2>1, <2>2, <2>3, <2>4, Small, PushStep, Zenon
  <1>DropPlain.
    ASSUME StackInv, GlobalSet \/ Drop
    PROVE  SomePlain
    <2> USE <1>DropPlain
    <2>1. /\ Running /\ F.pc \in DOMAIN body /\ M' = M /\ Pop(1, I.next)
          /\ I.op \in {GLOBAL_SET, DROP}
      BY Zenon DEF GlobalSet, Drop, Plain, fixed, Fetch
    <2>2. 1 <= vsp
      <3>1. StackTrap(1, 0) = ""
        <4>1. GlobalSet => I.op # GLOBAL_GET /\ GlobalTrap = ""
          BY Opcodes, Zenon DEF GlobalSet, Fetch
        <4> DEFINE first == IndexTrap(Len(globals), "GlobalIndexOutOfRange")
                   rest == Or(Check(M.mutable[I.val + 1], "GlobalImmutable"), StackTrap(1, 0))
        <4>a. GlobalSet => GlobalTrap = Or(first, rest)
          BY <4>1, Zenon DEF GlobalTrap
        <4>2. GlobalSet => rest = ""
          <5> HIDE DEF first, rest
          <5> QED
            BY <4>1, <4>a, OrEmpty, Zenon
        <4> QED
          BY <4>2, OrEmpty, Zenon DEF Drop
      <3> QED
        BY <3>1, LimitsAssumption DEF StackInv, StackTrap, Check
    <2>3. AtPoint => Goes(1, 0)
      BY <2>1, PlainGoes
    <2> QED
      BY <2>1, <2>2, <2>3, Small, <1>PopStep, Zenon
  <1>LocalSetPlain.
    ASSUME StackInv, LocalSet
    PROVE  SomePlain
    <2> USE <1>LocalSetPlain
    <2>SetLocal.
      ASSUME StackInv, fi > 0, NEW pc, NEW n, NEW v,
             frames' = [frames EXCEPT ![fi].locals[n] = v, ![fi].pc = pc]
      PROVE  InFrame(frames', pc)
      <3> USE <2>SetLocal
      <3>1. IsSeqOf(frames, fi) /\ fi \in 1 .. fi /\ FrameOk(M, F)
        BY DEF StackInv, IsSeqOf, F, fi
      <3> DEFINE l == [F.locals EXCEPT ![n] = v]
                 e == [F EXCEPT !.locals = l, !.pc = pc]
      <3>2. frames' = [frames EXCEPT ![fi] = e]
        BY <3>1, Zenon DEF F, FrameOk, IsFrame
      <3>3. /\ IsSeqOf(frames', fi) /\ frames'[fi] = e
            /\ \A j \in 1 .. fi : j # fi => frames'[j] = frames[j]
        <4> HIDE DEF e
        <4>1. DOMAIN frames = 1 .. fi
          BY <3>1 DEF IsSeqOf
        <4> QED
          BY <3>1, <3>2, <4>1, Zenon DEF IsSeqOf
      <3>4. IsSeqOf(l, NLocals(M, F.body))
        BY <3>1, Zenon DEF FrameOk, IsSeqOf
      <3> HIDE DEF l
      <3> DEFINE g == [F EXCEPT !.locals = l]
      <3>a. g = [body |-> F.body, pc |-> F.pc, locals |-> l, ctrl_base |-> F.ctrl_base,
                 vsp_base |-> F.vsp_base, result_count |-> F.result_count]
        BY <3>1 DEF FrameOk, IsFrame
      <3>b. e = [g EXCEPT !.pc = pc]
        OBVIOUS
      <3> HIDE DEF e, g
      <3>5. e = [body |-> F.body, pc |-> pc, locals |-> l, ctrl_base |-> F.ctrl_base,
                 vsp_base |-> F.vsp_base, result_count |-> F.result_count]
        BY <3>a, <3>b
      <3>6. /\ IsFrame(e) /\ e.body = F.body /\ e.pc = pc /\ e.locals = l
            /\ e.ctrl_base = F.ctrl_base /\ e.vsp_base = F.vsp_base
            /\ e.result_count = F.result_count
        BY <3>5 DEF IsFrame
      <3> QED
        BY <3>3, <3>4, <3>6, Zenon DEF InFrame
    <2>1. /\ Running /\ F.pc \in DOMAIN body /\ M' = M
          /\ I.op \in {LOCAL_SET, LOCAL_TEE}
      BY Zenon DEF LocalSet, Fetch, Plain, fixed
    <2>t. LocalTrap = ""
      BY Zenon DEF LocalSet
    <2>2. fi > 0
      BY <2>1, InstrOk
    <2>3. InFrame(frames', I.next)
      BY <2>2, <2>SetLocal, Zenon DEF LocalSet
    <2>4. vstack' = vstack /\ UNCHANGED <<ctrl, ctrl_depth, status, stop, shadow>>
      BY Zenon DEF LocalSet, control
    <2>5. CASE I.op = LOCAL_SET
      <3>1. StackTrap(1, 0) = ""
        BY <2>t, <2>5, OrEmpty, Opcodes, Zenon DEF LocalTrap
      <3>2. 1 <= vsp /\ vsp' = vsp - 1
        BY <2>5, <3>1, Room, Zenon DEF LocalSet
      <3>3. Move(1, 0)
        BY <2>1, <2>2, <2>3, <2>4, <3>2, LimitsAssumption DEF Move, StackInv
      <3>4. AtPoint => Goes(1, 0)
        BY <2>5, PlainGoes
      <3> QED
        BY <3>3, <3>4, Plainly DEF PlainStep
    <2>6. CASE I.op = LOCAL_TEE
      <3>1. StackTrap(1, 1) = ""
        BY <2>t, <2>6, OrEmpty, Opcodes, Zenon DEF LocalTrap
      <3>2. 1 <= vsp /\ vsp - 1 + 1 <= STACK_DEPTH /\ vsp' = vsp
        BY <2>6, <3>1, Room, Opcodes, Zenon DEF LocalSet
      <3>3. Move(1, 1)
        BY <2>1, <2>3, <2>4, <3>2, LimitsAssumption DEF Move, StackInv
      <3>4. AtPoint => Goes(1, 1)
        BY <2>6, PlainGoes
      <3> QED
        BY <3>3, <3>4, Plainly DEF PlainStep
    <2> QED
      BY <2>1, <2>5, <2>6
  <1>SelectPlain.
    ASSUME StackInv, Select
    PROVE  SomePlain
    <2> USE <1>SelectPlain
    <2>1. /\ Running /\ F.pc \in DOMAIN body /\ M' = M /\ I.op = SELECT
          /\ StackTrap(3, 1) = "" /\ \E v : PopPush(3, v, I.next)
      BY Zenon DEF Select, Fetch, Plain, fixed
    <2>2. AtPoint => Goes(3, 1)
      BY <2>1, PlainGoes, Zenon
    <2> QED
      BY <2>1, <2>2, Room, Small, PushStep, Zenon
  <1>LoadPlain.
    ASSUME StackInv, Load
    PROVE  SomePlain
    <2> USE <1>LoadPlain
    <2>1. /\ Running /\ F.pc \in DOMAIN body /\ M' = M /\ I.op \in LoadOps
          /\ AccessTrap(1) = "" /\ \E v : PopPush(1, v, I.next)
      BY Zenon DEF Load, Fetch, Plain, fixed
    <2>2. AtPoint => Goes(1, 1)
      BY <2>1, PlainGoes, Zenon
    <2>3. StackTrap(1, 2 - 1) = ""
      BY <2>1, OrSecond, Zenon DEF AccessTrap
    <2>4. StackTrap(1, 1) = ""
      <3>1. 2 - 1 = 1
        OBVIOUS
      <3> QED
        BY <2>3, <3>1, Zenon
    <2> QED
      BY <2>1, <2>2, <2>4, Room, Small, PushStep, Zenon
  <1>StorePlain.
    ASSUME StackInv, Store
    PROVE  SomePlain
    <2> USE <1>StorePlain
    <2>1. /\ Running /\ F.pc \in DOMAIN body /\ M' = M /\ I.op \in StoreOps
          /\ AccessTrap(2) = "" /\ Pop(2, I.next)
      BY Zenon DEF Store, Fetch, fixed
    <2>2. AtPoint => Goes(2, 0)
      BY <2>1, PlainGoes, Zenon
    <2>3. StackTrap(2, 2 - 2) = ""
      BY <2>1, OrSecond, Zenon DEF AccessTrap
    <2>4. StackTrap(2, 0) = ""
      <3>1. 2 - 2 = 0
        OBVIOUS
      <3> QED
        BY <2>3, <3>1, Zenon
    <2> QED
      BY <2>1, <2>2, <2>4, Room, Small, <1>PopStep, Zenon
  <1>MemoryGrowPlain.
    ASSUME StackInv, MemoryGrow
    PROVE  SomePlain
    <2> USE <1>MemoryGrowPlain
    <2>1. /\ Running /\ F.pc \in DOMAIN body /\ M' = M /\ I.op = MEMORY_GROW
          /\ StackTrap(1, 1) = "" /\ \E v : PopPush(1, v, I.next)
      BY Zenon DEF MemoryGrow, Fetch, fixed
    <2>2. AtPoint => Goes(1, 1)
      BY <2>1, PlainGoes, Zenon
    <2> QED
      BY <2>1, <2>2, Room, Small, PushStep, Zenon
  <1>PrefixPlain.
    ASSUME StackInv, TruncSat \/ DataSegment \/ BulkMemory
    PROVE  SomePlain
    <2> USE <1>PrefixPlain
    <2>PrefixRoom.
      ASSUME StackInv, TruncSat \/ DataSegment \/ BulkMemory
      PROVE  /\ I.val \in 0 .. 7 => 1 <= vsp /\ vsp - 1 + 1 <= STACK_DEPTH
             /\ I.val \in {8, 10, 11} => 3 <= vsp
      <3> USE <2>PrefixRoom
      <3>1. StackTrap(PrefixPops, IF I.val \in 0 .. 7 THEN 1 ELSE 0) = ""
        <4>1. PrefixTrap = ""
          BY Zenon DEF TruncSat, DataSegment, BulkMemory
        <4>2. \A a, b, c, d : Or(a, Or(b, Or(c, d))) = "" => c = ""
          BY Zenon DEF Or
        <4> DEFINE rest == Or(Check(I.val = 8 => arg(1) = 0, "UnknownOpcode"),
                           Or(Check(I.val = 10 => InMemory(arg(2), arg(1)), "MemOutOfBounds"),
                              Check(I.val \in {10, 11} => InMemory(arg(3), arg(1)),
                                    "MemOutOfBounds")))
        <4>3. PrefixTrap = Or(ImmTrap, Or(Check(I.val \in 0 .. 11, "UnknownOpcode"),
                           Or(StackTrap(PrefixPops, IF I.val \in 0 .. 7 THEN 1 ELSE 0), rest)))
          BY DEF PrefixTrap
        <4> HIDE DEF rest
        <4> QED
          BY <4>1, <4>2, <4>3, Zenon
      <3>2. 8 \notin 0 .. 7 /\ 10 \notin 0 .. 7 /\ 11 \notin 0 .. 7 /\ 8 # 9 /\ 10 # 9 /\ 11 # 9
        OBVIOUS
      <3>3. /\ I.val \in 0 .. 7 => StackTrap(1, 1) = ""
            /\ I.val \in {8, 10, 11} => StackTrap(3, 0) = ""
        BY <3>1, <3>2, Zenon DEF PrefixPops
      <3> QED
        BY <3>3, Room, Zenon
    <2>1. Running /\ F.pc \in DOMAIN body /\ M' = M /\ I.op = PREFIX
      BY Zenon DEF TruncSat, DataSegment, BulkMemory, Fetch, Plain, fixed
    <2>2. 8 \notin 0 .. 7 /\ 9 \notin 0 .. 7 /\ 10 \notin 0 .. 7 /\ 11 \notin 0 .. 7
          /\ 8 # 9 /\ 10 # 9 /\ 11 # 9
      OBVIOUS
    <2>3. CASE TruncSat
      <3>1. I.val \in 0 .. 7 /\ \E v : PopPush(1, v, I.next)
        BY <2>3, Zenon DEF TruncSat
      <3>2. AtPoint => Goes(1, 1)
        BY <2>1, <3>1, PlainGoes, Zenon
      <3>3. 1 <= vsp /\ vsp - 1 + 1 <= STACK_DEPTH
        BY <3>1, <2>PrefixRoom, Zenon
      <3> QED
        BY <2>1, <3>1, <3>2, <3>3, Small, PushStep, Zenon
    <2>4. CASE I.val = 9 /\ ~TruncSat
      <3>1. Pop(0, I.next)
        BY <2>2, <2>4, Zenon DEF DataSegment, BulkMemory, PrefixPops
      <3>2. AtPoint => Goes(0, 0)
        BY <2>1, <2>4, PlainGoes, Zenon
      <3>3. 0 <= vsp
        BY DEF StackInv
      <3> QED
        BY <2>1, <3>1, <3>2, <3>3, Small, <1>PopStep, Zenon
    <2>5. CASE I.val # 9 /\ ~TruncSat
      <3>1. I.val \in {8, 10, 11} /\ Pop(3, I.next)
        BY <2>2, <2>5, Zenon DEF DataSegment, BulkMemory, PrefixPops
      <3>2. AtPoint => Goes(3, 0)
        BY <2>1, <3>1, PlainGoes, Zenon
      <3>3. 3 <= vsp
        BY <3>1, <2>PrefixRoom, Zenon
      <3> QED
        BY <2>1, <3>1, <3>2, <3>3, Small, <1>PopStep, Zenon
    <2> QED
      BY <2>3, <2>4, <2>5, Zenon
  <1>1. SomePlain
    BY <1>NopPlain, <1>ConstPlain, <1>GetPlain, <1>DropPlain, <1>LocalSetPlain, <1>SelectPlain, <1>LoadPlain,
       <1>StorePlain, <1>MemoryGrowPlain, <1>PrefixPlain, Zenon DEF PlainAction
  <1>2. Running /\ F.pc \in DOMAIN body
    BY Zenon DEF PlainAction, Nop, Const, FloatConst, LocalGet, LocalSet, GlobalGet, GlobalSet,
      Drop, Select, Load, Store, MemorySize, MemoryGrow, TruncSat, DataSegment, BulkMemory, Fetch
  <1> QED
    BY <1>1, <1>2

\* The innermost frame is left.
Returned ==
  /\ F.vsp_base + F.result_count <= STACK_DEPTH
  /\ vsp' = F.vsp_base + F.result_count /\ ctrl_depth' = F.ctrl_base /\ ctrl' = ctrl
  /\ DOMAIN vstack' = DOMAIN vstack
  /\ \A a \in DOMAIN vstack : a < F.vsp_base => vstack'[a] = vstack[a]
  /\ frames' = SubSeq(frames, 1, fi - 1)
  /\ status' = status /\ stop' = stop /\ shadow' = shadow

LEMMA ReturnKinds ==
  ASSUME StackInv, fi > 0, NEW sp, do_return(sp)
  PROVE  Returned \/ (F.vsp_base + F.result_count > STACK_DEPTH /\ Panic)
  <1>1. F.vsp_base \in Nat /\ F.result_count \in Nat /\ DOMAIN vstack = 0 .. STACK_DEPTH - 1
    BY FramesNow, LimitsAssumption DEF FrameOk, F, StackInv
  <1>2. CASE F.vsp_base + F.result_count > STACK_DEPTH
    BY <1>2, <1>1, LimitsAssumption DEF do_return
  <1>3. CASE ~(F.vsp_base + F.result_count > STACK_DEPTH)
    <2>1. PICK moved : /\ vstack' = [i \in DOMAIN vstack |->
                                 IF i \in F.vsp_base .. F.vsp_base + F.result_count - 1
                                 THEN moved[i - F.vsp_base] ELSE vstack[i]]
                       /\ vsp' = F.vsp_base + F.result_count
                       /\ ctrl_depth' = F.ctrl_base
                       /\ frames' = SubSeq(frames, 1, fi - 1)
                       /\ UNCHANGED <<ctrl, control>>
      BY <1>3, Zenon DEF do_return
    <2>2. DOMAIN vstack' = DOMAIN vstack
      BY <2>1
    <2>3. \A a \in DOMAIN vstack : a < F.vsp_base => vstack'[a] = vstack[a]
      BY <1>1, <2>1
    <2>4. F.vsp_base + F.result_count <= STACK_DEPTH
      BY <1>1, <1>3, LimitsAssumption
    <2> QED
      BY <2>1, <2>2, <2>3, <2>4, Zenon DEF Returned, control
  <1> QED
    BY <1>2, <1>3

LEMMA BlockRoom ==
  ASSUME StackInv, Block \/ If
  PROVE  /\ Block => ctrl_depth < MAX_CTRL_DEPTH
         /\ If => 1 <= vsp /\ (Taken \/ I.jump.else_pc # NO_ELSE => ctrl_depth < MAX_CTRL_DEPTH)
  <1>1. CtrlTrap = "" => ctrl_depth < MAX_CTRL_DEPTH
    BY Zenon DEF CtrlTrap, Check
  <1>2. BlockTrap = ""
    BY Zenon DEF Block, If
  <1>3. BLOCK # IF_OP /\ LOOP # IF_OP
    BY DEF BLOCK, LOOP, IF_OP
  <1>4. Block => CtrlTrap = ""
    BY <1>2, <1>3, OrEmpty, Zenon DEF BlockTrap, Block, Fetch
  <1>5. ASSUME If
        PROVE  /\ StackTrap(1, 0) = ""
               /\ Taken \/ I.jump.else_pc # NO_ELSE => CtrlTrap = ""
    <2> DEFINE rest == IF Taken \/ I.jump.else_pc # NO_ELSE THEN CtrlTrap ELSE ""
    <2>1. I.op = IF_OP
      BY <1>5, Zenon DEF If, Fetch
    <2>2. BlockTrap = Or(Check(I.jump # NoEnd, "MalformedCode"), Or(StackTrap(1, 0), rest))
      BY <2>1, Zenon DEF BlockTrap
    <2>3. StackTrap(1, 0) = "" /\ rest = ""
      <3> HIDE DEF rest
      <3> QED
        BY <1>2, <2>2, OrSecond, Zenon
    <2> QED
      BY <2>3, Zenon
  <1> QED
    BY <1>1, <1>4, <1>5, Room, Zenon

\* A branch inside the innermost frame, to label n with sp operands left.
Branched(n, sp) ==
  LET target == ctrl[ctrl_depth - 1 - n]
      loop == target.kind = LOOP
  IN  /\ ctrl_depth' = IF loop THEN ctrl_depth - n ELSE ctrl_depth - 1 - n
      /\ frames' = [frames EXCEPT ![fi].pc = IF loop THEN target.pc_start ELSE target.end_pc + 1]
      /\ vsp' = sp
      /\ UNCHANGED <<vstack, ctrl, control>>

LEMMA BranchKinds ==
  ASSUME NEW n, NEW sp, do_br(n, sp)
  PROVE  \/ ctrl_depth < F.ctrl_base /\ Panic
         \/ n >= ctrl_depth - F.ctrl_base /\ do_return(sp)
         \/ /\ ~(ctrl_depth < F.ctrl_base) /\ ~(n >= ctrl_depth - F.ctrl_base)
            /\ Branched(n, sp)
  BY Zenon DEF do_br, Branched

LEMMA BrRoom ==
  ASSUME StackInv, BrIf \/ BrTable
  PROVE  1 <= vsp
  <1>1. StackTrap(1, 0) = ""
    <2>1. BrIf => I.op = BR_IF /\ BrTrap = ""
      BY Zenon DEF BrIf, Fetch
    <2>2. BrTable => BrTableTrap = ""
      BY Zenon DEF BrTable
    <2> QED
      BY <2>1, <2>2, OrEmpty, OrSecond, Zenon DEF BrTrap, BrTableTrap
  <1> QED
    BY <1>1, Room, Zenon

LEMMA LabelOk ==
  ASSUME StackInv, BrTable
  PROVE  \E n \in 1 .. Len(I.labels) :
           /\ I.labels[n] \in Nat /\ do_br(I.labels[n], vsp - 1)
           /\ n <= I.val + 1
  <1> DEFINE k == IF U32(arg(1)) \in 0 .. I.val - 1 THEN U32(arg(1)) ELSE I.val
  <1>1. Running /\ F.pc \in DOMAIN body /\ do_br(I.labels[k + 1], vsp - 1) /\ I.op = BR_TABLE
    BY Zenon DEF BrTable, Fetch
  <1>2. I \in Instructions /\ I.val \in Nat
    <2>1. BR_TABLE \notin {I32_CONST, I64_CONST}
      BY DEF BR_TABLE, I32_CONST, I64_CONST
    <2> QED
      BY <1>1, <2>1, InstrOk, Zenon
  <1>3. I.labels # <<>>
    <2>1. BrTableTrap = ""
      BY Zenon DEF BrTable
    <2>2. Check(I.labels # <<>>, "MalformedCode") = ""
      BY <2>1, OrSecond, Zenon DEF BrTableTrap
    <2> QED
      BY <2>2, Zenon DEF Check
  <1>4. Len(I.labels) = I.val + 1 /\ I.labels \in Seq(Nat)
    BY <1>1, <1>2, <1>3, InstrOk, Fields, Zenon
  <1>5. k \in 0 .. I.val
    <2>1. CASE U32(arg(1)) \in 0 .. I.val - 1
      <3>1. k = U32(arg(1))
        BY <2>1, Zenon
      <3> HIDE DEF k
      <3> QED
        BY <2>1, <3>1, <1>2
    <2>2. CASE U32(arg(1)) \notin 0 .. I.val - 1
      <3>1. k = I.val
        BY <2>2, Zenon
      <3> HIDE DEF k
      <3> QED
        BY <3>1, <1>2
    <2> QED
      BY <2>1, <2>2, Zenon
  <1> HIDE DEF k
  <1>6. k + 1 \in 1 .. Len(I.labels) /\ k + 1 <= I.val + 1
    BY <1>2, <1>4, <1>5
  <1>7. I.labels[k + 1] \in Nat
    BY <1>4, <1>6
  <1> QED
    BY <1>1, <1>6, <1>7, Zenon

LEMMA ImmNat ==
  ASSUME StackInv, Running, F.pc \in DOMAIN body,
         I.op \in {BR, BR_IF, BR_TABLE, CALL, CALL_INDIRECT, LOCAL_GET, LOCAL_SET, LOCAL_TEE,
                   GLOBAL_GET, GLOBAL_SET}
  PROVE  I.val \in Nat
  <1>1. I.op \notin {I32_CONST, I64_CONST}
    BY DEF BR, BR_IF, BR_TABLE, CALL, CALL_INDIRECT, I32_CONST, I64_CONST, LOCAL_GET, LOCAL_SET,
           LOCAL_TEE, GLOBAL_GET, GLOBAL_SET
  <1> QED
    BY <1>1, InstrOk, Zenon

CallAction == HostCall \/ Call \/ JitCall

LEMMA IndirectFacts ==
  ASSUME StackInv, M \in Modules
  PROVE  I.op # CALL /\ IndirectTrap = "" =>
           /\ callee \in Nat /\ Popped \in 0 .. vsp
           /\ U32(arg(1)) \in 0 .. Len(M.table) - 1 /\ callee = At(M.table, U32(arg(1)))
  <1>1. ASSUME I.op # CALL, IndirectTrap = ""
        PROVE  /\ 1 <= vsp /\ callee # NULL_FUNC /\ U32(arg(1)) \in 0 .. Len(M.table) - 1
               /\ callee = At(M.table, U32(arg(1))) /\ Popped = vsp - 1
    <2> DEFINE room == StackTrap(1, 0)
               entry == Check(U32(arg(1)) \in 0 .. Len(M.table) - 1, "IndirectCallNull")
               null == Check(callee # NULL_FUNC, "IndirectCallNull")
               last == Check(TypeIndex(M, callee) = I.val, "IndirectCallTypeMismatch")
    <2>1. Or(room, Or(entry, Or(null, last))) = ""
      BY <1>1, Zenon DEF IndirectTrap
    <2>2. room = "" /\ entry = "" /\ null = ""
      <3> HIDE DEF room, entry, null, last
      <3> QED
        BY <2>1, Zenon DEF Or
    <2>3. callee # NULL_FUNC /\ U32(arg(1)) \in 0 .. Len(M.table) - 1
      BY <2>2, Zenon DEF Check
    <2>4. 1 <= vsp
      BY <2>2, Room, Zenon
    <2> QED
      BY <1>1, <2>3, <2>4, Zenon DEF callee, Popped
  <1>2. ASSUME 1 <= vsp, callee # NULL_FUNC, U32(arg(1)) \in 0 .. Len(M.table) - 1,
               callee = At(M.table, U32(arg(1))), Popped = vsp - 1
        PROVE  callee \in Nat /\ Popped \in 0 .. vsp
    <2>1. M.table \in Seq(Nat \cup {NULL_FUNC})
      BY ModuleAssumption, Zenon
    <2>2. At(M.table, U32(arg(1))) \in Nat \cup {NULL_FUNC}
      BY <1>2, <2>1 DEF At
    <2>3. Popped \in 0 .. vsp
      BY <1>2, LimitsAssumption DEF StackInv
    <2> QED
      BY <1>2, <2>2, <2>3, Zenon
  <1> QED
    BY <1>1, <1>2, Zenon

LEMMA CallFacts ==
  ASSUME StackInv, CallAction
  PROVE  /\ Running /\ F.pc \in DOMAIN body /\ fi > 0 /\ fi \in Nat
         /\ I.op \in {CALL, CALL_INDIRECT} /\ I.val \in Nat
         /\ callee \in Nat /\ callee < import_count + Len(M.bodies)
         /\ Popped \in 0 .. vsp /\ import_count \in Nat
         /\ callee >= import_count => callee - import_count \in Bodies(M)
         /\ M \in Modules
  <1>1. Running /\ F.pc \in DOMAIN body /\ I.op \in {CALL, CALL_INDIRECT}
    BY Zenon DEF CallAction, HostCall, Call, JitCall, Fetch
  <1>2. fi > 0 /\ fi \in Nat /\ I.val \in Nat /\ M \in Modules
    BY <1>1, InstrOk, ImmNat, Zenon DEF StackInv
  <1>3. /\ I.op = CALL \/ IndirectTrap = ""
        /\ Check(callee < import_count + Len(M.bodies), "FuncIndexOutOfRange") = ""
    <2>1. CallTrap = ""
      BY Zenon DEF CallAction, HostCall, Call, JitCall
    <2>2. CalleeTrap = ""
      BY <2>1, OrEmpty, Zenon DEF CallTrap
    <2> QED
      BY <2>2, OrSecond, Zenon DEF CalleeTrap
  <1>4. callee < import_count + Len(M.bodies)
    BY <1>3, Zenon DEF Check
  <1>5. ASSUME I.op = CALL
        PROVE  callee \in Nat /\ Popped \in 0 .. vsp
    <2>1. callee = I.val /\ Popped = vsp
      BY <1>5, Zenon DEF callee, Popped
    <2> QED
      BY <1>2, <2>1, LimitsAssumption DEF StackInv
  <1>6. ASSUME I.op # CALL
        PROVE  callee \in Nat /\ Popped \in 0 .. vsp
    BY <1>2, <1>3, <1>6, IndirectFacts, Zenon
  <1>7. import_count \in Nat /\ Len(M.bodies) \in Nat
    BY <1>2, ModuleAssumption DEF import_count
  <1>8. callee >= import_count => callee - import_count \in Bodies(M)
    BY <1>4, <1>5, <1>6, <1>7 DEF Bodies
  <1> QED
    BY <1>1, <1>2, <1>4, <1>5, <1>6, <1>7, <1>8, Zenon

LEMMA FrameRoom ==
  ASSUME NEW b, NEW sp, FrameTrap(b, sp) = ""
  PROVE  fi < CALL_DEPTH /\ NParams(b) + At(M.locals, b) <= MAX_LOCALS /\ sp >= NParams(b)
  BY Zenon DEF FrameTrap, Or, Check

LEMMA ParamsNat ==
  ASSUME StackInv, NEW b \in Bodies(M)
  PROVE  /\ NParams(b) \in Nat /\ NResults(b) \in Nat /\ At(M.locals, b) \in Nat
         /\ NLocals(M, b) = NParams(b) + At(M.locals, b)
  <1>1. M \in Modules
    BY DEF StackInv
  <1> QED
    BY <1>1, BodyFacts, Zenon DEF NParams, NResults, NLocals, import_count

LEMMA HostIs ==
  ASSUME NEW mod \in Modules, NEW f \in 0 .. Len(mod.hosts) - 1
  PROVE  /\ At(mod.hosts, f).pops \in Nat /\ At(mod.hosts, f).pushes \in 0 .. 1
         /\ At(mod.hosts, f).ends \in {"running", "yielded", "exited"}
  <1>1. mod.hosts \in Seq(HostFns)
    BY ModuleAssumption
  <1>2. At(mod.hosts, f) \in HostFns
    BY <1>1, Entry
  <1> QED
    BY <1>2, Zenon DEF HostFns

LEMMA HostRoom ==
  ASSUME StackInv, HostCall
  PROVE  /\ CallAction /\ callee \in 0 .. Len(M.hosts) - 1 /\ M \in Modules
         /\ Host.pops \in Nat /\ Host.pushes \in 0 .. 1
         /\ Host.pops <= Popped /\ Popped - Host.pops + Host.pushes <= STACK_DEPTH
  <1>1. CallAction /\ CallTrap = "" /\ callee < import_count
    BY Zenon DEF CallAction, HostCall
  <1>2. callee \in Nat /\ import_count \in Nat /\ Popped \in 0 .. vsp /\ M \in Modules
    BY <1>1, CallFacts, Zenon
  <1>a. callee < import_count
    BY <1>1, Zenon
  <1>3. callee \in 0 .. Len(M.hosts) - 1
    BY <1>a, <1>2 DEF import_count
  <1>4. Host.pops \in Nat /\ Host.pushes \in 0 .. 1
    BY <1>2, <1>3, HostIs, Zenon DEF Host
  <1>5. ~(Popped < Host.pops) /\ Popped - Host.pops + Host.pushes <= STACK_DEPTH
    BY <1>1, Zenon DEF CallTrap, Or, Check
  <1>6. Host.pops <= Popped
    BY <1>2, <1>4, <1>5, LimitsAssumption DEF StackInv
  <1> QED
    BY <1>1, <1>2, <1>3, <1>4, <1>5, <1>6, Zenon

LEMMA JitFacts ==
  ASSUME StackInv, JitCall
  PROVE  LET b == callee - import_count
         IN  /\ CallAction /\ b \in Bodies(M) /\ b \in jit_fns /\ I.op = CALL /\ Popped = vsp
             /\ NParams(b) \in Nat /\ NParams(b) <= vsp
  <1> DEFINE b == callee - import_count
  <1>1. /\ CallAction /\ I.op = CALL /\ Popped = vsp /\ b \in jit_fns /\ callee >= import_count
        /\ CallTrap = ""
    BY Zenon DEF CallAction, JitCall, Fetch, Popped
  <1>a. CallAction /\ callee >= import_count
    BY <1>1, Zenon
  <1>2. b \in Bodies(M) /\ callee \in Nat /\ import_count \in Nat
    BY <1>a, CallFacts
  <1>3. ~(callee < import_count)
    BY <1>a, <1>2
  <1>4. vsp >= NParams(b)
    BY <1>1, <1>3, Zenon DEF CallTrap, Or, Check
  <1>5. NParams(b) \in Nat
    <2> HIDE DEF b
    <2> QED
      BY <1>2, ParamsNat
  <1>6. NParams(b) <= vsp
    <2> HIDE DEF b
    <2> QED
      BY <1>4, <1>5, LimitsAssumption DEF StackInv
  <1> QED
    BY <1>1, <1>2, <1>5, <1>6, Zenon

\* What a native call leaves: its arguments in the frame of the shadow run, which is
\* not entered when there is no room for it.
JitRan(params) ==
  LET b == callee - import_count
      n == NParams(b)
      runs == FrameTrap(b, vsp) = ""
      caller == [frames EXCEPT ![fi].pc = I.next]
  IN  /\ IsSeqOf(params, n)
      /\ DOMAIN vstack' = DOMAIN vstack
      /\ \A a \in DOMAIN vstack : a \notin vsp - n .. vsp - 1 => vstack'[a] = vstack[a]
      /\ vsp' = vsp - n /\ stop' = fi
      /\ shadow'.saved_stop = stop /\ shadow'.saved_vsp = vsp - n /\ shadow'.on = TRUE
      /\ shadow'.n_results = NResults(b) /\ shadow'.failed = shadow.failed
      /\ frames' = IF runs THEN Append(caller, NewFrame(b, params, vsp - n)) ELSE caller
      /\ ctrl' = ctrl /\ ctrl_depth' = ctrl_depth /\ status' = status /\ Plain

LEMMA JitKinds ==
  ASSUME StackInv, JitCall
  PROVE  \E params : JitRan(params)
  <1> DEFINE b == callee - import_count
             n == NParams(b)
             ran == jit_fn(M.code[b], Params(vstack, vsp, n) \o [i \in 1 .. At(M.locals, b) |-> 0],
                           NResults(b))
             params == [i \in 1 .. n |-> ran.locals[i]]
             runs == FrameTrap(b, vsp) = ""
             caller == [frames EXCEPT ![fi].pc = I.next]
  <1>1. /\ vstack' = [i \in DOMAIN vstack |->
                        IF i \in vsp - n .. vsp - 1 THEN params[i - (vsp - n) + 1]
                        ELSE vstack[i]]
        /\ vsp' = vsp - n /\ stop' = fi
        /\ shadow' = [saved_stop |-> stop, saved_vsp |-> vsp - n, jit |-> ran.val,
                      n_results |-> NResults(b), body |-> b, on |-> TRUE,
                      failed |-> shadow.failed]
        /\ frames' = IF runs THEN Append(caller, NewFrame(b, params, vsp - n)) ELSE caller
        /\ UNCHANGED <<ctrl, ctrl_depth, status>> /\ Plain
    BY Zenon DEF JitCall
  <1>2. n \in Nat
    BY JitFacts, Zenon
  <1>3. IsSeqOf(params, n)
    <2> HIDE DEF n, ran
    <2> QED
      BY <1>2 DEF IsSeqOf
  <1> HIDE DEF b, n, ran, params, runs, caller
  <1>4. /\ DOMAIN vstack' = DOMAIN vstack
        /\ \A a \in DOMAIN vstack : a \notin vsp - n .. vsp - 1 => vstack'[a] = vstack[a]
    BY <1>1
  <1>5. /\ shadow'.saved_stop = stop /\ shadow'.saved_vsp = vsp - n /\ shadow'.on = TRUE
        /\ shadow'.n_results = NResults(b) /\ shadow'.failed = shadow.failed
    BY <1>1, Zenon
  <1>6. JitRan(params)
    BY <1>1, <1>3, <1>4, <1>5, Zenon DEF JitRan, b, n, runs, caller
  <1> QED
    BY <1>6, Zenon

LEMMA OneFrame ==
  ASSUME NEW f, NEW fr, fr = <<f>>
  PROVE  IsSeqOf(fr, 1) /\ fr[1] = f
  BY DEF IsSeqOf

\* How a task starts: with the frame of its entry function.
Started(args) ==
  LET b == M.entry - import_count
      n == NParams(b)
  IN  /\ args \in Seq(Int) /\ Len(args) <= STACK_DEPTH /\ b \in Bodies(M)
      /\ n \in 0 .. Len(args) /\ NParams(b) + At(M.locals, b) <= MAX_LOCALS
      /\ fi < CALL_DEPTH
      /\ DOMAIN vstack' = DOMAIN vstack /\ vsp' = Len(args) - n
      /\ frames' = <<NewFrame(b, SubSeq(args, Len(args) - n + 1, Len(args)), Len(args) - n)>>
      /\ active_mem' = current_pages * PAGE_SIZE
      /\ status' = "running" /\ ctrl' = ctrl /\ ctrl_depth' = ctrl_depth

LEMMA StartKinds ==
  ASSUME StackInv, Start
  PROVE  /\ \/ UNCHANGED <<exec, active_mem>> /\ status' # "running"
            \/ \E args : Started(args)
         /\ status = "idle" /\ UNCHANGED <<fixed, globals, mem, current_pages, stop, shadow>>
  <1>1. status = "idle" /\ UNCHANGED <<fixed, globals, mem, current_pages, stop, shadow>>
    BY Zenon DEF Start
  <1>a. M.entry \in Nat /\ import_count \in Nat /\ Len(M.bodies) \in Nat
    <2>1. M \in Modules
      BY DEF StackInv
    <2>2. M.entry \in Nat /\ M.hosts \in Seq(HostFns) /\ M.bodies \in Seq(Seq(0 .. 255))
      BY <2>1, ModuleAssumption, Zenon
    <2> QED
      BY <2>2 DEF import_count
  <1>2. PICK args \in Args :
          IF StartTrap(args) # ""
          THEN status' = StartTrap(args) /\ UNCHANGED <<exec, active_mem>>
          ELSE LET b == M.entry - import_count
                   n == NParams(b)
               IN  /\ vstack' = [i \in DOMAIN vstack |->
                                   IF i < Len(args) THEN args[i + 1] ELSE vstack[i]]
                   /\ vsp' = Len(args) - n
                   /\ frames' = <<NewFrame(b, SubSeq(args, Len(args) - n + 1, Len(args)),
                                           Len(args) - n)>>
                   /\ active_mem' = current_pages * PAGE_SIZE
                   /\ status' = "running"
                   /\ UNCHANGED <<ctrl, ctrl_depth>>
    BY Zenon DEF Start
  <1> DEFINE b == M.entry - import_count
             n == NParams(b)
  <1>3. CASE StartTrap(args) # ""
    <2>1. \A c, sp : FrameTrap(c, sp) # "running"
      BY Zenon DEF FrameTrap, Or, Check
    <2>2. StartTrap(args) # "running"
      BY <2>1, Zenon DEF StartTrap
    <2> QED
      BY <1>1, <1>2, <1>3, <2>2, Zenon
  <1>4. CASE StartTrap(args) = ""
    <2>1. /\ ~(Len(args) > STACK_DEPTH) /\ ~(M.entry < import_count)
          /\ ~(M.entry - import_count >= Len(M.bodies)) /\ FrameTrap(b, Len(args)) = ""
      BY <1>4, Zenon DEF StartTrap
    <2>2. /\ fi < CALL_DEPTH /\ NParams(b) + At(M.locals, b) <= MAX_LOCALS
          /\ Len(args) >= NParams(b)
      BY <2>1, FrameRoom, Zenon
    <2>3. args \in Seq(Int) /\ Len(args) \in Nat
      BY InputAssumption
    <2>6. b \in Bodies(M)
      <3>1. ~(M.entry < import_count) /\ ~(M.entry - import_count >= Len(M.bodies))
        BY <2>1, Zenon
      <3> QED
        BY <3>1, <1>a DEF Bodies
    <2>7. n \in Nat
      BY <2>6, ParamsNat, Zenon
    <2>8. n \in 0 .. Len(args) /\ Len(args) <= STACK_DEPTH
      <3>1. Len(args) >= n /\ ~(Len(args) > STACK_DEPTH)
        BY <2>1, <2>2, Zenon
      <3> HIDE DEF n
      <3> QED
        BY <3>1, <2>3, <2>7, LimitsAssumption
    <2>9. DOMAIN vstack' = DOMAIN vstack
      <3>1. vstack' = [i \in DOMAIN vstack |-> IF i < Len(args) THEN args[i + 1] ELSE vstack[i]]
        BY <1>2, <1>4, Zenon
      <3> QED
        BY <3>1
    <2>10. Started(args)
      BY <1>2, <1>4, <2>2, <2>3, <2>6, <2>8, <2>9, Zenon DEF Started
    <2> QED
      BY <1>1, <2>10, Zenon
  <1> QED
    BY <1>3, <1>4, Zenon

LEMMA StackActions ==
  ASSUME StackInv, [Next]_vars
  PROVE  StackInv'
  <1>StackNext.
    ASSUME StackInv, Limits, Tables, Marks, NEW n \in Nat, n <= CALL_DEPTH,
           IsSeqOf(frames', n), \A j \in 1 .. n : FrameOk(M, frames'[j])
    PROVE  StackInv'
    <2> USE <1>StackNext
    <2>1. fi' = n
      BY SeqLen, Zenon DEF fi
    <2>2. /\ M' \in Modules /\ DOMAIN vstack' = 0 .. STACK_DEPTH - 1 /\ vsp' \in 0 .. STACK_DEPTH
          /\ DOMAIN ctrl' = 0 .. MAX_CTRL_DEPTH - 1 /\ ctrl_depth' \in 0 .. MAX_CTRL_DEPTH
      BY DEF StackInv, Limits, Tables
    <2>3. IsSeqOf(frames', fi') /\ fi' <= CALL_DEPTH /\ \A j \in 1 .. fi' : FrameOk(M', frames'[j])
      BY <2>1 DEF Tables
    <2>4. /\ IsSeqOf(globals', Len(M'.globals))
          /\ \A b \in jit_fns' :
               b \in Bodies(M') /\ NResults(b)' \in 0 .. 1 /\ compiles(M'.code[b])[0]
      BY Zenon DEF StackInv, Tables, NResults, import_count
    <2> QED
      BY <2>2, <2>3, <2>4, Zenon DEF StackInv, Marks, FrameOk, NLocals, Bodies
  <1>StackSame.
    ASSUME StackInv, Limits, Tables, Marks, frames' = frames
    PROVE  StackInv'
    <2> USE <1>StackSame
    <2>1. \A j \in 1 .. fi : FrameOk(M, frames'[j])
      BY FramesNow, Zenon
    <2>2. IsSeqOf(frames', fi)
      BY FramesNow, Zenon
    <2> QED
      BY <2>1, <2>2, FramesNow, <1>StackNext, Zenon
  <1>StackWithin.
    ASSUME StackInv, fi > 0, Limits, Tables, Marks, NEW pc, InFrame(frames', pc)
    PROVE  StackInv'
    <2> USE <1>StackWithin
    <2>1. FrameOk(M, F) /\ fi \in 1 .. fi
      BY FramesNow DEF F
    <2>2. FrameOk(M, frames'[fi])
      BY <2>1 DEF InFrame, FrameOk
    <2>3. \A j \in 1 .. fi : FrameOk(M, frames'[j])
      BY <2>2, FramesNow, Zenon DEF InFrame
    <2> QED
      BY <2>3, FramesNow, <1>StackNext, Zenon DEF InFrame
  <1>SameMarks.
    ASSUME StackInv, stop' = stop, shadow' = shadow
    PROVE  Marks
    BY <1>SameMarks DEF StackInv, Marks
  <1>SameTables.
    ASSUME StackInv, Plain
    PROVE  Tables
    <2> USE <1>SameTables
    <2>1. M' = M /\ jit_fns' = jit_fns /\ globals' = globals
      BY DEF Plain, fixed, store
    <2>2. IsSeqOf(globals, Len(M.globals))
      BY Zenon DEF StackInv
    <2> QED
      BY <2>1, <2>2, Zenon DEF Tables
  <1>MoveLimits.
    ASSUME StackInv, NEW k, NEW p, Move(k, p)
    PROVE  Limits /\ Marks /\ InFrame(frames', I.next)
    <2> USE <1>MoveLimits
    <2>1. vsp' \in 0 .. STACK_DEPTH /\ ctrl_depth' \in 0 .. MAX_CTRL_DEPTH /\ DOMAIN ctrl' = DOMAIN ctrl
      BY LimitsAssumption DEF StackInv, Move
    <2>2. DOMAIN vstack' = DOMAIN vstack
      <3>1. CASE vstack' = vstack
        BY <3>1
      <3>2. ASSUME NEW v, vstack' = [vstack EXCEPT ![vsp - k] = v]
            PROVE  DOMAIN vstack' = DOMAIN vstack
        BY <3>2
      <3> QED
        BY <3>1, <3>2, Zenon DEF Move
    <2> QED
      BY <2>1, <2>2, <1>SameMarks, Zenon DEF Move, Limits
  <1>StackPlain.
    ASSUME StackInv, PlainAction
    PROVE  StackInv'
    <2> USE <1>StackPlain
    <2>PlainTables.
      ASSUME StackInv, PlainAction
      PROVE  Tables
      <3> USE <2>PlainTables
      <3>1. CASE GlobalSet
        <4>1. M' = M /\ jit_fns' = jit_fns /\ globals' = [globals EXCEPT ![I.val + 1] = arg(1)]
          BY <3>1, Zenon DEF GlobalSet, fixed
        <4>2. IsSeqOf(globals, Len(M.globals))
          BY Zenon DEF StackInv
        <4>3. IsSeqOf(globals', Len(M.globals))
          BY <4>1, <4>2, Zenon DEF IsSeqOf
        <4> QED
          BY <4>1, <4>3, Zenon DEF Tables
      <3>2. CASE ~GlobalSet
        <4>1. M' = M /\ jit_fns' = jit_fns /\ globals' = globals
          BY <3>2, Zenon DEF PlainAction, Nop, Const, FloatConst, LocalGet, LocalSet, GlobalGet,
            Drop, Select, Load, Store, MemorySize, MemoryGrow, TruncSat, DataSegment, BulkMemory,
            Plain, fixed, store
        <4>2. IsSeqOf(globals, Len(M.globals))
          BY Zenon DEF StackInv
        <4> QED
          BY <4>1, <4>2, Zenon DEF Tables
      <3> QED
        BY <3>1, <3>2
    <2>1. Limits /\ Marks /\ InFrame(frames', I.next)
      BY PlainActions, <1>MoveLimits, Zenon DEF SomePlain, PlainStep
    <2>2. fi > 0
      BY PlainActions, InstrOk, Zenon
    <2> QED
      BY <2>1, <2>2, <2>PlainTables, <1>StackWithin, Zenon
  <1>Unmoved.
    ASSUME StackInv, Panic \/ UNCHANGED <<exec, stop, shadow>>, Tables
    PROVE  StackInv'
    <2> USE <1>Unmoved
    <2>Frozen.
      ASSUME StackInv, UNCHANGED <<vstack, vsp, frames, ctrl, ctrl_depth, stop, shadow>>, Tables
      PROVE  StackInv'
      <3> USE <2>Frozen
      <3>1. Limits
        BY DEF StackInv, Limits
      <3> QED
        BY <3>1, <1>SameMarks, <1>StackSame, Zenon
    <2>1. UNCHANGED <<vstack, vsp, frames, ctrl, ctrl_depth, stop, shadow>>
      BY DEF Panic, exec
    <2> QED
      BY <2>1, <2>Frozen
  <1>StackReturn.
    ASSUME StackInv, fi > 0, NEW sp, do_return(sp), Tables
    PROVE  StackInv'
    <2> USE <1>StackReturn
    <2>StackReturned.
      ASSUME StackInv, fi > 0, Returned, Tables
      PROVE  StackInv'
      <3> USE <2>StackReturned
      <3>1. fi - 1 \in 0 .. fi /\ fi - 1 \in Nat /\ fi - 1 <= CALL_DEPTH /\ fi \in 1 .. fi
        BY FramesNow, LimitsAssumption
      <3>2. /\ IsSeqOf(frames', fi - 1)
            /\ \A j \in 1 .. fi - 1 : frames'[j] = frames[j]
        BY <3>1, FramesNow, CutTo, Zenon DEF Returned
      <3>3. \A j \in 1 .. fi - 1 : FrameOk(M, frames'[j])
        <4> TAKE j \in 1 .. fi - 1
        <4>1. j \in 1 .. fi
          BY <3>1
        <4> QED
          BY <3>2, <4>1, FramesNow, Zenon
      <3>4. /\ F.ctrl_base \in 0 .. MAX_CTRL_DEPTH
            /\ F.vsp_base \in 0 .. STACK_DEPTH /\ F.result_count \in Nat
        BY <3>1, FramesNow, Zenon DEF FrameOk, F
      <3>5. Limits
        <4>1. F.vsp_base + F.result_count \in 0 .. STACK_DEPTH
          BY <3>4, LimitsAssumption DEF Returned
        <4> QED
          BY <3>4, <4>1, Zenon DEF Limits, Returned
      <3>6. Marks
        BY <1>SameMarks, Zenon DEF Returned
      <3> QED
        BY <3>1, <3>2, <3>3, <3>5, <3>6, <1>StackNext, Zenon
    <2> QED
      BY ReturnKinds, <2>StackReturned, <1>Unmoved, Zenon
  <1>StackFinish.
    ASSUME StackInv, NEW failed, FinishJitCall(failed), Tables
    PROVE  StackInv'
    <2> USE <1>StackFinish
    <2>1. /\ stop' = shadow.saved_stop /\ frames' = frames /\ ctrl' = ctrl /\ ctrl_depth' = ctrl_depth
          /\ shadow' = [NoShadow EXCEPT !.failed = failed]
      BY Zenon DEF FinishJitCall
    <2>2. Marks
      BY <2>1, LimitsAssumption DEF Marks, NoShadow, StackInv
    <2>3. /\ vsp' = shadow.saved_vsp \/ (vsp' = shadow.saved_vsp + 1 /\ ~(shadow.saved_vsp >= STACK_DEPTH))
          /\ vstack' = vstack \/ vstack' = [vstack EXCEPT ![shadow.saved_vsp] = shadow.jit]
      BY Zenon DEF FinishJitCall
    <2>4. vsp' \in 0 .. STACK_DEPTH /\ DOMAIN vstack' = DOMAIN vstack
      BY <2>3, LimitsAssumption DEF StackInv
    <2>5. Limits
      BY <2>1, <2>4 DEF Limits, StackInv
    <2> QED
      BY <2>1, <2>2, <2>5, <1>StackSame, Zenon
  <1>StackFail.
    ASSUME StackInv, NEW e, Fail(e)
    PROVE  StackInv'
    <2> USE <1>StackFail
    <2>1. Tables
      BY <1>SameTables, Zenon DEF Fail, Plain
    <2>2. CASE shadow.on
      BY <2>1, <2>2, <1>StackFinish, Zenon DEF Fail
    <2>3. CASE ~shadow.on
      BY <2>1, <2>3, <1>Unmoved, Zenon DEF Fail
    <2> QED
      BY <2>2, <2>3, Zenon
  <1>PushedCtrl.
    ASSUME StackInv, ctrl_push, ctrl_depth < MAX_CTRL_DEPTH
    PROVE  DOMAIN ctrl' = DOMAIN ctrl /\ ctrl_depth' \in 0 .. MAX_CTRL_DEPTH
    BY <1>PushedCtrl, LimitsAssumption DEF ctrl_push, StackInv
  <1>StackBlock.
    ASSUME StackInv, Block
    PROVE  StackInv'
    <2> USE <1>StackBlock
    <2>1. /\ ctrl_push /\ frames' = [frames EXCEPT ![fi].pc = I.next] /\ Plain
          /\ vstack' = vstack /\ vsp' = vsp /\ stop' = stop /\ shadow' = shadow
          /\ Running /\ F.pc \in DOMAIN body
      BY Zenon DEF Block, control, Fetch
    <2>2. DOMAIN ctrl' = DOMAIN ctrl /\ ctrl_depth' \in 0 .. MAX_CTRL_DEPTH
      BY <2>1, BlockRoom, <1>PushedCtrl, Zenon
    <2>3. Limits
      BY <2>1, <2>2, Zenon DEF Limits, StackInv
    <2>4. fi > 0
      BY <2>1, InstrOk
    <2> QED
      BY <2>1, <2>3, <2>4, SetPc, <1>SameTables, <1>SameMarks, <1>StackWithin, Zenon
  <1>StackIf.
    ASSUME StackInv, If
    PROVE  StackInv'
    <2> USE <1>StackIf
    <2>1. /\ \E pc : frames' = [frames EXCEPT ![fi].pc = pc]
          /\ vstack' = vstack /\ vsp' = vsp - 1 /\ stop' = stop /\ shadow' = shadow
          /\ Running /\ F.pc \in DOMAIN body /\ Plain
      BY Zenon DEF If, control, Fetch
    <2>2. DOMAIN ctrl' = DOMAIN ctrl /\ ctrl_depth' \in 0 .. MAX_CTRL_DEPTH
      <3>1. CASE Taken \/ I.jump.else_pc # NO_ELSE
        BY <3>1, BlockRoom, <1>PushedCtrl, Zenon DEF If
      <3>2. CASE ~(Taken \/ I.jump.else_pc # NO_ELSE)
        BY <3>2, Zenon DEF If, StackInv
      <3> QED
        BY <3>1, <3>2
    <2>3. vsp' \in 0 .. STACK_DEPTH
      <3>1. 1 <= vsp
        BY BlockRoom, Zenon
      <3>2. vsp \in 0 .. STACK_DEPTH
        BY Zenon DEF StackInv
      <3> QED
        BY <2>1, <3>1, <3>2, LimitsAssumption
    <2>4. Limits
      BY <2>1, <2>2, <2>3, Zenon DEF Limits
    <2>5. fi > 0
      BY <2>1, InstrOk
    <2> QED
      BY <2>1, <2>4, <2>5, SetPc, <1>SameTables, <1>SameMarks, <1>StackWithin, Zenon
  \* A step that only cuts the control stack, and perhaps pops one operand.
  <1>StackCut.
    ASSUME StackInv, fi > 0, NEW pc, frames' = [frames EXCEPT ![fi].pc = pc],
           ctrl_depth' \in 0 .. ctrl_depth, vsp' \in 0 .. vsp,
           UNCHANGED <<vstack, ctrl, control>>, Tables
    PROVE  StackInv'
    <2> USE <1>StackCut
    <2>1. Limits
      <3>1. vsp \in 0 .. STACK_DEPTH /\ ctrl_depth \in 0 .. MAX_CTRL_DEPTH
        BY Zenon DEF StackInv
      <3>2. vsp' \in 0 .. STACK_DEPTH /\ ctrl_depth' \in 0 .. MAX_CTRL_DEPTH
        BY <3>1, LimitsAssumption
      <3> QED
        BY <3>2, Zenon DEF Limits
    <2>2. stop' = stop /\ shadow' = shadow
      BY DEF control
    <2> QED
      BY <2>1, <2>2, SetPc, <1>SameMarks, <1>StackWithin, Zenon
  <1>StackElse.
    ASSUME StackInv, Else
    PROVE  StackInv'
    <2> USE <1>StackElse
    <2>1. Running /\ F.pc \in DOMAIN body /\ Plain
      BY Zenon DEF Else, Fetch
    <2>2. fi > 0 /\ Tables
      BY <2>1, InstrOk, <1>SameTables, Zenon
    <2>3. CASE ctrl_depth = 0
      BY <2>2, <2>3, <1>Unmoved, Zenon DEF Else
    <2>4. CASE ctrl_depth # 0
      <3>1. /\ \E pc : frames' = [frames EXCEPT ![fi].pc = pc]
            /\ ctrl_depth' = ctrl_depth - 1 /\ vsp' = vsp /\ UNCHANGED <<vstack, ctrl, control>>
        BY <2>4, Zenon DEF Else
      <3>2. ctrl_depth' \in 0 .. ctrl_depth /\ vsp' \in 0 .. vsp
        BY <2>4, <3>1, LimitsAssumption DEF StackInv
      <3> QED
        BY <2>2, <3>1, <3>2, <1>StackCut, Zenon
    <2> QED
      BY <2>3, <2>4
  <1>StackEnd.
    ASSUME StackInv, End
    PROVE  StackInv'
    <2> USE <1>StackEnd
    <2>1. Running /\ F.pc \in DOMAIN body /\ Plain
      BY Zenon DEF End, Fetch
    <2>2. fi > 0 /\ Tables
      BY <2>1, InstrOk, <1>SameTables, Zenon
    <2>3. CASE ctrl_depth > F.ctrl_base
      <3>1. /\ frames' = [frames EXCEPT ![fi].pc = I.next]
            /\ ctrl_depth' = ctrl_depth - 1 /\ vsp' = vsp /\ UNCHANGED <<vstack, ctrl, control>>
        BY <2>3, Zenon DEF End
      <3>0. F.ctrl_base \in Nat
        BY <2>2, FramesNow, LimitsAssumption DEF FrameOk, F
      <3>a. ctrl_depth' = ctrl_depth - 1 /\ vsp' = vsp
        BY <3>1, Zenon
      <3>2. ctrl_depth' \in 0 .. ctrl_depth /\ vsp' \in 0 .. vsp
        BY <2>3, <3>0, <3>a, LimitsAssumption DEF StackInv
      <3> QED
        BY <2>2, <3>1, <3>2, <1>StackCut, Zenon
    <2>4. CASE ~(ctrl_depth > F.ctrl_base)
      BY <2>2, <2>4, <1>StackReturn, Zenon DEF End
    <2> QED
      BY <2>3, <2>4
  <1>StackBranches.
    ASSUME StackInv, Br \/ BrIf \/ BrTable
    PROVE  StackInv'
    <2> USE <1>StackBranches
    <2>StackBranch.
      ASSUME StackInv, fi > 0, NEW n \in Nat, NEW sp \in 0 .. vsp, do_br(n, sp), Tables
      PROVE  StackInv'
      <3> USE <2>StackBranch
      <3>1. CASE Panic \/ do_return(sp)
        BY <3>1, <1>Unmoved, <1>StackReturn, Zenon
      <3>2. CASE ~(ctrl_depth < F.ctrl_base) /\ ~(n >= ctrl_depth - F.ctrl_base) /\ Branched(n, sp)
        <4>0. F.ctrl_base \in Nat
          BY FramesNow, LimitsAssumption DEF FrameOk, F
        <4>1. /\ \E pc : frames' = [frames EXCEPT ![fi].pc = pc]
              /\ vsp' = sp /\ UNCHANGED <<vstack, ctrl, control>>
          BY <3>2, Zenon DEF Branched
        <4>2. ctrl_depth' = ctrl_depth - n \/ ctrl_depth' = ctrl_depth - 1 - n
          BY <3>2, Zenon DEF Branched
        <4>3. ctrl_depth' \in 0 .. ctrl_depth
          <5>1. ctrl_depth \in Nat
            BY LimitsAssumption DEF StackInv
          <5> QED
            BY <3>2, <4>0, <4>2, <5>1
        <4> QED
          BY <4>1, <4>3, <1>StackCut, Zenon
      <3> QED
        BY <3>1, <3>2, BranchKinds, Zenon
    <2>1. /\ Running /\ F.pc \in DOMAIN body /\ Plain
          /\ I.op \in {BR, BR_IF, BR_TABLE}
      BY Zenon DEF Br, BrIf, BrTable, Fetch
    <2>2. fi > 0 /\ Tables /\ M' = M /\ I.val \in Nat
      BY <2>1, InstrOk, ImmNat, <1>SameTables, Zenon DEF Tables
    <2>3. vsp \in 0 .. vsp /\ (BrIf \/ BrTable => vsp - 1 \in 0 .. vsp)
      BY BrRoom, LimitsAssumption DEF StackInv
    <2>4. CASE Br
      BY <2>2, <2>3, <2>4, <2>StackBranch, Zenon DEF Br
    <2>5. CASE BrIf /\ arg(1) # 0
      BY <2>2, <2>3, <2>5, <2>StackBranch, Zenon DEF BrIf
    <2>6. CASE BrIf /\ arg(1) = 0
      <3>1. Pop(1, I.next)
        BY <2>6, Zenon DEF BrIf
      <3>2. Move(1, 0)
        BY <2>2, <2>6, <3>1, BrRoom, PopMoves
      <3> QED
        BY <2>2, <3>2, <1>MoveLimits, <1>StackWithin, Zenon
    <2>7. CASE BrTable
      BY <2>2, <2>3, <2>7, LabelOk, <2>StackBranch, Zenon
    <2> QED
      BY <2>4, <2>5, <2>6, <2>7, Zenon
  <1>NewFrameOk.
    ASSUME StackInv, NEW b \in Bodies(M), NEW sp \in 0 .. STACK_DEPTH, NEW params,
           IsSeqOf(params, NParams(b)), NParams(b) + At(M.locals, b) <= MAX_LOCALS
    PROVE  FrameOk(M, NewFrame(b, params, sp))
    <2> USE <1>NewFrameOk
    <2>1. /\ NResults(b) \in Nat /\ At(M.locals, b) \in Nat
          /\ NLocals(M, b) = NParams(b) + At(M.locals, b)
      BY ParamsNat
    <2> DEFINE zeros == [i \in 1 .. At(M.locals, b) |-> 0]
               f == NewFrame(b, params, sp)
    <2>2. IsSeqOf(zeros, At(M.locals, b))
      BY <2>1 DEF IsSeqOf
    <2>3. IsSeqOf(params \o zeros, NLocals(M, b))
      <3> HIDE DEF zeros
      <3> QED
        BY <2>1, <2>2, ConcatAt
    <2>4. f = [body |-> b, pc |-> 0, locals |-> params \o zeros, ctrl_base |-> ctrl_depth,
               vsp_base |-> sp, result_count |-> NResults(b)]
      BY DEF NewFrame
    <2> HIDE DEF zeros, f
    <2>5. /\ IsFrame(f) /\ f.body = b /\ f.locals = params \o zeros /\ f.ctrl_base = ctrl_depth
          /\ f.vsp_base = sp /\ f.result_count = NResults(b)
      BY <2>4 DEF IsFrame
    <2>6. ctrl_depth \in 0 .. MAX_CTRL_DEPTH
      BY DEF StackInv
    <2>7. FrameOk(M, f)
      BY <2>1, <2>3, <2>5, <2>6, Zenon DEF FrameOk
    <2> QED
      BY <2>7 DEF f
  <1>StackPush.
    ASSUME StackInv, fi > 0, fi < CALL_DEPTH, NEW caller, NEW pc, InFrame(caller, pc),
           NEW f, FrameOk(M, f), frames' = Append(caller, f), Limits, Tables, Marks
    PROVE  StackInv'
    <2> USE <1>StackPush
    <2>1. fi + 1 \in Nat /\ fi + 1 <= CALL_DEPTH /\ fi \in 1 .. fi
      BY FramesNow, LimitsAssumption
    <2>2. IsSeqOf(caller, fi)
      BY DEF InFrame
    <2>3. /\ IsSeqOf(frames', fi + 1) /\ frames'[fi + 1] = f
          /\ \A j \in 1 .. fi : frames'[j] = caller[j]
      <3>1. Longer(frames', caller, fi, f)
        BY <2>2, AppendAt, Zenon
      <3> QED
        BY <3>1, Zenon DEF Longer
    <2>4. \A j \in 1 .. fi : FrameOk(M, caller[j])
      <3>1. FrameOk(M, F)
        BY <2>1, FramesNow DEF F
      <3>2. FrameOk(M, caller[fi])
        BY <3>1 DEF InFrame, FrameOk
      <3> QED
        BY <3>2, FramesNow, Zenon DEF InFrame
    <2>5. \A j \in 1 .. fi + 1 : FrameOk(M, frames'[j])
      <3> TAKE j \in 1 .. fi + 1
      <3>1. j \in 1 .. fi \/ j = fi + 1
        BY FramesNow
      <3> QED
        BY <2>3, <2>4, <3>1, Zenon
    <2> QED
      BY <2>1, <2>3, <2>5, <1>StackNext, Zenon
  <1>StackCall.
    ASSUME StackInv, Call
    PROVE  StackInv'
    <2> USE <1>StackCall
    <2>ParamsSeq.
      ASSUME NEW st, NEW sp, NEW n \in Nat
      PROVE  IsSeqOf(Params(st, sp, n), n)
      BY <2>ParamsSeq DEF Params, IsSeqOf
    <2>0. CallAction /\ Plain
      BY Zenon DEF CallAction, Call
    <2> DEFINE b == callee - import_count
               n == NParams(b)
               params == Params(vstack, Popped, n)
               caller == [frames EXCEPT ![fi].pc = I.next]
    <2>1. /\ b \in Bodies(M) /\ fi > 0 /\ Popped \in 0 .. vsp
          /\ FrameTrap(b, Popped) = ""
          /\ frames' = Append(caller, NewFrame(b, params, Popped - n))
          /\ vsp' = Popped - n /\ UNCHANGED <<vstack, ctrl, ctrl_depth, control>>
      <3>1. callee >= import_count /\ CallTrap = "" /\ push_frame(b, Popped, I.next)
            /\ ~(I.op = CALL /\ b \in jit_fns)
        <4>1. CALL # CALL_INDIRECT
          BY Opcodes
        <4> QED
          BY <4>1, Zenon DEF Call
      <3>2. callee \in Nat /\ import_count \in Nat /\ fi > 0 /\ Popped \in 0 .. vsp
            /\ b \in Bodies(M)
        BY <2>0, <3>1, CallFacts, Zenon
      <3>a. callee >= import_count
        BY <3>1, Zenon
      <3>3. ~(callee < import_count)
        BY <3>a, <3>2
      <3>4. FrameTrap(b, Popped) = ""
        BY <3>1, <3>3, Zenon DEF CallTrap, Or
      <3> QED
        BY <3>1, <3>2, <3>4, Zenon DEF push_frame
    <2> HIDE DEF b
    <2>2. /\ fi < CALL_DEPTH /\ NParams(b) + At(M.locals, b) <= MAX_LOCALS
          /\ Popped >= NParams(b)
      BY <2>1, FrameRoom, Zenon
    <2>3. n \in Nat
      BY <2>1, ParamsNat, Zenon
    <2> HIDE DEF n
    <2>a. Popped >= n /\ vsp' = Popped - n /\ Popped \in 0 .. vsp
      BY <2>1, <2>2, Zenon DEF n
    <2>4. Popped - n \in 0 .. STACK_DEPTH /\ vsp' \in 0 .. STACK_DEPTH
      BY <2>a, <2>3, LimitsAssumption DEF StackInv
    <2>5. FrameOk(M, NewFrame(b, params, Popped - n))
      BY <2>1, <2>2, <2>3, <2>4, <2>ParamsSeq, <1>NewFrameOk, Zenon DEF n
    <2>6. InFrame(caller, I.next)
      BY <2>1, SetPc, Zenon
    <2>7. Limits
      BY <2>1, <2>4, Zenon DEF Limits, StackInv
    <2>8. Marks
      BY <2>1, <1>SameMarks, Zenon DEF control
    <2> QED
      BY <2>0, <2>1, <2>2, <2>5, <2>6, <2>7, <2>8, <1>SameTables, <1>StackPush, Zenon
  <1>StackHost.
    ASSUME StackInv, HostCall
    PROVE  StackInv'
    <2> USE <1>StackHost
    <2>1. /\ frames' = [frames EXCEPT ![fi].pc = I.next] /\ vsp' = Popped - Host.pops + Host.pushes
          /\ vstack' = vstack \/ \E v : vstack' = [vstack EXCEPT ![Popped - Host.pops] = v]
          /\ ctrl' = ctrl /\ ctrl_depth' = ctrl_depth /\ stop' = stop /\ shadow' = shadow
          /\ M' = M /\ jit_fns' = jit_fns /\ globals' = globals
      BY Zenon DEF HostCall, fixed
    <2>2. Popped \in 0 .. vsp /\ fi > 0
      BY HostRoom, CallFacts, Zenon
    <2>3. vsp' \in 0 .. STACK_DEPTH
      <3>1. vsp' = Popped - Host.pops + Host.pushes
        BY <2>1
      <3>2. /\ Host.pops \in Nat /\ Host.pushes \in 0 .. 1
            /\ Host.pops <= Popped /\ Popped - Host.pops + Host.pushes <= STACK_DEPTH
        BY HostRoom, Zenon
      <3>3. vsp \in Nat
        BY LimitsAssumption DEF StackInv
      <3> QED
        BY <2>2, <3>1, <3>2, <3>3, LimitsAssumption
    <2>4. DOMAIN vstack' = DOMAIN vstack
      <3>1. ASSUME NEW v, vstack' = [vstack EXCEPT ![Popped - Host.pops] = v]
            PROVE  DOMAIN vstack' = DOMAIN vstack
        BY <3>1
      <3> QED
        BY <2>1, <3>1, Zenon
    <2>5. Limits
      BY <2>1, <2>3, <2>4, Zenon DEF Limits, StackInv
    <2>6. Tables
      BY <2>1, Zenon DEF Tables, StackInv
    <2> QED
      BY <2>1, <2>2, <2>5, <2>6, <1>SameMarks, SetPc, <1>StackWithin, Zenon
  <1>StackJit.
    ASSUME StackInv, JitCall
    PROVE  StackInv'
    <2> USE <1>StackJit
    <2> DEFINE b == callee - import_count
               n == NParams(b)
               caller == [frames EXCEPT ![fi].pc = I.next]
    <2>1. PICK params : JitRan(params)
      BY JitKinds
    <2>2. b \in Bodies(M) /\ n \in Nat /\ n <= vsp /\ CallAction
      BY JitFacts, Zenon
    <2>3. fi > 0 /\ fi \in Nat
      BY <2>2, CallFacts, Zenon
    <2>4. vsp - n \in 0 .. STACK_DEPTH
      <3> HIDE DEF n
      <3> QED
        BY <2>2, LimitsAssumption DEF StackInv
    <2>5. Limits
      BY <2>1, <2>4, Zenon DEF Limits, JitRan, StackInv
    <2>6. Tables
      BY <2>1, <1>SameTables, Zenon DEF JitRan
    <2>7. Marks
      <3>1. NResults(b) \in Nat
        BY <2>2, ParamsNat, Zenon
      <3>2. stop \in Nat
        BY DEF StackInv
      <3> QED
        BY <2>1, <2>3, <2>4, <3>1, <3>2, Zenon DEF Marks, JitRan
    <2>8. InFrame(caller, I.next)
      BY <2>3, SetPc, Zenon
    <2>9. CASE FrameTrap(b, vsp) = ""
      <3>1. fi < CALL_DEPTH /\ NParams(b) + At(M.locals, b) <= MAX_LOCALS
        BY <2>9, FrameRoom, Zenon
      <3>2. FrameOk(M, NewFrame(b, params, vsp - n))
        BY <2>1, <2>2, <2>4, <3>1, <1>NewFrameOk, Zenon DEF JitRan
      <3>3. frames' = Append(caller, NewFrame(b, params, vsp - n))
        BY <2>1, <2>9, Zenon DEF JitRan
      <3> QED
        BY <2>3, <2>5, <2>6, <2>7, <2>8, <3>1, <3>2, <3>3, <1>StackPush, Zenon
    <2>10. CASE FrameTrap(b, vsp) # ""
      <3>1. frames' = caller
        BY <2>1, <2>10, Zenon DEF JitRan
      <3> QED
        BY <2>3, <2>5, <2>6, <2>7, <2>8, <3>1, <1>StackWithin, Zenon
    <2> QED
      BY <2>9, <2>10, Zenon
  <1>StackStart.
    ASSUME StackInv, Start
    PROVE  StackInv'
    <2> USE <1>StackStart
    <2>LastOf.
      ASSUME NEW args \in Seq(Int), NEW n \in 0 .. Len(args)
      PROVE  IsSeqOf(SubSeq(args, Len(args) - n + 1, Len(args)), n)
      <3> USE <2>LastOf
      <3> DEFINE s == SubSeq(args, Len(args) - n + 1, Len(args))
      <3>1. s \in Seq(Int) /\ Len(s) = n
        OBVIOUS
      <3> HIDE DEF s
      <3>2. IsSeqOf(s, n)
        BY <3>1 DEF IsSeqOf
      <3> QED
        BY <3>2 DEF s
    <2>1. /\ \/ UNCHANGED <<exec, active_mem>>
             \/ \E args : Started(args)
          /\ M' = M /\ jit_fns' = jit_fns /\ globals' = globals /\ stop' = stop /\ shadow' = shadow
      BY StartKinds, Zenon DEF fixed
    <2>2. Tables /\ Marks
      BY <2>1, <1>SameMarks, Zenon DEF Tables, StackInv
    <2>3. CASE UNCHANGED <<exec, active_mem>>
      BY <2>1, <2>2, <2>3, <1>Unmoved, Zenon
    <2>4. ASSUME NEW args, Started(args)
          PROVE  StackInv'
      <3> DEFINE b == M.entry - import_count
                 n == NParams(b)
                 params == SubSeq(args, Len(args) - n + 1, Len(args))
                 f == NewFrame(b, params, Len(args) - n)
      <3>1. /\ args \in Seq(Int) /\ Len(args) <= STACK_DEPTH /\ b \in Bodies(M)
            /\ n \in 0 .. Len(args) /\ NParams(b) + At(M.locals, b) <= MAX_LOCALS
            /\ fi < CALL_DEPTH /\ DOMAIN vstack' = DOMAIN vstack /\ vsp' = Len(args) - n
            /\ frames' = <<f>> /\ ctrl' = ctrl /\ ctrl_depth' = ctrl_depth
        BY <2>4, Zenon DEF Started
      <3>2. IsSeqOf(params, n)
        <4> HIDE DEF n
        <4> QED
          BY <3>1, <2>LastOf
      <3>3. Len(args) - n \in 0 .. STACK_DEPTH
        <4> HIDE DEF n
        <4>1. Len(args) \in Nat /\ n \in 0 .. Len(args) /\ Len(args) <= STACK_DEPTH
          BY <3>1
        <4> QED
          BY <4>1, LimitsAssumption
      <3>4. FrameOk(M, f)
        BY <3>1, <3>2, <3>3, <1>NewFrameOk, Zenon
      <3>5. Limits
        BY <3>1, <3>3, Zenon DEF Limits, StackInv
      <3> HIDE DEF f
      <3>6. IsSeqOf(frames', 1) /\ frames'[1] = f
        BY <3>1, OneFrame, Zenon
      <3>7. \A j \in 1 .. 1 : FrameOk(M, frames'[j])
        <4>1. \A j \in 1 .. 1 : j = 1
          OBVIOUS
        <4> QED
          BY <3>4, <3>6, <4>1, Zenon
      <3>8. 1 \in Nat /\ 1 <= CALL_DEPTH
        <4>1. fi < CALL_DEPTH
          BY <3>1
        <4> QED
          BY <4>1, FramesNow, LimitsAssumption
      <3> QED
        BY <2>2, <3>5, <3>6, <3>7, <3>8, <1>StackNext, Zenon
    <2> QED
      BY <2>1, <2>3, <2>4, Zenon
  <1>1. CASE Start
    BY <1>1, <1>StackStart
  <1>2. CASE PlainAction
    BY <1>2, <1>StackPlain
  <1>3. CASE Numeric
    <2>1. CASE SomePlain /\ Plain
      <3>1. Running /\ F.pc \in DOMAIN body
        BY <1>3, Zenon DEF Numeric, Fetch
      <3>2. Limits /\ Marks /\ InFrame(frames', I.next)
        BY <2>1, <1>MoveLimits, Zenon DEF SomePlain, PlainStep
      <3>3. fi > 0
        BY <3>1, InstrOk, Zenon
      <3> QED
        BY <2>1, <3>2, <3>3, <1>SameTables, <1>StackWithin, Zenon
    <2>2. ASSUME NEW e, Fail(e)
          PROVE  StackInv'
      BY <2>2, <1>StackFail
    <2> QED
      BY <1>3, <2>1, <2>2, NumericPlain, Zenon
  <1>4. CASE LookupHangs
    BY <1>4, <1>SameTables, <1>Unmoved, Zenon DEF LookupHangs
  <1>5. CASE Block \/ If \/ Else \/ End \/ Br \/ BrIf \/ BrTable
    BY <1>5, <1>StackBlock, <1>StackIf, <1>StackElse, <1>StackEnd, <1>StackBranches, Zenon
  <1>6. CASE Return
    <2>1. fi > 0
      <3>1. fi > stop /\ stop \in Nat
        BY <1>6 DEF Return, Running, StackInv
      <3> QED
        BY <3>1, FramesNow
    <2> QED
      BY <1>6, <2>1, <1>SameTables, <1>StackReturn, Zenon DEF Return
  <1>7. CASE HostCall \/ Call \/ JitCall
    BY <1>7, <1>StackHost, <1>StackCall, <1>StackJit, Zenon
  <1>8. CASE Trap
    BY <1>8, <1>StackFail, Zenon DEF Trap
  <1>9. CASE ShadowReturns
    BY <1>9, <1>SameTables, <1>StackFinish, Zenon DEF ShadowReturns
  <1>10. CASE Completes \/ Resume \/ UNCHANGED vars
    <2>1. /\ UNCHANGED <<exec, stop, shadow>>
          /\ M' = M /\ jit_fns' = jit_fns /\ globals' = globals
      BY <1>10 DEF Completes, Resume, vars, fixed, store, control
    <2> QED
      BY <2>1, <1>Unmoved, Zenon DEF Tables, StackInv
  <1> QED
    BY <1>1, <1>2, <1>3, <1>4, <1>5, <1>6, <1>7, <1>8, <1>9, <1>10, Zenon
    DEF Next, Instruction, PlainAction, Stopped

LEMMA StackInit ==
  ASSUME Init
  PROVE  StackInv /\ MemInv
  <1>1. M \in Modules
    BY DEF Init
  <1>2. /\ M.globals \in Seq(Int) /\ M.pages \in 0 .. MAX_PAGES
        /\ DOMAIN M.code = 0 .. Len(M.bodies) - 1
    BY <1>1, ModuleAssumption, Zenon
  <1>3. IsSeqOf(globals, Len(M.globals))
    <2>1. globals = M.globals
      BY Zenon DEF Init
    <2>2. IsSeqOf(M.globals, Len(M.globals))
      BY <1>2 DEF IsSeqOf
    <2> QED
      BY <2>1, <2>2, Zenon
  <1>4. /\ DOMAIN vstack = 0 .. STACK_DEPTH - 1 /\ vsp \in 0 .. STACK_DEPTH
        /\ DOMAIN ctrl = 0 .. MAX_CTRL_DEPTH - 1 /\ ctrl_depth \in 0 .. MAX_CTRL_DEPTH
    BY LimitsAssumption DEF Init
  <1>5. frames = <<>> /\ fi = 0 /\ IsSeqOf(frames, 0) /\ 0 <= CALL_DEPTH
    BY LimitsAssumption DEF Init, fi, IsSeqOf
  <1>6. \A j \in 1 .. fi : FrameOk(M, frames[j])
    BY <1>5
  <1>7. stop = 0 /\ shadow.saved_vsp = 0 /\ shadow.n_results = 0 /\ shadow.saved_stop = 0
    BY DEF Init, NoShadow
  <1>8. ASSUME NEW b \in jit_fns
        PROVE  b \in Bodies(M) /\ NResults(b) \in 0 .. 1 /\ compiles(M.code[b])[0]
    <2>1. /\ b \in DOMAIN M.code
          /\ jit_compile_body(M.code[b], FuncType(M, Len(M.hosts) + b).results)
      BY Zenon DEF Init, compile_jit
    <2>2. b \in Bodies(M)
      BY <1>2, <2>1, Zenon DEF Bodies
    <2>3. NResults(b) <= 1 /\ compiles(M.code[b])[0]
      BY <2>1, Zenon DEF jit_compile_body, NResults, import_count
    <2>4. NResults(b) \in Nat
      BY <1>1, <2>2, BodyFacts, Zenon DEF NResults, import_count
    <2>5. NResults(b) \in 0 .. 1
      BY <2>3, <2>4
    <2> QED
      BY <2>2, <2>3, <2>5
  <1>9. MemInv
    BY <1>2, LimitsAssumption DEF Init, MemInv
  <1>10. \A b \in jit_fns : b \in Bodies(M) /\ NResults(b) \in 0 .. 1 /\ compiles(M.code[b])[0]
    BY <1>8, Zenon
  <1>11. 0 \in Nat /\ 0 \in 0 .. STACK_DEPTH
    BY LimitsAssumption
  <1>12. StackInv
    BY <1>1, <1>3, <1>4, <1>5, <1>6, <1>7, <1>10, <1>11, Zenon DEF StackInv
  <1> QED
    BY <1>9, <1>12

\* Whatever the bytes of the module and the values that the host returns: the value
\* stack, the frames, the control stack and the locals of run() stay within their
\* arrays, and the size that accesses to memory are checked against is the real one.
THEOREM BoundsHold ==
  Spec => []InBounds
  <1>MemActions.
    ASSUME StackInv, MemInv, [Next]_vars
    PROVE  MemInv'
    <2> USE <1>MemActions
    <2>1. CASE Start
      <3>1. status' # "running" \/ active_mem' = current_pages * PAGE_SIZE
        BY <2>1, StartKinds, Zenon DEF Started
      <3>2. current_pages' = current_pages
        BY <2>1, StartKinds, Zenon
      <3> QED
        BY <3>1, <3>2, Zenon DEF MemInv
    <2>2. CASE MemoryGrow
      <3>1. \/ /\ current_pages' <= MAX_PAGES /\ active_mem' = current_pages' * PAGE_SIZE
            \/ current_pages' = current_pages /\ active_mem' = active_mem /\ status' = status
        BY <2>2, Zenon DEF MemoryGrow, PopPush, control
      <3> QED
        BY <3>1, Zenon DEF MemInv
    <2>3. CASE Resume
      BY <2>3, Zenon DEF Resume, MemInv
    <2>4. CASE Completes
      BY <2>4, Zenon DEF Completes, MemInv, store
    <2>5. CASE (Instruction /\ ~MemoryGrow) \/ ShadowReturns \/ UNCHANGED vars
      <3>1. Instruction => status = "running"
        BY Zenon DEF Instruction, Nop, Const, FloatConst, LocalGet, LocalSet, GlobalGet, GlobalSet,
          Drop, Select, Numeric, Load, Store, MemorySize, MemoryGrow, TruncSat, DataSegment,
          BulkMemory, LookupHangs, Block, If, Else, End, Br, BrIf, BrTable, Return, HostCall, Call,
          JitCall, Trap, Fetch, Running
      <3>2. \/ ~Instruction \/ Plain
            \/ GlobalSet \/ Store \/ MemoryGrow \/ BulkMemory \/ HostCall
        BY Zenon DEF Instruction, Nop, Const, FloatConst, LocalGet, LocalSet, GlobalGet,
          Drop, Select, Numeric, Load, MemorySize, TruncSat, DataSegment,
          LookupHangs, Block, If, Else, End, Br, BrIf, BrTable, Return, Call,
          JitCall, Trap, Fail, Plain
      <3>3. current_pages' = current_pages /\ active_mem' = active_mem
        BY <2>5, <3>2, Zenon DEF Plain, store, GlobalSet, Store, BulkMemory, HostCall, ShadowReturns,
          vars
      <3>4. status = "running" \/ status' = status
        BY <2>5, <3>1, Zenon DEF ShadowReturns, vars, control
      <3> QED
        BY <3>3, <3>4, Zenon DEF MemInv
    <2> QED
      BY <2>1, <2>2, <2>3, <2>4, <2>5, Zenon DEF Next, Stopped
  <1>StackBounds.
    ASSUME StackInv, MemInv
    PROVE  InBounds
    <2> USE <1>StackBounds
    <2>1. \A j \in 1 .. fi : /\ frames[j].ctrl_base \in 0 .. MAX_CTRL_DEPTH
                              /\ frames[j].vsp_base \in 0 .. STACK_DEPTH
                              /\ Len(frames[j].locals) <= MAX_LOCALS
      <3> TAKE j \in 1 .. fi
      <3>1. FrameOk(M, frames[j])
        BY FramesNow
      <3>2. Len(frames[j].locals) = NLocals(M, frames[j].body)
        BY <3>1, SeqLen, Zenon DEF FrameOk
      <3> QED
        BY <3>1, <3>2, Zenon DEF FrameOk
    <2> QED
      BY <2>1, Zenon DEF StackInv, MemInv, InBounds
  <1>1. Init => StackInv /\ MemInv
    BY StackInit
  <1>2. StackInv /\ MemInv /\ [Next]_vars => (StackInv /\ MemInv)'
    BY StackActions, <1>MemActions
  <1>3. StackInv /\ MemInv => InBounds
    BY <1>StackBounds
  <1> QED
    BY <1>1, <1>2, <1>3, PTL DEF Spec
=============================================================================

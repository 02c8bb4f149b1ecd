-------------------------- MODULE InterpMapProofs ---------------------------
EXTENDS InterpProofs

-----------------------------------------------------------------------------
(* The inductive invariant: the module is valid and no shadow run failed.  *)

\* A shadow run has one frame, which runs straight through code the JIT accepts.
ShadowInv ==
  Orderly /\ ~Over =>
    /\ status = "idle" => frames = <<>> /\ ~shadow.on
    /\ ~shadow.on => stop = 0
    /\ shadow.on =>
         /\ shadow.saved_stop = 0 /\ stop \in 1 .. fi /\ fi \in {stop, stop + 1}
         /\ shadow.n_results \in 0 .. 1
         /\ fi > stop => /\ F.vsp_base = shadow.saved_vsp
                        /\ F.result_count = shadow.n_results
                        /\ F.ctrl_base = ctrl_depth
                        /\ compiles(M.code[F.body])[F.pc]

\* f is at a point of the map, with its blocks in c below ctop and its operands
\* below vtop.
Mapped(mod, c, f, ctop, vtop) ==
  /\ f.pc \in DOMAIN mod.map[f.body]
  /\ f.result_count = FuncType(mod, Len(mod.hosts) + f.body).results
  /\ LET p == mod.map[f.body][f.pc]
     IN  /\ f.ctrl_base + Len(p.nest) = ctop
         /\ \A d \in 1 .. Len(p.nest) : c[f.ctrl_base + d - 1] = p.nest[d]
         /\ f.vsp_base + p.height = vtop

\* Every one of the n frames fr is, and the bases of their blocks ascend.
Chain(mod, c, fr, n, ctop, vtop) ==
  /\ \A j \in 1 .. n :
       Mapped(mod, c, fr[j], IF j = n THEN ctop ELSE fr[j + 1].ctrl_base,
              IF j = n THEN vtop ELSE fr[j + 1].vsp_base + fr[j + 1].result_count)
  /\ \A k \in 1 .. n : \A j \in 1 .. k : fr[j].ctrl_base <= fr[k].ctrl_base

\* The operands of the innermost frame, with the result of the native code.
Top == IF InShadow THEN shadow.saved_vsp + shadow.n_results ELSE vsp

MapInv ==
  Orderly /\ ~Over =>
    /\ Chain(M, ctrl, frames, fi, ctrl_depth, Top)
    /\ shadow.on => frames[stop].vsp_base <= shadow.saved_vsp

-----------------------------------------------------------------------------
(* The point where the innermost frame is.                                 *)

\* An instruction of a valid module is about to run, and no shadow run has failed.
Here == StackInv /\ ShadowInv /\ MapInv /\ Orderly /\ Running

LEMMA Certificate ==
  ASSUME NEW mod \in Modules, Certified(mod), NEW b \in Bodies(mod),
         NEW pc \in DOMAIN mod.map[b]
  PROVE  /\ mod.map[b][pc] \in Points /\ Len(mod.map[b][pc].nest) \in Nat
         /\ mod.map[b][pc].height \in Nat
         /\ mod.map[b][pc].nest \in Seq([kind : BlockOps, pc_start : Nat, end_pc : Nat])
         /\ pc \in DOMAIN mod.code[b] /\ PointOk(mod, b, pc, mod.code[b][pc])
  <1>1. /\ mod.map[b][pc] \in Points
        /\ pc \in DOMAIN mod.code[b] /\ PointOk(mod, b, pc, mod.code[b][pc])
    BY CertificateAssumption, Zenon
  <1>2. /\ mod.map[b][pc].nest \in Seq([kind : BlockOps, pc_start : Nat, end_pc : Nat])
        /\ mod.map[b][pc].height \in Nat
    BY <1>1, Zenon DEF Points
  <1>3. Len(mod.map[b][pc].nest) \in Nat
    BY <1>2
  <1> QED
    BY <1>1, <1>2, <1>3

LEMMA Moving ==
  ASSUME Here
  PROVE  /\ ~Over /\ ~InShadow /\ status = "running"
         /\ fi \in Nat /\ fi > 0 /\ fi > stop /\ fi \in 1 .. fi /\ FrameOk(M, F)
         /\ F.body \in Bodies(M)
         /\ F.ctrl_base \in Nat /\ F.vsp_base \in Nat /\ ctrl_depth \in Nat /\ vsp \in Nat
         /\ stop \in Nat /\ F.result_count \in Nat
         /\ M \in Modules /\ Certified(M)
  <1>1. ~Over /\ status = "running" /\ fi > stop /\ Certified(M)
    BY Zenon DEF Here, Running, Over, Orderly
  <1>2. fi \in Nat /\ stop \in Nat /\ M \in Modules
    BY FramesNow DEF Here, StackInv
  <1>3. fi > 0 /\ fi \in 1 .. fi /\ ~(fi <= stop)
    BY <1>1, <1>2
  <1>4. FrameOk(M, F)
    BY <1>3, FramesNow DEF Here, F
  <1>5. /\ F.body \in Bodies(M) /\ F.ctrl_base \in Nat /\ F.vsp_base \in Nat
        /\ ctrl_depth \in Nat /\ vsp \in Nat /\ F.result_count \in Nat
    BY <1>4, LimitsAssumption DEF FrameOk, Here, StackInv
  <1>6. ~InShadow
    BY <1>3 DEF InShadow
  <1> QED
    BY <1>1, <1>2, <1>3, <1>4, <1>5, <1>6

LEMMA Pointed ==
  ASSUME Here
  PROVE  /\ F.pc \in DOMAIN M.map[F.body] /\ F.pc \in DOMAIN body /\ AtPoint
         /\ Point.nest \in Seq([kind : BlockOps, pc_start : Nat, end_pc : Nat])
         /\ Len(Point.nest) \in Nat /\ Point.height \in Nat
         /\ F.result_count = FuncType(M, Len(M.hosts) + F.body).results
         /\ F.ctrl_base + Len(Point.nest) = ctrl_depth
         /\ \A d \in 1 .. Len(Point.nest) : ctrl[F.ctrl_base + d - 1] = Point.nest[d]
         /\ F.vsp_base + Point.height = vsp
  <1>1. Mapped(M, ctrl, F, ctrl_depth, vsp)
    <2>1. Chain(M, ctrl, frames, fi, ctrl_depth, Top) /\ Top = vsp
      BY Moving, Zenon DEF Here, MapInv, Top
    <2> QED
      BY <2>1, Moving, Zenon DEF Chain, F
  <1>2. F.pc \in DOMAIN M.map[F.body]
    BY <1>1, Zenon DEF Mapped
  <1>3. /\ Point.nest \in Seq([kind : BlockOps, pc_start : Nat, end_pc : Nat])
        /\ Len(Point.nest) \in Nat /\ Point.height \in Nat /\ F.pc \in DOMAIN body /\ AtPoint
    BY <1>2, Moving, Certificate, Zenon DEF Point, AtPoint, body, I
  <1> QED
    BY <1>1, <1>2, <1>3, Zenon DEF Mapped, Point

LEMMA InstrHere ==
  ASSUME Here
  PROVE  /\ I \in Instructions /\ I.next \in Nat /\ I.ok
         /\ \A i \in DOMAIN body : body[i].ok \in BOOLEAN /\ body[i].next \in Nat
         /\ F.pc \in Nat
  <1>1. I \in Instructions /\ I.next \in Nat
    BY Pointed, InstrOk, Fields DEF Here
  <1>2. I.ok
    BY Pointed, Zenon DEF AtPoint, PointOk
  <1>3. F.body \in DOMAIN M.code
    BY Moving, BodyFacts, Zenon
  <1>4. \A i \in DOMAIN body : i \in Nat /\ body[i] \in Instructions
    BY <1>3, Moving, ModuleAssumption, Zenon DEF body
  <1>5. \A i \in DOMAIN body : body[i].ok \in BOOLEAN /\ body[i].next \in Nat
    BY <1>4, Fields
  <1> QED
    BY <1>1, <1>2, <1>4, <1>5, Pointed

LEMMA BlockAt ==
  ASSUME Here
  PROVE  /\ I.op \in {BLOCK, LOOP} =>
              /\ I.jump.end_pc >= 0
              /\ Has(M, F.body, I.next, Append(Point.nest, CtrlFrame), Point.height)
         /\ I.op = IF_OP =>
              /\ I.jump.end_pc >= 0 /\ Point.height >= 1
              /\ Has(M, F.body, I.next, Append(Point.nest, CtrlFrame), Point.height - 1)
              /\ I.jump.else_pc = NO_ELSE =>
                   Has(M, F.body, I.jump.end_pc + 1, Point.nest, Point.height - 1)
              /\ I.jump.else_pc # NO_ELSE =>
                   Has(M, F.body, I.jump.else_pc + 1, Append(Point.nest, CtrlFrame),
                       Point.height - 1)
  BY Pointed, Zenon DEF AtPoint, PointOk, Point, CtrlFrame

LEMMA Heights ==
  ASSUME Here
  PROVE  /\ F.vsp_base \in Nat /\ vsp \in Nat /\ Point.height \in Nat
         /\ F.vsp_base + Point.height = vsp
         /\ F.ctrl_base \in Nat /\ ctrl_depth \in Nat /\ Len(Point.nest) \in Nat
         /\ F.ctrl_base + Len(Point.nest) = ctrl_depth
  BY Moving, Pointed, Zenon

\* The operands left for the arguments.
Left == IF I.op = CALL THEN Point.height ELSE Point.height - 1

LEMMA CalleeAt ==
  ASSUME Here, I.op \in {CALL, CALL_INDIRECT}, callee \in Nat,
         I.op = CALL_INDIRECT => TypeIndex(M, callee) = I.val
  PROVE  LET t == FuncType(M, callee)
         IN  /\ t.params \in Nat /\ t.results \in Nat
             /\ Left \in Int /\ F.vsp_base + Left = Popped /\ Left >= t.params
             /\ Has(M, F.body, I.next, Point.nest, Left - t.params + t.results)
  <1> DEFINE t == FuncType(M, callee)
  <1>1. t.params \in Nat /\ t.results \in Nat
    <2>1. t \in [params : Nat, results : Nat]
      BY Moving, TypesOk, Zenon
    <2> QED
      BY <2>1
  <1>2. On(M, F.body, I.next, Point.nest, Left, t.params, t.results)
    <2>1. CASE I.op = CALL
      <3>1. callee = I.val /\ Left = Point.height
        BY <2>1, Zenon DEF callee, Left
      <3>2. On(M, F.body, I.next, Point.nest, Point.height, FuncType(M, I.val).params,
               FuncType(M, I.val).results)
        BY <2>1, Pointed, Zenon DEF AtPoint, PointOk, Point
      <3> QED
        BY <3>1, <3>2, Zenon
    <2>2. CASE I.op = CALL_INDIRECT
      <3>1. Left = Point.height - 1
        BY <2>2, Opcodes, Zenon DEF Left
      <3>2. /\ I.val < Len(M.types)
            /\ On(M, F.body, I.next, Point.nest, Point.height - 1, At(M.types, I.val).params,
                  At(M.types, I.val).results)
        BY <2>2, Pointed, Zenon DEF AtPoint, PointOk, Point
      <3>3. t = At(M.types, I.val)
        BY <2>2, <3>2, Zenon DEF FuncType
      <3> QED
        BY <3>1, <3>2, <3>3, Zenon
    <2> QED
      BY <2>1, <2>2
  <1>3. Left \in Int /\ F.vsp_base + Left = Popped
    BY Heights DEF Left, Popped
  <1> QED
    BY <1>1, <1>2, <1>3, Zenon DEF On

LEMMA CalleeKnown ==
  ASSUME CalleeTrap = ""
  PROVE  /\ I.op = CALL \/ TypeIndex(M, callee) = I.val
         /\ callee < import_count + Len(M.bodies)
  <1>1. /\ I.op = CALL \/ IndirectTrap = ""
        /\ Check(callee < import_count + Len(M.bodies), "FuncIndexOutOfRange") = ""
    BY OrSecond, Zenon DEF CalleeTrap
  <1>2. IndirectTrap = "" => TypeIndex(M, callee) = I.val
    <2> DEFINE room == StackTrap(1, 0)
               entry == Check(U32(arg(1)) \in 0 .. Len(M.table) - 1, "IndirectCallNull")
               null == Check(callee # NULL_FUNC, "IndirectCallNull")
               last == Check(TypeIndex(M, callee) = I.val, "IndirectCallTypeMismatch")
    <2>1. IndirectTrap = Or(room, Or(entry, Or(null, last)))
      BY Zenon DEF IndirectTrap
    <2>2. IndirectTrap = "" => last = ""
      <3> HIDE DEF room, entry, null, last
      <3> QED
        BY <2>1, Zenon DEF Or
    <2> QED
      BY <2>2, Zenon DEF Check
  <1> QED
    BY <1>1, <1>2, Zenon DEF Check

-----------------------------------------------------------------------------
(* The errors of a valid module.                                           *)

Honest(e) == e \in HonestTraps \cup {""}

LEMMA Reasons ==
  /\ "Unreachable" \in HonestTraps /\ "MemOutOfBounds" \in HonestTraps
  /\ "IndirectCallNull" \in HonestTraps /\ "IndirectCallTypeMismatch" \in HonestTraps
  /\ "UnknownOpcode" \in HonestTraps /\ "StackOverflow" \in HonestTraps
  /\ "CallStackOverflow" \in HonestTraps /\ "CtrlStackOverflow" \in HonestTraps
  /\ "TooManyLocals" \in HonestTraps
  /\ Honest("")
  BY DEF HonestTraps, Honest

LEMMA HonestTrap ==
  ASSUME Here
  PROVE  Honest(TrapOf)
  <1>HonestOr.
    ASSUME NEW a, NEW b, Honest(a), a = "" => Honest(b)
    PROVE  Honest(Or(a, b))
    BY <1>HonestOr, Zenon DEF Honest, Or
  <1>HonestCheck.
    ASSUME NEW p, NEW e, p \/ e \in HonestTraps
    PROVE  Honest(Check(p, e))
    BY <1>HonestCheck, Zenon DEF Honest, Check
  \* The operands an instruction needs are there.
  <1>HonestStack.
    ASSUME Here, NEW k \in Nat, NEW p \in Nat, k <= Point.height
    PROVE  Honest(StackTrap(k, p))
    <2> USE <1>HonestStack
    <2>1. k <= vsp
      BY Heights
    <2>2. StackTrap(k, p) \in {"", "StackOverflow"}
      BY <2>1, StackTrapOk, Zenon DEF Here
    <2> QED
      BY <2>2, Reasons, Zenon DEF Honest
  <1>HonestGoes.
    ASSUME Here, NEW k \in 0 .. 3, NEW q, Goes(k, q), NEW p \in 0 .. 1
    PROVE  Honest(StackTrap(k, p))
    <2> USE <1>HonestGoes
    <2>1. k \in Nat /\ p \in Nat /\ Point.height >= k
      BY DEF Goes, On
    <2>2. k <= Point.height
      BY <2>1, Heights
    <2> QED
      BY <2>1, <2>2, <1>HonestStack
  <1>HonestImm.
    ASSUME Here
    PROVE  ImmTrap = "" /\ Honest(ImmTrap)
    BY <1>HonestImm, InstrHere, Reasons, Zenon DEF ImmTrap, Check
  <1>HonestConst.
    ASSUME Here, I.op \in ConstOps
    PROVE  Honest(ConstTrap)
    <2> USE <1>HonestConst
    <2>1. Goes(0, 1)
      BY Pointed, PlainGoes
    <2>2. Honest(StackTrap(0, 1))
      BY <2>1, <1>HonestGoes
    <2> QED
      BY <2>2, <1>HonestImm, <1>HonestOr, Zenon DEF ConstTrap
  <1>HonestIndex.
    ASSUME Here, NEW size, NEW e, I.val < size
    PROVE  Honest(IndexTrap(size, e))
    BY <1>HonestIndex, <1>HonestImm, <1>HonestCheck, <1>HonestOr, Zenon DEF IndexTrap
  \* What validation asks of the immediates of an instruction.
  <1>ImmediateAt.
    ASSUME Here
    PROVE  /\ I.op \in {LOCAL_GET, LOCAL_SET, LOCAL_TEE} => I.val < Len(F.locals)
           /\ I.op \in {GLOBAL_GET, GLOBAL_SET} => I.val < Len(globals)
           /\ I.op = GLOBAL_SET => M.mutable[I.val + 1]
           /\ I.op = PREFIX => I.val \in 0 .. 11
    <2> USE <1>ImmediateAt
    <2>1. PlainOk(M, F.body, I, Point.nest, Point.height)
      BY Pointed, Zenon DEF AtPoint, PointOk, Point
    <2>2. Len(F.locals) = NLocals(M, F.body)
      BY Moving, SeqLen, Zenon DEF FrameOk
    <2>3. Len(globals) = Len(M.globals)
      BY SeqLen, Zenon DEF Here, StackInv
    <2> QED
      BY <2>1, <2>2, <2>3, Zenon DEF PlainOk
  <1>HonestLocal.
    ASSUME Here, I.op \in {LOCAL_GET, LOCAL_SET, LOCAL_TEE}
    PROVE  Honest(LocalTrap)
    <2> USE <1>HonestLocal
    <2> DEFINE index == IndexTrap(Len(F.locals), "LocalIndexOutOfRange")
               room == StackTrap(IF I.op = LOCAL_GET THEN 0 ELSE 1,
                                 IF I.op = LOCAL_SET THEN 0 ELSE 1)
    <2>1. Honest(index)
      BY <1>ImmediateAt, <1>HonestIndex
    <2>2. Honest(room)
      <3>1. CASE I.op = LOCAL_GET
        <4>1. Goes(0, 1) /\ room = StackTrap(0, 1)
          BY <3>1, Pointed, PlainGoes, Opcodes
        <4> HIDE DEF room
        <4> QED
          BY <4>1, <1>HonestGoes
      <3>2. CASE I.op = LOCAL_SET
        <4>1. Goes(1, 0) /\ room = StackTrap(1, 0)
          BY <3>2, Pointed, PlainGoes, Opcodes
        <4> HIDE DEF room
        <4> QED
          BY <4>1, <1>HonestGoes
      <3>3. CASE I.op = LOCAL_TEE
        <4>1. Goes(1, 1) /\ room = StackTrap(1, 1)
          BY <3>3, Pointed, PlainGoes, Opcodes
        <4> HIDE DEF room
        <4> QED
          BY <4>1, <1>HonestGoes
      <3> QED
        BY <3>1, <3>2, <3>3
    <2>3. LocalTrap = Or(index, room)
      BY Zenon DEF LocalTrap
    <2> HIDE DEF index, room
    <2> QED
      BY <2>1, <2>2, <2>3, <1>HonestOr, Zenon
  <1>HonestGlobal.
    ASSUME Here, I.op \in {GLOBAL_GET, GLOBAL_SET}
    PROVE  Honest(GlobalTrap)
    <2> USE <1>HonestGlobal
    <2> DEFINE index == IndexTrap(Len(globals), "GlobalIndexOutOfRange")
               mutable == Check(M.mutable[I.val + 1], "GlobalImmutable")
               rest == IF I.op = GLOBAL_GET THEN StackTrap(0, 1)
                       ELSE Or(mutable, StackTrap(1, 0))
    <2>1. Honest(index)
      BY <1>ImmediateAt, <1>HonestIndex
    <2>2. Honest(rest)
      <3>1. CASE I.op = GLOBAL_GET
        <4>1. Goes(0, 1) /\ rest = StackTrap(0, 1)
          BY <3>1, Pointed, PlainGoes, Opcodes
        <4> HIDE DEF rest
        <4> QED
          BY <4>1, <1>HonestGoes
      <3>2. CASE I.op = GLOBAL_SET
        <4>1. Goes(1, 0) /\ rest = Or(mutable, StackTrap(1, 0))
          BY <3>2, Pointed, PlainGoes, Opcodes
        <4>2. Honest(mutable)
          BY <3>2, <1>ImmediateAt, <1>HonestCheck, Zenon
        <4> HIDE DEF rest, mutable
        <4>3. Honest(StackTrap(1, 0))
          BY <4>1, <1>HonestGoes
        <4> QED
          BY <4>1, <4>2, <4>3, <1>HonestOr, Zenon
      <3> QED
        BY <3>1, <3>2
    <2>3. GlobalTrap = Or(index, rest)
      BY Zenon DEF GlobalTrap
    <2> HIDE DEF index, rest
    <2> QED
      BY <2>1, <2>2, <2>3, <1>HonestOr, Zenon
  \* An instruction that only moves operands.
  <1>HonestMoves.
    ASSUME Here
    PROVE  /\ I.op = DROP => Honest(StackTrap(1, 0))
           /\ I.op = SELECT => Honest(StackTrap(3, 1))
           /\ I.op = MEMORY_SIZE => Honest(StackTrap(0, 1))
           /\ I.op = MEMORY_GROW => Honest(StackTrap(1, 1))
           /\ I.op \in NumericOps => Honest(NumericTrap)
    <2> USE <1>HonestMoves
    <2>1. /\ I.op = DROP => Goes(1, 0)
          /\ I.op = SELECT => Goes(3, 1)
          /\ I.op = MEMORY_SIZE => Goes(0, 1)
          /\ I.op = MEMORY_GROW => Goes(1, 1)
          /\ I.op \in NumericOps => Goes(Operands(I.op), 1)
      BY Pointed, PlainGoes
    <2>2. Operands(I.op) \in 0 .. 3 /\ 0 \in 0 .. 1 /\ 1 \in 0 .. 1
      BY OperandsOk
    <2> QED
      BY <2>1, <2>2, Small, <1>HonestGoes, Zenon DEF NumericTrap
  <1>HonestAccess.
    ASSUME Here
    PROVE  /\ I.op \in LoadOps => Honest(AccessTrap(1))
           /\ I.op \in StoreOps => Honest(AccessTrap(2))
    <2> USE <1>HonestAccess
    <2> DEFINE bounds(k) == Check(U32(arg(k)) + I.val + Width <= active_mem, "MemOutOfBounds")
    <2>1. \A k : Honest(bounds(k))
      BY Reasons, <1>HonestCheck, Zenon
    <2>2. I.op \in LoadOps => Goes(1, 1)
      BY Pointed, PlainGoes
    <2>3. I.op \in StoreOps => Goes(2, 0)
      BY Pointed, PlainGoes
    <2>4. I.op \in LoadOps => Honest(StackTrap(1, 1))
      BY <2>2, <1>HonestGoes
    <2>5. I.op \in StoreOps => Honest(StackTrap(2, 0))
      BY <2>3, <1>HonestGoes
    <2>6. 2 - 1 = 1 /\ 2 - 2 = 0
      OBVIOUS
    <2>7. /\ AccessTrap(1) = Or(ImmTrap, Or(StackTrap(1, 1), bounds(1)))
          /\ AccessTrap(2) = Or(ImmTrap, Or(StackTrap(2, 0), bounds(2)))
      BY <2>6, Zenon DEF AccessTrap
    <2> HIDE DEF bounds
    <2> QED
      BY <2>1, <2>4, <2>5, <2>7, <1>HonestImm, <1>HonestOr, Zenon
  <1>HonestPrefix.
    ASSUME Here, I.op = PREFIX
    PROVE  Honest(PrefixTrap)
    <2> USE <1>HonestPrefix
    <2> DEFINE known == Check(I.val \in 0 .. 11, "UnknownOpcode")
               room == StackTrap(PrefixPops, IF I.val \in 0 .. 7 THEN 1 ELSE 0)
               empty == Check(I.val = 8 => arg(1) = 0, "UnknownOpcode")
               from == Check(I.val = 10 => InMemory(arg(2), arg(1)), "MemOutOfBounds")
               to == Check(I.val \in {10, 11} => InMemory(arg(3), arg(1)), "MemOutOfBounds")
    <2>1. Honest(known) /\ Honest(empty) /\ Honest(from) /\ Honest(to)
      BY Reasons, <1>HonestCheck, Zenon
    <2>2. Honest(room)
      <3>1. I.val \in 0 .. 11
        BY <1>ImmediateAt, Zenon
      <3>2. /\ I.val \in 0 .. 7 => Goes(1, 1)
            /\ I.val \in {8, 10, 11} => Goes(3, 0)
            /\ I.val = 9 => Goes(0, 0)
        BY Pointed, PlainGoes
      <3>3. CASE I.val \in 0 .. 7
        <4>1. Goes(1, 1) /\ room = StackTrap(1, 1)
          BY <3>2, <3>3 DEF PrefixPops
        <4> HIDE DEF room
        <4> QED
          BY <4>1, <1>HonestGoes
      <3>4. CASE I.val \in {8, 10, 11}
        <4>1. Goes(3, 0) /\ room = StackTrap(3, 0)
          BY <3>2, <3>4 DEF PrefixPops
        <4> HIDE DEF room
        <4> QED
          BY <4>1, <1>HonestGoes
      <3>5. CASE I.val = 9
        <4>1. Goes(0, 0) /\ room = StackTrap(0, 0)
          BY <3>2, <3>5 DEF PrefixPops
        <4> HIDE DEF room
        <4> QED
          BY <4>1, <1>HonestGoes
      <3> QED
        BY <3>1, <3>3, <3>4, <3>5
    <2>3. PrefixTrap = Or(ImmTrap, Or(known, Or(room, Or(empty, Or(from, to)))))
      BY Zenon DEF PrefixTrap
    <2> HIDE DEF known, room, empty, from, to
    <2>4. Honest(Or(empty, Or(from, to)))
      BY <2>1, <1>HonestOr, Zenon
    <2>5. Honest(Or(known, Or(room, Or(empty, Or(from, to)))))
      BY <2>1, <2>2, <2>4, <1>HonestOr, Zenon
    <2> QED
      BY <2>3, <2>5, <1>HonestImm, <1>HonestOr, Zenon
  <1>HonestBlock.
    ASSUME Here, I.op \in BlockOps
    PROVE  Honest(BlockTrap)
    <2> USE <1>HonestBlock
    <2>1. /\ I.jump.end_pc >= 0
          /\ I.op = IF_OP => Point.height >= 1
      BY BlockAt, Zenon DEF BlockOps
    <2>2. I.jump # NoEnd
      BY <2>1 DEF NoEnd
    <2> DEFINE found == Check(I.jump # NoEnd, "MalformedCode")
               cond == IF Taken \/ I.jump.else_pc # NO_ELSE THEN CtrlTrap ELSE ""
               rest == IF I.op = IF_OP THEN Or(StackTrap(1, 0), cond) ELSE CtrlTrap
    <2>3. Honest(found) /\ Honest(CtrlTrap)
      BY <2>2, Reasons, <1>HonestCheck, Zenon DEF CtrlTrap
    <2>4. Honest(cond)
      BY <2>3, Reasons, Zenon
    <2>5. I.op = IF_OP => Honest(StackTrap(1, 0))
      <3>1. I.op = IF_OP => 1 <= Point.height
        BY <2>1, Heights
      <3>2. 1 \in Nat /\ 0 \in Nat
        OBVIOUS
      <3> QED
        BY <3>1, <3>2, <1>HonestStack, Zenon
    <2>6. Honest(rest)
      <3> HIDE DEF cond
      <3> QED
        BY <2>3, <2>4, <2>5, <1>HonestOr, Zenon
    <2>7. BlockTrap = Or(found, rest)
      BY Zenon DEF BlockTrap
    <2> HIDE DEF found, rest
    <2> QED
      BY <2>3, <2>6, <2>7, <1>HonestOr, Zenon
  <1>HonestBranch.
    ASSUME Here
    PROVE  /\ I.op \in {BR, BR_IF} => Honest(BrTrap)
           /\ I.op = BR_TABLE => Honest(BrTableTrap)
    <2> USE <1>HonestBranch
    <2>1. /\ I.op \in {BR_IF, BR_TABLE} => Point.height >= 1
          /\ I.op = BR_TABLE => Len(I.labels) = I.val + 1
      BY Pointed, Zenon DEF AtPoint, PointOk, Point
    <2>2. I.op \in {BR_IF, BR_TABLE} => Honest(StackTrap(1, 0))
      <3>1. I.op \in {BR_IF, BR_TABLE} => 1 <= Point.height
        BY <2>1, Heights
      <3>2. 1 \in Nat /\ 0 \in Nat
        OBVIOUS
      <3> QED
        BY <3>1, <3>2, <1>HonestStack, Zenon
    <2>3. I.op \in {BR, BR_IF} => Honest(BrTrap)
      <3> DEFINE rest == IF I.op = BR_IF THEN StackTrap(1, 0) ELSE ""
      <3>1. Honest(rest)
        BY <2>2, Reasons, Zenon
      <3>2. BrTrap = Or(ImmTrap, rest)
        BY Zenon DEF BrTrap
      <3> HIDE DEF rest
      <3> QED
        BY <3>1, <3>2, <1>HonestImm, <1>HonestOr, Zenon
    <2>4. ASSUME I.op = BR_TABLE
          PROVE  Honest(BrTableTrap)
      <3>1. I.labels # <<>>
        <4>1. I.val \in Nat
          BY <2>4, Pointed, ImmNat DEF Here
        <4> QED
          BY <2>1, <2>4, <4>1
      <3> DEFINE some == Check(I.labels # <<>>, "MalformedCode")
      <3>2. Honest(some)
        BY <3>1, <1>HonestCheck, Zenon
      <3>3. BrTableTrap = Or(ImmTrap, Or(StackTrap(1, 0), some))
        BY Zenon DEF BrTableTrap
      <3> HIDE DEF some
      <3> QED
        BY <2>2, <2>4, <3>2, <3>3, <1>HonestImm, <1>HonestOr, Zenon
    <2> QED
      BY <2>3, <2>4
  <1>HonestCall.
    ASSUME Here, I.op \in {CALL, CALL_INDIRECT}
    PROVE  Honest(CallTrap)
    <2> USE <1>HonestCall
    \* The function called exists, and its parameters are there.
    <2>CalleeExists.
      ASSUME Here, I.op \in {CALL, CALL_INDIRECT}
      PROVE  I.op = CALL \/ IndirectTrap = "" =>
               callee \in Nat /\ callee < import_count + Len(M.bodies)
      <3> USE <2>CalleeExists
      <3>1. CASE I.op = CALL
        <4>1. callee = I.val
          BY <3>1, Zenon DEF callee
        <4>2. I.val < Len(M.hosts) + Len(M.bodies)
          BY <3>1, Pointed, Zenon DEF AtPoint, PointOk
        <4>3. I.val \in Nat
          BY <3>1, Pointed, ImmNat DEF Here
        <4> QED
          BY <4>1, <4>2, <4>3, Zenon DEF import_count
      <3>2. CASE I.op # CALL
        <4> DEFINE k == U32(arg(1))
        <4>1. IndirectTrap = "" =>
                callee \in Nat /\ k \in 0 .. Len(M.table) - 1 /\ callee = At(M.table, k)
          BY <3>2, Moving, IndirectFacts, Zenon DEF Here
        <4> HIDE DEF k
        <4>2. ASSUME k \in 0 .. Len(M.table) - 1
              PROVE  At(M.table, k) < import_count + Len(M.bodies)
          <5>1. M.table \in Seq(Nat \cup {NULL_FUNC})
            BY Moving, ModuleAssumption, Zenon
          <5>2. k + 1 \in DOMAIN M.table
            BY <4>2, <5>1
          <5>3. M.table[k + 1] < Len(M.hosts) + Len(M.bodies)
            BY <5>2, Moving, CertificateAssumption, Zenon
          <5> QED
            BY <5>3, Zenon DEF At, import_count
        <4> QED
          BY <3>2, <4>1, <4>2, Zenon
      <3> QED
        BY <3>1, <3>2, Zenon
    <2>HonestCallee.
      ASSUME Here, I.op \in {CALL, CALL_INDIRECT}
      PROVE  Honest(CalleeTrap)
      <3> USE <2>HonestCallee
      <3> DEFINE room == StackTrap(1, 0)
                 entry == Check(U32(arg(1)) \in 0 .. Len(M.table) - 1, "IndirectCallNull")
                 null == Check(callee # NULL_FUNC, "IndirectCallNull")
                 last == Check(TypeIndex(M, callee) = I.val, "IndirectCallTypeMismatch")
                 indirect == IF I.op = CALL THEN "" ELSE IndirectTrap
                 known == Check(callee < import_count + Len(M.bodies), "FuncIndexOutOfRange")
      <3>1. Honest(entry) /\ Honest(null) /\ Honest(last)
        BY Reasons, <1>HonestCheck, Zenon
      <3>2. I.op # CALL => Honest(room)
        <4>1. I.op # CALL => Point.height >= 1
          BY Pointed, Zenon DEF AtPoint, PointOk, Point
        <4>2. I.op # CALL => 1 <= Point.height
          BY <4>1, Heights
        <4>3. 1 \in Nat /\ 0 \in Nat
          OBVIOUS
        <4> QED
          BY <4>2, <4>3, <1>HonestStack, Zenon
      <3>3. I.op # CALL => Honest(IndirectTrap)
        <4>1. IndirectTrap = Or(room, Or(entry, Or(null, last)))
          BY DEF IndirectTrap
        <4> HIDE DEF room, entry, null, last
        <4>2. Honest(Or(entry, Or(null, last)))
          BY <3>1, <1>HonestOr, Zenon
        <4> QED
          BY <3>2, <4>1, <4>2, <1>HonestOr, Zenon
      <3>4. Honest(indirect)
        BY <3>3, Reasons, Zenon
      <3>5. indirect = "" => Honest(known)
        <4>1. indirect = "" => callee < import_count + Len(M.bodies)
          BY <2>CalleeExists, Zenon
        <4> QED
          BY <4>1, <1>HonestCheck, Zenon
      <3>6. CalleeTrap = Or(ImmTrap, Or(indirect, known))
        BY Zenon DEF CalleeTrap
      <3> HIDE DEF indirect, known
      <3> QED
        BY <3>4, <3>5, <3>6, <1>HonestImm, <1>HonestOr, Zenon
    <2>ParamsThere.
      ASSUME Here, I.op \in {CALL, CALL_INDIRECT}
      PROVE  CalleeTrap = "" =>
               LET b == callee - import_count
               IN  /\ callee < import_count => ~(Popped < Host.pops)
                   /\ ~(callee < import_count) => Popped >= NParams(b)
      <3> USE <2>ParamsThere
      <3> DEFINE t == FuncType(M, callee)
                 b == callee - import_count
                 sound == callee \in Nat /\ (I.op = CALL_INDIRECT => TypeIndex(M, callee) = I.val)
      <3>1. CalleeTrap = "" => sound
        <4>1. CalleeTrap = "" => (I.op = CALL \/ TypeIndex(M, callee) = I.val)
          BY CalleeKnown, Zenon
        <4>2. CalleeTrap = "" => (I.op = CALL \/ IndirectTrap = "")
          BY OrSecond, Zenon DEF CalleeTrap
        <4> QED
          BY <4>1, <4>2, <2>CalleeExists, Opcodes, Zenon
      <3>2. ASSUME sound
            PROVE  /\ callee < import_count => ~(Popped < Host.pops)
                   /\ ~(callee < import_count) => Popped >= NParams(b)
        <4>1. /\ t.params \in Nat /\ Left \in Int /\ F.vsp_base + Left = Popped
              /\ Left >= t.params
          BY <3>2, CalleeAt, Zenon
        <4>2. Popped \in Int /\ Popped >= t.params
          <5> HIDE DEF t
          <5> QED
            BY <4>1, Moving
        <4>3. import_count \in Nat
          BY Moving, ModuleAssumption DEF import_count
        <4>4. callee < import_count => ~(Popped < Host.pops)
          <5>1. callee < import_count => callee \in 0 .. Len(M.hosts) - 1
            BY <3>2, <4>3 DEF import_count
          <5>2. callee < import_count => Host.pops = t.params
            BY <5>1, Moving, CertificateAssumption, Zenon DEF HostOk, Host
          <5>3. ~(Popped < t.params)
            BY <4>1, <4>2
          <5> QED
            BY <5>2, <5>3, Zenon
        <4>5. NParams(b) = t.params
          <5>1. import_count + b = callee
            BY <3>2, <4>3
          <5> QED
            BY <5>1, Zenon DEF NParams
        <4> QED
          BY <4>2, <4>4, <4>5, Zenon
      <3> QED
        BY <3>1, <3>2, Zenon
    <2> DEFINE b == callee - import_count
               host == IF Popped < Host.pops THEN "StackUnderflow"
                       ELSE Check(Popped - Host.pops + Host.pushes <= STACK_DEPTH, "StackOverflow")
               jit == Check(vsp >= NParams(b), "StackUnderflow")
               depth == Check(fi < CALL_DEPTH, "CallStackOverflow")
               locals == Check(NParams(b) + At(M.locals, b) <= MAX_LOCALS, "TooManyLocals")
               params == Check(Popped >= NParams(b), "StackUnderflow")
               rest == IF callee < import_count THEN host
                       ELSE IF I.op = CALL /\ b \in jit_fns THEN jit
                       ELSE FrameTrap(b, Popped)
    <2>1. Honest(depth) /\ Honest(locals)
      BY Reasons, <1>HonestCheck, Zenon
    <2>2. ASSUME CalleeTrap = "", callee < import_count
          PROVE  Honest(host)
      BY <2>2, <2>ParamsThere, Reasons, <1>HonestCheck, Zenon
    <2>3. ASSUME CalleeTrap = "", ~(callee < import_count)
          PROVE  Honest(params) /\ (I.op = CALL => Honest(jit))
      <3>1. Popped >= NParams(b)
        BY <2>3, <2>ParamsThere, Zenon
      <3>2. I.op = CALL => vsp >= NParams(b)
        BY <3>1, Zenon DEF Popped
      <3> QED
        BY <3>1, <3>2, <1>HonestCheck, Zenon
    <2>4. ASSUME Honest(params)
          PROVE  Honest(FrameTrap(b, Popped))
      <3>1. FrameTrap(b, Popped) = Or(depth, Or(locals, params))
        BY Zenon DEF FrameTrap
      <3> HIDE DEF depth, locals, params
      <3> QED
        BY <2>1, <2>4, <3>1, <1>HonestOr, Zenon
    <2>5. CalleeTrap = "" => Honest(rest)
      <3> HIDE DEF host, jit, params
      <3> QED
        BY <2>2, <2>3, <2>4, Zenon
    <2>6. CallTrap = Or(CalleeTrap, rest)
      BY Zenon DEF CallTrap
    <2> HIDE DEF rest
    <2> QED
      BY <2>5, <2>6, <2>HonestCallee, <1>HonestOr, Zenon
  <1> DEFINE g1 == I.op = UNREACHABLE
             g2 == I.op \in ConstOps
             g3 == I.op \in {LOCAL_GET, LOCAL_SET, LOCAL_TEE}
             g4 == I.op \in {GLOBAL_GET, GLOBAL_SET}
             g5 == I.op = DROP
             g6 == I.op = SELECT
             g7 == I.op \in NumericOps
             g8 == I.op \in LoadOps
             g9 == I.op \in StoreOps
             g10 == I.op = MEMORY_SIZE
             g11 == I.op = MEMORY_GROW
             g12 == I.op = PREFIX
             g13 == I.op \in BlockOps
             g14 == I.op \in {BR, BR_IF}
             g15 == I.op = BR_TABLE
             g16 == I.op \in {CALL, CALL_INDIRECT}
             g17 == I.op \in NOP_OPS \cup {ELSE_OP, END_OP, RETURN}
             unreachable == "Unreachable"
             unknown == "UnknownOpcode"
             none == ""
  <1>1. Honest(unreachable) /\ Honest(unknown) /\ Honest(none)
    BY Reasons, Zenon DEF Honest
  <1>2. /\ g2 => Honest(ConstTrap)
        /\ g3 => Honest(LocalTrap)
        /\ g4 => Honest(GlobalTrap)
    BY <1>HonestConst, <1>HonestLocal, <1>HonestGlobal, Zenon
  <1>3. /\ g5 => Honest(StackTrap(1, 0))
        /\ g6 => Honest(StackTrap(3, 1))
        /\ g7 => Honest(NumericTrap)
        /\ g10 => Honest(StackTrap(0, 1))
        /\ g11 => Honest(StackTrap(1, 1))
    BY <1>HonestMoves, Zenon
  <1>4. /\ g8 => Honest(AccessTrap(1))
        /\ g9 => Honest(AccessTrap(2))
        /\ g12 => Honest(PrefixTrap)
    BY <1>HonestAccess, <1>HonestPrefix, Zenon
  <1>5. /\ g13 => Honest(BlockTrap)
        /\ g14 => Honest(BrTrap)
        /\ g15 => Honest(BrTableTrap)
        /\ g16 => Honest(CallTrap)
    BY <1>HonestBlock, <1>HonestBranch, <1>HonestCall, Zenon
  <1>6. TrapOf =
          CASE g1 -> unreachable [] g2 -> ConstTrap [] g3 -> LocalTrap [] g4 -> GlobalTrap
            [] g5 -> StackTrap(1, 0) [] g6 -> StackTrap(3, 1) [] g7 -> NumericTrap
            [] g8 -> AccessTrap(1) [] g9 -> AccessTrap(2) [] g10 -> StackTrap(0, 1)
            [] g11 -> StackTrap(1, 1) [] g12 -> PrefixTrap [] g13 -> BlockTrap
            [] g14 -> BrTrap [] g15 -> BrTableTrap [] g16 -> CallTrap [] g17 -> none
            [] OTHER -> unknown
    BY DEF TrapOf
  <1> HIDE DEF g1, g2, g3, g4, g5, g6, g7, g8, g9, g10, g11, g12, g13, g14, g15, g16, g17,
               unreachable, unknown, none
  <1> QED
    BY <1>1, <1>2, <1>3, <1>4, <1>5, <1>6, SMT

LEMMA NeverHangs ==
  ASSUME Here
  PROVE  ~LookupHangs
  <1>1. ASSUME LookupHangs
        PROVE  FALSE
    <2>1. I.op \in BlockOps /\ I.jump = Endless
      BY <1>1, Zenon DEF LookupHangs, Fetch
    <2>2. I.jump.end_pc >= 0
      BY <2>1, BlockAt, Zenon DEF BlockOps
    <2> QED
      BY <2>1, <2>2 DEF Endless
  <1> QED
    BY <1>1

-----------------------------------------------------------------------------
(* What the JIT accepts.                                                   *)

\* One round of the pass over c that is at position i, where f tells how the rest goes.
JitRound(c, f, i) ==
  \/ i \notin DOMAIN c
  \/ c[i].op \in JitImm /\ c[i].ok /\ f[c[i].next]
  \/ c[i].op \in JitArith \cup {DROP, NOP} /\ f[c[i].next]
  \/ c[i].op = RETURN
  \/ c[i].op = END_OP /\ i + 1 \notin DOMAIN c

LEMMA RoundGrows ==
  ASSUME NEW c, NEW f, NEW g, NEW i, JitRound(c, f, i),
         i \in DOMAIN c => (f[c[i].next] => g[c[i].next])
  PROVE  JitRound(c, g, i)
  BY Zenon DEF JitRound

\* The recursion of compiles has a solution: the positions in some set that is
\* closed under the pass.
LEMMA RoundsExist ==
  ASSUME NEW c, \A i \in DOMAIN c : c[i].ok \in BOOLEAN /\ c[i].next \in Nat
  PROVE  \E f : f = [i \in Nat |-> JitRound(c, f, i)]
  <1> DEFINE closed(S) == \A k \in S : JitRound(c, [j \in Nat |-> j \in S], k)
             good(i) == \E S \in SUBSET Nat : i \in S /\ closed(S)
             g == [i \in Nat |-> good(i)]
  <1>1. ASSUME NEW i \in Nat
        PROVE  good(i) <=> JitRound(c, g, i)
    <2>1. ASSUME good(i)
          PROVE  JitRound(c, g, i)
      <3>1. PICK S \in SUBSET Nat : i \in S /\ closed(S)
        BY <2>1
      <3>2. \A j \in Nat : j \in S => g[j] = TRUE
        BY <3>1
      <3> HIDE DEF g
      <3> DEFINE f == [j \in Nat |-> j \in S]
      <3>3. JitRound(c, f, i)
        BY <3>1
      <3>4. \A j \in Nat : f[j] => g[j]
        BY <3>2, Zenon
      <3> HIDE DEF f
      <3> QED
        BY <3>3, <3>4, RoundGrows
    <2>2. ASSUME JitRound(c, g, i)
          PROVE  good(i)
      <3>1. CASE i \in DOMAIN c /\ g[c[i].next]
        <4> DEFINE next == c[i].next
        <4>1. next \in Nat /\ g[next]
          BY <3>1
        <4>2. PICK S \in SUBSET Nat : next \in S /\ closed(S)
          BY <4>1
        <4> DEFINE T == S \cup {i}
        <4>3. T \in SUBSET Nat /\ i \in T
          OBVIOUS
        <4>4. ASSUME NEW k \in S
              PROVE  JitRound(c, [j \in Nat |-> j \in T], k)
          <5>1. JitRound(c, [j \in Nat |-> j \in S], k)
            BY <4>2
          <5> QED
            BY <5>1 DEF JitRound
        <4>5. JitRound(c, [j \in Nat |-> j \in T], i)
          <5> HIDE DEF g
          <5> QED
            BY <2>2, <3>1, <4>1, <4>2, Zenon DEF JitRound
        <4> HIDE DEF g
        <4> QED
          BY <4>3, <4>4, <4>5, Zenon
      <3>2. CASE ~(i \in DOMAIN c /\ g[c[i].next])
        <4> DEFINE T == {i}
        <4>1. JitRound(c, [j \in Nat |-> j \in T], i)
          <5> HIDE DEF g
          <5> QED
            BY <2>2, <3>2 DEF JitRound
        <4>2. \A k \in T : JitRound(c, [j \in Nat |-> j \in T], k)
          BY <4>1
        <4>3. T \in SUBSET Nat /\ i \in T
          OBVIOUS
        <4> QED
          BY <4>2, <4>3, Zenon
      <3> QED
        BY <3>1, <3>2
    <2> QED
      BY <2>1, <2>2
  <1>2. \A i \in Nat : JitRound(c, g, i) \in BOOLEAN /\ good(i) \in BOOLEAN
    <2>1. \A i \in Nat : g[i] \in BOOLEAN
      OBVIOUS
    <2> HIDE DEF g
    <2> QED
      BY <2>1 DEF JitRound
  <1>3. g = [i \in Nat |-> JitRound(c, g, i)]
    <2>1. \A i \in Nat : g[i] = JitRound(c, g, i)
      <3>1. \A i \in Nat : g[i] = good(i)
        OBVIOUS
      <3> HIDE DEF g, good
      <3> QED
        BY <1>1, <1>2, <3>1
    <2>2. DOMAIN g = Nat /\ g = [i \in Nat |-> g[i]]
      OBVIOUS
    <2> HIDE DEF g
    <2> QED
      BY <2>1, <2>2
  <1> QED
    BY <1>3, Zenon

LEMMA CompileRounds ==
  ASSUME NEW c, \A i \in DOMAIN c : c[i].ok \in BOOLEAN /\ c[i].next \in Nat, NEW i \in Nat
  PROVE  compiles(c)[i] = JitRound(c, compiles(c), i)
  <1>1. compiles(c) = CHOOSE f : f = [k \in Nat |-> JitRound(c, f, k)]
    BY Zenon DEF compiles, JitRound
  <1>2. compiles(c) = [k \in Nat |-> JitRound(c, compiles(c), k)]
    BY <1>1, RoundsExist, Zenon
  <1> QED
    BY <1>2

JitOps == JitImm \cup JitArith \cup {DROP, NOP}

\* The shadow run meets only what the JIT compiles, and goes on where it does.
LEMMA InJit ==
  ASSUME Here, shadow.on
  PROVE  /\ (I.op \in JitOps /\ compiles(body)[I.next]) \/ I.op \in {RETURN, END_OP}
         /\ F.ctrl_base = ctrl_depth /\ F.vsp_base = shadow.saved_vsp
         /\ F.result_count = shadow.n_results /\ shadow.n_results \in 0 .. 1
         /\ fi = stop + 1 /\ shadow.saved_stop = 0 /\ stop \in 1 .. fi
  <1>1. /\ shadow.saved_stop = 0 /\ stop \in 1 .. fi /\ fi \in {stop, stop + 1}
        /\ shadow.n_results \in 0 .. 1 /\ F.ctrl_base = ctrl_depth
        /\ F.vsp_base = shadow.saved_vsp /\ F.result_count = shadow.n_results
        /\ compiles(body)[F.pc]
    BY Moving, Zenon DEF Here, ShadowInv, body
  <1>2. fi = stop + 1
    BY <1>1, Moving
  <1>3. JitRound(body, compiles(body), F.pc)
    <2>1. compiles(body)[F.pc] = JitRound(body, compiles(body), F.pc)
      BY InstrHere, CompileRounds
    <2> QED
      BY <1>1, <2>1
  <1>4. (I.op \in JitOps /\ compiles(body)[I.next]) \/ I.op \in {RETURN, END_OP}
    BY <1>3, Pointed, Zenon DEF JitRound, JitOps, I
  <1> QED
    BY <1>1, <1>2, <1>4

-----------------------------------------------------------------------------
(* Chains of frames.                                                       *)

\* Kept: what is below the base of the innermost frame does not change.
Kept ==
  /\ \A j \in 1 .. fi - 1 : frames'[j] = frames[j]
  /\ \A a \in 0 .. F.vsp_base - 1 : vstack'[a] = vstack[a]

Safe == ShadowInv' /\ MapInv' /\ StopsHonestly' /\ Kept

LEMMA MappedAgree ==
  ASSUME NEW mod \in Modules, Certified(mod), NEW f, f.body \in Bodies(mod),
         f.ctrl_base \in Nat, NEW c, NEW d, NEW ctop, NEW vtop, Mapped(mod, c, f, ctop, vtop),
         \A a \in Nat : a < ctop => d[a] = c[a]
  PROVE  Mapped(mod, d, f, ctop, vtop)
  <1> DEFINE p == mod.map[f.body][f.pc]
  <1>1. f.pc \in DOMAIN mod.map[f.body]
    BY Zenon DEF Mapped
  <1>2. Len(p.nest) \in Nat
    BY <1>1, Certificate, Zenon
  <1>3. /\ f.ctrl_base + Len(p.nest) = ctop
        /\ \A k \in 1 .. Len(p.nest) : c[f.ctrl_base + k - 1] = p.nest[k]
    BY Zenon DEF Mapped
  <1>4. \A k \in 1 .. Len(p.nest) : d[f.ctrl_base + k - 1] = p.nest[k]
    <2> HIDE DEF p
    <2> TAKE k \in 1 .. Len(p.nest)
    <2>1. f.ctrl_base + k - 1 \in Nat /\ f.ctrl_base + k - 1 < ctop
      BY <1>2, <1>3
    <2> QED
      BY <1>3, <2>1
  <1> QED
    BY <1>4, Zenon DEF Mapped

\* Frames that are the same up to k.
LEMMA ChainPart ==
  ASSUME Here, NEW k \in 1 .. fi, NEW fr, \A j \in 1 .. k : j # k => fr[j] = frames[j],
         fr[k].ctrl_base = frames[k].ctrl_base, fr[k].vsp_base = frames[k].vsp_base,
         fr[k].result_count = frames[k].result_count,
         NEW c, \A a \in Nat : a < frames[k].ctrl_base => c[a] = ctrl[a],
         NEW ctop, NEW vtop, Mapped(M, c, fr[k], ctop, vtop)
  PROVE  Chain(M, c, fr, k, ctop, vtop)
  <1>0. Chain(M, ctrl, frames, fi, ctrl_depth, Top)
    BY Moving, Zenon DEF Here, MapInv
  <1>1. \A j \in 1 .. k : /\ fr[j].ctrl_base = frames[j].ctrl_base
                         /\ fr[j].vsp_base = frames[j].vsp_base
                         /\ fr[j].result_count = frames[j].result_count
    BY Zenon
  <1>2. \A m \in 1 .. k : \A j \in 1 .. m : fr[j].ctrl_base <= fr[m].ctrl_base
    <2> TAKE m \in 1 .. k
    <2> TAKE j \in 1 .. m
    <2>1. j \in 1 .. k /\ m \in 1 .. fi /\ j \in 1 .. fi
      BY Moving
    <2> QED
      BY <1>0, <1>1, <2>1, Zenon DEF Chain
  <1>3. ASSUME NEW j \in 1 .. k, j # k
        PROVE  Mapped(M, c, fr[j], fr[j + 1].ctrl_base,
                      fr[j + 1].vsp_base + fr[j + 1].result_count)
    <2>1. j \in 1 .. fi /\ j # fi /\ j + 1 \in 1 .. k /\ j + 1 \in 1 .. fi
      BY <1>3, Moving
    <2>2. Mapped(M, ctrl, frames[j], frames[j + 1].ctrl_base,
                 frames[j + 1].vsp_base + frames[j + 1].result_count)
      BY <1>0, <2>1, Zenon DEF Chain
    <2>3. FrameOk(M, frames[j]) /\ FrameOk(M, frames[j + 1]) /\ FrameOk(M, frames[k])
      BY <2>1, FramesNow, Zenon DEF Here
    <2>4. /\ frames[j].body \in Bodies(M) /\ frames[j].ctrl_base \in Nat
          /\ frames[j + 1].ctrl_base \in Nat /\ frames[k].ctrl_base \in Nat
      BY <2>3, LimitsAssumption DEF FrameOk
    <2>5. frames[j + 1].ctrl_base <= frames[k].ctrl_base
      BY <1>0, <2>1, Zenon DEF Chain
    <2>6. \A a \in Nat : a < frames[j + 1].ctrl_base => c[a] = ctrl[a]
      BY <2>4, <2>5
    <2>7. Mapped(M, c, frames[j], frames[j + 1].ctrl_base,
                 frames[j + 1].vsp_base + frames[j + 1].result_count)
      BY <2>2, <2>4, <2>6, Moving, MappedAgree, Zenon
    <2> QED
      BY <1>1, <1>3, <2>1, <2>7, Zenon
  <1> QED
    BY <1>2, <1>3, Zenon DEF Chain

\* The whole of MapInv after a step of a valid module.
LEMMA MapNext ==
  ASSUME M' = M, NEW n, fi' = n, NEW vtop, Top' = vtop,
         Chain(M, ctrl', frames', n, ctrl_depth', vtop),
         shadow'.on => frames'[stop'].vsp_base <= shadow'.saved_vsp
  PROVE  MapInv'
  BY Zenon DEF MapInv, Chain, Mapped

\* f is where Has says.
LEMMA HasMapped ==
  ASSUME NEW mod, NEW f, NEW pc, NEW nest, NEW h, NEW c, NEW ctop, NEW vtop,
         Has(mod, f.body, pc, nest, h), f.pc = pc,
         f.result_count = FuncType(mod, Len(mod.hosts) + f.body).results,
         f.ctrl_base + Len(nest) = ctop, f.vsp_base + h = vtop,
         \A d \in 1 .. Len(nest) : c[f.ctrl_base + d - 1] = nest[d]
  PROVE  Mapped(mod, c, f, ctop, vtop)
  <1>1. /\ f.pc \in DOMAIN mod.map[f.body]
        /\ mod.map[f.body][f.pc].nest = nest /\ mod.map[f.body][f.pc].height = h
    BY DEF Has
  <1> QED
    BY <1>1, Zenon DEF Mapped

LEMMA FiNext ==
  ASSUME NEW n, IsSeqOf(frames', n)
  PROVE  fi' = n /\ F' = frames'[n]
  BY SeqLen, Zenon DEF fi, F

\* A step within the innermost frame.
LEMMA Stay ==
  ASSUME Here, NEW pc, InFrame(frames', pc), M' = M, stop' = stop, shadow' = shadow,
         status' \in {"running", "yielded", "exited"},
         \A a \in Nat : a < F.ctrl_base => ctrl'[a] = ctrl[a],
         Mapped(M, ctrl', frames'[fi], ctrl_depth', vsp'),
         \A a \in 0 .. F.vsp_base - 1 : vstack'[a] = vstack[a],
         shadow.on => ctrl_depth' = ctrl_depth /\ compiles(body)[pc]
  PROVE  Safe
  <1>1. fi' = fi /\ F' = frames'[fi]
    <2>1. IsSeqOf(frames', fi)
      BY DEF InFrame
    <2> QED
      BY <2>1, FiNext, Zenon
  <1>2. /\ F'.body = F.body /\ F'.pc = pc /\ F'.ctrl_base = F.ctrl_base
        /\ F'.vsp_base = F.vsp_base /\ F'.result_count = F.result_count
    BY <1>1, Zenon DEF InFrame
  <1>3. Kept
    <2>1. \A j \in 1 .. fi - 1 : j \in 1 .. fi /\ j # fi
      BY Moving
    <2> QED
      BY <2>1, Zenon DEF Kept, InFrame
  <1>4. Chain(M, ctrl', frames', fi, ctrl_depth', vsp')
    <2>1. fi \in 1 .. fi
      BY Moving
    <2> QED
      BY <2>1, ChainPart, Zenon DEF InFrame, F
  <1>5. Top' = vsp'
    BY <1>1, Moving, Zenon DEF Top, InShadow
  <1>6. shadow'.on => frames'[stop'].vsp_base <= shadow'.saved_vsp
    <2> SUFFICES ASSUME shadow.on
                 PROVE  frames'[stop].vsp_base <= shadow.saved_vsp
      OBVIOUS
    <2>1. stop \in 1 .. fi /\ fi = stop + 1
      BY InJit
    <2>2. stop # fi /\ stop \in 1 .. fi
      BY <2>1, Moving
    <2>3. frames'[stop] = frames[stop] /\ frames[stop].vsp_base <= shadow.saved_vsp
      BY <2>2, Moving, Zenon DEF InFrame, Here, MapInv
    <2> QED
      BY <2>3
  <1>7. MapInv'
    BY <1>1, <1>4, <1>5, <1>6, MapNext, Zenon
  <1>8. ShadowInv'
    <2>1. shadow.on => compiles(M.code[F'.body])[F'.pc]
      BY <1>2, Zenon DEF body
    <2> QED
      BY <1>1, <1>2, <2>1, Moving, Zenon DEF ShadowInv, Here
  <1>9. StopsHonestly'
    BY Zenon DEF StopsHonestly, Over
  <1> QED
    BY <1>3, <1>7, <1>8, <1>9 DEF Safe

\* The new position of the innermost frame is the one that Has names.
LEMMA InFrameMapped ==
  ASSUME Here, NEW fr, NEW pc, InFrame(fr, pc), NEW nest, NEW h, Has(M, F.body, pc, nest, h),
         NEW c, NEW ctop, NEW vtop, F.ctrl_base + Len(nest) = ctop, F.vsp_base + h = vtop,
         \A d \in 1 .. Len(nest) : c[F.ctrl_base + d - 1] = nest[d]
  PROVE  Mapped(M, c, fr[fi], ctop, vtop)
  <1>1. /\ fr[fi].body = F.body /\ fr[fi].pc = pc /\ fr[fi].ctrl_base = F.ctrl_base
        /\ fr[fi].vsp_base = F.vsp_base /\ fr[fi].result_count = F.result_count
    BY Zenon DEF InFrame
  <1>2. F.result_count = FuncType(M, Len(M.hosts) + F.body).results
    BY Pointed
  <1> DEFINE f == fr[fi]
  <1>3. /\ Has(M, f.body, pc, nest, h) /\ f.pc = pc
        /\ f.result_count = FuncType(M, Len(M.hosts) + f.body).results
        /\ f.ctrl_base + Len(nest) = ctop /\ f.vsp_base + h = vtop
        /\ \A d \in 1 .. Len(nest) : c[f.ctrl_base + d - 1] = nest[d]
    BY <1>1, <1>2, Zenon
  <1> HIDE DEF f
  <1>4. Mapped(M, c, f, ctop, vtop)
    BY <1>3, HasMapped, Zenon
  <1> QED
    BY <1>4 DEF f

\* A step moves the innermost frame to pc, in blocks nest and with h operands.
Stays(pc, nest, h) ==
  /\ InFrame(frames', pc) /\ M' = M /\ stop' = stop /\ shadow' = shadow
  /\ status' \in {"running", "yielded", "exited"}
  /\ \A a \in Nat : a < F.ctrl_base => ctrl'[a] = ctrl[a]
  /\ Has(M, F.body, pc, nest, h)
  /\ F.ctrl_base + Len(nest) = ctrl_depth' /\ F.vsp_base + h = vsp'
  /\ \A d \in 1 .. Len(nest) : ctrl'[F.ctrl_base + d - 1] = nest[d]
  /\ \A a \in 0 .. F.vsp_base - 1 : vstack'[a] = vstack[a]
  /\ shadow.on => ctrl_depth' = ctrl_depth /\ compiles(body)[pc]

LEMMA StayAt ==
  ASSUME Here, NEW pc, NEW nest, NEW h, Stays(pc, nest, h)
  PROVE  Safe
  <1>1. Mapped(M, ctrl', frames'[fi], ctrl_depth', vsp')
    BY InFrameMapped DEF Stays
  <1> QED
    BY <1>1, Stay, Zenon DEF Stays

LEMMA KeptBelow ==
  ASSUME Here, NEW i \in Int, i >= F.vsp_base,
         vstack' = vstack \/ \E v : vstack' = [vstack EXCEPT ![i] = v]
  PROVE  \A a \in 0 .. F.vsp_base - 1 : vstack'[a] = vstack[a]
  <1>1. ASSUME NEW v, vstack' = [vstack EXCEPT ![i] = v], NEW a \in 0 .. F.vsp_base - 1
        PROVE  vstack'[a] = vstack[a]
    <2>1. a # i
      BY Moving
    <2>2. a \in DOMAIN vstack
      <3>1. F.vsp_base \in 0 .. STACK_DEPTH /\ DOMAIN vstack = 0 .. STACK_DEPTH - 1
        BY Moving DEF FrameOk, Here, StackInv
      <3> QED
        BY <3>1, LimitsAssumption
    <2> QED
      BY <1>1, <2>1, <2>2
  <1> QED
    BY <1>1, Zenon

LEMMA SafeMove ==
  ASSUME Here, NEW k, NEW p, Move(k, p), Goes(k, p), I.op \notin {RETURN, END_OP}
  PROVE  Safe
  <1> DEFINE h == Point.height - k + p
  <1>1. /\ k \in Nat /\ p \in 0 .. 1 /\ vsp' = vsp - k + p /\ InFrame(frames', I.next)
        /\ M' = M /\ ctrl' = ctrl /\ ctrl_depth' = ctrl_depth
        /\ status' = status /\ stop' = stop /\ shadow' = shadow
        /\ vstack' = vstack \/ \E v : vstack' = [vstack EXCEPT ![vsp - k] = v]
    BY Zenon DEF Move
  <1>2. Point.height >= k /\ Has(M, F.body, I.next, Point.nest, h)
    BY Zenon DEF Goes, On
  <1>3. F.vsp_base + h = vsp' /\ vsp - k >= F.vsp_base
    <2>1. k \in Nat /\ p \in 0 .. 1 /\ vsp' = vsp - k + p /\ Point.height >= k
      BY <1>1, <1>2, Zenon
    <2>2. /\ F.vsp_base \in Nat /\ vsp \in Nat /\ Point.height \in Nat
          /\ F.vsp_base + Point.height = vsp
      BY Moving, Pointed, Zenon
    <2> QED
      BY <2>1, <2>2
  <1>4. /\ F.ctrl_base + Len(Point.nest) = ctrl_depth'
        /\ \A d \in 1 .. Len(Point.nest) : ctrl'[F.ctrl_base + d - 1] = Point.nest[d]
        /\ \A a \in Nat : a < F.ctrl_base => ctrl'[a] = ctrl[a]
    BY <1>1, Pointed, Zenon
  <1>5. \A a \in 0 .. F.vsp_base - 1 : vstack'[a] = vstack[a]
    <2>1. vsp - k \in Int
      BY <1>1, Moving
    <2> QED
      BY <1>1, <1>3, <2>1, KeptBelow, Zenon
  <1>6. shadow.on => ctrl_depth' = ctrl_depth /\ compiles(body)[I.next]
    BY <1>1, InJit, Zenon
  <1>7. status' \in {"running", "yielded", "exited"}
    BY <1>1, Moving
  <1> HIDE DEF h
  <1>8. Stays(I.next, Point.nest, h)
    BY <1>1, <1>2, <1>3, <1>4, <1>5, <1>6, <1>7, Zenon DEF Stays
  <1> QED
    BY <1>8, StayAt, Zenon

LEMMA SafePlain ==
  ASSUME Here, PlainAction \/ (Numeric /\ SomePlain)
  PROVE  Safe
  <1>1. I.op \notin {RETURN, END_OP}
    <2>1. I.op \in PlainOps
      <3>0. {I32_CONST, I64_CONST} \subseteq ConstOps /\ {F32_CONST, F64_CONST} \subseteq ConstOps
        BY DEF ConstOps, I32_CONST, I64_CONST, F32_CONST, F64_CONST
      <3> QED
        BY <3>0, Zenon DEF PlainAction, Nop, Const, FloatConst, LocalGet, LocalSet, GlobalGet,
           GlobalSet, Drop, Select, Load, Store, MemorySize, MemoryGrow, TruncSat, DataSegment,
           BulkMemory, Numeric, Fetch, PlainOps
    <2>2. RETURN \notin PlainOps /\ END_OP \notin PlainOps
      BY DEF PlainOps, RETURN, END_OP, NOP_OPS, NOP, ConstOps, I32_CONST, F64_CONST, LOCAL_GET,
        LOCAL_SET, LOCAL_TEE, GLOBAL_GET, GLOBAL_SET, DROP, SELECT, MEMORY_SIZE, MEMORY_GROW,
        PREFIX, NumericOps, LoadOps, StoreOps, CompareOps, ArithOps, ConvertOps, FloatCompareOps,
        FloatUnaryOps, FloatBinaryOps, TruncOps, ToFloatOps, ReinterpretOps
    <2> QED
      BY <2>1, <2>2
  <1>2. SomePlain
    BY PlainActions, Zenon DEF Here
  <1> QED
    BY <1>1, <1>2, Pointed, SafeMove, Zenon DEF SomePlain, PlainStep

-----------------------------------------------------------------------------
(* Blocks and branches.                                                    *)

LEMMA NotInJit ==
  ASSUME Here, I.op \in {BLOCK, LOOP, IF_OP, ELSE_OP, BR, BR_IF, BR_TABLE, CALL, CALL_INDIRECT}
  PROVE  ~shadow.on
  <1>1. I.op \notin JitOps \cup {RETURN, END_OP}
    BY DEF JitOps, JitImm, JitArith, BLOCK, LOOP, IF_OP, ELSE_OP, BR, BR_IF, BR_TABLE, CALL,
      CALL_INDIRECT, DROP, NOP, RETURN, END_OP, I32_CONST, I64_CONST, LOCAL_GET, LOCAL_SET,
      LOCAL_TEE
  <1> QED
    BY <1>1, InJit, Zenon

LEMMA IsSeq ==
  ASSUME NEW S, NEW s \in Seq(S)
  PROVE  Len(s) \in Nat /\ IsSeqOf(s, Len(s))
  BY DEF IsSeqOf

LEMMA SafeEnter ==
  ASSUME Here, ~shadow.on, NEW pc, frames' = [frames EXCEPT ![fi].pc = pc],
         ctrl_push, ctrl_depth < MAX_CTRL_DEPTH,
         NEW h, Has(M, F.body, pc, Append(Point.nest, CtrlFrame), h), F.vsp_base + h = vsp',
         UNCHANGED <<vstack, control>>, M' = M
  PROVE  Safe
  <1> DEFINE nest == Point.nest
             n == Len(nest)
             inner == Append(nest, CtrlFrame)
  <1>1. n \in Nat /\ IsSeqOf(nest, n)
    BY Pointed, IsSeq
  <1>2. Longer(inner, nest, n, CtrlFrame)
    BY <1>1, AppendAt, Zenon
  <1>3. Len(inner) = n + 1 /\ inner[n + 1] = CtrlFrame /\ \A j \in 1 .. n : inner[j] = nest[j]
    BY <1>2, SeqLen DEF Longer
  <1>4. /\ F.ctrl_base + n = ctrl_depth /\ F.ctrl_base \in Nat /\ ctrl_depth \in Nat
        /\ \A d \in 1 .. n : ctrl[F.ctrl_base + d - 1] = nest[d]
    BY Moving, Pointed, Zenon
  <1>5. /\ ctrl' = [ctrl EXCEPT ![ctrl_depth] = CtrlFrame] /\ ctrl_depth' = ctrl_depth + 1
        /\ ctrl_depth \in DOMAIN ctrl
    BY <1>4, LimitsAssumption DEF ctrl_push, Here, StackInv
  <1> HIDE DEF n, nest, inner
  <1>6. F.ctrl_base + Len(inner) = ctrl_depth'
    BY <1>1, <1>3, <1>4, <1>5
  <1>7. \A d \in 1 .. Len(inner) : ctrl'[F.ctrl_base + d - 1] = inner[d]
    <2> TAKE d \in 1 .. Len(inner)
    <2>1. CASE d = n + 1
      <3>1. F.ctrl_base + d - 1 = ctrl_depth
        BY <1>1, <1>4, <2>1
      <3> QED
        BY <1>3, <1>5, <2>1, <3>1
    <2>2. CASE d # n + 1
      <3>1. d \in 1 .. n /\ F.ctrl_base + d - 1 # ctrl_depth
        BY <1>1, <1>3, <1>4, <2>2
      <3> QED
        BY <1>3, <1>4, <1>5, <3>1
    <2> QED
      BY <2>1, <2>2
  <1>8. \A a \in Nat : a < F.ctrl_base => ctrl'[a] = ctrl[a]
    BY <1>1, <1>4, <1>5
  <1>9. InFrame(frames', pc) /\ status' = status /\ stop' = stop /\ shadow' = shadow
        /\ vstack' = vstack
    BY Moving, SetPc, Zenon DEF Here, control
  <1>10. status' \in {"running", "yielded", "exited"}
    BY <1>9, Moving
  <1> QED
    <2>1. Stays(pc, inner, h)
      BY <1>6, <1>7, <1>8, <1>9, <1>10, Zenon DEF Stays, inner, nest
    <2> QED
      BY <2>1, StayAt, Zenon

LEMMA SafeBlock ==
  ASSUME Here, Block
  PROVE  Safe
  <1>1. /\ ctrl_push /\ frames' = [frames EXCEPT ![fi].pc = I.next] /\ M' = M
        /\ UNCHANGED <<vstack, control>> /\ vsp' = vsp /\ I.op \in {BLOCK, LOOP}
    BY Zenon DEF Block, Fetch, Plain, fixed
  <1>2. ~shadow.on
    BY <1>1, NotInJit, Zenon
  <1>3. ctrl_depth < MAX_CTRL_DEPTH
    BY BlockRoom, Zenon DEF Here
  <1>4. Has(M, F.body, I.next, Append(Point.nest, CtrlFrame), Point.height)
    BY <1>1, BlockAt, Zenon
  <1>5. F.vsp_base + Point.height = vsp'
    BY <1>1, Pointed, Zenon
  <1> QED
    BY <1>1, <1>2, <1>3, <1>4, <1>5, SafeEnter, Zenon

LEMMA SafeIf ==
  ASSUME Here, If
  PROVE  Safe
  <1>1. /\ M' = M /\ UNCHANGED <<vstack, control>> /\ vsp' = vsp - 1 /\ I.op = IF_OP
    BY Zenon DEF If, Fetch, Plain, fixed
  <1>2. ~shadow.on
    BY <1>1, NotInJit, Zenon
  <1>3. F.vsp_base + (Point.height - 1) = vsp'
    <2>1. /\ F.vsp_base \in Nat /\ vsp \in Nat /\ Point.height \in Nat
          /\ F.vsp_base + Point.height = vsp /\ vsp' = vsp - 1
      BY <1>1, Moving, Pointed, Zenon
    <2> QED
      BY <2>1
  <1>4. CASE Taken \/ I.jump.else_pc # NO_ELSE
    <2>1. ctrl_depth < MAX_CTRL_DEPTH /\ ctrl_push
      BY <1>4, BlockRoom, Zenon DEF Here, If
    <2>2. CASE Taken
      <3>1. frames' = [frames EXCEPT ![fi].pc = I.next]
        BY <2>2, Zenon DEF If
      <3>2. Has(M, F.body, I.next, Append(Point.nest, CtrlFrame), Point.height - 1)
        BY <1>1, BlockAt, Zenon
      <3> QED
        BY <1>1, <1>2, <1>3, <2>1, <3>1, <3>2, SafeEnter, Zenon
    <2>3. CASE ~Taken
      <3>1. frames' = [frames EXCEPT ![fi].pc = I.jump.else_pc + 1] /\ I.jump.else_pc # NO_ELSE
        BY <1>4, <2>3, Zenon DEF If
      <3>2. Has(M, F.body, I.jump.else_pc + 1, Append(Point.nest, CtrlFrame), Point.height - 1)
        BY <1>1, <3>1, BlockAt, Zenon
      <3> QED
        BY <1>1, <1>2, <1>3, <2>1, <3>1, <3>2, SafeEnter, Zenon
    <2> QED
      BY <2>2, <2>3
  <1>5. CASE ~(Taken \/ I.jump.else_pc # NO_ELSE)
    <2>1. /\ frames' = [frames EXCEPT ![fi].pc = I.jump.end_pc + 1] /\ I.jump.else_pc = NO_ELSE
          /\ ctrl' = ctrl /\ ctrl_depth' = ctrl_depth
      BY <1>5, Zenon DEF If
    <2>2. Has(M, F.body, I.jump.end_pc + 1, Point.nest, Point.height - 1)
      BY <1>1, <2>1, BlockAt, Zenon
    <2>3. /\ F.ctrl_base + Len(Point.nest) = ctrl_depth'
          /\ \A d \in 1 .. Len(Point.nest) : ctrl'[F.ctrl_base + d - 1] = Point.nest[d]
          /\ \A a \in Nat : a < F.ctrl_base => ctrl'[a] = ctrl[a]
      BY <2>1, Pointed, Zenon
    <2>4. /\ InFrame(frames', I.jump.end_pc + 1) /\ stop' = stop /\ shadow' = shadow
          /\ vstack' = vstack
      BY <1>1, <2>1, Moving, SetPc, Zenon DEF Here, control
    <2>5. status' \in {"running", "yielded", "exited"}
      BY <1>1, Moving DEF control
    <2>6. Stays(I.jump.end_pc + 1, Point.nest, Point.height - 1)
      BY <1>1, <1>2, <1>3, <2>2, <2>3, <2>4, <2>5, Zenon DEF Stays
    <2> QED
      BY <2>6, StayAt, Zenon
  <1> QED
    BY <1>4, <1>5

\* The innermost blocks are left.
LEMMA SafeLeave ==
  ASSUME Here, ~shadow.on, NEW pc, frames' = [frames EXCEPT ![fi].pc = pc],
         NEW m \in 0 .. Len(Point.nest), NEW h, Has(M, F.body, pc, SubSeq(Point.nest, 1, m), h),
         F.ctrl_base + m = ctrl_depth', F.vsp_base + h = vsp',
         UNCHANGED <<vstack, ctrl, control>>, M' = M
  PROVE  Safe
  <1> DEFINE nest == Point.nest
             outer == SubSeq(nest, 1, m)
  <1>1. Len(nest) \in Nat /\ IsSeqOf(nest, Len(nest))
    BY Pointed, IsSeq
  <1>2. IsSeqOf(outer, m) /\ \A j \in 1 .. m : outer[j] = nest[j]
    BY <1>1, CutTo
  <1>3. Len(outer) = m
    BY <1>2, SeqLen
  <1>4. \A d \in 1 .. Len(nest) : ctrl[F.ctrl_base + d - 1] = nest[d]
    BY Pointed, Zenon
  <1> HIDE DEF nest, outer
  <1>5. \A d \in 1 .. Len(outer) : ctrl'[F.ctrl_base + d - 1] = outer[d]
    <2> TAKE d \in 1 .. Len(outer)
    <2>1. d \in 1 .. m /\ d \in 1 .. Len(nest)
      BY <1>1, <1>3 DEF nest
    <2> QED
      BY <1>2, <1>4, <2>1, Zenon
  <1>6. F.ctrl_base + Len(outer) = ctrl_depth'
    BY <1>3
  <1>7. /\ InFrame(frames', pc) /\ stop' = stop /\ shadow' = shadow
        /\ vstack' = vstack /\ ctrl' = ctrl
    BY Moving, SetPc, Zenon DEF Here, control
  <1>8. status' \in {"running", "yielded", "exited"}
    BY Moving DEF control
  <1> QED
    <2>1. Stays(pc, outer, h)
      BY <1>5, <1>6, <1>7, <1>8, Zenon DEF Stays, outer, nest
    <2> QED
      BY <2>1, StayAt, Zenon

LEMMA SafeReturn ==
  ASSUME Here, NEW sp, do_return(sp), M' = M, NEW h \in Int, h <= Point.height,
         h >= FuncType(M, Len(M.hosts) + F.body).results
  PROVE  Safe
  \* The innermost frame is left.
  <1>SafeReturned.
    ASSUME Here, Returned, M' = M
    PROVE  Safe
    <2> USE <1>SafeReturned
    <2> DEFINE k == fi - 1
               vtop == F.vsp_base + F.result_count
    <2>0. fi \in Nat /\ fi > 0 /\ k \in 0 .. fi /\ k \in Nat /\ IsSeqOf(frames, fi)
      BY Moving, FramesNow DEF Here
    <2>1. IsSeqOf(frames', k) /\ \A j \in 1 .. k : frames'[j] = frames[j]
      BY <2>0, CutTo, Zenon DEF Returned
    <2>2. fi' = k
      BY <2>1, FiNext
    <2>3. /\ vsp' = vtop /\ ctrl_depth' = F.ctrl_base /\ ctrl' = ctrl /\ status' = status
          /\ stop' = stop /\ shadow' = shadow /\ DOMAIN vstack' = DOMAIN vstack
          /\ \A a \in DOMAIN vstack : a < F.vsp_base => vstack'[a] = vstack[a]
      BY Zenon DEF Returned
    <2>4. Kept
      <3>1. F.vsp_base \in 0 .. STACK_DEPTH /\ DOMAIN vstack = 0 .. STACK_DEPTH - 1
        BY Moving, Zenon DEF FrameOk, Here, StackInv
      <3>2. \A a \in 0 .. F.vsp_base - 1 : a \in DOMAIN vstack /\ a < F.vsp_base
        BY <3>1, LimitsAssumption
      <3> QED
        BY <2>1, <2>3, <3>2, Zenon DEF Kept
    <2>5. Chain(M, ctrl, frames', k, F.ctrl_base, vtop)
      <3>1. CASE k = 0
        <4>1. 1 .. k = {}
          BY <3>1
        <4> HIDE DEF k
        <4> QED
          BY <4>1 DEF Chain
      <3>2. CASE k # 0
        <4>1. k \in 1 .. fi /\ k + 1 = fi /\ k # fi /\ k \in 1 .. k
          BY <2>0, <3>2
        <4> HIDE DEF k
        <4>2. Mapped(M, ctrl, frames[k], F.ctrl_base, vtop)
          <5>1. Chain(M, ctrl, frames, fi, ctrl_depth, Top)
            BY Moving, Zenon DEF Here, MapInv
          <5> QED
            BY <4>1, <5>1, Zenon DEF Chain, F
        <4>3. frames'[k] = frames[k]
          BY <2>1, <4>1
        <4> HIDE DEF vtop
        <4>4. \A j \in 1 .. k : j # k => frames'[j] = frames[j]
          BY <2>1
        <4> QED
          BY <4>1, <4>2, <4>3, <4>4, ChainPart
      <3> QED
        BY <3>1, <3>2
    <2>6. shadow.on => /\ shadow.saved_vsp + shadow.n_results = vtop /\ stop = k
                       /\ stop \in 1 .. k /\ shadow.saved_stop = 0 /\ shadow.n_results \in 0 .. 1
      BY <2>0, Moving, InJit
    <2>7. Top' = vtop
      BY <2>3, <2>6, Zenon DEF Top, InShadow
    <2>8. shadow'.on => frames'[stop'].vsp_base <= shadow'.saved_vsp
      BY <2>1, <2>3, <2>6, Moving, Zenon DEF Here, MapInv
    <2>9. MapInv'
      <3> HIDE DEF k, vtop
      <3> QED
        BY <2>2, <2>3, <2>5, <2>7, <2>8, MapNext
    <2>10. ShadowInv'
      <3>1. ~shadow.on => stop = 0
        BY Moving, Zenon DEF Here, ShadowInv
      <3>2. shadow.on => ~(fi' > stop')
        BY <2>0, <2>2, <2>3, <2>6
      <3>3. status' # "idle"
        BY <2>3, Moving
      <3> QED
        BY <2>2, <2>3, <2>6, <3>1, <3>2, <3>3, Zenon DEF ShadowInv
    <2>11. StopsHonestly'
      <3>1. ~Over'
        BY <2>3, Moving DEF Over
      <3> QED
        BY <3>1 DEF StopsHonestly
    <2> QED
      BY <2>4, <2>9, <2>10, <2>11 DEF Safe
  <1>1. F.vsp_base + F.result_count <= STACK_DEPTH
    <2>1. /\ F.vsp_base \in Nat /\ F.result_count \in Nat /\ Point.height \in Nat
          /\ F.vsp_base + Point.height = vsp /\ h >= F.result_count
      BY Moving, Pointed, Zenon
    <2>2. vsp \in 0 .. STACK_DEPTH
      BY DEF Here, StackInv
    <2> QED
      BY <2>1, <2>2, LimitsAssumption
  <1>2. ~(F.vsp_base + F.result_count > STACK_DEPTH)
    BY <1>1, Moving, LimitsAssumption
  <1>3. StackInv /\ fi > 0
    BY Moving DEF Here
  <1>4. Returned
    BY <1>2, <1>3, ReturnKinds, Zenon
  <1> QED
    BY <1>4, <1>SafeReturned

LEMMA SafeElse ==
  ASSUME Here, Else
  PROVE  Safe
  <1>1. I.op = ELSE_OP /\ M' = M
    BY Zenon DEF Else, Fetch, Plain, fixed
  <1>2. ~shadow.on
    BY <1>1, NotInJit, Zenon
  <1> DEFINE n == Len(Point.nest)
             last == Point.nest[n]
  <1>3. /\ Point.nest # <<>>
        /\ Has(M, F.body, last.end_pc + 1, SubSeq(Point.nest, 1, n - 1), Point.height)
    BY <1>1, Pointed, Zenon DEF AtPoint, PointOk, Point
  <1>4. n \in Nat /\ n # 0
    BY <1>3, Pointed
  <1>5. ctrl_depth # 0 /\ n \in 1 .. n /\ n - 1 \in 0 .. n
        /\ F.ctrl_base + n - 1 = ctrl_depth - 1 /\ F.ctrl_base + (n - 1) = ctrl_depth - 1
    BY <1>4, Heights
  <1>6. ctrl[ctrl_depth - 1] = last
    BY <1>5, Pointed, Zenon
  <1>7. /\ ctrl_depth' = ctrl_depth - 1 /\ frames' = [frames EXCEPT ![fi].pc = last.end_pc + 1]
        /\ UNCHANGED <<vstack, ctrl, control>> /\ vsp' = vsp
    BY <1>5, <1>6, Zenon DEF Else
  <1>8. F.vsp_base + Point.height = vsp' /\ F.ctrl_base + (n - 1) = ctrl_depth'
    BY <1>5, <1>7, Heights, Zenon
  <1> QED
    BY <1>1, <1>2, <1>3, <1>5, <1>7, <1>8, SafeLeave, Zenon

LEMMA SafeEnd ==
  ASSUME Here, End
  PROVE  Safe
  <1>1. I.op = END_OP /\ M' = M
    BY Zenon DEF End, Fetch, Plain, fixed
  <1> DEFINE n == Len(Point.nest)
  <1>2. IF Point.nest = <<>> THEN Point.height >= FuncType(M, Len(M.hosts) + F.body).results
        ELSE Has(M, F.body, I.next, SubSeq(Point.nest, 1, n - 1), Point.height)
    BY <1>1, Pointed, Zenon DEF AtPoint, PointOk, Point
  <1>3. CASE Point.nest = <<>>
    <2>1. ~(ctrl_depth > F.ctrl_base)
      BY <1>3, Heights
    <2>2. do_return(vsp)
      BY <2>1, Zenon DEF End
    <2>3. Point.height \in Int /\ Point.height <= Point.height
      BY Heights
    <2> QED
      BY <1>1, <1>2, <1>3, <2>2, <2>3, SafeReturn, Zenon
  <1>4. CASE Point.nest # <<>>
    <2>1. n \in Nat /\ n # 0
      BY <1>4, Pointed
    <2>2. ctrl_depth > F.ctrl_base /\ n - 1 \in 0 .. n /\ F.ctrl_base + (n - 1) = ctrl_depth - 1
      BY <2>1, Heights
    <2>3. /\ ctrl_depth' = ctrl_depth - 1 /\ frames' = [frames EXCEPT ![fi].pc = I.next]
          /\ UNCHANGED <<vstack, ctrl, control>> /\ vsp' = vsp
      BY <2>2, Zenon DEF End
    <2>4. ~shadow.on
      BY <2>2, InJit, Heights
    <2>5. F.vsp_base + Point.height = vsp' /\ F.ctrl_base + (n - 1) = ctrl_depth'
      BY <2>2, <2>3, Heights, Zenon
    <2> QED
      BY <1>1, <1>2, <1>4, <2>2, <2>3, <2>4, <2>5, SafeLeave, Zenon
  <1> QED
    BY <1>3, <1>4

LEMMA SafeReturnOp ==
  ASSUME Here, Return
  PROVE  Safe
  <1>1. I.op = RETURN /\ do_return(vsp) /\ M' = M
    BY Pointed, Zenon DEF Return, Plain, fixed
  <1>2. Point.height >= FuncType(M, Len(M.hosts) + F.body).results
    BY <1>1, Pointed, Zenon DEF AtPoint, PointOk, Point
  <1>3. Point.height \in Int /\ Point.height <= Point.height
    BY Heights
  <1> QED
    BY <1>1, <1>2, <1>3, SafeReturn, Zenon

LEMMA SafeBranches ==
  ASSUME Here, Br \/ BrIf \/ BrTable
  PROVE  Safe
  \* A branch to label n with h operands left.
  <1>SafeBranch.
    ASSUME Here, ~shadow.on, NEW n \in Nat, NEW sp, NEW h \in Int, h <= Point.height,
           F.vsp_base + h = sp, do_br(n, sp), M' = M,
           BranchOk(M, F.body, Point.nest, h, n)
    PROVE  Safe
    <2> USE <1>SafeBranch
    <2> DEFINE nest == Point.nest
               len == Len(nest)
    <2>1. ~(ctrl_depth < F.ctrl_base) /\ (n >= ctrl_depth - F.ctrl_base <=> n >= len)
      BY Heights
    <2>2. CASE n >= len
      <3>1. do_return(sp) /\ h >= FuncType(M, Len(M.hosts) + F.body).results
        BY <2>1, <2>2, Zenon DEF do_br, BranchOk
      <3> QED
        BY <3>1, SafeReturn
    <2>3. CASE ~(n >= len)
      <3> DEFINE target == nest[len - n]
      <3>1. Branched(n, sp)
        BY <2>1, <2>3, BranchKinds, Zenon
      <3>2. /\ len - n \in 1 .. len /\ F.ctrl_base + (len - n) - 1 = ctrl_depth - 1 - n
            /\ len - n \in 0 .. len /\ len - n - 1 \in 0 .. len
            /\ F.ctrl_base + (len - n) = ctrl_depth - n
            /\ F.ctrl_base + (len - n - 1) = ctrl_depth - 1 - n
        <4>1. /\ len \in Nat /\ F.ctrl_base \in Nat /\ F.ctrl_base + len = ctrl_depth
              /\ ~(n >= len)
          BY <2>3, Heights, Zenon
        <4> HIDE DEF len
        <4> QED
          BY <4>1
      <3>3. ctrl[ctrl_depth - 1 - n] = target
        BY <3>2, Pointed, Zenon
      <3>4. vsp' = sp /\ UNCHANGED <<vstack, ctrl, control>>
        BY <3>1, Zenon DEF Branched
      <3>5. CASE target.kind = LOOP
        <4>1. /\ frames' = [frames EXCEPT ![fi].pc = target.pc_start]
              /\ ctrl_depth' = ctrl_depth - n
          BY <3>1, <3>3, <3>5, Zenon DEF Branched
        <4>2. Has(M, F.body, target.pc_start, SubSeq(nest, 1, len - n), h)
          BY <2>3, <3>5, Zenon DEF BranchOk
        <4> QED
          BY <3>2, <3>4, <4>1, <4>2, SafeLeave, Zenon
      <3>6. CASE target.kind # LOOP
        <4>1. /\ frames' = [frames EXCEPT ![fi].pc = target.end_pc + 1]
              /\ ctrl_depth' = ctrl_depth - 1 - n
          BY <3>1, <3>3, <3>6, Zenon DEF Branched
        <4>2. Has(M, F.body, target.end_pc + 1, SubSeq(nest, 1, len - n - 1), h)
          BY <2>3, <3>6, Zenon DEF BranchOk
        <4> QED
          BY <3>2, <3>4, <4>1, <4>2, SafeLeave, Zenon
      <3> QED
        BY <3>5, <3>6
    <2> QED
      BY <2>2, <2>3
  <1>1. M' = M /\ I.op \in {BR, BR_IF, BR_TABLE} /\ Running /\ F.pc \in DOMAIN body
    BY Zenon DEF Br, BrIf, BrTable, Fetch, Plain, fixed
  <1>2. ~shadow.on /\ I.val \in Nat
    BY <1>1, NotInJit, ImmNat, Zenon DEF Here
  <1> DEFINE h == Point.height
  <1>3. /\ h \in Int /\ h <= h /\ F.vsp_base + h = vsp
        /\ h - 1 \in Int /\ h - 1 <= h /\ F.vsp_base + (h - 1) = vsp - 1
    <2>1. h \in Nat /\ F.vsp_base \in Nat /\ F.vsp_base + h = vsp
      BY Heights, Zenon
    <2> HIDE DEF h
    <2> QED
      BY <2>1
  <1>4. CASE Br
    <2>1. I.op = BR /\ do_br(I.val, vsp)
      BY <1>4, Zenon DEF Br, Fetch
    <2>2. BranchOk(M, F.body, Point.nest, h, I.val)
      BY <2>1, Pointed, Zenon DEF AtPoint, PointOk, Point
    <2> QED
      BY <1>1, <1>2, <1>3, <2>1, <2>2, <1>SafeBranch, Zenon
  <1>5. CASE BrIf
    <2>0. I.op = BR_IF
      BY <1>5, Zenon DEF BrIf, Fetch
    <2>1. /\ BranchOk(M, F.body, Point.nest, h - 1, I.val) /\ h >= 1
          /\ Has(M, F.body, I.next, Point.nest, h - 1)
      BY <2>0, Pointed, Zenon DEF AtPoint, PointOk, Point
    <2>2. CASE arg(1) # 0
      <3>1. do_br(I.val, vsp - 1)
        BY <1>5, <2>2, Zenon DEF BrIf
      <3> QED
        BY <1>1, <1>2, <1>3, <2>1, <3>1, <1>SafeBranch, Zenon
    <2>3. CASE arg(1) = 0
      <3>1. Pop(1, I.next)
        BY <1>5, <2>3, Zenon DEF BrIf
      <3>2. Move(1, 0)
        BY <1>1, <1>5, <3>1, BrRoom, Moving, PopMoves DEF Here
      <3>3. h - 1 + 0 = h - 1
        BY Heights
      <3>4. Goes(1, 0)
        BY <2>1, <3>3, Zenon DEF Goes, On
      <3>5. I.op \notin {RETURN, END_OP}
        BY <2>0 DEF BR_IF, RETURN, END_OP
      <3> QED
        BY <3>2, <3>4, <3>5, SafeMove
    <2> QED
      BY <2>2, <2>3
  <1>6. CASE BrTable
    <2>1. PICK n \in 1 .. Len(I.labels) : I.labels[n] \in Nat /\ do_br(I.labels[n], vsp - 1)
      BY <1>6, LabelOk, Zenon DEF Here
    <2>2. I.op = BR_TABLE
      BY <1>6, Zenon DEF BrTable, Fetch
    <2>3. BranchOk(M, F.body, Point.nest, h - 1, I.labels[n])
      BY <2>2, Pointed, Zenon DEF AtPoint, PointOk, Point
    <2> QED
      BY <1>1, <1>2, <1>3, <2>1, <2>3, <1>SafeBranch, Zenon
  <1> QED
    BY <1>4, <1>5, <1>6

-----------------------------------------------------------------------------
(* Calls.                                                                  *)

LEMMA CallAt ==
  ASSUME Here, CallAction
  PROVE  LET t == FuncType(M, callee)
         IN  /\ t.params \in Nat /\ t.results \in Nat
             /\ Left \in Int /\ F.vsp_base + Left = Popped /\ Left >= t.params
             /\ Has(M, F.body, I.next, Point.nest, Left - t.params + t.results)
             /\ ~shadow.on /\ stop = 0 /\ callee \in Nat
             /\ Popped \in Nat /\ F.vsp_base \in Nat
             /\ F.vsp_base + (Left - t.params + t.results) = Popped - t.params + t.results
             /\ Popped - t.params >= F.vsp_base
  <1>1. callee \in Nat /\ I.op \in {CALL, CALL_INDIRECT} /\ Popped \in 0 .. vsp
    BY CallFacts, Zenon DEF Here
  <1>2. I.op = CALL_INDIRECT => TypeIndex(M, callee) = I.val
    <2>1. CallTrap = ""
      BY Zenon DEF CallAction, HostCall, Call, JitCall
    <2>2. CalleeTrap = ""
      BY <2>1, OrEmpty, Zenon DEF CallTrap
    <2> QED
      BY <2>2, CalleeKnown, Opcodes, Zenon
  <1>3. ~shadow.on
    BY <1>1, NotInJit, Zenon
  <1>4. stop = 0
    BY <1>3, Moving, Zenon DEF Here, ShadowInv
  <1> DEFINE t == FuncType(M, callee)
  <1>5. /\ t.params \in Nat /\ t.results \in Nat
        /\ Left \in Int /\ F.vsp_base + Left = Popped /\ Left >= t.params
        /\ Has(M, F.body, I.next, Point.nest, Left - t.params + t.results)
    BY <1>1, <1>2, CalleeAt, Zenon
  <1> HIDE DEF t
  <1>6. /\ Popped \in Nat /\ F.vsp_base \in Nat
        /\ F.vsp_base + (Left - t.params + t.results) = Popped - t.params + t.results
        /\ Popped - t.params >= F.vsp_base
    <2>1. /\ t.params \in Nat /\ t.results \in Nat
          /\ Left \in Int /\ F.vsp_base + Left = Popped /\ Left >= t.params
      BY <1>5, Zenon
    <2>2. Popped \in 0 .. vsp /\ vsp \in Nat /\ F.vsp_base \in Nat
      BY <1>1, Heights, Zenon
    <2>3. Popped \in Nat
      BY <2>2
    <2> QED
      BY <2>1, <2>2, <2>3
  <1> QED
    BY <1>1, <1>3, <1>4, <1>5, <1>6, Zenon DEF t

LEMMA SafeHost ==
  ASSUME Here, HostCall
  PROVE  Safe
  <1> DEFINE t == FuncType(M, callee)
             h == Left - t.params + t.results
  <1>0. CallAction /\ callee \in 0 .. Len(M.hosts) - 1 /\ M \in Modules
    BY HostRoom, Zenon DEF Here
  <1>1. Host.pops = t.params /\ Host.pushes = t.results
    BY <1>0, Moving, CertificateAssumption, Zenon DEF HostOk, Host
  <1>2. /\ frames' = [frames EXCEPT ![fi].pc = I.next] /\ vsp' = Popped - t.params + t.results
        /\ vstack' = vstack \/ \E v : vstack' = [vstack EXCEPT ![Popped - t.params] = v]
        /\ ctrl' = ctrl /\ ctrl_depth' = ctrl_depth /\ stop' = stop /\ shadow' = shadow
        /\ M' = M /\ status' = Host.ends
    BY <1>1, Zenon DEF HostCall, fixed
  <1>3. /\ Has(M, F.body, I.next, Point.nest, h) /\ ~shadow.on
        /\ F.vsp_base + h = vsp' /\ Popped - t.params >= F.vsp_base
        /\ Popped \in Nat /\ t.params \in Nat
    BY <1>0, <1>2, CallAt, Zenon
  <1>4. Popped - t.params \in Int
    BY <1>3
  <1>5. \A a \in 0 .. F.vsp_base - 1 : vstack'[a] = vstack[a]
    BY <1>2, <1>3, <1>4, KeptBelow, Zenon
  <1>6. status' \in {"running", "yielded", "exited"}
    BY <1>0, <1>2, HostIs, Zenon DEF Host
  <1>7. /\ F.ctrl_base + Len(Point.nest) = ctrl_depth'
        /\ \A d \in 1 .. Len(Point.nest) : ctrl'[F.ctrl_base + d - 1] = Point.nest[d]
        /\ \A a \in Nat : a < F.ctrl_base => ctrl'[a] = ctrl[a]
    BY <1>2, Pointed, Zenon
  <1>8. InFrame(frames', I.next)
    BY <1>2, Moving, SetPc, Zenon DEF Here
  <1> HIDE DEF h, t
  <1>9. M' = M /\ stop' = stop /\ shadow' = shadow
    BY <1>2, Zenon
  <1>10. Stays(I.next, Point.nest, h)
    BY <1>3, <1>5, <1>6, <1>7, <1>8, <1>9, Zenon DEF Stays
  <1> QED
    BY <1>10, StayAt, Zenon

LEMMA ChainLonger ==
  ASSUME NEW mod, NEW c, NEW fr, NEW n \in Nat, n > 0, NEW ctop, NEW vtop,
         Chain(mod, c, fr, n, ctop, vtop), NEW f, NEW g, Longer(g, fr, n, f),
         \A j \in 1 .. n : fr[j].ctrl_base \in Nat, ctop \in Nat, fr[n].ctrl_base <= ctop,
         f.ctrl_base = ctop, f.vsp_base + f.result_count = vtop,
         NEW cend, NEW vend, Mapped(mod, c, f, cend, vend)
  PROVE  Chain(mod, c, g, n + 1, cend, vend)
  <1>1. g[n + 1] = f /\ \A j \in 1 .. n : g[j] = fr[j]
    BY DEF Longer
  <1>2. /\ \A j \in 1 .. n :
             Mapped(mod, c, fr[j], IF j = n THEN ctop ELSE fr[j + 1].ctrl_base,
                    IF j = n THEN vtop ELSE fr[j + 1].vsp_base + fr[j + 1].result_count)
        /\ \A k \in 1 .. n : \A j \in 1 .. k : fr[j].ctrl_base <= fr[k].ctrl_base
    BY Zenon DEF Chain
  <1>3. ASSUME NEW j \in 1 .. n
        PROVE  Mapped(mod, c, g[j], g[j + 1].ctrl_base, g[j + 1].vsp_base + g[j + 1].result_count)
    <2>1. CASE j = n
      BY <1>1, <1>2, <2>1, Zenon
    <2>2. CASE j # n
      <3>1. j + 1 \in 1 .. n
        BY <2>2
      <3> QED
        BY <1>1, <1>2, <2>2, <3>1, Zenon
    <2> QED
      BY <2>1, <2>2
  <1>4. ASSUME NEW k \in 1 .. n + 1, NEW j \in 1 .. k
        PROVE  g[j].ctrl_base <= g[k].ctrl_base
    <2>1. CASE k \in 1 .. n
      <3>1. j \in 1 .. n
        BY <2>1
      <3> QED
        BY <1>1, <1>2, <2>1, <3>1, Zenon
    <2>2. CASE k = n + 1 /\ j = n + 1
      BY <1>1, <2>2
    <2>3. CASE k = n + 1 /\ j # n + 1
      <3>1. j \in 1 .. n /\ n \in 1 .. n
        BY <2>3
      <3>2. fr[j].ctrl_base <= fr[n].ctrl_base
        BY <1>2, <3>1, Zenon
      <3>3. fr[j].ctrl_base <= ctop
        BY <3>1, <3>2
      <3> QED
        BY <1>1, <2>3, <3>1, <3>3, Zenon
    <2> QED
      BY <2>1, <2>2, <2>3
  <1>5. \A j \in 1 .. n + 1 : j = n + 1 \/ (j \in 1 .. n /\ j # n + 1)
    OBVIOUS
  <1> QED
    BY <1>1, <1>3, <1>4, <1>5, Zenon DEF Chain

\* The frame of body b on top of its caller's, which has h operands with the results.
Called(caller, b, params, sp, f, h) ==
  /\ InFrame(caller, I.next) /\ b \in Bodies(M) /\ sp \in Int
  /\ f = NewFrame(b, params, sp) /\ frames' = Append(caller, f)
  /\ Has(M, F.body, I.next, Point.nest, h) /\ F.vsp_base + h = sp + NResults(b)

LEMMA NewMapped ==
  ASSUME M \in Modules, Certified(M), ctrl_depth \in Nat, NEW b \in Bodies(M), NEW params,
         NEW sp \in Int, NEW f, f = NewFrame(b, params, sp)
  PROVE  Mapped(M, ctrl, f, ctrl_depth, sp)
  <1> DEFINE none == <<>>
             zero == 0
  <1>1. /\ f.body = b /\ f.pc = zero /\ f.ctrl_base = ctrl_depth /\ f.vsp_base = sp
        /\ f.result_count = NResults(b)
    BY DEF NewFrame
  <1>2. Has(M, b, zero, none, zero)
    BY CertificateAssumption, Zenon
  <1>3. ctrl_depth + Len(none) = ctrl_depth /\ sp + zero = sp
        /\ \A d \in 1 .. Len(none) : ctrl[ctrl_depth + d - 1] = none[d]
    OBVIOUS
  <1>4. f.result_count = FuncType(M, Len(M.hosts) + f.body).results
    BY <1>1, Zenon DEF NResults, import_count
  <1> HIDE DEF none, zero
  <1>5. /\ Has(M, f.body, zero, none, zero) /\ f.ctrl_base + Len(none) = ctrl_depth
        /\ f.vsp_base + zero = sp /\ f.pc = zero
        /\ \A d \in 1 .. Len(none) : ctrl[f.ctrl_base + d - 1] = none[d]
    BY <1>1, <1>2, <1>3, Zenon
  <1> QED
    BY <1>4, <1>5, HasMapped, Zenon

LEMMA CallerChain ==
  ASSUME Here, NEW caller, InFrame(caller, I.next), NEW h, NEW vt,
         Has(M, F.body, I.next, Point.nest, h), F.vsp_base + h = vt
  PROVE  Chain(M, ctrl, caller, fi, ctrl_depth, vt)
  <1> DEFINE nest == Point.nest
  <1>1. Mapped(M, ctrl, caller[fi], ctrl_depth, vt)
    <2>1. /\ Has(M, F.body, I.next, nest, h) /\ F.ctrl_base + Len(nest) = ctrl_depth
          /\ F.vsp_base + h = vt
          /\ \A d \in 1 .. Len(nest) : ctrl[F.ctrl_base + d - 1] = nest[d]
      BY Pointed, Zenon
    <2> HIDE DEF nest
    <2> QED
      BY <2>1, InFrameMapped, Zenon
  <1>2. /\ \A j \in 1 .. fi : j # fi => caller[j] = frames[j]
        /\ caller[fi].ctrl_base = frames[fi].ctrl_base
        /\ caller[fi].vsp_base = frames[fi].vsp_base
        /\ caller[fi].result_count = frames[fi].result_count
    BY Zenon DEF InFrame, F
  <1> QED
    BY <1>1, <1>2, Moving, ChainPart, Zenon

LEMMA CalledChain ==
  ASSUME Here, NEW caller, NEW b, NEW params, NEW sp, NEW f, NEW h,
         Called(caller, b, params, sp, f, h)
  PROVE  /\ Chain(M, ctrl, frames', fi + 1, ctrl_depth, sp) /\ fi' = fi + 1 /\ F' = f
         /\ \A j \in 1 .. fi : frames'[j] = caller[j]
         /\ f.vsp_base = sp /\ f.result_count = NResults(b) /\ f.ctrl_base = ctrl_depth
         /\ f.body = b /\ f.pc = 0
  <1>0. /\ InFrame(caller, I.next) /\ b \in Bodies(M) /\ sp \in Int
        /\ f = NewFrame(b, params, sp) /\ frames' = Append(caller, f)
        /\ Has(M, F.body, I.next, Point.nest, h) /\ F.vsp_base + h = sp + NResults(b)
    BY Zenon DEF Called
  <1>1. /\ f.body = b /\ f.pc = 0 /\ f.ctrl_base = ctrl_depth /\ f.vsp_base = sp
        /\ f.result_count = NResults(b)
    BY <1>0 DEF NewFrame
  <1>2. Longer(frames', caller, fi, f)
    BY <1>0, AppendAt, Zenon DEF InFrame
  <1>3. fi' = fi + 1 /\ F' = f /\ \A j \in 1 .. fi : frames'[j] = caller[j]
    <2>1. IsSeqOf(frames', fi + 1) /\ frames'[fi + 1] = f /\ \A j \in 1 .. fi : frames'[j] = caller[j]
      BY <1>2, Zenon DEF Longer
    <2>2. fi' = fi + 1 /\ F' = frames'[fi + 1]
      BY <2>1, FiNext
    <2> QED
      BY <2>1, <2>2, Zenon
  <1> DEFINE vt == sp + NResults(b)
  <1>5. Chain(M, ctrl, caller, fi, ctrl_depth, vt)
    <2>1. F.vsp_base + h = vt
      BY <1>0
    <2> HIDE DEF vt
    <2> QED
      BY <1>0, <2>1, CallerChain
  <1>6. Mapped(M, ctrl, f, ctrl_depth, sp)
    BY <1>0, Moving, NewMapped
  <1>7. \A j \in 1 .. fi : caller[j].ctrl_base \in Nat
    <2> TAKE j \in 1 .. fi
    <2>1. FrameOk(M, frames[j])
      BY FramesNow, Zenon DEF Here
    <2>2. frames[j].ctrl_base \in Nat
      BY <2>1, LimitsAssumption DEF FrameOk
    <2> QED
      BY <1>0, <2>2, Moving, Zenon DEF InFrame
  <1>8. caller[fi].ctrl_base <= ctrl_depth
    <2>1. caller[fi].ctrl_base = F.ctrl_base
      BY <1>0, Zenon DEF InFrame
    <2> QED
      BY <2>1, Heights
  <1>9. Chain(M, ctrl, frames', fi + 1, ctrl_depth, sp)
    BY <1>1, <1>2, <1>5, <1>6, <1>7, <1>8, Moving, ChainLonger, Zenon
  <1> QED
    BY <1>1, <1>3, <1>9, Zenon

LEMMA SafeCall ==
  ASSUME Here, Call
  PROVE  Safe
  <1>0. CallAction /\ Plain
    BY Zenon DEF CallAction, Call
  <1> DEFINE b == callee - import_count
             t == FuncType(M, callee)
             h == Left - t.params + t.results
             sp == Popped - t.params
             params == Params(vstack, Popped, NParams(b))
             f == NewFrame(b, params, sp)
             caller == [frames EXCEPT ![fi].pc = I.next]
  <1>1. /\ b \in Bodies(M) /\ callee \in Nat /\ import_count \in Nat
    BY <1>0, CallFacts, Zenon DEF Here, Call
  <1>2. import_count + b = callee
    BY <1>1
  <1>3. NParams(b) = t.params /\ NResults(b) = t.results
    BY <1>2, Zenon DEF NParams, NResults
  <1>4. /\ frames' = Append(caller, f) /\ vsp' = sp
        /\ UNCHANGED <<vstack, ctrl, ctrl_depth, control>> /\ M' = M
    BY <1>0, <1>3, Zenon DEF Call, push_frame, Plain, fixed
  <1>5. /\ Has(M, F.body, I.next, Point.nest, h) /\ ~shadow.on /\ stop = 0
        /\ t.params \in Nat /\ Popped \in Nat
        /\ F.vsp_base + h = sp + NResults(b)
    BY <1>0, <1>3, CallAt, Zenon
  <1>6. InFrame(caller, I.next)
    BY Moving, SetPc DEF Here
  <1>7. sp \in Int
    BY <1>5
  <1> HIDE DEF b, h, sp, params, f, caller
  <1>8. /\ Chain(M, ctrl, frames', fi + 1, ctrl_depth, sp) /\ fi' = fi + 1
        /\ \A j \in 1 .. fi : frames'[j] = caller[j]
    <2>1. /\ b \in Bodies(M) /\ sp \in Int /\ frames' = Append(caller, f)
          /\ Has(M, F.body, I.next, Point.nest, h) /\ F.vsp_base + h = sp + NResults(b)
      BY <1>1, <1>4, <1>5, <1>7, Zenon
    <2>2. f = NewFrame(b, params, sp)
      BY DEF f
    <2>3. Called(caller, b, params, sp, f, h)
      BY <1>6, <2>1, <2>2, Zenon DEF Called
    <2> QED
      BY <2>3, CalledChain
  <1>9. /\ vstack' = vstack /\ ctrl' = ctrl /\ ctrl_depth' = ctrl_depth /\ status' = status
        /\ stop' = stop /\ shadow' = shadow
    BY <1>4, Zenon DEF control
  <1>10. Kept
    <2>1. \A j \in 1 .. fi - 1 : j \in 1 .. fi /\ j # fi
      BY Moving
    <2> QED
      BY <1>6, <1>8, <1>9, <2>1, Zenon DEF Kept, InFrame
  <1>11. MapInv'
    <2>1. Top' = sp
      BY <1>4, <1>5, <1>9, Zenon DEF Top, InShadow
    <2> QED
      BY <1>4, <1>5, <1>8, <1>9, <2>1, MapNext
  <1>12. ShadowInv' /\ StopsHonestly'
    <2>1. status' = "running"
      BY <1>9, Moving
    <2> QED
      BY <1>5, <1>9, <2>1, Zenon DEF ShadowInv, StopsHonestly, Over
  <1> QED
    BY <1>10, <1>11, <1>12 DEF Safe

\* The caller waits for the native code's word, alone or below the shadow run's frame.
LEMMA SafeJit ==
  ASSUME Here, JitCall
  PROVE  Safe
  <1> DEFINE b == callee - import_count
             t == FuncType(M, callee)
             n == NParams(b)
             h == Left - t.params + t.results
             sp == vsp - n
             caller == [frames EXCEPT ![fi].pc = I.next]
  <1>1. PICK params : JitRan(params)
    BY JitKinds, Zenon DEF Here
  <1>2. CallAction /\ b \in Bodies(M) /\ b \in jit_fns /\ Popped = vsp
    BY JitFacts, Zenon DEF Here
  <1>3. callee \in Nat /\ import_count \in Nat
    BY <1>2, CallFacts, Zenon DEF Here
  <1>4. import_count + b = callee
    BY <1>3
  <1>5. n = t.params /\ NResults(b) = t.results
    BY <1>4, Zenon DEF NParams, NResults
  <1>6. /\ Has(M, F.body, I.next, Point.nest, h) /\ ~shadow.on /\ stop = 0
        /\ t.params \in Nat /\ vsp \in Nat /\ F.vsp_base \in Nat
        /\ F.vsp_base + h = sp + NResults(b) /\ sp >= F.vsp_base
    BY <1>2, <1>5, CallAt, Zenon
  <1>7. NResults(b) \in 0 .. 1 /\ compiles(M.code[b])[0]
    BY <1>2, Zenon DEF Here, StackInv
  <1>8. InFrame(caller, I.next)
    BY Moving, SetPc DEF Here
  <1>9. /\ \A a \in DOMAIN vstack : a \notin sp .. vsp - 1 => vstack'[a] = vstack[a]
        /\ vsp' = sp /\ stop' = fi /\ shadow'.saved_stop = stop /\ shadow'.saved_vsp = sp
        /\ shadow'.on /\ shadow'.n_results = NResults(b)
        /\ ctrl' = ctrl /\ ctrl_depth' = ctrl_depth /\ status' = status /\ M' = M
        /\ frames' = IF FrameTrap(b, vsp) = "" THEN Append(caller, NewFrame(b, params, sp))
                     ELSE caller
    BY <1>1, Zenon DEF JitRan, Plain, fixed
  <1>a. stop' = fi /\ shadow'.on
    BY <1>9, Zenon
  <1>10. sp \in Nat
    BY <1>5, <1>6
  <1>11. \A a \in 0 .. F.vsp_base - 1 : vstack'[a] = vstack[a]
    <2> TAKE a \in 0 .. F.vsp_base - 1
    <2>1. a \notin sp .. vsp - 1
      <3> HIDE DEF sp
      <3> QED
        BY <1>6, <1>10
    <2>2. a \in DOMAIN vstack
      <3>1. F.vsp_base \in 0 .. STACK_DEPTH /\ DOMAIN vstack = 0 .. STACK_DEPTH - 1
        BY Moving, Zenon DEF Here, StackInv, FrameOk
      <3> QED
        BY <3>1, LimitsAssumption
    <2> QED
      BY <1>9, <2>1, <2>2, Zenon
  <1> HIDE DEF b, t, n, h, sp, caller
  <1>12. ~Over' /\ status' # "idle"
    BY <1>9, Moving, Zenon DEF Over
  <1>13. StopsHonestly'
    BY <1>12 DEF StopsHonestly
  <1>14. ASSUME NEW m \in Nat, m \in {fi, fi + 1}, fi' = m,
                \A j \in 1 .. fi : frames'[j] = caller[j], NEW vtop, Top' = vtop,
                Chain(M, ctrl, frames', m, ctrl_depth, vtop),
                m > fi => F' = NewFrame(b, params, sp)
         PROVE  Safe
    <2>1. Kept
      <3>1. \A j \in 1 .. fi - 1 : j \in 1 .. fi /\ j # fi
        BY Moving
      <3> QED
        BY <1>8, <1>11, <1>14, <3>1, Zenon DEF Kept, InFrame
    <2>2. MapInv'
      <3>1. frames'[stop'].vsp_base <= shadow'.saved_vsp
        <4>1. frames'[fi].vsp_base = F.vsp_base
          BY <1>8, <1>14, Moving, Zenon DEF InFrame
        <4>2. F.vsp_base <= sp
          BY <1>6, <1>10
        <4> QED
          BY <1>9, <4>1, <4>2, Zenon
      <3> QED
        BY <1>9, <1>14, <3>1, MapNext, Zenon
    <2>3. ShadowInv'
      <3>1. stop' \in 1 .. fi' /\ fi' \in {stop', stop' + 1}
        <4>1. fi' \in {fi, fi + 1} /\ fi \in Nat /\ fi > 0
          BY <1>14, Moving, Zenon
        <4> QED
          BY <1>a, <4>1
      <3>2. fi' > stop' => /\ F'.vsp_base = sp /\ F'.result_count = NResults(b)
                           /\ F'.ctrl_base = ctrl_depth /\ F'.body = b /\ F'.pc = 0
        <4>1. ASSUME fi' > stop' PROVE F' = NewFrame(b, params, sp)
          BY <1>9, <1>14, <4>1, Zenon
        <4> QED
          BY <4>1 DEF NewFrame
      <3> QED
        BY <1>6, <1>7, <1>9, <1>12, <3>1, <3>2, Zenon DEF ShadowInv
    <2> QED
      BY <1>13, <2>1, <2>2, <2>3 DEF Safe
  <1>15. CASE FrameTrap(b, vsp) = ""
    <2> DEFINE f == NewFrame(b, params, sp)
               m == fi + 1
    <2>1. frames' = Append(caller, f)
      BY <1>9, <1>15, Zenon
    <2>2. sp \in Int
      BY <1>10
    <2>3. Called(caller, b, params, sp, f, h)
      BY <1>2, <1>6, <1>8, <2>1, <2>2, Zenon DEF Called
    <2> HIDE DEF f
    <2>4. /\ Chain(M, ctrl, frames', m, ctrl_depth, sp) /\ fi' = m /\ F' = f
          /\ \A j \in 1 .. fi : frames'[j] = caller[j]
      BY <2>3, CalledChain
    <2>5. m \in Nat /\ m \in {fi, fi + 1} /\ ~(m <= fi)
      BY Moving
    <2> HIDE DEF m
    <2>6. Top' = sp
      BY <1>9, <2>4, <2>5, Zenon DEF Top, InShadow
    <2> QED
      BY <1>14, <2>4, <2>5, <2>6, Zenon DEF f
  <1>16. CASE FrameTrap(b, vsp) # ""
    <2> DEFINE vtop == sp + NResults(b)
    <2>1. frames' = caller
      BY <1>9, <1>16, Zenon
    <2>2. IsSeqOf(frames', fi)
      BY <1>8, <2>1, Zenon DEF InFrame
    <2>3. fi' = fi
      BY <2>2, FiNext
    <2>4. Top' = vtop
      <3>1. InShadow'
        <4>1. fi' <= stop'
          BY <1>a, <2>3, Moving
        <4> QED
          BY <1>a, <4>1 DEF InShadow
      <3> QED
        BY <1>9, <3>1, Zenon DEF Top
    <2>5. F.vsp_base + h = vtop
      BY <1>6
    <2> HIDE DEF vtop
    <2>6. Chain(M, ctrl, frames', fi, ctrl_depth, vtop)
      BY <1>6, <1>8, <2>1, <2>5, CallerChain
    <2>7. fi \in Nat /\ fi \in {fi, fi + 1} /\ ~(fi > fi)
      BY Moving
    <2> QED
      BY <1>14, <2>1, <2>3, <2>4, <2>6, <2>7, Zenon
  <1> QED
    BY <1>15, <1>16, Zenon

-----------------------------------------------------------------------------
(* The failing steps, and the numeric ones.                                *)

\* Only the error of a shadow run is lost, with its frame.
LEMMA SafeFail ==
  ASSUME Here, NEW e \in HonestTraps, Fail(e)
  PROVE  Safe
  <1>1. CASE shadow.on
    <2>1. /\ shadow' = [NoShadow EXCEPT !.failed = TRUE] /\ frames' = frames
          /\ vstack' = vstack \/ vstack' = [vstack EXCEPT ![shadow.saved_vsp] = shadow.jit]
      BY <1>1, Zenon DEF Fail, FinishJitCall
    <2>2. ~Orderly'
      BY <2>1 DEF Orderly, NoShadow
    <2>3. Kept
      <3>1. \A a \in 0 .. F.vsp_base - 1 : vstack'[a] = vstack[a]
        <4>1. shadow.saved_vsp \in Int /\ shadow.saved_vsp >= F.vsp_base
          BY <1>1, InJit, Moving
        <4>2. vstack' = vstack \/ \E v : vstack' = [vstack EXCEPT ![shadow.saved_vsp] = v]
          BY <2>1
        <4> QED
          BY <4>1, <4>2, KeptBelow
      <3> QED
        BY <2>1, <3>1 DEF Kept
    <2> QED
      BY <2>2, <2>3, Zenon DEF Safe, ShadowInv, MapInv, StopsHonestly
  <1>2. CASE ~shadow.on
    <2>1. status' = e /\ frames' = frames /\ vstack' = vstack
      BY <1>2, Zenon DEF Fail, exec
    <2>2. Over'
      BY <2>1 DEF Over, HonestTraps
    <2> QED
      BY <2>1, <2>2, Zenon DEF Safe, ShadowInv, MapInv, StopsHonestly, Kept
  <1> QED
    BY <1>1, <1>2

LEMMA SafeNumeric ==
  ASSUME Here, Numeric
  PROVE  Safe
  <1>NumericErrs.
    ASSUME NEW op, NEW x, NEW y, NEW r \in NumericResults(op, x, y), r.err # ""
    PROVE  r.err \in HonestTraps
    <2> USE <1>NumericErrs
    <2>1. \A v : Ok(v).err = ""
      BY Zenon DEF Ok
    <2>2. \A name, a, b, w : Divides(name, a, b, w).err \in HonestTraps \cup {""}
      <3> TAKE name, a, b, w
      <3>1. Err("DivisionByZero").err \in HonestTraps
        BY Zenon DEF Err, HonestTraps
      <3> QED
        BY <2>1, <3>1, Zenon DEF Divides
    <2>3. \A name, a, b, w : Arith(name, a, b, w).err \in HonestTraps \cup {""}
      BY <2>1, <2>2, Zenon DEF Arith
    <2>4. Err("InvalidConversion").err \in HonestTraps
      BY Zenon DEF Err, HonestTraps
    <2> DEFINE Good(S) == \A q \in S : q.err \in HonestTraps \cup {""}
               floats == {Ok(v) : v \in FloatBits}
    <2>5. \A v : Good({Ok(v)})
      BY <2>1, Zenon
    <2>6. \A name, w : Good({Arith(name, x, y, w)})
      BY <2>3, Zenon
    <2>7. Good({Ok(0), Ok(1)})
      BY <2>1, Zenon
    <2>8. Good(floats)
      BY <2>1, Zenon
    <2>9. Good({Err("InvalidConversion")} \cup floats)
      BY <2>4, <2>8, Zenon
    <2>10. Good(NumericResults(op, x, y))
      <3> DEFINE s1 == {Ok(Compare(CompareNames[op - 68], x, y, I32_BITS))}
                 s2 == {Ok(Compare(CompareNames[op - 79], x, y, I64_BITS))}
                 s3 == {Arith(ArithNames[op - 102], x, y, I32_BITS)}
                 s4 == {Arith(ArithNames[op - 120], x, y, I64_BITS)}
                 s5 == {Ok(Convert(op, y))}
                 s6 == {Ok(y % 2^I32_BITS)}
                 s7 == {Ok(0), Ok(1)}
                 s8 == {Err("InvalidConversion")} \cup floats
      <3> HIDE DEF Good
      <3>1. /\ Good(s1) /\ Good(s2) /\ Good(s3) /\ Good(s4) /\ Good(s5) /\ Good(s6)
            /\ Good(s7) /\ Good(s8) /\ Good(floats)
        BY <2>5, <2>6, <2>7, <2>8, <2>9, Zenon
      <3> DEFINE g(lo, hi) == op \in lo .. hi
                 g5 == op \in ConvertOps
                 g6 == op = 188
                 g7 == op \in FloatCompareOps
                 g8 == op \in TruncOps
      <3>2. NumericResults(op, x, y) =
              CASE g(69, 79) -> s1 [] g(80, 90) -> s2 [] g(103, 120) -> s3 [] g(121, 138) -> s4
                [] g5 -> s5 [] g6 -> s6 [] g7 -> s7 [] g8 -> s8 [] OTHER -> floats
        BY Zenon DEF NumericResults
      <3> HIDE DEF s1, s2, s3, s4, s5, s6, s7, s8, floats, g, g5, g6, g7, g8
      <3> QED
        BY <3>1, <3>2, Zenon
    <2> QED
      BY <2>10, Zenon
  <1>1. CASE SomePlain /\ Plain
    BY <1>1, SafePlain, Zenon
  <1>2. CASE \E r \in NumericResults(I.op, arg(Operands(I.op)), arg(1)) :
               r.err # "" /\ Fail(r.err)
    BY <1>2, <1>NumericErrs, SafeFail, Zenon
  <1> QED
    BY <1>1, <1>2, NumericPlain, Zenon DEF Here

LEMMA SafeTrap ==
  ASSUME Here, Trap
  PROVE  Safe
  <1>1. TrapOf \in HonestTraps /\ Fail(TrapOf)
    BY HonestTrap, Zenon DEF Trap, Honest
  <1> QED
    BY <1>1, SafeFail, Zenon

LEMMA SafeInstruction ==
  ASSUME Here, Instruction
  PROVE  Safe
  BY SafePlain, SafeNumeric, NeverHangs, SafeBlock, SafeIf, SafeElse, SafeEnd, SafeBranches,
     SafeReturnOp, SafeHost, SafeCall, SafeJit, SafeTrap, Zenon
  DEF Instruction, PlainAction

-----------------------------------------------------------------------------
(* The start of a task, its suspension and its end.                        *)

LEMMA SafeShadowReturns ==
  ASSUME StackInv, ShadowInv, MapInv, Orderly, ShadowReturns
  PROVE  Safe
  <1> DEFINE sp == shadow.saved_vsp
  <1>1. status = "running" /\ fi <= stop /\ shadow.on /\ ~Over /\ M' = M
    BY DEF ShadowReturns, Over, Plain, fixed
  <1>2. /\ stop \in 1 .. fi /\ shadow.n_results \in 0 .. 1 /\ sp \in Nat
        /\ Chain(M, ctrl, frames, fi, ctrl_depth, Top) /\ frames[stop].vsp_base <= sp
        /\ DOMAIN vstack = 0 .. STACK_DEPTH - 1
    BY <1>1, LimitsAssumption DEF ShadowInv, MapInv, StackInv
  <1>3. fi \in Nat /\ fi = stop /\ InShadow /\ fi \in 1 .. fi
    BY <1>1, <1>2, FramesNow DEF InShadow
  <1>4. Top = sp + shadow.n_results
    BY <1>3, Zenon DEF Top
  <1>5. /\ stop' = shadow.saved_stop /\ shadow' = [NoShadow EXCEPT !.failed = shadow.failed]
        /\ frames' = frames /\ ctrl' = ctrl /\ ctrl_depth' = ctrl_depth
        /\ \/ shadow.n_results = 0 /\ vsp' = sp /\ vstack' = vstack /\ status' = status
           \/ status' = "StackOverflow" /\ vstack' = vstack
           \/ /\ shadow.n_results # 0 /\ vstack' = [vstack EXCEPT ![sp] = shadow.jit]
              /\ vsp' = sp + 1 /\ status' = status
    BY Zenon DEF ShadowReturns, FinishJitCall
  <1>6. ~shadow'.on /\ stop' = 0
    <2>1. ~shadow'.on
      BY <1>5 DEF NoShadow
    <2>2. shadow.saved_stop = 0
      BY <1>1, Zenon DEF ShadowInv
    <2> QED
      BY <1>5, <2>1, <2>2
  <1>7. fi' = fi
    BY <1>5 DEF fi
  <1>8. Kept
    <2>1. F.vsp_base \in 0 .. STACK_DEPTH /\ F.vsp_base <= sp
      <3>1. FrameOk(M, frames[fi])
        BY <1>3, FramesNow
      <3> QED
        BY <1>2, <1>3, <3>1 DEF FrameOk, F
    <2>2. \A a \in 0 .. F.vsp_base - 1 : a # sp /\ a \in DOMAIN vstack
      BY <1>2, <2>1, LimitsAssumption
    <2>3. vstack' = vstack \/ vstack' = [vstack EXCEPT ![sp] = shadow.jit]
      BY <1>5, Zenon
    <2>4. \A a \in 0 .. F.vsp_base - 1 : vstack'[a] = vstack[a]
      BY <2>2, <2>3
    <2> QED
      BY <1>5, <2>4, Zenon DEF Kept
  <1>9. CASE status' = "StackOverflow"
    <2>1. Over'
      BY <1>9 DEF Over
    <2> QED
      BY <1>8, <1>9, <2>1, Reasons, Zenon DEF Safe, ShadowInv, MapInv, StopsHonestly
  <1>10. CASE status' = status /\ vsp' = Top
    <2>1. ~Over' /\ status' # "idle"
      BY <1>1, <1>10 DEF Over
    <2>2. Top' = Top
      BY <1>6, <1>10, Zenon DEF Top, InShadow
    <2>3. MapInv'
      BY <1>1, <1>2, <1>5, <1>6, <1>7, <2>2, MapNext
    <2> QED
      BY <1>6, <1>8, <2>1, <2>3, Zenon DEF Safe, ShadowInv, StopsHonestly
  <1>11. \/ status' = "StackOverflow"
         \/ status' = status /\ vsp' = Top
    <2>1. shadow.n_results # 0 => sp + 1 = Top
      BY <1>2, <1>4
    <2>2. shadow.n_results = 0 => sp = Top
      BY <1>2, <1>4
    <2> QED
      BY <1>5, <2>1, <2>2
  <1> QED
    BY <1>9, <1>10, <1>11

LEMMA MapStart ==
  ASSUME StackInv, ShadowInv, MapInv, Orderly, Start
  PROVE  ShadowInv' /\ MapInv' /\ StopsHonestly' /\ fi = 0
  <1>1. /\ UNCHANGED exec \/ \E args : Started(args)
        /\ status = "idle" /\ M' = M /\ stop' = stop /\ shadow' = shadow
    BY StartKinds, Zenon DEF fixed
  <1>2. ~Over /\ frames = <<>> /\ ~shadow.on /\ stop = 0
    <2>1. ~Over
      BY <1>1 DEF Over
    <2> QED
      BY <1>1, <2>1, Zenon DEF ShadowInv
  <1>3. fi = 0
    BY <1>2 DEF fi
  <1>4. CASE UNCHANGED exec
    <2>1. frames' = frames /\ ctrl' = ctrl /\ ctrl_depth' = ctrl_depth /\ vsp' = vsp
      BY <1>4 DEF exec
    <2>2. fi' = fi /\ frames' = <<>>
      BY <1>2, <2>1 DEF fi
    <2>3. Top' = Top
      BY <1>1, <1>2, <2>1, Zenon DEF Top, InShadow
    <2>4. Chain(M, ctrl, frames, fi, ctrl_depth, Top)
      BY <1>2, Zenon DEF MapInv
    <2>5. MapInv'
      BY <1>1, <1>2, <2>1, <2>2, <2>3, <2>4, MapNext
    <2> QED
      BY <1>1, <1>2, <1>3, <2>2, <2>5, Zenon DEF ShadowInv, StopsHonestly
  <1>5. ASSUME NEW args, Started(args)
        PROVE  ShadowInv' /\ MapInv' /\ StopsHonestly'
    <2> DEFINE b == M.entry - import_count
               n == NParams(b)
               sp == Len(args) - n
               params == SubSeq(args, Len(args) - n + 1, Len(args))
               f == NewFrame(b, params, sp)
               one == 1
    <2>1. /\ args \in Seq(Int) /\ b \in Bodies(M) /\ n \in 0 .. Len(args) /\ vsp' = sp
          /\ frames' = <<f>> /\ ctrl' = ctrl /\ ctrl_depth' = ctrl_depth /\ status' = "running"
      BY <1>5, Zenon DEF Started
    <2>2. sp \in Int
      <3> HIDE DEF n
      <3> QED
        BY <2>1
    <2>3. M \in Modules /\ Certified(M) /\ ctrl_depth \in Nat
      BY LimitsAssumption DEF StackInv, Orderly
    <2>4. Mapped(M, ctrl, f, ctrl_depth, sp)
      <3> HIDE DEF b, sp, params
      <3> QED
        BY <2>1, <2>2, <2>3, NewMapped
    <2> HIDE DEF f, sp
    <2>5. IsSeqOf(frames', one) /\ frames'[one] = f
      BY <2>1, OneFrame, Zenon
    <2>6. fi' = one
      BY <2>5, FiNext
    <2>7. \A j \in 1 .. one : j = one
      OBVIOUS
    <2>8. f.ctrl_base <= f.ctrl_base
      BY <2>3 DEF f, NewFrame
    <2> HIDE DEF one
    <2>9. Chain(M, ctrl, frames', one, ctrl_depth, sp)
      <3>1. \A j \in 1 .. one :
              Mapped(M, ctrl, frames'[j], IF j = one THEN ctrl_depth ELSE frames'[j + 1].ctrl_base,
                     IF j = one THEN sp ELSE frames'[j + 1].vsp_base + frames'[j + 1].result_count)
        BY <2>4, <2>5, <2>7, Zenon
      <3>2. \A k \in 1 .. one : \A j \in 1 .. k : frames'[j].ctrl_base <= frames'[k].ctrl_base
        <4>1. \A k \in 1 .. one : \A j \in 1 .. k : k = one /\ j = one
          BY <2>7 DEF one
        <4> QED
          BY <2>5, <2>8, <4>1, Zenon
      <3> QED
        BY <3>1, <3>2, Zenon DEF Chain
    <2>10. Top' = sp
      BY <1>1, <1>2, <2>1, Zenon DEF Top, InShadow
    <2>11. MapInv'
      BY <1>1, <1>2, <2>1, <2>6, <2>9, <2>10, MapNext
    <2>12. ~Over' /\ status' # "idle"
      BY <2>1 DEF Over
    <2> QED
      BY <1>1, <1>2, <2>11, <2>12, Zenon DEF ShadowInv, StopsHonestly
  <1> QED
    BY <1>1, <1>3, <1>4, <1>5, Zenon

\* The task is resumed, done or left alone: the stacks are what they were.
LEMMA MapRests ==
  ASSUME StackInv, ShadowInv, MapInv, StopsHonestly, Orderly,
         Resume \/ Completes \/ UNCHANGED vars
  PROVE  Safe
  <1>1. /\ M' = M /\ stop' = stop /\ shadow' = shadow /\ frames' = frames /\ ctrl' = ctrl
        /\ ctrl_depth' = ctrl_depth /\ vsp' = vsp /\ vstack' = vstack
        /\ \/ status = "yielded" /\ status' = "running"
           \/ status = "running" /\ status' = "done"
           \/ status' = status
    BY Zenon DEF Resume, Completes, vars, fixed, exec, control
  <1>2. fi' = fi /\ F' = F
    BY <1>1 DEF fi, F
  <1>3. Top' = Top
    BY <1>1, <1>2, Zenon DEF Top, InShadow
  <1>4. Kept
    BY <1>1 DEF Kept
  <1>5. CASE ~Over'
    <2>1. ~Over /\ (status' = "idle" => status = "idle")
      BY <1>1, <1>5 DEF Over
    <2>2. Chain(M, ctrl, frames, fi, ctrl_depth, Top)
      BY <2>1, Zenon DEF MapInv
    <2>3. shadow.on => frames[stop].vsp_base <= shadow.saved_vsp
      BY <2>1, Zenon DEF MapInv
    <2>4. MapInv'
      BY <1>1, <1>2, <1>3, <2>2, <2>3, MapNext
    <2>5. ShadowInv'
      BY <1>1, <1>2, <2>1, Zenon DEF ShadowInv
    <2> QED
      BY <1>4, <1>5, <2>4, <2>5, Zenon DEF Safe, StopsHonestly
  <1>6. CASE Over'
    <2>1. status' = "done" \/ (status' = status /\ Over)
      BY <1>1, <1>6 DEF Over
    <2>2. StopsHonestly'
      BY <1>1, <2>1, Zenon DEF StopsHonestly, Orderly
    <2> QED
      BY <1>4, <1>6, <2>2, Zenon DEF Safe, ShadowInv, MapInv
  <1> QED
    BY <1>5, <1>6

LEMMA InstructionRuns ==
  ASSUME Instruction
  PROVE  Running
  BY Zenon DEF Instruction, Nop, Const, FloatConst, LocalGet, LocalSet, GlobalGet, GlobalSet,
    Drop, Select, Numeric, Load, Store, MemorySize, MemoryGrow, TruncSat, DataSegment,
    BulkMemory, LookupHangs, Block, If, Else, End, Br, BrIf, BrTable, Return, HostCall, Call,
    JitCall, Trap, Fetch

\* A step of a valid module in good order.
LEMMA SafeStep ==
  ASSUME StackInv, ShadowInv, MapInv, StopsHonestly, Orderly, [Next]_vars
  PROVE  ShadowInv' /\ MapInv' /\ StopsHonestly' /\ (fi > 0 => Kept)
  <1>1. CASE Start
    <2>1. ~(fi > 0)
      <3>1. fi = 0
        BY <1>1, MapStart
      <3> QED
        BY <3>1
    <2> QED
      BY <1>1, <2>1, MapStart, Zenon
  <1>2. CASE Instruction
    BY <1>2, InstructionRuns, SafeInstruction, Zenon DEF Here, Safe
  <1>3. CASE ShadowReturns
    BY <1>3, SafeShadowReturns, Zenon DEF Safe
  <1>4. CASE Resume \/ Completes \/ UNCHANGED vars
    BY <1>4, MapRests, Zenon DEF Safe
  <1> QED
    BY <1>1, <1>2, <1>3, <1>4, Zenon DEF Next, Stopped

\* A run that is out of order stays so.
LEMMA OrderlyBefore ==
  ASSUME StackInv, [Next]_vars, Orderly'
  PROVE  Orderly
  <1>1. M' = M
    BY Zenon DEF Next, Start, Completes, Resume, Stopped, ShadowReturns, Instruction, Nop, Const,
      FloatConst, LocalGet, LocalSet, GlobalGet, GlobalSet, Drop, Select, Numeric, Load, Store,
      MemorySize, MemoryGrow, TruncSat, DataSegment, BulkMemory, LookupHangs, Block, If, Else,
      End, Br, BrIf, BrTable, Return, HostCall, Call, JitCall, Trap, Fail, Plain, fixed, vars
  <1>2. shadow' = shadow \/ JitCall \/ ShadowReturns \/ \E e : Fail(e)
    <2>1. PlainAction => shadow' = shadow
      BY Zenon DEF PlainAction, Nop, Const, FloatConst, LocalGet, LocalSet, GlobalGet, GlobalSet,
        Drop, Select, Load, Store, MemorySize, MemoryGrow, TruncSat, DataSegment, BulkMemory,
        Pop, PopPush, control
    <2>2. Numeric => shadow' = shadow \/ \E e : Fail(e)
      BY Zenon DEF Numeric, PopPush, control
    <2>3. \A sp : do_return(sp) => shadow' = shadow
      BY Zenon DEF do_return, Panic, control
    <2>4. \A n, sp : do_br(n, sp) => shadow' = shadow
      BY <2>3, Zenon DEF do_br, Panic, control
    <2>5. LookupHangs \/ Block \/ If \/ Else \/ End \/ Br \/ BrIf \/ BrTable \/ Return
            => shadow' = shadow
      BY <2>3, <2>4, Zenon DEF LookupHangs, Block, If, Else, End, Br, BrIf, BrTable, Return,
        Panic, Pop, control
    <2>6. HostCall \/ Call => shadow' = shadow
      BY Zenon DEF HostCall, Call, push_frame, control
    <2>7. Trap => \E e : Fail(e)
      BY Zenon DEF Trap
    <2>8. Start \/ Resume \/ Completes \/ UNCHANGED vars => shadow' = shadow
      BY Zenon DEF Start, Resume, Completes, vars, control
    <2> QED
      BY <2>1, <2>2, <2>5, <2>6, <2>7, <2>8, Zenon DEF Next, Instruction, PlainAction, Stopped
  <1>3. shadow'.failed = shadow.failed \/ shadow'.failed
    <2>1. JitCall => shadow'.failed = shadow.failed
      BY JitKinds, Zenon DEF JitRan
    <2>2. ASSUME NEW e, Fail(e)
          PROVE  shadow' = shadow \/ shadow'.failed
      <3>1. CASE shadow.on
        BY <2>2, <3>1 DEF Fail, FinishJitCall, NoShadow
      <3>2. CASE ~shadow.on
        BY <2>2, <3>2, Zenon DEF Fail
      <3> QED
        BY <3>1, <3>2
    <2>3. ShadowReturns => shadow'.failed = shadow.failed
      BY DEF ShadowReturns, FinishJitCall, NoShadow
    <2> QED
      BY <1>2, <2>1, <2>2, <2>3, Zenon
  <1> QED
    BY <1>1, <1>3, Zenon DEF Orderly, Certified

LEMMA MapInit ==
  ASSUME Init
  PROVE  ShadowInv /\ MapInv /\ StopsHonestly
  <1>1. status = "idle" /\ frames = <<>> /\ stop = 0 /\ ~shadow.on
    BY DEF Init, NoShadow
  <1>2. fi = 0
    BY <1>1 DEF fi
  <1>3. Chain(M, ctrl, frames, fi, ctrl_depth, Top)
    <2>1. \A k \in 1 .. fi : FALSE
      BY <1>2
    <2> QED
      BY <2>1, Zenon DEF Chain
  <1> QED
    BY <1>1, <1>3, Zenon DEF ShadowInv, MapInv, StopsHonestly

LEMMA MapGives ==
  ASSUME StackInv, MapInv
  PROVE  StackMapHolds
  <1>1. ASSUME Orderly, ~Over, ~InShadow, NEW j \in 1 .. fi
        PROVE  FrameMapped(j)
    <2>1. Chain(M, ctrl, frames, fi, ctrl_depth, vsp)
      BY <1>1, Zenon DEF MapInv, Top
    <2>2. Mapped(M, ctrl, frames[j], CtrlTop(j), ValueTop(j))
      BY <2>1, Zenon DEF Chain, CtrlTop, ValueTop
    <2>3. frames[j].body \in Bodies(M)
      BY FramesNow DEF FrameOk
    <2> QED
      BY <2>2, <2>3, Zenon DEF Mapped, FrameMapped, NResults, import_count
  <1> QED
    BY <1>1, Zenon DEF StackMapHolds

Inv == StackInv /\ ShadowInv /\ MapInv /\ StopsHonestly

LEMMA InvInit ==
  Init => Inv
  BY StackInit, MapInit DEF Inv

LEMMA InvNext ==
  ASSUME Inv, [Next]_vars
  PROVE  Inv' /\ (Orderly /\ fi > 0 => Kept)
  <1>1. StackInv'
    BY StackActions, Zenon DEF Inv
  <1>2. CASE Orderly
    BY <1>1, <1>2, SafeStep, Zenon DEF Inv
  <1>3. CASE ~Orderly
    <2>1. ~Orderly'
      BY <1>3, OrderlyBefore, Zenon DEF Inv
    <2> QED
      BY <1>1, <1>3, <2>1, Zenon DEF Inv, ShadowInv, MapInv, StopsHonestly
  <1> QED
    BY <1>2, <1>3

-----------------------------------------------------------------------------
(* The theorems.                                                           *)

\* In a valid module, whatever it calls and however it branches, every frame on the
\* call stack has the operands and the open blocks that validation counts at its pc:
\* the shared control stack and value stack are never mixed up between frames.
THEOREM MapHolds ==
  Spec => []StackMapHolds
  <1>1. Inv /\ [Next]_vars => Inv'
    BY InvNext
  <1>2. Inv => StackMapHolds
    BY MapGives DEF Inv
  <1> QED
    BY InvInit, <1>1, <1>2, PTL DEF Spec

\* A valid module that was entered is never stopped by an underflow, malformed code, a
\* bad index, a lookup that hangs or a panic: only by a trap of its own or by a limit.
THEOREM HonestStops ==
  Spec => []StopsHonestly
  <1>1. Inv /\ [Next]_vars => Inv'
    BY InvNext
  <1>2. Inv => StopsHonestly
    BY DEF Inv
  <1> QED
    BY InvInit, <1>1, <1>2, PTL DEF Spec

\* No step of a valid module writes to a frame below the innermost one or to an operand
\* below its base: a callee, a branch or a native call cannot disturb its callers.
THEOREM CalleesKeepCallers ==
  Spec => CallersKept
  <1>1. Inv /\ [Next]_vars => Inv'
    BY InvNext
  <1>2. Inv /\ [Next]_vars =>
          [Orderly /\ fi > 0 =>
             /\ \A j \in 1 .. fi - 1 : frames'[j] = frames[j]
             /\ \A a \in 0 .. F.vsp_base - 1 : vstack'[a] = vstack[a]]_vars
    BY InvNext, Zenon DEF Kept
  <1> QED
    BY InvInit, <1>1, <1>2, PTL DEF Spec, CallersKept
=============================================================================

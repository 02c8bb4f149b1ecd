---------------------------- MODULE WasmEmitter -----------------------------
(***************************************************************************)
(* WasmEmitter of the asm command: the binary of a module that the parser  *)
(* has read.  A module is the record of the parser; bytes are 0 .. 255.    *)
(***************************************************************************)
EXTENDS WatParser, WasmLoader

CONSTANT float_bytes(_, _)    \* the bytes of a number as an f32 or an f64

write_leb128_u32(n) ==
  LET write[v \in Nat] == IF v < 128 THEN <<v>> ELSE <<(v % 128) + 128>> \o write[v \div 128]
  IN  write[n % 2^I32_BITS]

\* Mutant: the sign bit of the last group is not looked at.
write_leb128_i32NoSign(n) ==
  LET write[v \in Int] ==
        IF v \div 128 \in {0, -1} THEN <<v % 128>> ELSE <<(v % 128) + 128>> \o write[v \div 128]
  IN  write[n]

write_leb128_i32(n) ==
  LET write[v \in Int] ==
        IF v \div 64 \in {0, -1} THEN <<v % 128>> ELSE <<(v % 128) + 128>> \o write[v \div 128]
  IN  write[n]

write_bytes(bytes) == write_leb128_u32(Len(bytes)) \o bytes

\* A count and the items.
Items(items, Write(_)) ==
  write_leb128_u32(Len(items)) \o
  SeqX!FlattenSeq([k \in 1 .. Len(items) |-> Write(items[k])])

emit_section(id, content) == <<id>> \o write_bytes(content)

FuncTypeBytes(ft) ==
  LET Vals(ts) == write_bytes([k \in 1 .. Len(ts) |-> ValByte(ts[k])])
  IN  <<96>> \o Vals(ft.params) \o Vals(ft.results)
emit_type_section(m) == emit_section(1, Items(m.types, FuncTypeBytes))

ImportBytes(imp) ==
  write_bytes(imp.names[1]) \o write_bytes(imp.names[2]) \o <<0>> \o write_leb128_u32(imp.type)
emit_import_section(m) == emit_section(2, Items(m.imports, ImportBytes))

emit_function_section(m) == emit_section(3, Items(m.funcs, LAMBDA f : write_leb128_u32(f.type)))

MemoryBytes(mem) ==
  <<Len(mem.max)>> \o write_leb128_u32(mem.min) \o
  SeqX!FlattenSeq([k \in 1 .. Len(mem.max) |-> write_leb128_u32(mem.max[k])])
emit_memory_section(m) == emit_section(5, Items(m.memories, MemoryBytes))

ExportBytes(e) == write_bytes(e.name) \o <<e.kind>> \o write_leb128_u32(e.index)
emit_export_section(m) == emit_section(7, Items(m.exports, ExportBytes))

emit_data_count_section(m) == emit_section(12, write_leb128_u32(Len(m.data)))

emit_instr(instr) ==
  LET Imm(imm) == CASE imm[1] = "u" -> write_leb128_u32(imm[2])
                    [] imm[1] = "s" -> write_leb128_i32(imm[2])
                    [] imm[1] = "b" -> <<imm[2]>>
                    [] imm[1] \in {"f32", "f64"} -> float_bytes(imm[2], imm[1])
  IN  <<instr.op>> \o SeqX!FlattenSeq([k \in 1 .. Len(instr.imms) |-> Imm(instr.imms[k])])

\* Runs of locals of the same type: the positions where a run starts.
compress_locals(locals) ==
  LET starts == {k \in 1 .. Len(locals) : k = 1 \/ locals[k] # locals[k - 1]}
      Nth(n) == CHOOSE k \in starts : Cardinality({j \in starts : j <= k}) = n
      End(n) == IF n = Cardinality(starts) THEN Len(locals) + 1 ELSE Nth(n + 1)
  IN  [n \in 1 .. Cardinality(starts) |-> [count |-> End(n) - Nth(n), ty |-> locals[Nth(n)]]]

FuncBytes(f) ==
  write_bytes(Items(compress_locals(f.locals),
                    LAMBDA g : Append(write_leb128_u32(g.count), ValByte(g.ty)))
              \o SeqX!FlattenSeq([k \in 1 .. Len(f.body) |-> emit_instr(f.body[k])])
              \o <<END_OP>>)
emit_code_section(m) == emit_section(10, Items(m.funcs, FuncBytes))

DataBytes(seg) ==
  <<0, I32_CONST>> \o write_leb128_i32(seg.at) \o <<END_OP>> \o write_bytes(seg.bytes)
emit_data_section(m) == emit_section(11, Items(m.data, DataBytes))

\* A section with nothing in it is left out.
emit_module(m) ==
  LET When(items, section) == IF items = <<>> THEN <<>> ELSE section
  IN  MAGIC \o VERSION
      \o When(m.types, emit_type_section(m)) \o When(m.imports, emit_import_section(m))
      \o When(m.funcs, emit_function_section(m)) \o When(m.memories, emit_memory_section(m))
      \o When(m.exports, emit_export_section(m))
      \o When(m.data, When(m.memories, emit_data_count_section(m)))
      \o When(m.funcs, emit_code_section(m)) \o When(m.data, emit_data_section(m))
=============================================================================

----------------------------- MODULE Toolchain ------------------------------
(***************************************************************************)
(* From a WAT source to an instance: the asm command parses the source     *)
(* field by field, writes the binary and saves it; the file may lose its   *)
(* tail; run spawns an instance from what is left.  An input is a source,  *)
(* or a binary made elsewhere, together with what it means.                *)
(***************************************************************************)
EXTENDS WasmEmitter

CONSTANT Inputs    \* records [tokens, bytes, cuts, meant]

VARIABLES
  input,           \* what this run works on
  parser,          \* the state of the parse
  stage,           \* "open", "fields", "emit", "file", "over"
  file,            \* the bytes of the .wasm file
  cut,             \* the file has lost its tail
  result           \* what spawn gave; err = "ready" for an instance

vars == <<input, parser, stage, file, cut, result>>

Nothing == [err |-> "", val |-> <<>>, cur |-> 0]
Panic == Bad("panic")

Init ==
  /\ input \in Inputs
  /\ parser = Parser(input.tokens)
  /\ stage = IF input.tokens = <<>> THEN "file" ELSE "open"
  /\ file = input.bytes
  /\ cut = FALSE
  /\ result = Nothing

\* A step of the parse: to a new state, or the kernel panics.
Parse(states, next) ==
  /\ \/ \E s \in states : parser' = s /\ stage' = next /\ UNCHANGED result
     \/ states = {} /\ stage' = "over" /\ result' = Panic /\ UNCHANGED parser
  /\ UNCHANGED <<input, file, cut>>

\* parse_module: (module $name, then the fields, then ')'.
OpenModule ==
  /\ stage = "open"
  /\ Parse(Each(expect(parser, "("), LAMBDA s : {try_identifier(t) : t \in expect_keyword(s, "module")}),
           "fields")
ParseField ==
  /\ stage = "fields" /\ Is(parser, "(")
  /\ Parse(Field(bump(parser)), "fields")
CloseModule ==
  /\ stage = "fields" /\ ~Is(parser, "(")
  /\ Parse(expect(parser, ")"), "emit")

\* emit_module and the save, on the disk and in memory; both may fail.
Emit ==
  /\ stage = "emit"
  /\ \/ file' = emit_module(parser) /\ stage' = "file" /\ UNCHANGED result
     \/ stage' = "over" /\ result' = Bad("save failed") /\ UNCHANGED file
  /\ UNCHANGED <<input, parser, cut>>

\* The machine stops while the file is being written.
LoseTail ==
  /\ stage = "file" /\ input.cuts /\ ~cut
  /\ \E n \in 0 .. Len(file) - 1 : file' = SubSeq(file, 1, n)
  /\ cut' = TRUE
  /\ UNCHANGED <<input, parser, stage, result>>

Spawn ==
  /\ stage = "file"
  /\ result' = LET r == spawn(file) IN IF r.err = "" THEN [r EXCEPT !.err = "ready"] ELSE r
  /\ stage' = "over"
  /\ UNCHANGED <<input, parser, file, cut>>

Next == OpenModule \/ ParseField \/ CloseModule \/ Emit \/ LoseTail \/ Spawn

Spec == Init /\ [][Next]_vars

-----------------------------------------------------------------------------
(* Properties.                                                             *)

\* What an instance is made of, as the interpreter will see it: signatures,
\* and bodies as sequences of an opcode and its immediate.
Listing(b) ==
  LET From[i \in Nat] ==
        IF i >= Len(b) THEN <<>>
        ELSE LET d == Decode(b, i, NoEnd)
                 val == IF d.op \in BlockOps THEN At(b, i + 1) ELSE d.val
             IN  <<<<d.op, val>>>> \o From[d.next]
  IN  From[0]

Code(inst) ==
  [imports |-> inst.import_count, hosts |-> inst.hosts,
   sigs    |-> [i \in 1 .. Len(inst.ftype) |-> inst.types[inst.ftype[i] + 1]],
   bodies  |-> [i \in 1 .. Len(inst.bodies) |-> Listing(inst.bodies[i])],
   locals  |-> inst.locals,
   globals |-> inst.globals, mutable |-> inst.mutable, table |-> inst.table,
   pages   |-> inst.pages]
Memory0(mem) == {<<a, mem[a]>> : a \in {x \in DOMAIN mem : mem[x] # 0}}
Exported(secs) == [name \in {<<109>>, <<110>>} |->
                     UNION {find_export(b, name) : b \in secs}]


\* A source that is assembled, saved and loaded again is the program that was
\* written: the same signatures, bodies, locals, imports, memory and exports.
\* A module over a limit is refused with the error of that limit.  (Sources that name
\* labels, or functions before their definition, do not come back as they were written.)
RoundTrip ==
  stage = "over" /\ ~cut /\ result.err # "save failed" =>
    /\ result.err = input.meant.err
    /\ result.err = "ready" =>
         /\ Code(result.val.inst) = input.meant.code
         /\ Memory0(result.val.mem) = input.meant.memory
         /\ Exported(result.val.exports) = input.meant.exports

\* A file that lost its tail is refused without a panic, or it ends after the
\* code section and gives the functions that were written.
CutIsRefused ==
  stage = "over" /\ cut =>
    /\ result.err # "panic"
    /\ result.err = "ready" => Code(result.val.inst) = input.meant.code
=============================================================================

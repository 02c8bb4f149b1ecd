----------------------------- MODULE WatParser ------------------------------
(***************************************************************************)
(* The WAT parser of the asm command, on tokens: pairs of a kind ("(",     *)
(* ")", "kw", "id", "int", "float", "str", and "offset=", "align=" for the *)
(* keywords that start so) and a value: a word, a number, the characters   *)
(* of a string, or for an identifier its name and the number parse_i32     *)
(* reads in it.  The state of a parse is one record; the         *)
(* one-token unget is a position that does not move.  An operator gives    *)
(* the set of the states it may end in: one, or none where the code        *)
(* panics.  sig, idx, op hold what the last parse_ or build_ returned, and *)
(* code the instructions of the function at hand.                          *)
(***************************************************************************)
EXTENDS Integers, Sequences, FiniteSetsExt

NoSig == [params |-> <<>>, results |-> <<>>]
NoFn == [idx |-> 0, typed |-> FALSE, type |-> 0, locals |-> <<>>, next |-> 0]

Parser(src) ==
  [src |-> src, pos |-> 1, types |-> <<>>, imports |-> <<>>, funcs |-> <<>>,
   memories |-> <<>>, exports |-> <<>>, data |-> <<>>,
   func_names |-> <<>>, type_names |-> <<>>, local_names |-> <<>>,
   sig |-> NoSig, idx |-> 0, op |-> <<>>, code |-> <<>>, fn |-> NoFn]

Each(S, K(_)) == UNION {K(s) : s \in S}

lookahead(s) == IF s.pos <= Len(s.src) THEN s.src[s.pos] ELSE <<"eof">>
Is(s, kind) == lookahead(s)[1] = kind
Kw(s, word) == Is(s, "kw") /\ lookahead(s)[2] = word
Value(s) == lookahead(s)[2]

\* A string's bytes.  \n \t \r \" \\ and \0 come before two hex digits, so
\* that a zero and the digit after it are two bytes.
BACKSLASH == 92
Escapes == [c \in {110, 116, 114, 34, 92, 48} |->
              CASE c = 110 -> 10 [] c = 116 -> 9 [] c = 114 -> 13 [] c = 48 -> 0 [] OTHER -> c]
hex_digit(c) == CASE c \in 48 .. 57  -> {c - 48}
                  [] c \in 97 .. 102 -> {c - 87}
                  [] c \in 65 .. 70  -> {c - 55}
                  [] OTHER           -> {}
unescape_wat_string(chars) ==
  LET From[i \in Nat] ==
        IF i > Len(chars) THEN <<>>
        ELSE IF chars[i] # BACKSLASH \/ i = Len(chars) THEN <<chars[i]>> \o From[i + 1]
        ELSE IF chars[i + 1] \in DOMAIN Escapes
             THEN <<Escapes[chars[i + 1]]>> \o From[i + 2]
        ELSE LET two == IF i + 2 > Len(chars) THEN {}
                        ELSE {16 * hi + lo : hi \in hex_digit(chars[i + 1]),
                                             lo \in hex_digit(chars[i + 2])}
             IN  IF two = {} THEN <<chars[i]>> \o From[i + 1]
                 ELSE <<Min(two)>> \o From[i + 3]
  IN  From[1]
Bytes(s) == unescape_wat_string(Value(s))
bump(s) == [s EXCEPT !.pos = @ + 1]

expect(s, kind) == IF Is(s, kind) THEN {bump(s)} ELSE {}
expect_keyword(s, word) == IF Kw(s, word) THEN {bump(s)} ELSE {}
try_identifier(s) == IF Is(s, "id") THEN bump(s) ELSE s
IntAt(s) == IF Is(s, "int") THEN Value(s) ELSE 0
SkipInt(s) == IF Is(s, "int") THEN bump(s) ELSE s

\* The '(' is consumed already.
skip_rest_of_list(s) ==
  LET Skip[p \in Nat, depth \in Nat] ==
        IF depth = 0 THEN {p}
        ELSE IF p > Len(s.src) THEN {}
        ELSE Skip[p + 1, CASE s.src[p][1] = "(" -> depth + 1
                           [] s.src[p][1] = ")" -> depth - 1
                           [] OTHER             -> depth]
  IN  {[s EXCEPT !.pos = p] : p \in Skip[s.pos, 1]}

\* The first entry of that name, else none.
Lookup(names, id, none) ==
  LET hits == {k \in 1 .. Len(names) : names[k][1] = id}
  IN  IF hits = {} THEN none ELSE names[Min(hits)][2]

\* An index that is a number or a name.  The digits of a name count where no
\* local or type bears it; a function that is not defined yet is 0.
Index(s, Resolve(_)) ==
  CASE Is(s, "int") -> [bump(s) EXCEPT !.idx = Value(s)]
    [] Is(s, "id")  -> [bump(s) EXCEPT !.idx = Resolve(Value(s))]
    [] OTHER        -> [s EXCEPT !.idx = 0]
parse_local_or_func_idx(s) == Index(s, LAMBDA id : Lookup(s.local_names, id, id.digits))
parse_func_idx(s) == Index(s, LAMBDA id : Lookup(s.func_names, id, 0))

-----------------------------------------------------------------------------
(* Types.                                                                  *)

ValTypes == {"i32", "i64", "f32", "f64"}
IsValType(token) == token[1] = "kw" /\ token[2] \in ValTypes
Width(s) == Max({n \in 0 .. Len(s.src) - s.pos + 1 :
                   \A k \in 0 .. n - 1 : IsValType(s.src[s.pos + k])})
\* The value types at hand, at most max of them.
Types(s, max) == [k \in 1 .. Min({Width(s), max}) |-> s.src[s.pos + k - 1][2]]
SkipTypes(s, max) == [s EXCEPT !.pos = @ + Min({Width(s), max})]
All(s) == Len(s.src)

parse_param_or_result_group(s) ==
  LET t == try_identifier(bump(s))
      u == bump(s)
  IN  CASE Kw(s, "param")  ->
             expect([SkipTypes(t, All(t)) EXCEPT !.sig.params = @ \o Types(t, All(t))], ")")
        [] Kw(s, "result") ->
             expect([SkipTypes(u, All(u)) EXCEPT !.sig.results = @ \o Types(u, All(u))], ")")
        [] OTHER           -> skip_rest_of_list(s)

RECURSIVE TypeGroups(_)
TypeGroups(s) ==
  IF Is(s, "(") THEN Each(parse_param_or_result_group(bump(s)), LAMBDA t : TypeGroups(t)) ELSE {s}
parse_func_type_fields(s) == TypeGroups([s EXCEPT !.sig = NoSig])

\* The index of sig among the types, where it is added if it is new.
intern_type(s) ==
  LET same == {k \in 1 .. Len(s.types) : s.types[k] = s.sig}
  IN  IF same # {} THEN [s EXCEPT !.idx = Min(same) - 1]
      ELSE [s EXCEPT !.idx = Len(s.types), !.types = Append(@, s.sig)]

resolve_type_name(s, id) == Lookup(s.type_names, id, id.digits)
TypeRef(s) == IF Is(s, "id") \/ Is(s, "int")
              THEN {Index(s, LAMBDA id : resolve_type_name(s, id))} ELSE {}

parse_type_use(s) ==
  LET t == [bump(s) EXCEPT !.sig = NoSig]
  IN  CASE ~Is(s, "(") -> {intern_type([s EXCEPT !.sig = NoSig])}
        [] Is(s, "(") /\ Kw(t, "type") ->
             Each(TypeRef(bump(t)), LAMBDA u :
             Each(expect(u, ")"), LAMBDA v : parse_func_type_fields(v)))
        [] OTHER ->
             Each(parse_param_or_result_group(t), LAMBDA u :
                  {intern_type(v) : v \in TypeGroups(u)})

parse_type_def(s) ==
  LET t == bump(s)
      Name(u) == IF Is(t, "id")
                 THEN [u EXCEPT !.type_names = Append(@, <<Value(t), Len(u.types) - 1>>)] ELSE u
  IN  Each(expect(try_identifier(t), "("), LAMBDA u :
      Each(expect_keyword(u, "func"), LAMBDA v :
      Each(parse_func_type_fields(v), LAMBDA w :
      Each(expect(w, ")"), LAMBDA x :
           expect(Name([x EXCEPT !.types = Append(@, x.sig)]), ")")))))

-----------------------------------------------------------------------------
(* Instructions: an opcode byte and its immediates, each with the way it   *)
(* is written: "u", "s" for LEB128, "b" for a byte, "f32", "f64".          *)

Plain == {<<"unreachable", 0>>, <<"nop", 1>>, <<"else", 5>>, <<"end", 11>>, <<"return", 15>>,
  <<"drop", 26>>, <<"select", 27>>,
  <<"i32.eqz", 69>>, <<"i32.eq", 70>>, <<"i32.ne", 71>>, <<"i32.lt_s", 72>>, <<"i32.lt_u", 73>>,
  <<"i32.gt_s", 74>>, <<"i32.gt_u", 75>>, <<"i32.le_s", 76>>, <<"i32.le_u", 77>>,
  <<"i32.ge_s", 78>>, <<"i32.ge_u", 79>>, <<"i64.eqz", 80>>, <<"i64.eq", 81>>, <<"i64.ne", 82>>,
  <<"i32.add", 106>>, <<"i32.sub", 107>>, <<"i32.mul", 108>>, <<"i32.div_s", 109>>,
  <<"i32.div_u", 110>>, <<"i32.rem_s", 111>>, <<"i32.rem_u", 112>>, <<"i32.and", 113>>,
  <<"i32.or", 114>>, <<"i32.xor", 115>>, <<"i32.shl", 116>>, <<"i32.shr_s", 117>>,
  <<"i32.shr_u", 118>>, <<"i64.add", 124>>, <<"i64.sub", 125>>, <<"i64.mul", 126>>,
  <<"i64.and", 131>>, <<"i64.or", 132>>, <<"i64.xor", 133>>,
  <<"f32.add", 146>>, <<"f32.sub", 147>>, <<"f32.mul", 148>>, <<"f32.div", 149>>,
  <<"f64.add", 160>>, <<"f64.sub", 161>>, <<"f64.mul", 162>>, <<"f64.div", 163>>}
Locals == {<<"local.get", 32>>, <<"get_local", 32>>, <<"local.set", 33>>, <<"set_local", 33>>,
           <<"local.tee", 34>>, <<"tee_local", 34>>}
Memory == {<<"i32.load", 40>>, <<"i32.load8_s", 44>>, <<"i32.load8_u", 45>>, <<"i32.store", 54>>,
           <<"i32.store8", 58>>}
Consts == {<<"i32.const", 65>>, <<"i64.const", 66>>}
Floats == {<<"f32.const", 67>>, <<"f64.const", 68>>}
Blocks == {<<"block", 2>>, <<"loop", 3>>, <<"if", 4>>}
Branches == {<<"br", 12>>, <<"br_if", 13>>}

Words(table) == {e[1] : e \in table}
OpOf(word, table) == (CHOOSE e \in table : e[1] = word)[2]

Instr(op, imms) == <<[op |-> op, imms |-> imms]>>

VOID == 64
ValByte(t) == CASE t = "i32" -> 127 [] t = "i64" -> 126 [] t = "f32" -> 125 [] t = "f64" -> 124

\* (result t), or nothing is consumed.
parse_block_type(s) ==
  LET t == bump(bump(s))
  IN  IF Is(s, "(") /\ Kw(bump(s), "result")
      THEN expect([bump(t) EXCEPT !.idx = IF IsValType(lookahead(t)) THEN ValByte(Value(t))
                                          ELSE VOID], ")")
      ELSE {[s EXCEPT !.idx = VOID]}

\* A label that is a name is 0, whatever block bears that name.
parse_label_idx(s) ==
  CASE Is(s, "int") -> [bump(s) EXCEPT !.idx = Value(s)]
    [] Is(s, "id")  -> [bump(s) EXCEPT !.idx = 0]
    [] OTHER        -> [s EXCEPT !.idx = 0]


\* offset= and align= in any order; of two the later one counts.
parse_memarg(s) ==
  LET n == Max({k \in 0 .. Len(s.src) - s.pos + 1 :
                  \A j \in 0 .. k - 1 : s.src[s.pos + j][1] \in {"offset=", "align="}})
      Of(kind) == {j \in s.pos .. s.pos + n - 1 : s.src[j][1] = kind}
      Last(kind) == IF Of(kind) = {} THEN 0 ELSE s.src[Max(Of(kind))][2]
  IN  [s EXCEPT !.pos = @ + n, !.op = <<<<"u", Last("align=")>>, <<"u", Last("offset=")>>>>]

\* The keyword is consumed; an unknown one gives no instruction.
build_instr(s, word) ==
  LET With(t, op, how) == [t EXCEPT !.op = Instr(op, <<<<how, t.idx>>>>)]
      const == [SkipInt(s) EXCEPT !.idx = IntAt(s)]
      float == IF Is(s, "float") THEN [bump(s) EXCEPT !.idx = Value(s)] ELSE const
      m == parse_memarg(s)
  IN  CASE word \in Words(Consts) -> {With(const, OpOf(word, Consts), "s")}
        [] word = "f32.const"     -> {With(float, OpOf(word, Floats), "f32")}
        [] word = "f64.const"     -> {With(float, OpOf(word, Floats), "f64")}
        [] word \in Words(Locals) ->
             {With(parse_local_or_func_idx(s), OpOf(word, Locals), "u")}
        [] word = "call"          -> {With(parse_func_idx(s), 16, "u")}
        [] word \in Words(Branches) -> {With(parse_label_idx(s), OpOf(word, Branches), "u")}
        [] word \in Words(Memory) -> {[m EXCEPT !.op = Instr(OpOf(word, Memory), m.op)]}
        [] word \in Words(Blocks) ->
             {With(t, OpOf(word, Blocks), "b") : t \in parse_block_type(s)}
        [] word \in Words(Plain)  -> {[s EXCEPT !.op = Instr(OpOf(word, Plain), <<>>)]}
        [] OTHER                  -> {[s EXCEPT !.op = <<>>]}

Emitted(s, instrs) == [s EXCEPT !.code = @ \o instrs]

RECURSIVE parse_instrs(_), parse_folded_instr(_), SubExprs(_), Condition(_)

\* Up to ')' or the end; what is neither '(' nor a keyword is skipped.
parse_instrs(s) ==
  CASE Is(s, ")") \/ Is(s, "eof") -> {s}
    [] Is(s, "(")  -> Each(parse_folded_instr(bump(s)), LAMBDA t : parse_instrs(t))
    [] Is(s, "kw") -> Each(build_instr(bump(s), Value(s)),
                           LAMBDA t : parse_instrs(Emitted(t, t.op)))
    [] OTHER       -> parse_instrs(bump(s))

SubExprs(s) ==
  IF Is(s, "(") THEN Each(parse_folded_instr(bump(s)), LAMBDA t : SubExprs(t)) ELSE {s}

\* The condition of a folded if: what comes before (then.
Condition(s) ==
  IF ~Is(s, "(") \/ Kw(bump(s), "then") THEN {s}
  ELSE Each(parse_folded_instr(bump(s)), LAMBDA t : Condition(t))

\* (then ...) or (else ...), the '(' and the keyword included.
Arm(s) == Each(parse_instrs(bump(bump(s))), LAMBDA t : expect(t, ")"))
ThenArm(s) == IF Is(s, "(") THEN Arm(s) ELSE {s}
\* An else without instructions is left out.
ElseArm(s) ==
  CASE ~Is(s, "(") -> {s}
    [] Is(s, "(") /\ Kw(bump(s), "else") ->
         {IF t.code = Emitted(s, Instr(5, <<>>)).code THEN [t EXCEPT !.code = s.code] ELSE t :
            t \in Arm(Emitted(s, Instr(5, <<>>)))}
    [] OTHER -> skip_rest_of_list(bump(s))

Close(s) == {Emitted(t, Instr(11, <<>>)) : t \in expect(s, ")")}

parse_folded_if(s) ==
  Each(parse_block_type(try_identifier(bump(s))), LAMBDA t :
  Each(Condition(t), LAMBDA u :
  Each(ThenArm(Emitted(u, Instr(4, <<<<"b", t.idx>>>>))), LAMBDA v :
  Each(ElseArm(v), LAMBDA w : Close(w)))))

parse_folded_block_or_loop(s) ==
  Each(parse_block_type(try_identifier(bump(s))), LAMBDA t :
  Each(parse_instrs(Emitted(t, Instr(OpOf(Value(s), Blocks), <<<<"b", t.idx>>>>))),
       LAMBDA u : Close(u)))

\* The '(' is consumed; the operands come before the operator.
parse_folded_instr(s) ==
  CASE Kw(s, "if") -> parse_folded_if(s)
    [] Kw(s, "block") \/ Kw(s, "loop") -> parse_folded_block_or_loop(s)
    [] Is(s, "kw") /\ ~(\E w \in Words(Blocks) : Kw(s, w)) ->
         Each(build_instr(bump(s), Value(s)), LAMBDA t :
         Each(SubExprs(t), LAMBDA u : {Emitted(v, t.op) : v \in expect(u, ")")}))
    [] OTHER -> skip_rest_of_list(s)

-----------------------------------------------------------------------------
(* Functions.                                                              *)

\* The type is interned before the first local or instruction.
Typed(s) == IF s.fn.typed THEN s
            ELSE LET t == intern_type(s)
                 IN  [t EXCEPT !.fn.typed = TRUE, !.fn.type = t.idx]

\* (param ...) and (local ...): one type after a name, else any number.
Declare(s, t, field) ==
  LET max == IF Is(s, "id") THEN 1 ELSE All(s)
      tys == Types(t, max)
      u == [SkipTypes(t, max) EXCEPT
              !.fn.next = @ + Len(tys),
              !.local_names = IF Is(s, "id") /\ tys # <<>>
                              THEN Append(@, <<Value(s), t.fn.next>>) ELSE @]
  IN  expect(IF field = "param" THEN [u EXCEPT !.sig.params = @ \o tys]
             ELSE [u EXCEPT !.fn.locals = @ \o tys], ")")

FuncEnd(s) ==
  Each(parse_instrs(s), LAMBDA t :
       expect([t EXCEPT !.funcs = Append(@, [type |-> t.fn.type, locals |-> t.fn.locals,
                                             body |-> t.code])], ")"))

InlineImport(s) ==
  Each(expect(s, "str"), LAMBDA t :
  Each(expect(t, "str"), LAMBDA u :
  Each(expect(u, ")"), LAMBDA v :
  LET w == intern_type(v)
  IN  expect([w EXCEPT !.imports = Append(@, [names |-> <<Bytes(s), Bytes(t)>>,
                                              type |-> w.idx])], ")"))))

RECURSIVE Header(_)
Header(s) ==
  LET t == bump(s)
      u == bump(t)
      named == try_identifier(u)
      exported == [bump(u) EXCEPT !.exports =
                     Append(@, [name |-> Bytes(u), kind |-> 0, index |-> s.fn.idx])]
      results == [SkipTypes(u, All(u)) EXCEPT !.sig.results = @ \o Types(u, All(u))]
      Again(S) == Each(S, LAMBDA v : Header(v))
  IN  CASE ~Is(s, "(") -> FuncEnd(Typed(s))
        [] Is(s, "(") /\ Kw(t, "export") ->
             IF Is(u, "str") THEN Again(expect(exported, ")")) ELSE {}
        [] Is(s, "(") /\ Kw(t, "import") -> InlineImport(u)
        [] Is(s, "(") /\ Kw(t, "type") ->
             Again(Each(TypeRef(u), LAMBDA v :
                        expect([v EXCEPT !.fn.typed = TRUE, !.fn.type = v.idx], ")")))
        [] Is(s, "(") /\ Kw(t, "param") -> Again(Declare(u, named, "param"))
        [] Is(s, "(") /\ Kw(t, "result") -> Again(expect(results, ")"))
        [] Is(s, "(") /\ Kw(t, "local") ->
             Again(Declare(u, Typed(named), "local"))
        [] OTHER -> Each(parse_folded_instr(Typed(t)), LAMBDA v : FuncEnd(v))

parse_func_def(s) ==
  LET t == bump(s)
      fidx == Len(s.imports) + Len(s.funcs)
      fresh == [try_identifier(t) EXCEPT
                  !.func_names = IF Is(t, "id") THEN Append(@, <<Value(t), fidx>>) ELSE @,
                  !.local_names = <<>>, !.sig = NoSig, !.code = <<>>,
                  !.fn = [NoFn EXCEPT !.idx = fidx]]
  IN  Header(fresh)

-----------------------------------------------------------------------------
(* The other fields of a module.                                           *)

parse_import(s) ==
  LET m == bump(s)
      f == bump(m)
      Func(t) == [try_identifier(t) EXCEPT
                    !.func_names = IF Is(t, "id")
                                   THEN Append(@, <<Value(t), Len(t.imports)>>) ELSE @]
      Added(t) == [t EXCEPT !.imports = Append(@, [names |-> <<Bytes(m), Bytes(f)>>,
                                                   type |-> t.idx])]
  IN  IF ~Is(m, "str") \/ ~Is(f, "str") THEN {}
      ELSE Each(expect(bump(f), "("), LAMBDA t :
           IF ~Kw(t, "func") THEN skip_rest_of_list(t)
           ELSE Each(parse_type_use(Func(bump(t))), LAMBDA u :
                Each(expect(Added(u), ")"), LAMBDA v : expect(v, ")"))))

parse_memory(s) ==
  LET t == try_identifier(bump(s))
      Sizes(u) ==
        LET max == SkipInt(u)
        IN  expect([SkipInt(max) EXCEPT
                      !.memories = Append(@, [min |-> IntAt(u),
                        max |-> IF Is(max, "int") THEN <<Value(max)>> ELSE <<>>])], ")")
  IN  CASE ~Is(t, "(") -> Sizes(t)
        [] Is(t, "(") /\ Kw(bump(t), "import") ->
             Each(skip_rest_of_list(bump(t)), LAMBDA u : expect(u, ")"))
        [] OTHER -> Each(skip_rest_of_list(bump(t)), LAMBDA u : Sizes(u))

ExportKinds == <<"func", "table", "memory", "global">>
parse_export(s) ==
  LET n == bump(s)
      Kind(t) == {k \in 1 .. 4 : Kw(t, ExportKinds[k])}
  IN  IF ~Is(n, "str") THEN {}
      ELSE Each(expect(bump(n), "("), LAMBDA t :
           IF Kind(t) = {} THEN Each(skip_rest_of_list(t), LAMBDA u : expect(u, ")"))
           ELSE LET u == parse_func_idx(bump(t))
                IN  Each(expect(u, ")"), LAMBDA v :
                    {[w EXCEPT !.exports = Append(@, [name |-> Bytes(n), index |-> u.idx,
                                                      kind |-> Min(Kind(t)) - 1])] :
                       w \in expect(v, ")")}))

\* The offset, with or without (offset ...) around it, then the strings.
RECURSIVE Strings(_)
Strings(s) == IF Is(s, "str") THEN Bytes(s) \o Strings(bump(s)) ELSE <<>>
RECURSIVE AfterStrings(_)
AfterStrings(s) == IF Is(s, "str") THEN AfterStrings(bump(s)) ELSE s
parse_data(s) ==
  LET t == SkipInt(bump(s))
      u == bump(t)
      Rest(v, at) == expect([AfterStrings(v) EXCEPT
                               !.data = Append(@, [at |-> at, bytes |-> Strings(v)])], ")")
  IN  IF ~Is(t, "(") THEN Rest(t, 0)
      ELSE Each(expect_keyword(IF Kw(u, "offset") THEN bump(bump(u)) ELSE u, "i32.const"),
                LAMBDA v : Each(expect(SkipInt(v), ")"), LAMBDA w : Rest(w, IntAt(v))))

\* One '(...)' of a module.
Field(s) ==
  CASE Kw(s, "type")   -> parse_type_def(s)
    [] Kw(s, "import") -> parse_import(s)
    [] Kw(s, "func")   -> parse_func_def(s)
    [] Kw(s, "memory") -> parse_memory(s)
    [] Kw(s, "export") -> parse_export(s)
    [] Kw(s, "data")   -> parse_data(s)
    [] OTHER           -> skip_rest_of_list(s)
=============================================================================

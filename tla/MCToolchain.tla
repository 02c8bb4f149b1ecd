---------------------------- MODULE MCToolchain -----------------------------
(***************************************************************************)
(* Sources generated from small programs, in the flat and in the folded    *)
(* form, and binaries written by hand, each with what it means.            *)
(***************************************************************************)
EXTENDS Toolchain

W(word) == <<"kw", word>>
N(n) == <<"int", n>>
Id(name) == <<"id", [name |-> name, digits |-> 0]>>
S(bytes) == <<"str", bytes>>
P(tokens) == <<<<"(">>>> \o tokens \o <<<<")">>>>
Join(seqs) == SeqX!FlattenSeq(seqs)
Map(F(_), s) == [k \in 1 .. Len(s) |-> F(s[k])]

MCFloat(v, type) == [k \in 1 .. IF type = "f32" THEN 4 ELSE 8 |-> (v + 50 * k) % 256]
MCHash(body, pc) == body + pc

E == <<101>>      \* the names "e", "p", "q", "m", "n"
Pn == <<112>>
Qn == <<113>>
Mn == <<109>>
Nn == <<110>>
MCRegistry == {<<E, Pn>>, <<E, Qn>>}

-----------------------------------------------------------------------------
(* Expressions: their text in both styles and what they mean.              *)

Op(word, imms, op, val, args) ==
  [form |-> "op", word |-> word, imms |-> imms, op |-> op, val |-> val, args |-> args,
   then |-> <<>>, else |-> <<>>]
Blk(word, res, op, val, body) ==
  [form |-> "block", word |-> word, imms |-> res, op |-> op, val |-> val, args |-> <<>>,
   then |-> body, else |-> <<>>]
If(res, val, cond, then, els) ==
  [form |-> "if", word |-> "if", imms |-> res, op |-> 4, val |-> val, args |-> cond,
   then |-> then, else |-> els]

RECURSIVE Text(_, _), Means(_)
Texts(es, style) == Join(Map(LAMBDA e : Text(e, style), es))
Text(e, style) ==
  LET args == Texts(e.args, style)
      then == Texts(e.then, style)
      els == Texts(e.else, style)
      head == <<W(e.word)>> \o e.imms
  IN  CASE style = "flat" ->
             args \o head \o then
             \o (IF e.else = <<>> THEN <<>> ELSE <<W("else")>> \o els)
             \o (IF e.form = "op" THEN <<>> ELSE <<W("end")>>)
        [] style = "folded" ->
             CASE e.form = "op"    -> P(head \o args)
               [] e.form = "block" -> P(head \o then)
               [] e.form = "if"    -> P(head \o args \o P(<<W("then")>> \o then)
                                        \o P(<<W("else")>> \o els))

Meanings(es) == Join(Map(LAMBDA e : Means(e), es))
Means(e) ==
  Meanings(e.args) \o <<<<e.op, e.val>>>> \o Meanings(e.then)
  \o (IF e.else = <<>> THEN <<>> ELSE <<<<5, 0>>>> \o Meanings(e.else))
  \o (IF e.form = "op" THEN <<>> ELSE <<<<11, 0>>>>)

Const(v) == Op("i32.const", <<N(v)>>, 65, v, <<>>)
Long(v) == Op("i64.const", <<N(v)>>, 66, v, <<>>)
Result == P(<<W("result"), W("i32")>>)
I32 == 127

\* Instructions without immediates, in the order of opcode.rs from a first opcode.
Ops(first, words) == {<<first + k - 1, words[k]>> : k \in 1 .. Len(words)}
Instructions ==
  Ops(0, <<"unreachable", "nop">>) \cup Ops(15, <<"return">>) \cup Ops(26, <<"drop", "select">>)
  \cup Ops(69, <<"i32.eqz", "i32.eq", "i32.ne", "i32.lt_s", "i32.lt_u", "i32.gt_s", "i32.gt_u",
                 "i32.le_s", "i32.le_u", "i32.ge_s", "i32.ge_u", "i64.eqz", "i64.eq", "i64.ne">>)
  \cup Ops(106, <<"i32.add", "i32.sub", "i32.mul", "i32.div_s", "i32.div_u", "i32.rem_s",
                  "i32.rem_u", "i32.and", "i32.or", "i32.xor", "i32.shl", "i32.shr_s",
                  "i32.shr_u">>)
  \cup Ops(124, <<"i64.add", "i64.sub", "i64.mul">>) \cup Ops(131, <<"i64.and", "i64.or", "i64.xor">>)
  \cup Ops(146, <<"f32.add", "f32.sub", "f32.mul", "f32.div">>)
  \cup Ops(160, <<"f64.add", "f64.sub", "f64.mul", "f64.div">>)

Numbers == {0, 1, -1, 63, 64, -64, -65, 127, 128, 8191, 8192, -8192, -8193, 32767, -32768}

\* loc names local 0 of the function.
Bodies(loc) ==
  LET get == Op("local.get", <<loc>>, 32, 0, <<>>)
      set(e) == Op("local.set", <<loc>>, 33, 0, <<e>>)
      tee(e) == Op("tee_local", <<loc>>, 34, 0, <<e>>)
      brif(n, e) == Op("br_if", <<N(n)>>, 13, n, <<e>>)
      br(n) == Op("br", <<N(n)>>, 12, n, <<>>)
      add(d, e) == Op("i32.add", <<>>, 106, 0, <<d, e>>)
  IN  {<<Op(i[2], <<>>, i[1], 0, <<Const(1), get>>)>> : i \in Instructions}
      \cup {<<Const(v)>> : v \in Numbers} \cup {<<Long(v)>> : v \in {-1, 64, 32767, -32768}}
      \cup {<<>>,
            <<set(add(get, tee(Const(7)))), get>>,
            <<Op("f32.const", <<<<"float", 3>>>>, 67, 0, <<>>),
              Op("f64.const", <<N(2)>>, 68, 0, <<>>), get>>,
            <<Op("i32.load", <<<<"offset=", 200>>, <<"align=", 2>>>>, 40, 200, <<get>>)>>,
            <<Op("i32.load8_s", <<>>, 44, 0, <<get>>), Op("i32.load8_u", <<>>, 45, 0, <<get>>)>>,
            <<Op("i32.store", <<<<"align=", 2>>, <<"offset=", 4>>>>, 54, 4, <<get, Const(1)>>),
              Op("i32.store8", <<<<"offset=", 1>>>>, 58, 1, <<get, Const(1)>>)>>,
            <<Blk("block", <<>>, 2, VOID, <<brif(0, get), set(Const(300))>>), get>>,
            <<Blk("block", Result, 2, I32, <<Const(5)>>)>>,
            <<Blk("block", <<>>, 2, VOID,
                  <<Blk("loop", <<>>, 3, VOID, <<brif(1, get), set(add(get, Const(-1))), br(0)>>)>>)>>,
            <<If(<<>>, VOID, <<get>>, <<set(Const(1))>>, <<>>), get>>,
            <<If(Result, I32, <<add(get, Const(2))>>, <<Const(3)>>, <<Const(4)>>)>>,
            <<If(<<>>, VOID, <<get>>,
                 <<Blk("loop", <<>>, 3, VOID, <<brif(0, get)>>)>>, <<br(0)>>)>>}

-----------------------------------------------------------------------------
(* Programs: what stands around a body.                                    *)

I32s(n) == [k \in 1 .. n |-> W("i32")]
Param == P(<<W("param"), W("i32")>>)
Returns == P(<<W("result"), W("i32")>>)
Module(fields) == P(<<W("module")>> \o fields)

NoCode == [imports |-> 0, hosts |-> <<>>, sigs |-> <<>>, bodies |-> <<>>, locals |-> <<>>, globals |-> <<>>,
           mutable |-> <<>>, table |-> <<>>, pages |-> 0]
None == [n \in {Mn, Nn} |-> {}]
Sig(p, r) == [params |-> p, results |-> r]
Body(es) == Meanings(es) \o <<<<11, 0>>>>

Source(fields, code, memory, exports) ==
  [tokens |-> Module(fields), bytes |-> <<>>, cuts |-> FALSE,
   meant |-> [err |-> "ready", code |-> code, memory |-> memory, exports |-> exports]]
Refused(fields, err) ==
  [tokens |-> Module(fields), bytes |-> <<>>, cuts |-> FALSE,
   meant |-> [err |-> err, code |-> NoCode, memory |-> {}, exports |-> None]]

\* (func (export "m") (param i32) (result i32) ...)
Inline(es, style) ==
  Source(P(<<W("func")>> \o P(<<W("export"), S(Mn)>>) \o Param \o Returns \o Texts(es, style)),
         [NoCode EXCEPT !.sigs = <<Sig(1, 1)>>, !.bodies = <<Body(es)>>, !.locals = <<0>>],
         {}, [None EXCEPT ![Mn] = {0}])

\* A named parameter, locals of two types, an export by name, a memory with data.
Named(es, style) ==
  Source(P(<<W("func"), Id("f")>> \o P(<<W("param"), Id("x"), W("i32")>>) \o Returns
           \o P(<<W("local"), Id("y"), W("i32")>>) \o P(<<W("local"), W("i32"), W("i64")>>)
           \o Texts(es, style))
         \o P(<<W("memory"), N(1), N(2)>>) \o P(<<W("export"), S(Nn)>> \o P(<<W("memory"), N(0)>>))
         \o P(<<W("export"), S(Mn)>> \o P(<<W("func"), Id("f")>>))
         \o P(<<W("data")>> \o P(<<W("i32.const"), N(100)>>) \o <<S(<<1, 92, 110>>), S(<<92, 70, 102, 92, 122>>)>>),
         [NoCode EXCEPT !.sigs = <<Sig(1, 1)>>, !.bodies = <<Body(es)>>, !.locals = <<3>>, !.pages = 1],
         {<<100, 1>>, <<101, 10>>, <<102, 255>>, <<103, 92>>, <<104, 122>>}, [None EXCEPT ![Mn] = {0}])

\* Imports, types by name and by number, a call of each function, fields the
\* assembler skips.
Calls(es, style) ==
  LET call(f, n) == Op("call", <<f>>, 16, n, <<>>)
      body == es \o <<call(Id("p"), 0), call(Id("g"), 2), call(N(1), 1)>>
  IN  Source(P(<<W("type"), Id("t")>> \o P(<<W("func")>> \o Param \o Returns))
             \o P(<<W("type")>> \o P(<<W("func")>> \o Returns))
             \o P(<<W("import"), S(E), S(Pn)>> \o P(<<W("func"), Id("p")>> \o P(<<W("param"), W("i32"), W("i32")>>)))
             \o P(<<W("import"), S(E), S(Qn)>> \o P(<<W("func"), Id("q")>> \o P(<<W("type"), N(1)>>)))
             \o P(<<W("table"), N(1), W("funcref")>>) \o P(<<W("global"), Id("z")>> \o P(<<W("mut"), W("i32")>>))
             \o P(<<W("func"), Id("g")>> \o P(<<W("type"), Id("t")>>) \o Texts(<<Const(1)>>, style))
             \o P(<<W("func"), Id("h")>> \o P(<<W("export"), S(Mn)>>) \o Param \o Returns \o Texts(body, style))
             \o P(<<W("export"), S(Nn)>> \o P(<<W("func"), Id("g")>>)),
             [NoCode EXCEPT !.imports = 2, !.hosts = <<<<E, Pn>>, <<E, Qn>>>>,
                            !.sigs = <<Sig(2, 0), Sig(0, 1), Sig(1, 1), Sig(1, 1)>>,
                            !.bodies = <<Body(<<Const(1)>>), Body(body)>>, !.locals = <<0, 0>>],
             {}, [None EXCEPT ![Mn] = {3}, ![Nn] = {2}])

Styles == {"flat", "folded"}
Programs ==
  UNION {{Inline(es, st) : es \in Bodies(N(0))} \cup {Named(es, st) : es \in Bodies(Id("x"))}
         \cup {Calls(es, st) : es \in Bodies(N(0))} : st \in Styles}

\* n functions of n types; refused when a table is full.
Fun(k) == P(<<W("func")>> \o P(<<W("param")>> \o I32s(k)))
Funs(n) == Join([k \in 1 .. n |-> Fun(k)])
Same(n) == Join([k \in 1 .. n |-> Fun(1)])
Atypical ==
  {Source(Funs(MAX_TYPES),
          [NoCode EXCEPT !.sigs = [k \in 1 .. MAX_TYPES |-> Sig(k, 0)],
                         !.bodies = [k \in 1 .. MAX_TYPES |-> Body(<<>>)],
                         !.locals = [k \in 1 .. MAX_TYPES |-> 0]], {}, None),
   Refused(Funs(MAX_TYPES + 1), "TooManyTypes"),
   Refused(Same(MAX_FUNCS + 1), "TooManyFuncs"),
   Refused(P(<<W("memory"), N(MAX_MEM_PAGES + 1)>>) \o Fun(1), "MemoryTooLarge"),
   Refused(P(<<W("import"), S(E), S(Mn)>> \o P(<<W("func")>>)) \o Fun(1), "ImportNotFound"),
   Refused(<<>>, "NoCodeSection"),
   Refused(<<W("func")>>, "panic"),
   Refused(P(<<W("func")>> \o P(<<W("param"), N(1)>>)), "panic")}

-----------------------------------------------------------------------------
(* Binaries that asm does not write: imports of all kinds, a table with    *)
(* elements, globals, passive data.                                        *)

Raw(id, bytes) == <<id, Len(bytes)>> \o bytes
Types2 == Raw(1, <<2, 96, 1, 127, 0, 96, 0, 1, 127>>)
Imports4 == Raw(2, <<4>> \o <<1, 101, 1, 109, 2, 1, 1, 2>> \o <<1, 101, 1, 112, 0, 0>>
                        \o <<1, 101, 1, 103, 3, 127, 0>> \o <<1, 101, 1, 113, 0, 1>>)
Funcs1 == Raw(3, <<1, 1>>)
Globals2 == Raw(6, <<2, 127, 1, 65, 192, 0, 11, 126, 0, 66, 127, 11>>)
Exports1 == Raw(7, <<1, 1, 109, 0, 2>>)
Elements2 == Raw(9, <<2, 0, 65, 1, 11, 2, 2, 0, 0, 65, 2, 11, 2, 1, 2>>)
Code1 == Raw(10, <<1, 9, 1, 2, 127, 35, 1, 26, 35, 0, 11>>)
Data1 == Raw(11, <<2, 0, 65, 228, 0, 11, 2, 9, 8, 0, 65, 228, 0, 11, 1, 7>>)
Binary(bytes, meant) == [tokens |-> <<>>, bytes |-> bytes, cuts |-> TRUE, meant |-> meant]

Handmade ==
  [err |-> "ready",
   code |-> [imports |-> 2, hosts |-> <<<<E, Pn>>, <<E, Qn>>>>, sigs |-> <<Sig(1, 0), Sig(0, 1), Sig(0, 1)>>,
             bodies |-> <<<<<<35, 1>>, <<26, 0>>, <<35, 0>>, <<11, 0>>>>>>, locals |-> <<2>>,
             globals |-> <<64, -1>>, mutable |-> <<TRUE, FALSE>>,
             table |-> <<NULL_FUNC, 2, 1, 2>>, pages |-> 0],
   memory |-> {<<100, 7>>, <<101, 8>>}, exports |-> [None EXCEPT ![Mn] = {2}]]
Binaries ==
  {Binary(MAGIC \o VERSION \o Types2 \o Imports4 \o Funcs1 \o Globals2 \o Exports1 \o Elements2
          \o Code1 \o Data1, Handmade)}

\* The loop of userland/counter: its branches name the blocks they leave.
Labelled(style) ==
  LET get == Op("local.get", <<Id("i")>>, 32, 0, <<>>)
      body == <<Blk("block", <<Id("break")>>, 2, VOID,
                    <<Blk("loop", <<Id("loop")>>, 3, VOID,
                          <<Op("br_if", <<Id("break")>>, 13, 1, <<get>>),
                            Op("br", <<Id("loop")>>, 12, 0, <<>>)>>)>>)>>
  IN  Source(P(<<W("func")>> \o P(<<W("local"), Id("i"), W("i32")>>) \o Texts(body, style)),
             [NoCode EXCEPT !.sigs = <<Sig(0, 0)>>, !.bodies = <<Body(body)>>, !.locals = <<1>>],
             {}, None)
\* A data string with the escapes of userland/httpd: \0d\0a.
Escaped ==
  Source(Fun(1) \o P(<<W("memory"), N(1)>>)
         \o P(<<W("data")>> \o P(<<W("i32.const"), N(0)>>)
              \o <<S(<<92, 48, 100, 92, 48, 97>>)>>),
         [NoCode EXCEPT !.sigs = <<Sig(1, 0)>>, !.bodies = <<Body(<<>>)>>, !.locals = <<0>>,
                        !.pages = 1], {<<0, 13>>, <<1, 10>>}, None)
MCUserland == {Labelled(style) : style \in Styles} \cup {Escaped}

Cuttable(i) == [i EXCEPT !.cuts = TRUE]
MCInputs ==
  Programs \cup Atypical \cup Binaries
  \cup {Cuttable(Calls(es, "flat")) : es \in {<<>>, <<Const(300)>>}}
  \cup {Cuttable(Named(es, "folded")) : es \in {<<>>, <<Const(-300)>>}}
=============================================================================

----------------------------- MODULE WasmLoader -----------------------------
(***************************************************************************)
(* From the bytes of a .wasm file to an instance: the section loop of      *)
(* load, the section parsers of the interpreter, the three readers of the  *)
(* import section, the data segments, and spawn, which calls them all.     *)
(* A reader gives a record: an error or "", a value, and the position that *)
(* follows.  "panic" is a slice taken past the end of its section.  Names  *)
(* are ASCII, so that from_utf8 never fails.                               *)
(***************************************************************************)
EXTENDS WasmCode, FiniteSetsExt

SeqX == INSTANCE SequencesExt

CONSTANTS
  MAX_TYPES, MAX_FUNCS, MAX_TABLE, MAX_GLOBALS, MAX_MEM_PAGES,
  SLOT_BYTES,      \* size of the memory of a slot
  Registry         \* the registered host functions: pairs of names

ASSUME LoaderAssumption ==
  /\ {MAX_TYPES, MAX_FUNCS, MAX_TABLE, MAX_GLOBALS, MAX_MEM_PAGES} \subseteq Nat
  /\ SLOT_BYTES \in Nat

NULL_FUNC == -1

Done(val, cur) == [err |-> "", val |-> val, cur |-> cur]
Bad(err) == [err |-> err, val |-> <<>>, cur |-> 0]
Malformed == Bad("MalformedCode")
Then(r, K(_)) == IF r.err # "" THEN r ELSE K(r)

Leb(b, cur) ==
  IF cur > Len(b) THEN Bad("panic")
  ELSE IF read_u32_leb128(b, cur) = {} THEN Malformed
  ELSE LET r == The(read_u32_leb128(b, cur)) IN Done(r.val, cur + r.n)

SignedLeb(b, cur) ==
  IF cur > Len(b) THEN Bad("panic")
  ELSE IF read_i32_leb128(b, cur) = {} THEN Malformed
  ELSE LET r == The(read_i32_leb128(b, cur)) IN Done(r.val, cur + r.n)

Byte(b, cur) == IF cur >= Len(b) THEN Malformed ELSE Done(At(b, cur), cur + 1)

\* One byte that must be x.
Marker(b, cur, x) == Then(Byte(b, cur), LAMBDA m : IF m.val = x THEN m ELSE Malformed)

\* n items one after the other; an error keeps the items before it.
Many(b, n, cur, Item(_, _)) ==
  LET got[k \in 0 .. n] ==
        IF k = 0 THEN Done(<<>>, cur)
        ELSE Then(got[k - 1],
                  LAMBDA g : LET x == Item(b, g.cur)
                             IN  IF x.err # "" THEN [x EXCEPT !.val = g.val]
                                 ELSE Done(Append(g.val, x.val), x.cur))
  IN  got[n]

\* A count, at most max, and that many items.
Vector(b, cur, max, full, Item(_, _)) ==
  Then(Leb(b, cur), LAMBDA c : IF c.val > max THEN Bad(full)
                               ELSE Many(b, c.val, c.cur, Item))
NoMax == 2^I32_BITS

-----------------------------------------------------------------------------
(* load: the header, then one slice per known section; of two sections     *)
(* with the same id the later one counts.                                  *)

MAGIC == <<0, 97, 115, 109>>
VERSION == <<1, 0, 0, 0>>
Sections == 1 .. 11
NoSections == [id \in Sections |-> {}]

\* Mutant: a section is cut to what is left of the file.
PayloadCut(bytes, start, end) == {SubSeq(bytes, start + 1, Min({end, Len(bytes)}))}

\* The slice of a section, if the file has all of it.
Payload(bytes, start, end) ==
  IF end > Len(bytes) THEN {} ELSE {SubSeq(bytes, start + 1, end)}

load(bytes) ==
  LET Loop[cur \in Nat, secs \in [Sections -> SUBSET Seq(Nat)]] ==
        IF cur >= Len(bytes) THEN Done(secs, cur)
        ELSE IF read_u32_leb128(bytes, cur + 1) = {} THEN Bad("InvalidLeb128")
        ELSE LET size == Leb(bytes, cur + 1)
                 end == size.cur + size.val
                 data == Payload(bytes, size.cur, end)
                 id == At(bytes, cur)
             IN  IF data = {} THEN Bad("UnexpectedEof")
                 ELSE Loop[end, IF id \in Sections THEN [secs EXCEPT ![id] = data] ELSE secs]
  IN  IF Len(bytes) < 8 THEN Bad("TooShort")
      ELSE IF SubSeq(bytes, 1, 4) # MAGIC THEN Bad("BadMagic")
      ELSE IF SubSeq(bytes, 5, 8) # VERSION THEN Bad("BadVersion")
      ELSE Loop[8, NoSections]

-----------------------------------------------------------------------------
(* The section parsers of the interpreter.                                 *)

FuncTypeAt(b, cur) ==
  Then(Byte(b, cur), LAMBDA m :
  Then(Leb(b, m.cur), LAMBDA p :
  Then(Leb(b, p.cur + p.val), LAMBDA r :
       Done([params |-> p.val, results |-> r.val], r.cur + r.val))))
parse_type_section(b) == Vector(b, 0, MAX_TYPES, "TooManyTypes", FuncTypeAt)

parse_function_section(b) == Vector(b, 0, MAX_FUNCS, "TooManyFuncs", Leb)

\* Groups of locals, then the body up to the end of the entry.
GroupAt(b, cur) == Then(Leb(b, cur), LAMBDA n : Done(n.val, n.cur + 1))
Total(counts) ==
  LET sum[k \in 0 .. Len(counts)] == IF k = 0 THEN 0 ELSE sum[k - 1] + counts[k]
  IN  sum[Len(counts)]
Entry(entry) ==
  Then(Vector(entry, 0, NoMax, "", GroupAt), LAMBDA g :
       IF g.cur > Len(entry) THEN Malformed
       ELSE Done([body |-> SubSeq(entry, g.cur + 1, Len(entry)), locals |-> Total(g.val)], 0))
BodyAt(b, cur) ==
  Then(Leb(b, cur), LAMBDA size :
       IF size.cur + size.val > Len(b) THEN Malformed
       ELSE Then(Entry(SubSeq(b, size.cur + 1, size.cur + size.val)), LAMBDA e :
                 [e EXCEPT !.cur = size.cur + size.val]))
parse_code_section(b) == Vector(b, 0, MAX_FUNCS, "TooManyFuncs", BodyAt)

ConstAt(b, cur) ==
  Then(Byte(b, cur), LAMBDA op :
       CASE op.val = I32_CONST -> SignedLeb(b, op.cur)
         [] op.val = I64_CONST ->
              LET r == read_i64_leb128(b, op.cur)
              IN  IF r = {} THEN Malformed ELSE Done(The(r).val, op.cur + The(r).n)
         [] OTHER -> Malformed)
GlobalAt(b, cur) ==
  IF cur + 2 > Len(b) THEN Malformed
  ELSE Then(ConstAt(b, cur + 2), LAMBDA v :
       Then(Marker(b, v.cur, END_OP), LAMBDA e :
            Done([val |-> v.val, mutable |-> At(b, cur + 1) = 1], e.cur)))
parse_global_section(b) == Vector(b, 0, MAX_GLOBALS, "TooManyGlobals", GlobalAt)

\* i32.const offset end
OffsetAt(b, cur) ==
  Then(Marker(b, cur, I32_CONST), LAMBDA m :
  Then(SignedLeb(b, m.cur), LAMBDA v :
  Then(Marker(b, v.cur, END_OP), LAMBDA e : Done(v.val, e.cur))))

\* A segment of another kind ends the section without an error.
ElementAt(b, cur) ==
  Then(Leb(b, cur), LAMBDA kind :
       IF kind.val # 0 THEN Bad("stop")
       ELSE Then(OffsetAt(b, kind.cur), LAMBDA at :
            Then(Vector(b, at.cur, NoMax, "", Leb), LAMBDA fs :
                 Done([at |-> at.val, funcs |-> fs.val], fs.cur))))
\* Entry ti of the table is the last one written there; an entry beyond the
\* table is dropped, and so is one below it.
Filled(segs) ==
  LET written == {<<s, j>> \in (1 .. Len(segs)) \X (0 .. MAX_TABLE) :
                    j < Len(segs[s].funcs) /\ segs[s].at + j \in 0 .. MAX_TABLE - 1}
      Slot(w) == segs[w[1]].at + w[2]
      Latest(ti) == CHOOSE w \in {v \in written : Slot(v) = ti} :
                      \A v \in written : Slot(v) = ti => v[1] <= w[1]
      size == IF written = {} THEN 0 ELSE Max({Slot(w) + 1 : w \in written})
  IN  [k \in 1 .. size |->
         IF \E w \in written : Slot(w) = k - 1
         THEN segs[Latest(k - 1)[1]].funcs[Latest(k - 1)[2] + 1] ELSE NULL_FUNC]
parse_element_section(b) ==
  LET segs == Vector(b, 0, NoMax, "", ElementAt)
  IN  IF segs.err \in {"", "stop"} THEN Done(Filled(segs.val), 0) ELSE segs

-----------------------------------------------------------------------------
(* The import section is read three times: to count the functions, to      *)
(* resolve their names, and for their types.  The first two check the      *)
(* length of a name and stop at the first thing they cannot read.          *)

NameAt(b, cur, checked) ==
  Then(Leb(b, cur), LAMBDA len :
       IF checked /\ len.cur + len.val > Len(b) THEN Malformed
       ELSE Done(SubSeq(b, len.cur + 1, Min({len.cur + len.val, Len(b)})), len.cur + len.val))
LimitsAt(b, cur) ==
  Then(Byte(b, cur), LAMBDA flag :
  Then(Leb(b, flag.cur), LAMBDA min : IF flag.val = 0 THEN min ELSE Leb(b, min.cur)))

\* The value is the import of a function, in a sequence, or nothing.
ImportAt(b, cur, checked) ==
  Then(NameAt(b, cur, checked), LAMBDA mod :
  Then(NameAt(b, mod.cur, checked), LAMBDA field :
  Then(Byte(b, field.cur), LAMBDA kind :
       CASE kind.val = 0 ->
              Then(Leb(b, kind.cur), LAMBDA t :
                   Done(<<[names |-> <<mod.val, field.val>>, type |-> t.val]>>, t.cur))
         [] kind.val = 1 -> Then(LimitsAt(b, kind.cur + 1), LAMBDA l : Done(<<>>, l.cur))
         [] kind.val = 2 -> Then(LimitsAt(b, kind.cur), LAMBDA l : Done(<<>>, l.cur))
         [] kind.val = 3 -> Done(<<>>, kind.cur + 2)
         [] OTHER -> Malformed)))
CheckedImport(b, cur) == ImportAt(b, cur, TRUE)
UncheckedImport(b, cur) == ImportAt(b, cur, FALSE)

for_each_func_import(b) ==
  LET found == Vector(b, 0, NoMax, "", CheckedImport)
  IN  IF found.err = "panic" THEN found ELSE Done(SeqX!FlattenSeq(found.val), 0)
count_func_imports(b) ==
  Then(for_each_func_import(b), LAMBDA fs : Done(Len(fs.val), 0))
parse_import_func_types(b) ==
  Then(Vector(b, 0, NoMax, "", UncheckedImport), LAMBDA found : Done(SeqX!FlattenSeq(found.val), 0))

-----------------------------------------------------------------------------
(* Exports, memory, data.                                                  *)

ExportAt(b, cur) ==
  Then(NameAt(b, cur, TRUE), LAMBDA name :
  Then(Byte(b, name.cur), LAMBDA kind :
  Then(Leb(b, kind.cur), LAMBDA index :
       Done([name |-> name.val, kind |-> kind.val, index |-> index.val], index.cur))))
find_export(b, name) ==
  LET es == Vector(b, 0, NoMax, "", ExportAt).val
      hits == {k \in 1 .. Len(es) : es[k].kind = 0 /\ es[k].name = name}
  IN  IF hits = {} THEN {} ELSE {es[Min(hits)].index}

read_memory_min_pages(b) ==
  LET min == Then(Leb(b, 0), LAMBDA count :
                  IF count.val = 0 THEN count
                  ELSE Then(Byte(b, count.cur), LAMBDA flag : Leb(b, flag.cur)))
  IN  IF min.err # "" THEN 0 ELSE min.val

\* A segment that starts beyond the memory, or at a negative offset, makes the
\* length to copy underflow; one that ends beyond it is cut.
SegmentAt(b, cur) ==
  Then(Leb(b, cur), LAMBDA kind :
       IF kind.val # 0 THEN Done([at |-> 0, bytes |-> <<>>], kind.cur)
       ELSE Then(OffsetAt(b, kind.cur), LAMBDA at :
            Then(NameAt(b, at.cur, TRUE), LAMBDA data :
                 IF at.val < 0 \/ at.val > SLOT_BYTES THEN Bad("panic")
                 ELSE Done([at |-> at.val, bytes |-> data.val], data.cur))))
init_memory(b) ==
  Then(Vector(b, 0, NoMax, "", SegmentAt), LAMBDA segs :
  LET mem[k \in 0 .. Len(segs.val)] ==
        IF k = 0 THEN [a \in 0 .. SLOT_BYTES - 1 |-> 0]
        ELSE LET s == segs.val[k]
             IN  [a \in 0 .. SLOT_BYTES - 1 |->
                    IF a \in s.at .. s.at + Len(s.bytes) - 1 THEN s.bytes[a - s.at + 1]
                    ELSE mem[k - 1][a]]
  IN  Done(mem[Len(segs.val)], 0))

-----------------------------------------------------------------------------
(* spawn.                                                                  *)

\* A section that is absent gives the value none.
Section(secs, id, none, Parse(_)) ==
  IF secs[id] = {} THEN Done(none, 0) ELSE Parse(The(secs[id]))

\* Interpreter::new
new(secs, import_count, hosts, pages) ==
  Then(Section(secs, 1, <<>>, parse_type_section), LAMBDA types :
  Then(Section(secs, 3, <<>>, parse_function_section), LAMBDA funcs :
  IF secs[10] = {} THEN Bad("NoCodeSection") ELSE
  Then(parse_code_section(The(secs[10])), LAMBDA code :
  Then(Section(secs, 6, <<>>, parse_global_section), LAMBDA globals :
  Then(Section(secs, 2, <<>>, parse_import_func_types), LAMBDA imports :
  Then(Section(secs, 9, <<>>, parse_element_section), LAMBDA table :
  LET n == import_count
      TypeIdx(i) == IF i <= Len(funcs.val) THEN funcs.val[i] ELSE 0
  IN  Done([types |-> types.val, import_count |-> n, hosts |-> hosts, pages |-> pages,
            bodies |-> [i \in 1 .. Len(code.val) |-> code.val[i].body],
            locals |-> [i \in 1 .. Len(code.val) |-> code.val[i].locals],
            ftype |-> [i \in 1 .. Min({MAX_FUNCS, n + Len(code.val)}) |->
                         IF i > n THEN TypeIdx(i - n) ELSE imports.val[i].type],
            globals |-> [i \in 1 .. Len(globals.val) |-> globals.val[i].val],
            mutable |-> [i \in 1 .. Len(globals.val) |-> globals.val[i].mutable],
            table |-> table.val], 0)))))))

\* Only the first MAX_FUNCS imports are looked up.
spawn(bytes) ==
  Then(load(bytes), LAMBDA module :
  LET secs == module.val
      pages == IF secs[5] = {} THEN 0 ELSE read_memory_min_pages(The(secs[5]))
      zero == [a \in 0 .. SLOT_BYTES - 1 |-> 0]
  IN  IF pages > MAX_MEM_PAGES THEN Bad("MemoryTooLarge")
      ELSE Then(Section(secs, 2, 0, count_func_imports), LAMBDA import_count :
           Then(Section(secs, 2, <<>>, for_each_func_import), LAMBDA found :
           LET hosts == [k \in 1 .. Min({Len(found.val), MAX_FUNCS}) |-> found.val[k].names]
           IN  IF \E k \in DOMAIN hosts : hosts[k] \notin Registry THEN Bad("ImportNotFound")
               ELSE Then(new(secs, import_count.val, hosts, pages), LAMBDA inst :
                    Then(Section(secs, 11, zero, init_memory), LAMBDA mem :
                         Done([inst |-> inst.val, mem |-> mem.val, exports |-> secs[7]], 0))))))
=============================================================================

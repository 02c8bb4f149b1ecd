------------------------------ MODULE MCInterp ------------------------------
(***************************************************************************)
(* Modules to run, written instruction by instruction, and their stack     *)
(* maps, computed from that list: brackets are matched instruction by      *)
(* instruction, never byte by byte.                                        *)
(***************************************************************************)
EXTENDS InterpMap, SequencesExt

MCHash(b, pc) == 3 * b + pc

-----------------------------------------------------------------------------
(* Statements.  They leave the operand stack as they find it; local 0 is   *)
(* the argument.                                                           *)

Get == <<32, 0>>
Halve == <<Get, <<65, 1>>, <<118>>, <<33, 0>>>>
Tricky == <<<<65, 11>>, <<65, 132, 0>>, <<26>>, <<26>>>>    \* immediates like opcodes
BrIfS(n) == <<Get, <<13, n>>>>

Leaves == {Tricky, <<<<15>>>>} \cup {<<<<12, n>>>> : n \in 0 .. 2}
            \cup {Halve \o BrIfS(n) : n \in 0 .. 2}
Afters == {Halve \o BrIfS(0), BrIfS(1), Tricky}
Wrappers == {<<<<<<2, 64>>>>, <<<<11>>>>>>, <<<<<<3, 64>>>>, <<<<11>>>>>>,
          <<<<Get, <<4, 64>>>>, <<<<11>>>>>>,
          <<<<Get, <<4, 64>>>>, <<<<5>>>> \o Tricky \o <<<<11>>>>>>}
Around(w, s) == w[1] \o s \o w[2]

\* Every nesting of two blocks with a leaf in the inner one and one after it.
Structured ==
  {Around(w1, Around(w2, leaf) \o after) \o <<<<11>>>> :
     w1 \in Wrappers, w2 \in Wrappers, leaf \in Leaves, after \in Afters}

-----------------------------------------------------------------------------
(* Modules.  Type 0 is (i32) -> (), 1 is (i32) -> (i32), 2 is () -> (),    *)
(* 3 is (i32, i32, i32) -> (), 4 is () -> (i32).                           *)

Types == <<[params |-> 1, results |-> 0], [params |-> 1, results |-> 1],
           [params |-> 0, results |-> 0], [params |-> 3, results |-> 0],
           [params |-> 0, results |-> 1]>>
HostFn(ends, pops, pushes, writes) ==
  [ends |-> ends, pops |-> pops, pushes |-> pushes, writes |-> writes]
ReadChar == HostFn("running", 1, 1, FALSE)
FsRead == HostFn("running", 1, 0, TRUE)
Yield == HostFn("yielded", 0, 0, FALSE)
Exit == HostFn("exited", 1, 0, FALSE)

Program(prog, hosts, ftype, locals) ==
  [list |-> prog, hosts |-> hosts, ftype |-> ftype, types |-> Types, locals |-> locals,
   globals |-> <<0, 7>>, mutable |-> <<TRUE, FALSE>>,
   table |-> <<Len(hosts), NULL_FUNC, Len(hosts) + Len(prog) - 1>>, pages |-> 1,
   data |-> [a \in {1, 2} |-> 3], entry |-> Len(hosts)]
One(prog) == Program(<<prog>>, <<>>, <<0>>, <<1>>)

EndI == <<11>>

\* Word arithmetic for the JIT: (x op c) op' x, called twice.
Arithmetic ==
  {Program(<<<<Get, <<16, 1>>, <<16, 1>>, <<26>>, EndI>>,
             <<Get, c, <<op1>>, Get, <<op2>>, EndI>>>>, <<>>, <<0, 1>>, <<0, 1>>) :
     c \in {<<65, 127>>, <<65, 192, 0>>}, op1 \in {106, 107, 108}, op2 \in {108, 113, 114, 115}}

Valid ==
  {\* recursion: f(n) = n = 0 ? 0 : f(n - 1) + 1, then a call of f through the table
    Program(<<<<Get, <<16, 1>>, <<26>>, Get, <<65, 2>>, <<17, 1, 0>>, <<26>>, EndI>>,
              <<Get, <<4, 127>>, Get, <<65, 1>>, <<107>>, <<16, 1>>, <<65, 1>>, <<106>>,
                <<5>>, <<65, 0>>, EndI, EndI>>>>,
            <<>>, <<0, 1>>, <<0, 0>>),
    \* a table of branches out of blocks that carry results
    One(<<<<2, 127>>, <<2, 64>>, <<2, 64>>, Get, <<14, 2, 0, 1, 1>>, EndI, <<65, 1>>, <<12, 1>>,
          EndI, <<65, 2>>, EndI, <<33, 1>>, <<32, 1>>, Get, Get, <<27>>, <<34, 1>>, <<26>>, EndI>>),
    \* host calls between yields, a host write, memory that grows over it
    Program(<<<<Get, <<16, 0>>, <<36, 0>>, <<16, 2>>, Get, <<16, 1>>, <<16, 2>>,
                <<35, 0>>, <<64, 0>>, <<63, 0>>, <<26>>, <<26>>, Get, <<40, 0, 1>>, <<26>>,
                Get, <<65, 6>>, <<54, 0, 2>>, Get, <<16, 3>>, EndI>>>>,
            <<ReadChar, FsRead, Yield, Exit>>, <<1, 0, 2, 0, 0>>, <<0>>),
    \* bulk memory, floats, conversions, the other widths
    One(<<<<65, 2>>, Get, <<65, 3>>, <<252, 10, 0, 0>>, Get, <<65, 3>>, <<65, 2>>, <<252, 11, 0>>,
          <<65, 0>>, <<65, 0>>, <<65, 0>>, <<252, 8, 0, 0>>, <<252, 9, 0>>,
          <<67, 0, 0, 11, 11>>, <<252, 0>>, <<168>>, <<68, 0, 0, 0, 0, 0, 0, 5, 11>>, <<166>>,
          <<33, 1>>, Get, <<45, 0, 0>>, <<194>>, Get, <<104>>, <<109>>, <<189>>, <<173>>,
          <<33, 1>>, <<1>>, Get, <<66, 3>>, <<61, 0, 0>>, EndI>>),
    \* calls of functions the JIT compiles: x + 1 + x, and one that only drops
    Program(<<<<Get, <<16, 1>>, <<16, 1>>, <<16, 2>>, Get, <<4, 64>>, <<0>>, EndI, EndI>>,
              <<Get, <<65, 1>>, <<106>>, Get, <<106>>, EndI>>,
              <<Get, <<26>>, EndI>>>>,
            <<>>, <<0, 1, 0>>, <<0, 0, 1>>),
    \* recursion without end
    Program(<<<<<<2, 64>>, Get, <<16, 0>>, EndI, EndI>>>>, <<>>, <<0>>, <<0>>),
    \* operands without end, in a loop
    Program(<<<<Get, Get, Get, Get, Get, Get, Get, <<26>>, <<26>>, <<26>>, <<26>>, <<26>>,
                <<26>>, <<26>>, EndI>>>>, <<>>, <<0>>, <<0>>),
    \* a native call that needs more operands than the interpreter has left
    Program(<<<<Get, Get, Get, <<16, 1>>, <<26>>, <<26>>, EndI>>,
              <<Get, Get, Get, Get, Get, <<26>>, <<26>>, <<26>>, <<26>>, <<26>>, EndI>>>>,
            <<>>, <<0, 0>>, <<0, 0>>),
    \* a native call with all frames in use, whose result has no room
    Program(<<<<Get, Get, Get, <<16, 1>>, <<26>>, <<26>>, <<26>>, Get, <<16, 0>>, <<26>>, EndI>>,
              <<<<65, 1>>, EndI>>>>,
            <<>>, <<0, 4>>, <<0, 0>>)
  }

\* Modules without a certificate: no validator accepts them, but for the last one.
Invalid ==
  {One(<<<<26>>, EndI>>),                                       \* underflow
    One(<<<<5>>, EndI>>),                                        \* else outside an if
    \* else in a callee, inside a block of its caller only; then a branch
    Program(<<<<<<2, 64>>, <<16, 1>>, EndI, EndI>>, <<<<5>>, EndI>>>>, <<>>, <<0, 2>>, <<0, 0>>),
    Program(<<<<<<2, 64>>, <<16, 1>>, EndI, EndI>>,
              <<<<5>>, <<1>>, <<1>>, <<1>>, <<1>>, <<12, 0>>, EndI>>>>, <<>>, <<0, 2>>, <<0, 0>>),
    One(<<<<2, 64>>, <<1>>>>),                                   \* block without end
    One(<<<<16, 3>>, EndI>>),                                    \* no such function
    One(<<<<255>>, EndI>>),                                      \* no such opcode
    One(<<<<32, 9>>, EndI>>),                                    \* no such local
    One(<<Get, <<36, 1>>, EndI>>),                               \* immutable global
    One(<<<<65, 128>>>>),                                        \* cut immediate
    One(<<Get, Get>>),                                           \* no final end
    One(<<Get, <<12, 9>>, EndI>>),                               \* branch out of everything
    Program(<<<<Get, <<16, 1>>, EndI>>, <<Get, Get, Get, <<26>>, <<26>>, <<26>>, EndI>>>>,
            <<>>, <<0, 2>>, <<0, 1>>),
    [One(<<EndI>>) EXCEPT !.entry = 2],
    \* valid code with one block more than the table has slots
    One(<<<<2, 64>>, <<2, 64>>, <<2, 64>>, <<2, 64>>, <<2, 64>>, EndI, EndI, EndI, EndI, EndI, EndI>>)
  }

-----------------------------------------------------------------------------
(* The stack map of body b of module k.                                    *)

Opens(prog, from, to) == Cardinality({i \in from .. to : prog[i][1] \in BlockOps})
Ends(prog, from, to) == Cardinality({i \in from .. to : prog[i][1] = END_OP})
MatchingEnd(prog, i) ==
  Min({j \in i + 1 .. Len(prog) : Ends(prog, i + 1, j) = Opens(prog, i, j)})

\* Operands an instruction adds; the others of these programs add none.
Net(ins) ==
  LET o == ins[1]
  IN  CASE o \in {32, 35, 63} \cup 65 .. 68 -> 1
        [] o \in {26, 33, 36, 106, 107, 108, 109, 113, 114, 115, 118, 166} -> -1
        [] o \in {27} \cup StoreOps -> -2
        [] o = PREFIX /\ ins[2] \in {8, 10, 11} -> -3
        [] OTHER -> 0

\* What is known before the next instruction, and the map of those before it.
Walk0 == [i |-> 1, pc |-> 0, live |-> TRUE, height |-> 0, open |-> <<>>, map |-> <<>>]

Effects(p, b, s, ins) ==
  LET o == ins[1]
      prog == p.list[b + 1]
      inner == s.open[Len(s.open)]
      h == IF o \in {IF_OP, BR_IF} THEN s.height - 1 ELSE s.height
      end_pc == s.pc + Len(FlattenSeq(SubSeq(prog, s.i, MatchingEnd(prog, s.i) - 1)))
      Moved(t, n) == [s EXCEPT !.height = @ - n - t.params + t.results]
      type == Types[p.ftype[ins[2] + 1] + 1]
  IN  CASE o \in BlockOps ->
             [s EXCEPT !.height = h, !.open = Append(@,
                [frame |-> [kind |-> o, pc_start |-> s.pc + 2, end_pc |-> end_pc],
                 live |-> s.live, height |-> h,
                 after |-> IF ins[2] = 64 THEN h ELSE h + 1])]
        [] o = ELSE_OP -> [s EXCEPT !.live = inner.live, !.height = inner.height]
        [] o = END_OP ->
             IF s.open = <<>> THEN s
             ELSE [s EXCEPT !.live = inner.live, !.height = inner.after, !.open = Front(@)]
        [] o \in {BR, BR_TABLE, RETURN, UNREACHABLE} -> [s EXCEPT !.live = FALSE]
        [] o = BR_IF -> [s EXCEPT !.height = h]
        [] o = CALL -> Moved(type, 0)
        [] o = CALL_INDIRECT -> Moved(Types[ins[2] + 1], 1)
        [] OTHER -> [s EXCEPT !.height = @ + Net(ins)]

MapOf(p, b) ==
  LET point(s) == [nest |-> <<>> \o [d \in 1 .. Len(s.open) |-> s.open[d].frame],
                   height |-> s.height]
      prog == p.list[b + 1]
      Walk[i \in 0 .. Len(prog)] ==
        IF i = 0 THEN Walk0
        ELSE LET s == Walk[i - 1]
                 t == Effects(p, b, s, prog[i])
             IN  [t EXCEPT !.i = @ + 1, !.pc = @ + Len(prog[i]),
                           !.map = IF s.live THEN @ @@ (s.pc :> point(s)) ELSE @]
  IN  Walk[Len(prog)].map

\* A concatenation and @@ make TLC evaluate a function once and for all.
Compiled(p, valid) ==
  LET bodies == <<>> \o [b \in 1 .. Len(p.list) |-> FlattenSeq(p.list[b])]
  IN  p @@ [bodies |-> bodies,
            code |-> [b \in 0 .. Len(bodies) - 1 |-> decode_bodies(bodies)[b] @@ <<>>] @@ <<>>,
            map |-> IF valid THEN [b \in 0 .. Len(p.list) - 1 |-> MapOf(p, b)] @@ <<>>
                    ELSE <<>>]

MCModules ==
  {Compiled(p, TRUE) : p \in Valid \cup Arithmetic \cup {One(prog) : prog \in Structured}}
    \cup {Compiled(p, FALSE) : p \in Invalid}

MCArgs == {<<0>>, <<1>>, <<2>>}
MCHostValues == {0, 1, 2}
MCFloatBits == {0, 5}
=============================================================================

------------------------------ MODULE MCShell -------------------------------
(* Lines of up to five characters, a ring of two lines of three, two words. *)
EXTENDS Shell, TLC

MCDigit == "1" :> 1 @@ "2" :> 2 @@ "3" :> 3
MCLower == "k" :> "a"
MCUpper == "k" :> "b"
MCBuiltins == <<<<"a">>>>
MCStems == <<<<"b", "a">>, <<"b", "b">>>>

Char(c) == <<"Char", c>>
Cursor == {<<"ArrowLeft">>, <<"ArrowRight">>, <<"Home">>, <<"End">>}
Removal == {<<"Backspace">>, <<"Delete">>}
Walks == {<<"ArrowUp">>, <<"ArrowDown">>}

\* Words; numbers; editing on the keyboard; history; commands and tasks that print.
MCSessions ==
    {[keys |-> 5, prints |-> 0, codes |-> {},
      serial |-> {Char(c) : c \in {"a", Blank, Quote, Hash}}],
     [keys |-> 4, prints |-> 0, codes |-> {},
      serial |-> {Char(c) : c \in {"a", "1", "2", "3", Minus}}],
     [keys |-> 6, prints |-> 0, serial |-> {<<"Esc">>},
      codes |-> {Char("k"), <<"Shift">>, <<"ShiftUp">>, <<"Up">>, <<"Unknown">>, <<"Tab">>}
                 \cup Cursor \cup Removal],
     [keys |-> 8, prints |-> 0, serial |-> {Char("a"), <<"Enter">>},
      codes |-> {<<"ArrowLeft">>} \cup Walks],
     [keys |-> 10, prints |-> 0, codes |-> {},
      serial |-> {Char("a"), Char(Blank), <<"Enter">>}],
     [keys |-> 5, prints |-> 2, serial |-> {Char("a"), Char(Hash), <<"Backspace">>, <<"Enter">>},
      codes |-> {<<"ArrowLeft">>, <<"Tab">>}]}
=============================================================================

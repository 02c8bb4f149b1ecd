------------------------------- MODULE Shell -------------------------------
(***************************************************************************)
(* The shell's turn in the main loop: keys from the serial line and the    *)
(* PS/2 keyboard, the line editor (shell/command_line_editor.rs), and what *)
(* run_command does with a line before a command has it: the history ring, *)
(* the tokenizer and the number parser (shell/mod.rs).  What commands do   *)
(* is left out; that they and tasks print over the prompt is not.          *)
(*                                                                         *)
(* Both sources of keys give ASCII only, so a byte of the buffer is a      *)
(* character.                                                              *)
(***************************************************************************)
EXTENDS Integers, Sequences, SequencesExt, FiniteSetsExt

CONSTANTS
    Blank, Quote, Hash, Minus,     \* characters with a meaning
    Digit,                         \* the digits that are typed, and their values
    Lower, Upper,                  \* a key of the keyboard, without and with shift
    Builtins, Stems,               \* command names and the names of .wasm files
    HISTORY_LEN, MAX_LINE, MAX_ARGS, I32_MAX,
    Sessions,                      \* bounds: what is typed, how many keys
    NoShown

ASSUME ShellAssumption == HISTORY_LEN > 0 /\ MAX_LINE > 0 /\ MAX_ARGS > 0 /\ I32_MAX > 9

VARIABLES
    buffer, cursor_pos, history, history_index, needs_render,   \* CommandLineEditor
    SHIFT,                         \* keyboard.rs
    ring,                          \* HISTORY: lines, lens, head and len
    shown,                         \* line and cursor on the screen, or other output
    turn,                          \* whose turn it is in the main loop
    panicked,
    session,                       \* what may still be typed
    ran,                           \* history: the lines given to run_command
    covered                        \* history: a task printed and still runs

editorVars == <<buffer, cursor_pos, history, history_index>>
vars == <<editorVars, needs_render, SHIFT, ring, shown, turn, panicked, session, ran, covered>>

Names == Builtins \o Stems

-----------------------------------------------------------------------------
(* Words and numbers *)

\* A Result or an Option is the set of the value it holds.
Err == {}
None == {}

\* The words of line; skip, quoted and bare find where a gap, a quoted and a
\* bare word end.
Words(line) ==
    LET n == Len(line)
        skip[i \in 1 .. n + 1] ==
          IF i <= n THEN IF line[i] = Blank THEN skip[i + 1] ELSE i ELSE i
        quoted[i \in 1 .. n + 1] ==
          IF i <= n THEN IF line[i] # Quote THEN quoted[i + 1] ELSE i ELSE i
        bare[i \in 1 .. n + 1] ==
          IF i <= n THEN IF line[i] # Blank THEN bare[i + 1] ELSE i ELSE i
        from[i \in 1 .. n + 1] ==
          IF skip[i] > n THEN <<>>
          ELSE IF line[skip[i]] = Quote
          THEN LET end == quoted[skip[i] + 1]
               IN  <<SubSeq(line, skip[i] + 1, end - 1)>>
                     \o from[IF end <= n THEN end + 1 ELSE end]
          ELSE <<SubSeq(line, skip[i], bare[skip[i]] - 1)>> \o from[bare[skip[i]]]
    IN  from[1]

\* Mutant: an opening quote ends at a blank.
tokenizeBare(line) ==
    LET w == Words(SelectSeq(line, LAMBDA c : c # Quote))
    IN  IF Len(w) > MAX_ARGS THEN Err ELSE {w}

tokenize(line) == IF Len(Words(line)) > MAX_ARGS THEN Err ELSE {Words(line)}

\* checked_mul and checked_add: None once the value is out of range.
Digits(s, first) ==
    LET val[i \in first - 1 .. Len(s)] ==
          IF i < first THEN 0
          ELSE IF val[i - 1] = -1 \/ s[i] \notin DOMAIN Digit THEN -1
          ELSE IF val[i - 1] * 10 + Digit[s[i]] > I32_MAX THEN -1
          ELSE val[i - 1] * 10 + Digit[s[i]]
    IN  val[Len(s)]

parse_i32(s) ==
    LET start == IF s # <<>> /\ s[1] = Minus THEN 2 ELSE 1
    IN  IF start > Len(s) \/ Digits(s, start) = -1 THEN None
        ELSE {IF start = 2 THEN -Digits(s, start) ELSE Digits(s, start)}

-----------------------------------------------------------------------------
(* The history ring *)

Cut(line) == SubSeq(line, 1, IF Len(line) < MAX_LINE THEN Len(line) ELSE MAX_LINE)

\* Bytes of an older, longer line stay behind the new one.
push(line) ==
    LET c == Cut(line)
    IN  [lines |-> [ring.lines EXCEPT ![ring.head] =
                      [k \in 1 .. MAX_LINE |-> IF k <= Len(c) THEN c[k] ELSE @[k]]],
         lens  |-> [ring.lens EXCEPT ![ring.head] = Len(c)],
         head  |-> (ring.head + 1) % HISTORY_LEN,
         len   |-> IF ring.len < HISTORY_LEN THEN ring.len + 1 ELSE ring.len]

\* Mutant: the oldest line is always the first.
getFromStart(i) == SubSeq(ring.lines[i % HISTORY_LEN], 1, ring.lens[i % HISTORY_LEN])

get(i) ==
    LET start == IF ring.len < HISTORY_LEN THEN 0 ELSE ring.head
        idx   == (start + i) % HISTORY_LEN
    IN  SubSeq(ring.lines[idx], 1, ring.lens[idx])

\* A name that is no command is copied into a buffer for MAX_LINE bytes.
run_command(line) ==
    IF line[1] = Hash THEN UNCHANGED <<ring, ran, panicked>>
    ELSE /\ ring' = push(line)
         /\ ran' = Append(ran, line)
         /\ panicked' = \E argv \in tokenize(line) :
                          argv # <<>> /\ argv[1] \notin Range(Builtins) /\ Len(argv[1]) > MAX_LINE

-----------------------------------------------------------------------------
(* The editor: one action per key.  Edited(dirty) is the end of poll_once, *)
(* which draws the line if anything asked for it.                          *)

Edited(dirty) ==
    /\ shown' = IF needs_render \/ dirty THEN <<buffer', cursor_pos'>> ELSE shown
    /\ covered' = (covered /\ ~(needs_render \/ dirty))
    /\ needs_render' = FALSE
Same == UNCHANGED editorVars /\ Edited(FALSE) /\ UNCHANGED <<ring, ran, panicked>>

LineTo(line, pos) ==
    /\ buffer' = line /\ cursor_pos' = pos
    /\ UNCHANGED <<history, history_index, ring, ran, panicked>>
    /\ Edited(TRUE)

insert_char(c) ==
    LineTo(IF cursor_pos < Len(buffer) THEN InsertAt(buffer, cursor_pos + 1, c)
           ELSE Append(buffer, c), cursor_pos + 1)

\* Mutant: the line is not drawn again.
move_leftHidden ==
    IF cursor_pos > 0
    THEN /\ cursor_pos' = cursor_pos - 1
         /\ UNCHANGED <<buffer, history, history_index, ring, ran, panicked>>
         /\ Edited(FALSE)
    ELSE Same

move_left == IF cursor_pos > 0 THEN LineTo(buffer, cursor_pos - 1) ELSE Same
move_right == IF cursor_pos < Len(buffer) THEN LineTo(buffer, cursor_pos + 1) ELSE Same

delete_left == IF cursor_pos > 0 THEN LineTo(RemoveAt(buffer, cursor_pos), cursor_pos - 1) ELSE Same
delete_right ==
    IF cursor_pos < Len(buffer) THEN LineTo(RemoveAt(buffer, cursor_pos + 1), cursor_pos) ELSE Same
move_home == IF cursor_pos # 0 THEN LineTo(buffer, 0) ELSE Same
move_end == IF cursor_pos # Len(buffer) THEN LineTo(buffer, Len(buffer)) ELSE Same

\* history_index counts from 0.
Recall(i) ==
    /\ history_index' = i
    /\ buffer' = IF i < Len(history) THEN history[i + 1] ELSE <<>>
    /\ cursor_pos' = Len(buffer')
    /\ UNCHANGED <<history, ring, ran, panicked>>
    /\ Edited(TRUE)

navigate_history_up ==
    IF history # <<>> /\ history_index > 0 THEN Recall(history_index - 1) ELSE Same
navigate_history_down ==
    IF history_index < Len(history) THEN Recall(history_index + 1) ELSE Same

\* Several matches are listed and the line is drawn again below them.
auto_complete ==
    LET matches == SelectSeq(Names, LAMBDA n : IsPrefix(buffer, n))
    IN  IF matches = <<>> THEN Same
        ELSE IF Len(matches) = 1 THEN LineTo(matches[1], Len(matches[1]))
        ELSE LineTo(buffer, cursor_pos)

\* Mutant: the walk through the history goes on where it was.
EnterStays ==
    IF buffer = <<>> THEN Same
    ELSE /\ history' = Append(history, buffer)
         /\ buffer' = <<>> /\ cursor_pos' = 0
         /\ UNCHANGED history_index
         /\ run_command(buffer)
         /\ Edited(TRUE)

\* get_input and poll_once: the line is run, then the prompt drawn.
Enter ==
    IF buffer = <<>> THEN Same
    ELSE /\ history' = Append(history, buffer)
         /\ history_index' = Len(history')
         /\ buffer' = <<>> /\ cursor_pos' = 0
         /\ run_command(buffer)
         /\ Edited(TRUE)

handle_key(key) ==
    \/ key[1] = "Char" /\ insert_char(key[2])
    \/ key[1] = "ArrowLeft" /\ move_left
    \/ key[1] = "ArrowRight" /\ move_right
    \/ key[1] = "Backspace" /\ delete_left
    \/ key[1] = "Delete" /\ delete_right
    \/ key[1] = "Home" /\ move_home
    \/ key[1] = "End" /\ move_end
    \/ key[1] = "ArrowUp" /\ navigate_history_up
    \/ key[1] = "ArrowDown" /\ navigate_history_down
    \/ key[1] = "Tab" /\ auto_complete
    \/ key[1] = "Enter" /\ Enter
    \/ key[1] \in {"Unknown", "None"} /\ Same

-----------------------------------------------------------------------------
(* Keys.  A code of the keyboard is a key pressed or released.             *)

serial_byte_to_key(b) == IF b[1] \in {"Backspace", "Enter", "Char"} THEN b ELSE <<"Unknown">>

\* Shift and releases give no key.
try_next_key(sc) ==
    IF sc[1] \in {"Shift", "ShiftUp", "Up"} THEN <<"None">>
    ELSE IF sc[1] = "Char" THEN <<"Char", IF SHIFT THEN Upper[sc[2]] ELSE Lower[sc[2]]>>
    ELSE sc
ShiftAfter(sc) == IF sc[1] = "Shift" THEN TRUE ELSE IF sc[1] = "ShiftUp" THEN FALSE ELSE SHIFT

\* What one look at the two ports may find; the serial line comes first.
Inputs ==
    IF session.keys = 0 THEN {}
    ELSE {[key |-> serial_byte_to_key(b), shift |-> SHIFT] : b \in session.serial}
         \cup {[key |-> try_next_key(sc), shift |-> ShiftAfter(sc)] : sc \in session.codes}

\* shell::input::poll_once
Poll ==
    /\ turn = "shell" /\ ~panicked
    /\ turn' = "tasks"
    /\ \/ \E in \in Inputs :
             /\ handle_key(in.key)
             /\ SHIFT' = in.shift
             /\ session' = [session EXCEPT !.keys = @ - 1]
       \/ Same /\ UNCHANGED <<session, SHIFT>>

-----------------------------------------------------------------------------
(* The tasks' turn: one prints and goes on, ends and says so, or is quiet. *)

Quiet == UNCHANGED <<needs_render, shown, covered, session>>
Prints ==
    /\ session.prints > 0
    /\ session' = [session EXCEPT !.prints = @ - 1]
    /\ shown' = NoShown /\ covered' = TRUE
    /\ UNCHANGED needs_render
Ends ==
    /\ session.prints > 0
    /\ session' = [session EXCEPT !.prints = @ - 1]
    /\ shown' = NoShown
    /\ needs_render' = TRUE
    /\ UNCHANGED covered

run_next_task ==
    /\ turn = "tasks" /\ ~panicked
    /\ turn' = "shell"
    /\ Quiet \/ Prints \/ Ends
    /\ UNCHANGED <<editorVars, SHIFT, ring, panicked, ran>>

-----------------------------------------------------------------------------
Init ==
    /\ buffer = <<>> /\ cursor_pos = 0 /\ history = <<>> /\ history_index = 0
    /\ needs_render = TRUE
    /\ SHIFT = FALSE
    /\ ring = [lines |-> [i \in 0 .. HISTORY_LEN - 1 |-> [k \in 1 .. MAX_LINE |-> Blank]],
               lens |-> [i \in 0 .. HISTORY_LEN - 1 |-> 0], head |-> 0, len |-> 0]
    /\ shown = NoShown
    /\ turn = "shell"
    /\ panicked = FALSE
    /\ session \in Sessions
    /\ ran = <<>> /\ covered = FALSE

Next == Poll \/ run_next_task

Spec == Init /\ [][Next]_vars

-----------------------------------------------------------------------------
(* Properties *)

T == INSTANCE TextLine WITH
       Names <- Range(Names),
       before <- SubSeq(buffer, 1, cursor_pos),
       after <- SubSeq(buffer, cursor_pos + 1, Len(buffer)),
       entered <- history,
       back <- Len(history) - history_index

\* CommandLineEditor: one string with an index is an editor of the text before
\* and after the cursor, whatever keys come in whatever order; Up and Down walk
\* through the lines entered one by one.
ImplementsTextLine == T!Spec

\* poll_once, request_render: when the shell has had its turn the screen shows
\* the line and the cursor, unless a task that is still running has printed over
\* it since it was drawn.
ScreenShowsLine == turn = "tasks" /\ ~covered /\ ~panicked => shown = <<buffer, cursor_pos>>

\* HistoryBuf: `history` lists the last lines run, oldest first, each up to
\* MAX_LINE bytes and without a byte of the lines that were there before.
HistoryIsRecent ==
    /\ ring.len = IF Len(ran) < HISTORY_LEN THEN Len(ran) ELSE HISTORY_LEN
    /\ \A i \in 0 .. ring.len - 1 : get(i) = Cut(ran[Len(ran) - ring.len + i + 1])

\* The tokenizer as an automaton: what character i is part of.
Part(line) ==
    LET st[i \in 0 .. Len(line)] ==
          IF i = 0 THEN "gap"
          ELSE IF st[i - 1] \in {"gap", "close"}
          THEN IF line[i] = Blank THEN "gap" ELSE IF line[i] = Quote THEN "open" ELSE "first"
          ELSE IF st[i - 1] \in {"open", "quoted"}
          THEN IF line[i] = Quote THEN "close" ELSE "quoted"
          ELSE IF line[i] = Blank THEN "gap" ELSE "more"
    IN  st

\* tokenize: the words are the runs between blanks and the texts between quotes,
\* in their order and without loss, and a line with more than MAX_ARGS of them is
\* refused.
TokensAreWords ==
    LET st     == Part(buffer)
        starts == {i \in 1 .. Len(buffer) : st[i] \in {"open", "first"}}
        upto(i) == Cardinality({j \in starts : j <= i})
        word(k) == LET S == {i \in 1 .. Len(buffer) :
                               upto(i) = k /\ st[i] \in {"first", "more", "quoted"}}
                   IN  [j \in 1 .. Cardinality(S) |->
                          buffer[CHOOSE i \in S : Cardinality({h \in S : h <= i}) = j]]
    IN  tokenize(buffer) = IF Cardinality(starts) > MAX_ARGS THEN Err
                           ELSE {[k \in 1 .. Cardinality(starts) |-> word(k)]}

\* parse_i32: a word that is a number no larger than i32::MAX, with or without a
\* sign, is read as that number, and nothing else is.
ParseIsValue ==
    LET neg    == buffer # <<>> /\ buffer[1] = Minus
        digits == SubSeq(buffer, IF neg THEN 2 ELSE 1, Len(buffer))
        n      == Len(digits)
        value  == MapThenSumSet(LAMBDA i : Digit[digits[i]] * 10 ^ (n - i), 1 .. n)
    IN  parse_i32(buffer) =
          IF n = 0 \/ (\E i \in 1 .. n : digits[i] \notin DOMAIN Digit) THEN None
          ELSE IF value > I32_MAX THEN None
          ELSE {IF neg THEN -value ELSE value}

\* What a command gets for its arguments is what was typed: tokenize gives the words
\* of the line and parse_i32 the number a word stands for.
ArgumentsRead == TokensAreWords /\ ParseIsValue
=============================================================================

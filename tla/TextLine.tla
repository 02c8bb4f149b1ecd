------------------------------ MODULE TextLine ------------------------------
(***************************************************************************)
(* What a line editor promises: the text before the cursor and the text    *)
(* after it, each key changing only what is next to the cursor, and a list *)
(* of the lines entered, which can be walked one by one.                   *)
(***************************************************************************)
EXTENDS Integers, Sequences, SequencesExt

CONSTANT Names    \* of commands

VARIABLES
    before, after,   \* the text on both sides of the cursor
    entered,         \* the lines entered, oldest first
    back             \* how far back the walk through them has come

Line == before \o after
text == <<before, after>>

Init == before = <<>> /\ after = <<>> /\ entered = <<>> /\ back = 0

Type ==
    /\ before' # <<>> /\ Front(before') = before
    /\ UNCHANGED <<after, entered, back>>
Left ==
    /\ before # <<>>
    /\ before' = Front(before) /\ after' = <<Last(before)>> \o after
    /\ UNCHANGED <<entered, back>>
Right ==
    /\ after # <<>>
    /\ before' = Append(before, Head(after)) /\ after' = Tail(after)
    /\ UNCHANGED <<entered, back>>
Backspace == before # <<>> /\ before' = Front(before) /\ UNCHANGED <<after, entered, back>>
Delete == after # <<>> /\ after' = Tail(after) /\ UNCHANGED <<before, entered, back>>
Home == before' = <<>> /\ after' = Line /\ UNCHANGED <<entered, back>>
End == before' = Line /\ after' = <<>> /\ UNCHANGED <<entered, back>>

\* One line further back, or forward again; past the last one is an empty line.
Walk ==
    /\ back' \in {back - 1, back + 1} /\ back' \in 0 .. Len(entered)
    /\ before' = IF back' = 0 THEN <<>> ELSE entered[Len(entered) + 1 - back']
    /\ after' = <<>>
    /\ UNCHANGED entered

Complete ==
    /\ \E n \in Names : IsPrefix(Line, n) /\ before' = n
    /\ after' = <<>>
    /\ UNCHANGED <<entered, back>>

Enter ==
    /\ Line # <<>>
    /\ entered' = Append(entered, Line)
    /\ before' = <<>> /\ after' = <<>> /\ back' = 0

Next ==
    \/ Type \/ Left \/ Right \/ Backspace \/ Delete \/ Home \/ End \/ Walk \/ Complete \/ Enter

Spec == Init /\ [][Next]_<<text, entered, back>>
=============================================================================

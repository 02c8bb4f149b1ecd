----------------------------- MODULE FrameQueue -----------------------------
(***************************************************************************)
(* What the network stack may rely on when it polls for frames: every      *)
(* frame that comes in is handed over once, unchanged, in the order of     *)
(* arrival.                                                                *)
(***************************************************************************)
EXTENDS Integers, Sequences

CONSTANT NoFrame

VARIABLES
    q,      \* frames that have come in and were not handed over
    buf     \* the frame handed over last

Init == q = <<>> /\ buf = NoFrame

Arrive == Len(q') > Len(q) /\ SubSeq(q', 1, Len(q)) = q /\ UNCHANGED buf
Deliver == q # <<>> /\ buf' = Head(q) /\ q' = Tail(q)

Spec == Init /\ [][Arrive \/ Deliver]_<<q, buf>>
=============================================================================

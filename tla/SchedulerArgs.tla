---------------------------- MODULE SchedulerArgs ----------------------------
(***************************************************************************)
(* Scheduler with a history variable for what the comments promise a task: *)
(* the argument string it was started with.                                *)
(***************************************************************************)
EXTENDS Scheduler

VARIABLE ownArgs    \* ownArgs[i]: the argument string task i was spawned with

avars == <<vars, ownArgs>>

AInit == Init /\ ownArgs = [i \in Slots |-> NoArgs]

KeepArgs ==
    ownArgs' = [i \in Slots |->
                  IF taskState[i] = "None" /\ taskState'[i] = "Ready"
                  THEN ARGS_BUF' ELSE ownArgs[i]]

ASpec == AInit /\ [][Next /\ KeepArgs]_avars

-----------------------------------------------------------------------------

\* "Holds the raw argument string for the currently-running module so that
\* `args_get` can copy it into linear memory" (engine.rs, ARGS_BUF).
ArgsBelongToTask == pc = "exec" => ARGS_BUF = ownArgs[CURSOR]

=============================================================================

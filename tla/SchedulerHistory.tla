-------------------------- MODULE SchedulerHistory --------------------------
(***************************************************************************)
(* Scheduler with a history variable: how often each runnable task has     *)
(* been passed over by run_next_task.                                      *)
(***************************************************************************)
EXTENDS Scheduler

VARIABLE passed    \* passed[i]: steps given to others since i has been runnable

hvars == <<vars, passed>>

HInit == Init /\ passed = [i \in Slots |-> 0]

\* Counts the times run_next_task steps another task than a runnable i.
CountPassed ==
    passed' = [i \in Slots |->
                 IF pc = "task" /\ pc' = "exec"
                 THEN IF is_task_runnable(i) /\ i # CURSOR' THEN passed[i] + 1 ELSE 0
                 ELSE IF taskState'[i] = "None" THEN 0 ELSE passed[i]]

HNext == Next /\ CountPassed

HSpec == HInit /\ [][HNext]_hvars

HFairSpec == HSpec /\ Fairness

-----------------------------------------------------------------------------

\* Round robin: from the moment a task can run, at most MAX_TASKS - 1 steps are
\* given to other tasks before its own, however the shell spawns and kills tasks
\* in between (run_next_task resumes the scan at CURSOR + 1).
BoundedWait == \A i \in Slots : passed[i] <= MAX_INSTANCES - 1

=============================================================================

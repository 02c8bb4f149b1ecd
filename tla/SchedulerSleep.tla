--------------------------- MODULE SchedulerSleep ---------------------------
(***************************************************************************)
(* SchedulerHistory with two more history variables, for the way of a      *)
(* sleep request from env.sleep_ms to task_step: when the sleep a task     *)
(* asked for is over, and whether a synchronous run left a request behind. *)
(***************************************************************************)
EXTENDS SchedulerHistory

VARIABLES
    due,     \* due[i]: the time at which the sleep task i asked for is over
    left     \* the request in PENDING_SLEEP_MS is one that `run` did not take

svars == <<hvars, due, left>>

\* Milliseconds per tick at the 100 Hz that task_step assumes.
TICK_MS == 10

SInit == HInit /\ due = [i \in Slots |-> 0] /\ left = FALSE

\* The task stepped asked to sleep for ms.
Asks(ms) == due' = [due EXCEPT ![CURSOR] = TICK_MS * TICK_COUNT + ms]

NothingAsked == due' = [i \in Slots |-> IF taskState'[i] = "Sleeping" THEN due[i] ELSE 0]

\* Yielding takes the request.
Takes == pc = "exec" /\ taskState'[CURSOR] # "None" /\ pc' = "idle"

SNext ==
    /\ \/ \E ms \in SleepArgs : TaskSleeps(ms) /\ Asks(ms)
       \/ /\ Shell \/ Kernel \/ pit_on_tick \/ SyncYields \/ SyncEnds \/ TaskYields \/ TaskEnds
          /\ NothingAsked
    /\ CountPassed
    /\ left' = IF pc = "sync" THEN PENDING_SLEEP_MS' > 0 ELSE left /\ ~Takes

SSpec == SInit /\ [][SNext]_svars

SFairSpec == SSpec /\ Fairness

-----------------------------------------------------------------------------

\* A task runs again only when as many ticks have passed as cover the milliseconds it
\* asked for at ten milliseconds a tick, also when it asked in the middle of a tick,
\* was passed over or other tasks slept meanwhile (task_step, is_task_runnable).  And
\* only a task that asked to sleep does, with one exception: the first one that merely
\* yields after a synchronous run has left its request in PENDING_SLEEP_MS.
SleepsAsAsked ==
    [][/\ \A i \in Slots :
            taskState[i] = "Sleeping" /\ taskState'[i] = "Running"
               => TICK_MS * TICK_COUNT >= due[i]
       /\ TaskYields /\ taskState'[CURSOR] = "Sleeping" => left]_svars

=============================================================================

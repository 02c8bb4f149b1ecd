----------------------------- MODULE Scheduler -----------------------------
(***************************************************************************)
(* The cooperative core of the kernel: the main loop of scheduler.rs, the  *)
(* task queue of wasm/task.rs, the instance pool and the sleep and argument*)
(* channels of wasm/engine.rs, the shell commands that create and destroy  *)
(* instances (run, task-run, task-kill) and the timer interrupt of         *)
(* drivers/pit.rs, the only thing that preempts the loop.                  *)
(*                                                                         *)
(* TASK_QUEUE : [Option<Task>; MAX_TASKS] is held as one function per      *)
(* field; taskState[i] = "None" stands for an empty slot, and a field that *)
(* does not exist in the current state is 0.  What a module computes is    *)
(* abstracted to how it gives the CPU back.                                *)
(***************************************************************************)
EXTENDS Integers

CONSTANTS
    MAX_INSTANCES,   \* pool slots; MAX_TASKS is the same number
    SleepArgs,       \* the i32 values modules pass to env.sleep_ms
    Args,            \* argument strings typed after a module name
    MaxTick          \* bound: the timer stops here, and no sleep reaches past it

ASSUME PoolAssumption  == MAX_INSTANCES \in Nat \ {0}
ASSUME SleepAssumption == SleepArgs \subseteq Int
ASSUME TickAssumption  == MaxTick \in Nat

VARIABLES
    taskState,         \* Task.state
    taskWake,          \* the tick inside TaskState::Sleeping
    taskInst,          \* Task.instance
    POOL,              \* PoolSlot.active and what its interpreter has been through
    SLOT_MEM,          \* whose bytes the slot's linear memory holds
    CURSOR,            \* the task stepped last
    TICK_COUNT,        \* timer interrupts so far
    PENDING_SLEEP_MS,  \* the channel from env.sleep_ms to task_step
    ARGS_BUF,          \* the channel from the shell to env.args_get
    pc,                \* where the main loop is
    syncInst,          \* `handle` of the shell's synchronous run
    keyPolled,         \* did this turn's shell poll find a key
    ranTask,           \* ran_task of this turn
    halted             \* the CPU is in hlt

taskVars == <<taskState, taskWake, taskInst>>
poolVars == <<POOL, SLOT_MEM>>
chanVars == <<PENDING_SLEEP_MS, ARGS_BUF>>
loopVars == <<syncInst, keyPolled, ranTask, halted>>
vars == <<taskVars, poolVars, chanVars, loopVars, CURSOR, TICK_COUNT, pc>>

Slots      == 0 .. MAX_INSTANCES - 1
TaskStates == {"None", "Ready", "Running", "Suspended", "Sleeping"}
PoolStates == {"free", "fresh", "running", "yielded"}
MemStates  == {"zero", "own", "stale"}
NoArgs     == ""

\* How far engine::spawn gets: to the end, or to one of its error returns.
LoadResults == {"ok", "unparsable", "unresolved", "badData"}

TypeOK ==
    /\ taskState \in [Slots -> TaskStates]
    /\ taskWake \in [Slots -> Nat]
    /\ taskInst \in [Slots -> Slots]
    /\ POOL \in [Slots -> PoolStates]
    /\ SLOT_MEM \in [Slots -> MemStates]
    /\ CURSOR \in Slots
    /\ TICK_COUNT \in Nat
    /\ PENDING_SLEEP_MS \in Nat
    /\ ARGS_BUF \in Args \union {NoArgs}
    /\ pc \in {"shell", "task", "exec", "sync", "idle"}
    /\ syncInst \in Slots
    /\ keyPolled \in BOOLEAN
    /\ ranTask \in BOOLEAN
    /\ halted \in BOOLEAN

Init ==
    /\ taskState = [i \in Slots |-> "None"]
    /\ taskWake = [i \in Slots |-> 0]
    /\ taskInst = [i \in Slots |-> 0]
    /\ POOL = [h \in Slots |-> "free"]
    /\ SLOT_MEM = [h \in Slots |-> "zero"]
    /\ CURSOR = 0
    /\ TICK_COUNT = 0
    /\ PENDING_SLEEP_MS = 0
    /\ ARGS_BUF = NoArgs
    /\ pc = "shell"
    /\ syncInst = 0
    /\ keyPolled = FALSE
    /\ ranTask = FALSE
    /\ halted = FALSE

-----------------------------------------------------------------------------
(* Helpers *)

\* Iterator::position: the least index of a set of slots.
IsFirst(S, x) == x \in S /\ \A y \in S : x <= y

EmptyTasks == {i \in Slots : taskState[i] = "None"}
FreeSlotsReusesYielded == {h \in Slots : POOL[h] \in {"free", "yielded"}}
FreeSlots  == {h \in Slots : POOL[h] = "free"}

\* `ms.max(0) as u32`
ClampMs(ms) == IF ms > 0 THEN ms ELSE 0

SleepTicksDown(ms) == ms \div 10

\* "100 Hz -> 1 tick = 10 ms; round up"
SleepTicks(ms) == (ms + 9) \div 10

ProbeFromZero(k) == k

\* The k-th slot run_next_task looks at: start = (CURSOR + 1) % MAX_TASKS.
Probe(k) == (((CURSOR + 1) % MAX_INSTANCES) + k) % MAX_INSTANCES

is_task_runnable_exact(i) ==
    \/ taskState[i] \in {"Ready", "Suspended"}
    \/ taskState[i] = "Sleeping" /\ TICK_COUNT = taskWake[i]

is_task_runnable(i) ==
    \/ taskState[i] \in {"Ready", "Suspended"}
    \/ taskState[i] = "Sleeping" /\ TICK_COUNT >= taskWake[i]

\* What poll_once tells the scheduler, given whether a key was available.
PollOnceResult(polled) == TRUE

MemAfterSpawnUnzeroed(old, load) ==
    CASE load = "unparsable" -> old
      [] load = "unresolved" -> old
      [] load = "badData"    -> "stale"
      [] load = "ok"         -> IF old = "stale" THEN old ELSE "own"

\* What slot h's memory holds after engine::spawn: the whole slot is zeroed
\* once the module parsed and fits, then the data section is applied.
MemAfterSpawn(old, load) ==
    CASE load = "unparsable" -> old
      [] load = "unresolved" -> "zero"
      [] load = "badData"    -> "stale"
      [] load = "ok"         -> "own"

\* engine::spawn into the free slot h, leaving a successful instance in `state`.
EngineSpawn(h, load, state) ==
    /\ SLOT_MEM' = [SLOT_MEM EXCEPT ![h] = MemAfterSpawn(@, load)]
    /\ POOL' = IF load = "ok" THEN [POOL EXCEPT ![h] = state] ELSE POOL

\* engine::destroy, a no-op on an inactive slot.
Destroy(h) ==
    /\ POOL' = [POOL EXCEPT ![h] = "free"]
    /\ SLOT_MEM' = IF POOL[h] = "free" THEN SLOT_MEM
                   ELSE [SLOT_MEM EXCEPT ![h] = "zero"]

\* TASK_QUEUE[i] = None
RemoveTask(i) ==
    /\ taskState' = [taskState EXCEPT ![i] = "None"]
    /\ taskWake' = [taskWake EXCEPT ![i] = 0]
    /\ taskInst' = [taskInst EXCEPT ![i] = 0]

-----------------------------------------------------------------------------
(* Shell turn: poll_once reads at most one key; Enter completes a command. *)

ShellTurn(polled) ==
    /\ pc = "shell"
    /\ ~halted
    /\ keyPolled' = polled
    /\ UNCHANGED <<ranTask, halted, TICK_COUNT, CURSOR, PENDING_SLEEP_MS>>

\* No key, a key that completes no line, or a command that touches no task.
ShellOther ==
    /\ \E polled \in BOOLEAN : ShellTurn(polled)
    /\ pc' = "task"
    /\ UNCHANGED <<taskVars, poolVars, ARGS_BUF, syncInst>>

\* task_run_with up to its early returns: the arguments are stored first, then
\* an argument that is not a number or an unknown file ends the command.
CmdTaskRunRejected(a) ==
    /\ ShellTurn(TRUE)
    /\ ARGS_BUF' = a
    /\ pc' = "task"
    /\ UNCHANGED <<taskVars, poolVars, syncInst>>

\* task_run_with ... task_spawn: first empty queue slot, then engine::spawn's
\* first free pool slot; either may report PoolFull.
CmdTaskRun(a, load) ==
    /\ ShellTurn(TRUE)
    /\ ARGS_BUF' = a
    /\ pc' = "task"
    /\ UNCHANGED syncInst
    /\ IF EmptyTasks = {} \/ FreeSlots = {}
       THEN UNCHANGED <<taskVars, poolVars>>
       ELSE \E i \in EmptyTasks, h \in FreeSlots :
              /\ IsFirst(EmptyTasks, i)
              /\ IsFirst(FreeSlots, h)
              /\ EngineSpawn(h, load, "fresh")
              /\ IF load = "ok"
                 THEN /\ taskState' = [taskState EXCEPT ![i] = "Ready"]
                      /\ taskInst' = [taskInst EXCEPT ![i] = h]
                      /\ UNCHANGED taskWake
                 ELSE UNCHANGED taskVars

CmdTaskKillLeaks(i) ==
    /\ ShellTurn(TRUE)
    /\ taskState[i] # "None"
    /\ RemoveTask(i)
    /\ pc' = "task"
    /\ UNCHANGED <<poolVars, ARGS_BUF, syncInst>>

\* task-kill <id>; an id out of range or an empty slot is a no-op (ShellOther).
CmdTaskKill(i) ==
    /\ ShellTurn(TRUE)
    /\ taskState[i] # "None"
    /\ RemoveTask(i)
    /\ Destroy(taskInst[i])
    /\ pc' = "task"
    /\ UNCHANGED <<ARGS_BUF, syncInst>>

\* run <name> <args>: spawn, then execute inside the shell turn.
CmdRun(a, load) ==
    /\ ShellTurn(TRUE)
    /\ ARGS_BUF' = a
    /\ UNCHANGED taskVars
    /\ IF FreeSlots = {}
       THEN pc' = "task" /\ UNCHANGED <<poolVars, syncInst>>
       ELSE \E h \in FreeSlots :
              /\ IsFirst(FreeSlots, h)
              /\ EngineSpawn(h, load, "running")
              /\ IF load = "ok" THEN pc' = "sync" /\ syncInst' = h
                                ELSE pc' = "task" /\ UNCHANGED syncInst

\* The drain loop of `run`: a yield, with or without a sleep request, is
\* answered by resume_task at once; nobody consumes the request.
SyncYields ==
    /\ pc = "sync"
    /\ \/ UNCHANGED PENDING_SLEEP_MS
       \/ \E ms \in SleepArgs : PENDING_SLEEP_MS' = ClampMs(ms)
    /\ UNCHANGED <<taskVars, poolVars, loopVars, ARGS_BUF, CURSOR, TICK_COUNT, pc>>

\* The module of `run` returned, exited or trapped.
SyncEnds ==
    /\ pc = "sync"
    /\ Destroy(syncInst)
    /\ syncInst' = 0
    /\ pc' = "task"
    /\ UNCHANGED <<taskVars, chanVars, keyPolled, ranTask, halted, CURSOR, TICK_COUNT>>

-----------------------------------------------------------------------------
(* Task turn *)

\* run_next_task finds nothing to run.
NoTaskRuns ==
    /\ pc = "task"
    /\ \A k \in Slots : ~is_task_runnable(Probe(k))
    /\ ranTask' = FALSE
    /\ pc' = "idle"
    /\ UNCHANGED <<taskVars, poolVars, chanVars, syncInst, keyPolled, halted,
                   CURSOR, TICK_COUNT>>

\* run_next_task picks the first runnable slot after CURSOR; task_step marks it
\* Running and calls start_task or resume_task.
RunNextTask ==
    /\ pc = "task"
    /\ \E k \in Slots :
         /\ is_task_runnable(Probe(k))
         /\ \A j \in 0 .. k - 1 : ~is_task_runnable(Probe(j))
         /\ CURSOR' = Probe(k)
         /\ taskState' = [taskState EXCEPT ![Probe(k)] = "Running"]
         /\ taskWake' = [taskWake EXCEPT ![Probe(k)] = 0]
         /\ POOL' = IF POOL[taskInst[Probe(k)]] = "free" THEN POOL
                    ELSE [POOL EXCEPT ![taskInst[Probe(k)]] = "running"]
    /\ ranTask' = TRUE
    /\ pc' = "exec"
    /\ UNCHANGED <<taskInst, SLOT_MEM, chanVars, syncInst, keyPolled, halted,
                   TICK_COUNT>>

AfterYieldStaysRunning(pending) ==
    /\ pc = "exec"
    /\ POOL[taskInst[CURSOR]] = "running"
    /\ POOL' = [POOL EXCEPT ![taskInst[CURSOR]] = "yielded"]
    /\ PENDING_SLEEP_MS' = 0
    /\ IF pending > 0
       THEN /\ TICK_COUNT + SleepTicks(pending) <= MaxTick
            /\ taskState' = [taskState EXCEPT ![CURSOR] = "Sleeping"]
            /\ taskWake' = [taskWake EXCEPT ![CURSOR] = TICK_COUNT + SleepTicks(pending)]
       ELSE UNCHANGED <<taskState, taskWake>>
    /\ pc' = "idle"
    /\ UNCHANGED <<taskInst, SLOT_MEM, ARGS_BUF, loopVars, CURSOR, TICK_COUNT>>

\* The Yielded arm of task_step, with `pending` in the channel; no sleep of the
\* bounded model reaches past MaxTick.
AfterYield(pending) ==
    /\ pc = "exec"
    /\ POOL[taskInst[CURSOR]] = "running"
    /\ POOL' = [POOL EXCEPT ![taskInst[CURSOR]] = "yielded"]
    /\ PENDING_SLEEP_MS' = 0
    /\ IF pending > 0
       THEN /\ TICK_COUNT + SleepTicks(pending) <= MaxTick
            /\ taskState' = [taskState EXCEPT ![CURSOR] = "Sleeping"]
            /\ taskWake' = [taskWake EXCEPT ![CURSOR] = TICK_COUNT + SleepTicks(pending)]
       ELSE /\ taskState' = [taskState EXCEPT ![CURSOR] = "Suspended"]
            /\ UNCHANGED taskWake
    /\ pc' = "idle"
    /\ UNCHANGED <<taskInst, SLOT_MEM, ARGS_BUF, loopVars, CURSOR, TICK_COUNT>>

\* The module called env.yield.
TaskYields == AfterYield(PENDING_SLEEP_MS)

\* The module called env.sleep_ms(ms).
TaskSleeps(ms) == AfterYield(ClampMs(ms))

\* The module returned, exited or trapped, or start_task/resume_task failed.
TaskEnds ==
    /\ pc = "exec"
    /\ Destroy(taskInst[CURSOR])
    /\ RemoveTask(CURSOR)
    /\ pc' = "idle"
    /\ UNCHANGED <<chanVars, loopVars, CURSOR, TICK_COUNT>>

\* The end of the loop body: hlt if the shell and the tasks were both idle.
IdleCheck ==
    /\ pc = "idle"
    /\ halted' = (~PollOnceResult(keyPolled) /\ ~ranTask)
    /\ keyPolled' = FALSE
    /\ ranTask' = FALSE
    /\ pc' = "shell"
    /\ UNCHANGED <<taskVars, poolVars, chanVars, syncInst, CURSOR, TICK_COUNT>>

\* The timer interrupt, at any point of the loop; it also ends a hlt.
pit_on_tick ==
    /\ TICK_COUNT < MaxTick
    /\ TICK_COUNT' = TICK_COUNT + 1
    /\ halted' = FALSE
    /\ UNCHANGED <<taskVars, poolVars, chanVars, syncInst, keyPolled, ranTask,
                   CURSOR, pc>>

-----------------------------------------------------------------------------

Shell ==
    \/ ShellOther
    \/ \E a \in Args : CmdTaskRunRejected(a)
    \/ \E a \in Args, load \in LoadResults : CmdTaskRun(a, load)
    \/ \E i \in Slots : CmdTaskKill(i)
    \/ \E a \in Args, load \in LoadResults : CmdRun(a, load)

Module ==
    \/ SyncYields
    \/ SyncEnds
    \/ TaskYields
    \/ \E ms \in SleepArgs : TaskSleeps(ms)
    \/ TaskEnds

Kernel == NoTaskRuns \/ RunNextTask \/ IdleCheck

Next == Shell \/ Module \/ Kernel \/ pit_on_tick

Spec == Init /\ [][Next]_vars

\* The CPU never stops executing the loop, and the timer keeps firing.  Nothing
\* makes a module give the CPU back: that is a hypothesis of the liveness
\* properties, not of the specification.
Fairness ==
    /\ WF_vars(Shell)
    /\ WF_vars(Kernel)
    /\ WF_vars(pit_on_tick)

FairSpec == Spec /\ Fairness

-----------------------------------------------------------------------------
(* Properties *)

\* Pool slots and queue entries correspond one to one: a task's instance is the
\* pool slot of the same number, a pool slot is active exactly when its task or
\* the synchronous `run` in progress owns it, and `run` never shares a task's
\* slot.  task_spawn, task_kill, task_step and `run` each update the two arrays
\* separately (task.rs, engine.rs, commands/run.rs).
SlotOwnership ==
    /\ \A i \in Slots : taskState[i] # "None" => taskInst[i] = i
    /\ \A h \in Slots :
         (POOL[h] # "free") <=>
            (taskState[h] # "None" \/ (pc = "sync" /\ h = syncInst))
    /\ pc = "sync" => taskState[syncInst] = "None"

\* The TaskState the scheduler believes is what the instance went through: Ready
\* tasks were never entered, Suspended and Sleeping ones stopped at a yield, and a
\* task is marked Running exactly while the loop executes it; a task left marked
\* Running would never be picked again (is_task_runnable).
StatesAgree ==
    /\ \A i \in Slots :
         /\ taskState[i] = "Ready" => POOL[i] = "fresh"
         /\ taskState[i] \in {"Suspended", "Sleeping"} => POOL[i] = "yielded"
         /\ taskState[i] = "Running" => POOL[i] = "running"
         /\ taskState[i] = "Running" <=> (pc = "exec" /\ i = CURSOR)
    /\ pc = "sync" => POOL[syncInst] = "running"

\* No live instance sees bytes of another one: a slot that a failed spawn left
\* half initialised is zeroed before the next instance gets it (engine::spawn).
MemoryIsolated ==
    \A h \in Slots : POOL[h] # "free" => SLOT_MEM[h] # "stale"

Lifecycle == INSTANCE InstanceLifecycle WITH life <- POOL

\* The task queue drives the instances the way the interpreter requires: entered
\* once, resumed only where they yielded, one at a time (interp.rs call/resume).
ImplementsLifecycle == Lifecycle!Spec

\* Every module hands the CPU back: the loop comes round for ever.
Cooperative == []<>(pc = "shell")

\* A task runs again or is killed, whatever the shell and the other tasks do, as long
\* as every module gives the CPU back: a task that can run is not passed over for ever
\* (run_next_task), and the wake tick of one that sleeps is not missed while other
\* modules hold the CPU (is_task_runnable).
EveryTaskRuns ==
    Cooperative =>
        \A i \in Slots :
            taskState[i] # "None" ~> taskState[i] \in {"Running", "None"}

=============================================================================

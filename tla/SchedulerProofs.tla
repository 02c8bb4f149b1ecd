-------------------------- MODULE SchedulerProofs --------------------------
(***************************************************************************)
(* Proofs about Scheduler, SchedulerHistory and SchedulerSleep, for every  *)
(* number of pool slots, every set of sleep requests and argument strings  *)
(* and every tick bound.                                                   *)
(***************************************************************************)
EXTENDS SchedulerSleep, TLAPS

USE PoolAssumption, SleepAssumption, TickAssumption
    DEF PoolAssumption, SleepAssumption, TickAssumption

\* The slots run_next_task probes exist: start + i taken modulo MAX_TASKS.
LEMMA ProbeIsSlot ==
    ASSUME CURSOR \in Slots, NEW k \in Slots
    PROVE  Probe(k) \in Slots
BY DEF Probe, Slots

\* ms.max(0) is a natural number, and so is its length in ticks.
LEMMA ClampIsNat ==
    ASSUME NEW ms \in SleepArgs
    PROVE  ClampMs(ms) \in Nat
BY DEF ClampMs

LEMMA SleepTicksIsNat ==
    ASSUME NEW ms \in Nat
    PROVE  SleepTicks(ms) \in Nat
BY DEF SleepTicks

\* What engine::spawn leaves in a slot's memory is one of the three contents.
LEMMA MemAfterSpawnTyped ==
    ASSUME NEW old \in MemStates, NEW load \in LoadResults
    PROVE  MemAfterSpawn(old, load) \in MemStates
BY DEF MemAfterSpawn, MemStates, LoadResults

-----------------------------------------------------------------------------

LEMMA InitTyped == Init => TypeOK
<1>1. 0 \in Slots
  BY DEF Slots
<1> SUFFICES ASSUME Init PROVE TypeOK
  OBVIOUS
<1>2. keyPolled \in BOOLEAN /\ ranTask \in BOOLEAN /\ halted \in BOOLEAN
  BY Zenon DEF Init
<1>3. taskState \in [Slots -> TaskStates] /\ POOL \in [Slots -> PoolStates]
  BY DEF Init, TaskStates, PoolStates
<1>4. SLOT_MEM \in [Slots -> MemStates]
  BY DEF Init, MemStates
<1>5. taskWake \in [Slots -> Nat] /\ taskInst \in [Slots -> Slots]
  BY <1>1 DEF Init
<1>6. QED
  BY <1>1, <1>2, <1>3, <1>4, <1>5 DEF Init, TypeOK

LEMMA StepTyped == TypeOK /\ [Next]_vars => TypeOK'
<1> SUFFICES ASSUME TypeOK, [Next]_vars
             PROVE  TypeOK'
  OBVIOUS
<1> USE DEF TypeOK, vars, taskVars, poolVars, chanVars, loopVars
<1>0. 0 \in Slots
  BY DEF Slots
<1>1. CASE ShellOther
  BY <1>1 DEF ShellOther, ShellTurn
<1>2. ASSUME NEW a \in Args, CmdTaskRunRejected(a)
      PROVE  TypeOK'
  BY <1>2 DEF CmdTaskRunRejected, ShellTurn
<1>3. ASSUME NEW a \in Args, NEW load \in LoadResults, CmdTaskRun(a, load)
      PROVE  TypeOK'
  <2>1. CASE EmptyTasks = {} \/ FreeSlots = {}
    BY <1>3, <2>1 DEF CmdTaskRun, ShellTurn
  <2>2. ASSUME NEW i \in EmptyTasks, NEW h \in FreeSlots,
               EngineSpawn(h, load, "fresh"),
               IF load = "ok"
               THEN /\ taskState' = [taskState EXCEPT ![i] = "Ready"]
                    /\ taskInst' = [taskInst EXCEPT ![i] = h]
                    /\ UNCHANGED taskWake
               ELSE UNCHANGED taskVars
        PROVE  TypeOK'
    <3>1. h \in Slots /\ i \in Slots
      BY DEF EmptyTasks, FreeSlots
    <3>2. POOL' \in [Slots -> PoolStates] /\ SLOT_MEM' \in [Slots -> MemStates]
      BY <2>2, <3>1, MemAfterSpawnTyped DEF EngineSpawn, PoolStates
    <3>3. QED
      BY <1>3, <2>2, <3>1, <3>2 DEF CmdTaskRun, ShellTurn, TaskStates
  <2>3. QED
    BY <1>3, <2>1, <2>2 DEF CmdTaskRun
<1>4. ASSUME NEW i \in Slots, CmdTaskKill(i)
      PROVE  TypeOK'
  BY <1>0, <1>4 DEF CmdTaskKill, ShellTurn, Destroy, RemoveTask, TaskStates, PoolStates, MemStates
<1>5. ASSUME NEW a \in Args, NEW load \in LoadResults, CmdRun(a, load)
      PROVE  TypeOK'
  <2>1. CASE FreeSlots = {}
    BY <1>5, <2>1 DEF CmdRun, ShellTurn
  <2>2. ASSUME NEW h \in FreeSlots,
               EngineSpawn(h, load, "running"),
               IF load = "ok" THEN pc' = "sync" /\ syncInst' = h
                              ELSE pc' = "task" /\ UNCHANGED syncInst
        PROVE  TypeOK'
    <3>1. h \in Slots
      BY DEF FreeSlots
    <3>2. POOL' \in [Slots -> PoolStates] /\ SLOT_MEM' \in [Slots -> MemStates]
      BY <2>2, <3>1, MemAfterSpawnTyped DEF EngineSpawn, PoolStates
    <3>3. QED
      BY <1>5, <2>2, <3>1, <3>2 DEF CmdRun, ShellTurn
  <2>3. QED
    BY <1>5, <2>1, <2>2 DEF CmdRun
<1>6. CASE SyncYields
  BY <1>6, ClampIsNat DEF SyncYields
<1>7. CASE SyncEnds
  BY <1>0, <1>7 DEF SyncEnds, Destroy, PoolStates, MemStates
<1>8. CASE NoTaskRuns
  BY <1>8 DEF NoTaskRuns
<1>9. CASE RunNextTask
  BY <1>9, ProbeIsSlot DEF RunNextTask, TaskStates, PoolStates
<1>10. ASSUME NEW pending \in Nat, AfterYield(pending)
       PROVE  TypeOK'
  <2>1. SleepTicks(pending) \in Nat
    BY SleepTicksIsNat
  <2>2. QED
    BY <1>10, <2>1 DEF AfterYield, TaskStates, PoolStates
<1>11. CASE TaskEnds
  BY <1>0, <1>11 DEF TaskEnds, Destroy, RemoveTask, TaskStates, PoolStates, MemStates
<1>12. CASE IdleCheck
  BY <1>12 DEF IdleCheck, PollOnceResult
<1>13. CASE pit_on_tick
  <2>1. halted' \in BOOLEAN
    BY <1>13, Zenon DEF pit_on_tick
  <2>2. QED
    BY <1>13, <2>1 DEF pit_on_tick
<1>14. CASE UNCHANGED vars
  BY <1>14
<1>15. CASE Module
  BY <1>6, <1>7, <1>10, <1>11, <1>15, ClampIsNat DEF Module, TaskYields, TaskSleeps
<1>16. QED
  BY <1>1, <1>2, <1>3, <1>4, <1>5, <1>8, <1>9, <1>12, <1>13, <1>14, <1>15
     DEF Next, Shell, Kernel

\* Type correctness of the scheduler's state.
THEOREM TypeCorrect == Spec => []TypeOK
BY InitTyped, StepTyped, PTL DEF Spec

-----------------------------------------------------------------------------
(* Ownership, agreement and isolation are inductive together: that a spawn  *)
(* gives task i pool slot i needs the two arrays to be empty at the same    *)
(* places (SlotOwnership), and that a step leaves them so needs to know     *)
(* which task is executing (StatesAgree).                                   *)

SchedInv == TypeOK /\ SlotOwnership /\ StatesAgree /\ MemoryIsolated

LEMMA InitInv == Init => SchedInv
<1> SUFFICES ASSUME Init PROVE SchedInv
  OBVIOUS
<1>1. TypeOK
  BY InitTyped
<1>2. SlotOwnership /\ StatesAgree /\ MemoryIsolated
  BY DEF Init, SlotOwnership, StatesAgree, MemoryIsolated
<1>3. QED
  BY <1>1, <1>2 DEF SchedInv

\* In a shell turn the empty queue entries are the free pool slots, so the first
\* of one is the first of the other.
LEMMA SpawnAligned ==
    ASSUME SchedInv, pc = "shell",
           NEW i \in EmptyTasks, IsFirst(EmptyTasks, i),
           NEW h \in FreeSlots, IsFirst(FreeSlots, h)
    PROVE  i = h
<1>1. EmptyTasks = FreeSlots
  BY DEF SchedInv, SlotOwnership, EmptyTasks, FreeSlots
<1>2. i \in Int /\ h \in Int
  BY DEF EmptyTasks, FreeSlots, Slots
<1>3. i <= h /\ h <= i
  BY <1>1 DEF IsFirst
<1>4. QED
  BY <1>2, <1>3

\* A memory that engine::spawn hands over with a live instance is not stale.
LEMMA SpawnedMemory ==
    ASSUME NEW old \in MemStates
    PROVE  MemAfterSpawn(old, "ok") = "own"
BY DEF MemAfterSpawn

LEMMA StepInv == SchedInv /\ [Next]_vars => SchedInv'
<1> SUFFICES ASSUME SchedInv, [Next]_vars
             PROVE  SchedInv'
  OBVIOUS
<1>0. TypeOK /\ TypeOK'
  BY StepTyped DEF SchedInv
<1> DEFINE Good == SlotOwnership /\ StatesAgree /\ MemoryIsolated
<1> SUFFICES Good'
  BY <1>0 DEF SchedInv
<1>a. Good
  BY DEF SchedInv
<1> USE <1>0, <1>a DEF SlotOwnership, StatesAgree, MemoryIsolated
<1>1. CASE ShellOther
  BY <1>1 DEF ShellOther, ShellTurn, taskVars, poolVars
<1>2. ASSUME NEW a \in Args, CmdTaskRunRejected(a)
      PROVE  Good'
  BY <1>2 DEF CmdTaskRunRejected, ShellTurn, taskVars, poolVars
<1>3. ASSUME NEW a \in Args, NEW load \in LoadResults, CmdTaskRun(a, load)
      PROVE  Good'
  <2>0. pc = "shell" /\ pc' = "task" /\ CURSOR' = CURSOR /\ syncInst' = syncInst
    BY <1>3 DEF CmdTaskRun, ShellTurn
  <2>1. CASE EmptyTasks = {} \/ FreeSlots = {}
    BY <1>3, <2>0, <2>1 DEF CmdTaskRun, taskVars, poolVars
  <2>2. ASSUME NEW i \in EmptyTasks, NEW h \in FreeSlots,
               IsFirst(EmptyTasks, i), IsFirst(FreeSlots, h),
               EngineSpawn(h, load, "fresh"),
               IF load = "ok"
               THEN /\ taskState' = [taskState EXCEPT ![i] = "Ready"]
                    /\ taskInst' = [taskInst EXCEPT ![i] = h]
                    /\ UNCHANGED taskWake
               ELSE UNCHANGED taskVars
        PROVE  Good'
    <3>1. i = h
      BY <2>0, <2>2, SpawnAligned
    <3>2. h \in Slots /\ POOL[h] = "free" /\ taskState[h] = "None"
      BY <3>1 DEF EmptyTasks, FreeSlots
    <3>3. CASE load = "ok"
      BY <2>0, <2>2, <3>1, <3>2, <3>3, SpawnedMemory DEF EngineSpawn, TypeOK
    <3>4. CASE load # "ok"
      BY <2>0, <2>2, <3>1, <3>2, <3>4 DEF EngineSpawn, TypeOK, taskVars
    <3>5. QED
      BY <3>3, <3>4
  <2>3. QED
    BY <1>3, <2>1, <2>2 DEF CmdTaskRun
<1>4. ASSUME NEW i \in Slots, CmdTaskKill(i)
      PROVE  Good'
  BY <1>4 DEF CmdTaskKill, ShellTurn, Destroy, RemoveTask, TypeOK
<1>5. ASSUME NEW a \in Args, NEW load \in LoadResults, CmdRun(a, load)
      PROVE  Good'
  <2>0. pc = "shell" /\ CURSOR' = CURSOR /\ UNCHANGED taskVars
    BY <1>5 DEF CmdRun, ShellTurn
  <2>1. CASE FreeSlots = {}
    BY <1>5, <2>0, <2>1 DEF CmdRun, taskVars, poolVars
  <2>2. ASSUME NEW h \in FreeSlots,
               EngineSpawn(h, load, "running"),
               IF load = "ok" THEN pc' = "sync" /\ syncInst' = h
                              ELSE pc' = "task" /\ UNCHANGED syncInst
        PROVE  Good'
    <3>1. h \in Slots /\ POOL[h] = "free" /\ taskState[h] = "None"
      BY <2>0 DEF FreeSlots
    <3>2. CASE load = "ok"
      BY <2>0, <2>2, <3>1, <3>2, SpawnedMemory DEF EngineSpawn, TypeOK, taskVars
    <3>3. CASE load # "ok"
      BY <2>0, <2>2, <3>1, <3>3 DEF EngineSpawn, TypeOK, taskVars
    <3>4. QED
      BY <3>2, <3>3
  <2>3. QED
    BY <1>5, <2>1, <2>2 DEF CmdRun
<1>6. CASE SyncYields
  BY <1>6 DEF SyncYields, taskVars, poolVars, loopVars
<1>7. CASE SyncEnds
  BY <1>7 DEF SyncEnds, Destroy, TypeOK, taskVars
<1>8. CASE NoTaskRuns
  BY <1>8 DEF NoTaskRuns, taskVars, poolVars
<1>9. CASE RunNextTask
  <2>1. PICK k \in Slots :
           /\ is_task_runnable(Probe(k))
           /\ CURSOR' = Probe(k)
           /\ taskState' = [taskState EXCEPT ![Probe(k)] = "Running"]
           /\ POOL' = IF POOL[taskInst[Probe(k)]] = "free" THEN POOL
                      ELSE [POOL EXCEPT ![taskInst[Probe(k)]] = "running"]
    BY <1>9 DEF RunNextTask
  <2>2. Probe(k) \in Slots
    BY ProbeIsSlot DEF TypeOK
  <2>3. taskState[Probe(k)] \notin {"None", "Running"} /\ taskInst[Probe(k)] = Probe(k)
    BY <2>1, <2>2 DEF is_task_runnable
  <2>4. QED
    BY <1>9, <2>1, <2>2, <2>3 DEF RunNextTask, TypeOK
<1>10. ASSUME NEW pending \in Nat, AfterYield(pending)
       PROVE  Good'
  <2>1. taskState[CURSOR] = "Running" /\ taskInst[CURSOR] = CURSOR /\ CURSOR \in Slots
    BY <1>10 DEF AfterYield, TypeOK
  <2>2. taskState'[CURSOR] \in {"Sleeping", "Suspended"}
        /\ \A i \in Slots \ {CURSOR} : taskState'[i] = taskState[i]
    BY <1>10, <2>1 DEF AfterYield, TypeOK
  <2>3. QED
    BY <1>10, <2>1, <2>2 DEF AfterYield, TypeOK, loopVars
<1>11. CASE TaskEnds
  BY <1>11 DEF TaskEnds, Destroy, RemoveTask, TypeOK, loopVars
<1>12. CASE IdleCheck
  BY <1>12 DEF IdleCheck, taskVars, poolVars
<1>13. CASE pit_on_tick
  BY <1>13 DEF pit_on_tick, taskVars, poolVars
<1>14. CASE UNCHANGED vars
  BY <1>14 DEF vars, taskVars, poolVars, loopVars
<1>15. CASE Module
  BY <1>6, <1>7, <1>10, <1>11, <1>15, ClampIsNat
     DEF Module, TaskYields, TaskSleeps, TypeOK
<1>16. QED
  BY <1>1, <1>2, <1>3, <1>4, <1>5, <1>8, <1>9, <1>12, <1>13, <1>14, <1>15
     DEF Next, Shell, Kernel

\* The inductive invariant of the scheduler holds in every reachable state.
THEOREM SchedInvariant == Spec => []SchedInv
BY InitInv, StepInv, PTL DEF Spec

\* Pool slots and queue entries correspond one to one, for any pool size.
THEOREM Ownership == Spec => []SlotOwnership
<1>1. SchedInv => SlotOwnership
  BY DEF SchedInv
<1>2. QED
  BY <1>1, SchedInvariant, PTL

\* The scheduler's task states agree with what the instances went through.
THEOREM Agreement == Spec => []StatesAgree
<1>1. SchedInv => StatesAgree
  BY DEF SchedInv
<1>2. QED
  BY <1>1, SchedInvariant, PTL

\* No live instance's memory holds bytes of another instance.
THEOREM Isolation == Spec => []MemoryIsolated
<1>1. SchedInv => MemoryIsolated
  BY DEF SchedInv
<1>2. QED
  BY <1>1, SchedInvariant, PTL

-----------------------------------------------------------------------------
(* Refinement: every step of the scheduler is a step of the instance       *)
(* lifecycle or leaves the pool as it is.                                  *)

LEMMA StepRefines ==
    SchedInv /\ [Next]_vars => [Lifecycle!Next]_POOL
<1> SUFFICES ASSUME SchedInv, [Next]_vars, POOL' # POOL
             PROVE  Lifecycle!Next
  OBVIOUS
<1> USE DEF SchedInv, TypeOK, SlotOwnership, StatesAgree, Lifecycle!Next
<1>1. ASSUME NEW a \in Args, NEW load \in LoadResults, CmdTaskRun(a, load)
      PROVE  Lifecycle!Next
  <2>1. PICK h \in FreeSlots : EngineSpawn(h, load, "fresh")
    BY <1>1 DEF CmdTaskRun, poolVars
  <2>2. Lifecycle!Instantiate(h)
    BY <2>1 DEF EngineSpawn, FreeSlots, Lifecycle!Instantiate
  <2>3. QED
    BY <2>2 DEF FreeSlots
<1>2. ASSUME NEW i \in Slots, CmdTaskKill(i)
      PROVE  Lifecycle!Next
  BY <1>2 DEF CmdTaskKill, Destroy, Lifecycle!Drop
<1>3. ASSUME NEW a \in Args, NEW load \in LoadResults, CmdRun(a, load)
      PROVE  Lifecycle!Next
  <2>1. PICK h \in FreeSlots : EngineSpawn(h, load, "running")
    BY <1>3 DEF CmdRun, poolVars
  <2>2. pc = "shell"
    BY <1>3 DEF CmdRun, ShellTurn
  <2>3. Lifecycle!Idle
    BY <2>2 DEF Lifecycle!Idle, TaskStates
  <2>4. Lifecycle!InstantiateAndEnter(h)
    BY <2>1, <2>3 DEF EngineSpawn, FreeSlots, Lifecycle!InstantiateAndEnter
  <2>5. QED
    BY <2>4 DEF FreeSlots
<1>4. CASE SyncEnds
  BY <1>4 DEF SyncEnds, Destroy, Lifecycle!Drop
<1>5. CASE RunNextTask
  <2>1. PICK k \in Slots :
           /\ is_task_runnable(Probe(k))
           /\ POOL' = IF POOL[taskInst[Probe(k)]] = "free" THEN POOL
                      ELSE [POOL EXCEPT ![taskInst[Probe(k)]] = "running"]
    BY <1>5 DEF RunNextTask
  <2>2. Probe(k) \in Slots
    BY ProbeIsSlot
  <2>3. pc = "task"
    BY <1>5 DEF RunNextTask
  <2>4. Lifecycle!Idle
    BY <2>3 DEF Lifecycle!Idle, TaskStates
  <2>5. POOL[Probe(k)] \in {"fresh", "yielded"} /\ taskInst[Probe(k)] = Probe(k)
    BY <2>1, <2>2 DEF is_task_runnable
  <2>6. Lifecycle!Enter(Probe(k)) \/ Lifecycle!Reenter(Probe(k))
    BY <2>1, <2>2, <2>4, <2>5 DEF Lifecycle!Enter, Lifecycle!Reenter
  <2>7. QED
    BY <2>2, <2>6
<1>6. ASSUME NEW pending \in Nat, AfterYield(pending)
      PROVE  Lifecycle!Next
  BY <1>6 DEF AfterYield, Lifecycle!Leave
<1>7. CASE TaskEnds
  BY <1>7 DEF TaskEnds, Destroy, Lifecycle!Drop
<1>8. CASE Module
  BY <1>4, <1>6, <1>7, <1>8, ClampIsNat
     DEF Module, TaskYields, TaskSleeps, SyncYields, poolVars
<1>9. CASE Shell
  BY <1>1, <1>2, <1>3, <1>9 DEF Shell, ShellOther, CmdTaskRunRejected, poolVars
<1>10. CASE Kernel
  BY <1>5, <1>10 DEF Kernel, NoTaskRuns, IdleCheck, poolVars
<1>11. QED
  BY <1>8, <1>9, <1>10 DEF Next, pit_on_tick, vars, poolVars

\* The scheduler drives the instances as the interpreter requires: entered once,
\* re-entered only where they yielded, one at a time.
THEOREM Refinement == Spec => ImplementsLifecycle
<1>1. Init => Lifecycle!Init
  BY DEF Init, Lifecycle!Init
<1>2. QED
  BY <1>1, StepRefines, SchedInvariant, PTL DEF Spec, ImplementsLifecycle, Lifecycle!Spec

-----------------------------------------------------------------------------
(* Bounded waiting: the steps a runnable task has been passed over and the  *)
(* slots still ahead of it on the scan from CURSOR never exceed the slots   *)
(* other than its own.                                                      *)

\* Slots probed before slot i by a scan that starts after c.
Ahead(c, i) == IF i > c THEN i - c - 1 ELSE i - c - 1 + MAX_INSTANCES

WaitInv ==
    /\ passed \in [Slots -> Nat]
    /\ \A i \in Slots : passed[i] + Ahead(CURSOR, i) <= MAX_INSTANCES - 1

\* Remainders of sums of two slot numbers.
LEMMA SumRemainder ==
    ASSUME NEW a \in Slots, NEW b \in Slots
    PROVE  (a + b) % MAX_INSTANCES =
             IF a + b < MAX_INSTANCES THEN a + b ELSE a + b - MAX_INSTANCES
BY SMT DEF Slots

\* The k-th probe without remainders.
LEMMA ProbeValue ==
    ASSUME CURSOR \in Slots, NEW k \in Slots
    PROVE  Probe(k) = IF CURSOR + 1 + k < MAX_INSTANCES THEN CURSOR + 1 + k
                      ELSE CURSOR + 1 + k - MAX_INSTANCES
<1>1. (CURSOR + 1) % MAX_INSTANCES = IF CURSOR + 1 < MAX_INSTANCES THEN CURSOR + 1 ELSE 0
  BY SMT DEF Slots
<1>2. PICK start \in Slots : start = (CURSOR + 1) % MAX_INSTANCES
  BY <1>1 DEF Slots
<1>3. (start + k) % MAX_INSTANCES =
         IF start + k < MAX_INSTANCES THEN start + k ELSE start + k - MAX_INSTANCES
  BY SumRemainder
<1>4. Probe(k) = (start + k) % MAX_INSTANCES
  BY <1>2 DEF Probe
<1>5. QED
  BY <1>1, <1>2, <1>3, <1>4 DEF Slots

\* A scan from CURSOR reaches slot i after exactly Ahead(CURSOR, i) others.
LEMMA AheadIsProbe ==
    ASSUME CURSOR \in Slots, NEW i \in Slots
    PROVE  Ahead(CURSOR, i) \in Slots /\ Probe(Ahead(CURSOR, i)) = i
<1>1. Ahead(CURSOR, i) \in Slots
  BY DEF Ahead, Slots
<1>2. QED
  BY <1>1, ProbeValue DEF Ahead, Slots

\* Moving CURSOR to the k-th probe brings slot i closer by k + 1.
LEMMA AheadAfterStep ==
    ASSUME CURSOR \in Slots, NEW i \in Slots, NEW k \in Slots, k < Ahead(CURSOR, i)
    PROVE  Ahead(Probe(k), i) <= Ahead(CURSOR, i) - 1
<1>1. Probe(k) = IF CURSOR + 1 + k < MAX_INSTANCES THEN CURSOR + 1 + k
                 ELSE CURSOR + 1 + k - MAX_INSTANCES
  BY ProbeValue
<1>2. QED
  BY <1>1 DEF Ahead, Slots

LEMMA AheadBound ==
    ASSUME NEW c \in Slots, NEW i \in Slots
    PROVE  Ahead(c, i) \in 0 .. MAX_INSTANCES - 1
BY DEF Ahead, Slots

LEMMA StepWait == TypeOK /\ TypeOK' /\ WaitInv /\ [HNext]_hvars => WaitInv'
<1> SUFFICES ASSUME TypeOK, TypeOK', WaitInv, [HNext]_hvars
             PROVE  WaitInv'
  OBVIOUS
<1>0. CURSOR \in Slots /\ CURSOR' \in Slots
  BY DEF TypeOK
<1>1. CASE RunNextTask /\ CountPassed
  <2>1. PICK k \in Slots :
           /\ is_task_runnable(Probe(k))
           /\ \A j \in 0 .. k - 1 : ~is_task_runnable(Probe(j))
           /\ CURSOR' = Probe(k)
    BY <1>1 DEF RunNextTask
  <2>2. passed' = [i \in Slots |->
                     IF is_task_runnable(i) /\ i # CURSOR' THEN passed[i] + 1 ELSE 0]
    BY <1>1 DEF CountPassed, RunNextTask
  <2>3. ASSUME NEW i \in Slots
        PROVE  passed'[i] + Ahead(CURSOR', i) <= MAX_INSTANCES - 1
    <3>1. CASE is_task_runnable(i) /\ i # CURSOR'
      <4> DEFINE m == Ahead(CURSOR, i)
      <4>1. m \in Slots /\ Probe(m) = i
        BY <1>0, AheadIsProbe
      <4>2. k # m /\ ~(m \in 0 .. k - 1)
        BY <2>1, <3>1, <4>1
      <4>3. k < m
        BY <4>1, <4>2 DEF Slots
      <4>4. Ahead(CURSOR', i) <= m - 1
        BY <1>0, <2>1, <4>3, AheadAfterStep
      <4>5. passed'[i] = passed[i] + 1
        BY <2>2, <3>1
      <4>6. passed[i] \in Nat /\ passed[i] + m <= MAX_INSTANCES - 1
        BY DEF WaitInv
      <4>7. Ahead(CURSOR', i) \in Int /\ m \in Int
        BY <1>0, AheadBound
      <4> HIDE DEF m
      <4>8. QED
        BY <4>4, <4>5, <4>6, <4>7
    <3>2. CASE ~(is_task_runnable(i) /\ i # CURSOR')
      BY <1>0, <2>2, <3>2, AheadBound
    <3>3. QED
      BY <3>1, <3>2
  <2>4. passed' \in [Slots -> Nat]
    BY <2>2 DEF WaitInv
  <2>5. QED
    BY <2>3, <2>4 DEF WaitInv
<1>2. CASE Next /\ ~RunNextTask /\ CountPassed
  <2>1. CURSOR' = CURSOR
    BY <1>2 DEF Next, Shell, Module, Kernel, ShellOther, CmdTaskRunRejected,
                CmdTaskRun, CmdTaskKill, CmdRun, ShellTurn, SyncYields, SyncEnds,
                TaskYields, TaskSleeps, AfterYield, TaskEnds, NoTaskRuns,
                IdleCheck, pit_on_tick
  <2>2. ~(pc = "task" /\ pc' = "exec")
    BY <1>2 DEF Next, Shell, Module, Kernel, ShellOther, CmdTaskRunRejected,
                CmdTaskRun, CmdTaskKill, CmdRun, ShellTurn, SyncYields, SyncEnds,
                TaskYields, TaskSleeps, AfterYield, TaskEnds, NoTaskRuns,
                IdleCheck, pit_on_tick
  <2>3. passed' = [i \in Slots |-> IF taskState'[i] = "None" THEN 0 ELSE passed[i]]
    BY <1>2, <2>2 DEF CountPassed
  <2>4. ASSUME NEW i \in Slots
        PROVE  passed'[i] + Ahead(CURSOR', i) <= MAX_INSTANCES - 1
    <3>1. Ahead(CURSOR, i) \in 0 .. MAX_INSTANCES - 1
      BY <1>0, AheadBound
    <3>2. QED
      BY <2>1, <2>3, <3>1 DEF WaitInv
  <2>5. QED
    BY <2>3, <2>4 DEF WaitInv
<1>3. CASE UNCHANGED hvars
  BY <1>3 DEF hvars, vars, WaitInv
<1>4. QED
  BY <1>1, <1>2, <1>3 DEF HNext

\* Round robin: a runnable task is stepped after at most MAX_TASKS - 1 steps of
\* others, for any number of slots.
THEOREM RoundRobin == HSpec => []BoundedWait
<1>1. HInit => WaitInv
  <2> SUFFICES ASSUME HInit PROVE WaitInv
    OBVIOUS
  <2>1. CURSOR \in Slots
    BY DEF HInit, Init, Slots
  <2>2. QED
    BY <2>1, AheadBound DEF HInit, WaitInv
<1>2. HSpec => Spec
  <2>1. [HNext]_hvars => [Next]_vars
    BY DEF HNext, hvars
  <2>2. HInit => Init
    BY DEF HInit
  <2>3. QED
    BY <2>1, <2>2, PTL DEF HSpec, Spec
<1>3. TypeOK /\ WaitInv => BoundedWait
  <2> SUFFICES ASSUME TypeOK, WaitInv, NEW i \in Slots
               PROVE  passed[i] <= MAX_INSTANCES - 1
    BY DEF BoundedWait
  <2>1. Ahead(CURSOR, i) \in 0 .. MAX_INSTANCES - 1
    BY AheadBound DEF TypeOK
  <2>2. passed[i] \in Nat /\ passed[i] + Ahead(CURSOR, i) <= MAX_INSTANCES - 1
    BY DEF WaitInv
  <2>3. QED
    BY <2>1, <2>2
<1>4. QED
  BY <1>1, <1>2, <1>3, TypeCorrect, StepWait, PTL DEF HSpec

-----------------------------------------------------------------------------
(* Sleep requests *)

\* Rounding up covers the milliseconds.
LEMMA TicksCover ==
    ASSUME NEW ms \in Nat
    PROVE  SleepTicks(ms) \in Nat /\ TICK_MS * SleepTicks(ms) >= ms
BY DEF SleepTicks, TICK_MS

\* The recorded wake tick covers what was asked for, a task that runs asks for nothing
\* yet, and a request nobody has taken comes from a synchronous run.
SleepInv ==
    /\ due \in [Slots -> Int]
    /\ \A i \in Slots : taskState[i] = "Sleeping" => TICK_MS * taskWake[i] >= due[i]
    /\ \A i \in Slots : taskState[i] = "Running" => due[i] = 0
    /\ PENDING_SLEEP_MS > 0 => left

\* What a step may do to a task's state and wake tick, by where the loop is.
LEMMA StateSteps ==
    ASSUME TypeOK, Shell \/ Kernel \/ pit_on_tick \/ SyncYields \/ SyncEnds \/ TaskEnds,
           NEW i \in Slots
    PROVE  /\ taskState'[i] = "Sleeping" => taskState[i] = "Sleeping" /\ taskWake'[i] = taskWake[i]
           /\ taskState'[i] = "Running" =>
                taskState[i] = "Running" \/ (RunNextTask /\ is_task_runnable(i))
<1>1. CASE Shell
  <2>1. CASE taskState' = taskState /\ taskWake' = taskWake
    BY <2>1
  <2>2. CASE \E j \in Slots : taskState' = [taskState EXCEPT ![j] = "Ready"] /\ taskWake' = taskWake
    BY <2>2 DEF TypeOK
  <2>3. CASE \E j \in Slots : CmdTaskKill(j)
    BY <2>3 DEF CmdTaskKill, RemoveTask, TypeOK
  <2>4. QED
    BY <1>1, <2>1, <2>2, <2>3 DEF Shell, ShellOther, CmdTaskRunRejected, CmdTaskRun, CmdRun, EmptyTasks, taskVars
<1>2. CASE RunNextTask
  <2>1. PICK k \in Slots : /\ is_task_runnable(Probe(k))
                           /\ taskState' = [taskState EXCEPT ![Probe(k)] = "Running"]
                           /\ taskWake' = [taskWake EXCEPT ![Probe(k)] = 0]
    BY <1>2 DEF RunNextTask
  <2>2. Probe(k) \in Slots
    BY ProbeIsSlot DEF TypeOK
  <2>3. CASE i = Probe(k)
    BY <1>2, <2>1, <2>2, <2>3 DEF TypeOK
  <2>4. CASE i # Probe(k)
    BY <2>1, <2>2, <2>4 DEF TypeOK
  <2>5. QED
    BY <2>3, <2>4
<1>3. CASE NoTaskRuns \/ IdleCheck \/ pit_on_tick \/ SyncYields \/ SyncEnds
  BY <1>3 DEF NoTaskRuns, IdleCheck, pit_on_tick, SyncYields, SyncEnds, taskVars
<1>4. CASE TaskEnds
  BY <1>4 DEF TaskEnds, RemoveTask, TypeOK
<1>5. QED
  BY <1>1, <1>2, <1>3, <1>4 DEF Kernel

LEMMA YieldSteps ==
    ASSUME TypeOK, NEW pending \in Nat, AfterYield(pending)
    PROVE  /\ CURSOR \in Slots /\ PENDING_SLEEP_MS' = 0
           /\ taskState'[CURSOR] =  IF pending > 0 THEN "Sleeping" ELSE "Suspended"
           /\ pending > 0 => taskWake'[CURSOR] = TICK_COUNT + SleepTicks(pending)
           /\ \A i \in Slots \ {CURSOR} : taskState'[i] = taskState[i] /\ taskWake'[i] = taskWake[i]
BY DEF AfterYield, TypeOK

\* Steps that ask for nothing, on the way to the invariant.
LEMMA RequestStep ==
    ASSUME TypeOK, SleepInv, SNext
    PROVE  PENDING_SLEEP_MS' > 0 => left'
<1>1. left' = IF pc = "sync" THEN PENDING_SLEEP_MS' > 0 ELSE left /\ ~Takes
  BY DEF SNext
<1>2. CASE pc = "sync"
  BY <1>1, <1>2
<1>3. CASE pc # "sync" /\ \E p \in Nat : AfterYield(p)
  BY <1>3 DEF AfterYield
<1>4. CASE pc # "sync" /\ TaskEnds
  <2>1. PENDING_SLEEP_MS' = PENDING_SLEEP_MS /\ taskState'[CURSOR] = "None"
    BY <1>4 DEF TaskEnds, RemoveTask, chanVars, TypeOK
  <2>2. QED
    BY <1>1, <1>4, <2>1 DEF Takes, SleepInv
<1>5. CASE pc # "sync" /\ (Shell \/ Kernel \/ pit_on_tick)
  <2>1. PENDING_SLEEP_MS' = PENDING_SLEEP_MS
    BY <1>5 DEF Shell, ShellOther, CmdTaskRunRejected, CmdTaskRun, CmdTaskKill, CmdRun, ShellTurn,
                Kernel, NoTaskRuns, RunNextTask, IdleCheck, pit_on_tick, chanVars
  <2>2. ~Takes
    BY <1>5 DEF Takes, Shell, ShellOther, CmdTaskRunRejected, CmdTaskRun, CmdTaskKill, CmdRun, ShellTurn,
                Kernel, NoTaskRuns, RunNextTask, IdleCheck, pit_on_tick
  <2>3. QED
    BY <1>1, <1>5, <2>1, <2>2 DEF SleepInv
<1>6. QED
  BY <1>2, <1>3, <1>4, <1>5, ClampIsNat DEF SNext, TaskSleeps, TaskYields, SyncYields, SyncEnds, TypeOK

LEMMA StepSleep == SchedInv /\ SleepInv /\ [SNext]_svars => SleepInv'
<1> SUFFICES ASSUME SchedInv, SleepInv, [SNext]_svars
             PROVE  SleepInv'
  OBVIOUS
<1>0. TypeOK /\ due \in [Slots -> Int] /\ TICK_COUNT \in Nat /\ PENDING_SLEEP_MS \in Nat
  BY DEF SchedInv, SleepInv, TypeOK
<1>1. CASE UNCHANGED svars
  BY <1>1 DEF svars, hvars, vars, taskVars, chanVars, SleepInv
<1>2. ASSUME NEW ms \in SleepArgs, TaskSleeps(ms), Asks(ms)
      PROVE  /\ due' \in [Slots -> Int]
             /\ \A i \in Slots : taskState'[i] = "Sleeping" => TICK_MS * taskWake'[i] >= due'[i]
             /\ \A i \in Slots : taskState'[i] = "Running" => due'[i] = 0
  <2> DEFINE p == ClampMs(ms)
  <2>1. p \in Nat /\ p >= ms /\ ms \in Int
    BY DEF ClampMs
  <2>2. /\ CURSOR \in Slots
        /\ taskState'[CURSOR] = IF p > 0 THEN "Sleeping" ELSE "Suspended"
        /\ p > 0 => taskWake'[CURSOR] = TICK_COUNT + SleepTicks(p)
        /\ \A i \in Slots \ {CURSOR} : taskState'[i] = taskState[i] /\ taskWake'[i] = taskWake[i]
    BY <1>0, <1>2, <2>1, YieldSteps DEF TaskSleeps
  <2>3. SleepTicks(p) \in Nat /\ TICK_MS * SleepTicks(p) >= p
    BY <2>1, TicksCover
  <2> HIDE DEF p
  <2>4. TICK_MS * TICK_COUNT + ms \in Int
    BY <1>0, <2>1 DEF TICK_MS
  <2>5. due' \in [Slots -> Int] /\ due'[CURSOR] = TICK_MS * TICK_COUNT + ms
        /\ \A i \in Slots \ {CURSOR} : due'[i] = due[i]
    BY <1>0, <1>2, <2>2, <2>4 DEF Asks
  <2>6. p > 0 => TICK_MS * taskWake'[CURSOR] >= due'[CURSOR]
    BY <1>0, <2>1, <2>2, <2>3, <2>5 DEF TICK_MS
  <2>7. QED
    BY <2>2, <2>5, <2>6 DEF SleepInv
<1>3. ASSUME NothingAsked
      PROVE  /\ due' \in [Slots -> Int]
             /\ \A i \in Slots : due'[i] = IF taskState'[i] = "Sleeping" THEN due[i] ELSE 0
  BY <1>0, <1>3 DEF NothingAsked
<1>4. ASSUME Shell \/ Kernel \/ pit_on_tick \/ SyncYields \/ SyncEnds \/ TaskEnds, NothingAsked
      PROVE  /\ \A i \in Slots : taskState'[i] = "Sleeping" => TICK_MS * taskWake'[i] >= due'[i]
             /\ \A i \in Slots : taskState'[i] = "Running" => due'[i] = 0
  BY <1>0, <1>3, <1>4, StateSteps DEF SleepInv
<1>5. ASSUME TaskYields, NothingAsked
      PROVE  /\ \A i \in Slots : taskState'[i] = "Sleeping" => TICK_MS * taskWake'[i] >= due'[i]
             /\ \A i \in Slots : taskState'[i] = "Running" => due'[i] = 0
  <2>1. /\ CURSOR \in Slots
        /\ PENDING_SLEEP_MS > 0 => taskWake'[CURSOR] = TICK_COUNT + SleepTicks(PENDING_SLEEP_MS)
        /\ taskState'[CURSOR] = IF PENDING_SLEEP_MS > 0 THEN "Sleeping" ELSE "Suspended"
        /\ \A i \in Slots \ {CURSOR} : taskState'[i] = taskState[i] /\ taskWake'[i] = taskWake[i]
    BY <1>0, <1>5, YieldSteps DEF TaskYields
  <2>2. due[CURSOR] = 0
    BY <1>5, <2>1 DEF SchedInv, StatesAgree, TaskYields, AfterYield, SleepInv
  <2>3. PENDING_SLEEP_MS > 0 => TICK_MS * taskWake'[CURSOR] >= 0
    BY <1>0, <2>1, SleepTicksIsNat DEF TICK_MS
  <2>4. QED
    BY <1>3, <1>5, <2>1, <2>2, <2>3 DEF SleepInv
<1>6. CASE SNext
  <2>1. PENDING_SLEEP_MS' > 0 => left'
    BY <1>0, <1>6, RequestStep
  <2>2. QED
    BY <1>2, <1>3, <1>4, <1>5, <1>6, <2>1 DEF SNext, SleepInv
<1>7. QED
  BY <1>1, <1>6

\* No task runs before the time it asked for, and none sleeps that did not ask, but for
\* what a synchronous run left behind: for any pool, any requests and any ticks.
THEOREM SleepsCovered == SSpec => SleepsAsAsked
<1>1. SInit => SchedInv /\ SleepInv
  BY InitInv DEF SInit, HInit, SleepInv, Init
<1>2. [SNext]_svars => [Next]_vars
  BY DEF SNext, svars, hvars, Next, Module
<1>3. ASSUME SchedInv, SleepInv, SNext
      PROVE  /\ \A i \in Slots :
                  taskState[i] = "Sleeping" /\ taskState'[i] = "Running"
                     => TICK_MS * TICK_COUNT >= due[i]
             /\ TaskYields /\ taskState'[CURSOR] = "Sleeping" => left
  <2>0. TypeOK /\ TICK_COUNT \in Nat /\ PENDING_SLEEP_MS \in Nat
    BY <1>3 DEF SchedInv, TypeOK
  <2>1. TaskYields /\ taskState'[CURSOR] = "Sleeping" => left
    BY <1>3, <2>0, YieldSteps DEF TaskYields, SleepInv
  <2>2. ASSUME NEW i \in Slots, taskState[i] = "Sleeping", taskState'[i] = "Running"
        PROVE  TICK_MS * TICK_COUNT >= due[i]
    <3>1. ASSUME NEW p \in Nat, AfterYield(p)
          PROVE  FALSE
      BY <2>0, <2>2, <3>1, YieldSteps
    <3>2. is_task_runnable(i)
      BY <1>3, <2>0, <2>2, <3>1, ClampIsNat, StateSteps DEF SNext, TaskSleeps, TaskYields
    <3>3. TICK_COUNT >= taskWake[i] /\ taskWake[i] \in Nat
      BY <2>0, <2>2, <3>2 DEF is_task_runnable, TypeOK
    <3>4. TICK_MS * taskWake[i] >= due[i] /\ due[i] \in Int
      BY <1>3, <2>2 DEF SleepInv
    <3>5. QED
      BY <2>0, <3>3, <3>4 DEF TICK_MS
  <2>3. QED
    BY <2>1, <2>2
<1>4. SchedInv /\ SleepInv /\ [SNext]_svars =>
        [/\ \A i \in Slots :
              taskState[i] = "Sleeping" /\ taskState'[i] = "Running"
                 => TICK_MS * TICK_COUNT >= due[i]
         /\ TaskYields /\ taskState'[CURSOR] = "Sleeping" => left]_svars
  BY <1>3, Zenon
<1>5. QED
  BY <1>1, <1>2, <1>4, StepInv, StepSleep, PTL DEF SSpec, SleepsAsAsked
=============================================================================

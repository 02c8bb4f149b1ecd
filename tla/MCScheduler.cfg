SPECIFICATION SFairSpec
CONSTANTS
    MAX_INSTANCES = 3
    SleepArgs <- MCSleepArgs
    Args = {"a"}
    MaxTick = 3
INVARIANTS
    SlotOwnership
    StatesAgree
    MemoryIsolated
    BoundedWait
PROPERTIES
    ImplementsLifecycle
    EveryTaskRuns
    

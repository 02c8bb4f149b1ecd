SPECIFICATION ASpec
CONSTANTS
    MAX_INSTANCES = 2
    SleepArgs <- MCSleepArgs
    Args = {"a", "b"}
    MaxTick = 1
INVARIANT ArgsBelongToTask

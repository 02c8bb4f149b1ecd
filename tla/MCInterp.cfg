SPECIFICATION FairSpec
CONSTANTS
  I32_BITS = 8
  I64_BITS = 16
  BYTE_BITS = 2
  JUMP_SLOTS = 4
  STACK_DEPTH = 6
  CALL_DEPTH = 4
  MAX_CTRL_DEPTH = 4
  MAX_LOCALS = 3
  PAGE_SIZE = 8
  MAX_PAGES = 2
  jump_hash <- MCHash
  Modules <- MCModules
  Args <- MCArgs
  HostValues <- MCHostValues
  FloatBits <- MCFloatBits
INVARIANTS  StackMapHolds  LookupEnds 
PROPERTIES CallersKept LoopFreeStops

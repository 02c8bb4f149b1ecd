SPECIFICATION Spec
CHECK_DEADLOCK FALSE
CONSTANTS
  I32_BITS = 16
  I64_BITS = 20
  JUMP_SLOTS = 4
  jump_hash <- MCHash
  MAX_TYPES = 3
  MAX_FUNCS = 4
  MAX_TABLE = 6
  MAX_GLOBALS = 2
  MAX_MEM_PAGES = 2
  SLOT_BYTES = 128
  Registry <- MCRegistry
  float_bytes <- MCFloat
  Inputs <- MCInputs
INVARIANTS
  
  CutIsRefused

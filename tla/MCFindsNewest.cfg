SPECIFICATION HSpec
CONSTANTS
    Names = {a}
    NoName = NoName
    Contents = {empty, torn}
    Empty = empty
    Torn = torn
    Big = {}
    NoFile = NoFile
    MAX_FILES = 3
    WRITE_SLOTS = 2
    DISK_CAP = 1
    MaxHeld = 1
INVARIANT FindsNewest

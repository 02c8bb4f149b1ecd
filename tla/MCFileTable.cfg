SPECIFICATION HSpec
CONSTANTS
    Names = {a, b}
    NoName = NoName
    Contents = {empty, torn, big}
    Empty = empty
    Torn = torn
    Big = {big}
    NoFile = NoFile
    MAX_FILES = 3
    WRITE_SLOTS = 2
    DISK_CAP = 1
    MaxHeld = 1
SYMMETRY Symmetry
INVARIANTS
    HeldBytesStable
    LastIsNewest

    

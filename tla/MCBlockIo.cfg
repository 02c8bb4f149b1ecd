\* Two blocks on the device and one past its end, two cells each; calls of up to
\* three cells, so that a call spans two blocks and has full and partial turns.
CONSTANTS
    BLOCK_SIZE = 2
    NumBlocks = 2
    MaxLba = 2
    Vals = {zero, x}
    Zero = zero
    MaxLen = 3
    NoLba = NoLba
SPECIFICATION Spec
PROPERTIES FlushDurable ImplementsByteDisk

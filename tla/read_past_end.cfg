SPECIFICATION Spec
CONSTANTS
    Sector = 2
    Fragment = 4
    Sizes <- SmallSizes
    Offsets <- SmallOffsets
    Lengths <- SmallLengths
INVARIANTS NothingBehindEnd

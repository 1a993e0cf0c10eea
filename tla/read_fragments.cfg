SPECIFICATION FairSpec
CONSTANTS
    Sector = 2
    Fragment = 4
    Sizes <- SmallSizes
    Offsets <- SmallOffsets
    Lengths <- SmallLengths
INVARIANTS TypeOK DeliversDocument ShortOnlyAtEnd PaddingStaysInside
PROPERTIES ReadEnds

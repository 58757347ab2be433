SPECIFICATION Spec
CONSTANTS
    x = x
    y = y
    Places <- FivePlaces
    MAX_FILE_LENGTH = 2
    MAX_LINE_LENGTH = 1
    MaxRuns = 3
    MaxCalls = 2
    MaxFails = 1
SYMMETRY TwoWays
INVARIANTS
    CountTypeOK
    NoPlaceTwice
    FileIsLedger
    LineCountsItsStacks

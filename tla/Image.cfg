SPECIFICATION Spec
CONSTANTS
    PageSize = 256
    IntMax = 200
    SizeMod = 65536
    Sizes <- AllSizes
    Probes <- EdgeProbes
    Selections <- SomeSelections
INVARIANTS
    ImageTypeOK
    LinesAreWhole
    HeaderKept
    ImageAsAsked

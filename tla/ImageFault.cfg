SPECIFICATION Spec
CONSTANTS
    PageSize = 256
    IntMax = 200
    SizeMod = 65536
    Sizes <- SmallFile
    Probes <- EdgeProbes
    Selections <- NoSelection
INVARIANT ToolFinishes

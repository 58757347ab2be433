SPECIFICATION Spec
CONSTANTS
    Programs <- MCPrograms_All
    Commands <- MCCommands
    MAX_STORE = 2
    AddMayFail = TRUE
    MaxRuns = 4
    MaxFails = 2
INVARIANTS ProgramTypeOK CompletedSurvives CacheHoldsStore ReadShowsStore ObjectIsWhole 
PROPERTIES StoreKeepsPromise CommitIsCounted
CHECK_DEADLOCK FALSE

SPECIFICATION Spec
CONSTANTS
    Paths <- SomePaths
    MaxEntries = 4
INVARIANTS
    FilteredExact
    NeverMisled
CHECK_DEADLOCK FALSE

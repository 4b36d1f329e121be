SPECIFICATION Spec
CONSTANTS
    Starts <- SomeStarts
    Chars <- SomeChars
    MaxTyped = 4
    Others <- SomeOthers
INVARIANTS
    RefsAreImages
    OriginReadBack

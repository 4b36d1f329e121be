SPECIFICATION Spec
CONSTANTS
    Objects = {"x", "y"}
    Chunkings <- SomeChunkings
    Metas = {"m1"}
    NoMeta = "none"
    Trees = {"t1", "t2"}
    MaxDerived = 2
    MaxExports = 2
INVARIANTS
    ReadBack
    HostExact
    UpdateIsRebuild

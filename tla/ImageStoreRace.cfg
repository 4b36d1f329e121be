SPECIFICATION FairSpec
CONSTANTS
    Procs = {p1, p2}
    Images = {"i1"}
    Manifests = {"S"}
    Layers = {"b1"}
    Layout <- LayoutS
    ImageId <- ImageIdS
    Bootable = {"S"}
    Unreadable = {}
    Filtered = {}
    Requests <- RaceRequests
    Serial = FALSE
    NoCommit = NoCommit
    NoManifest = NoManifest
INVARIANT
    RefsResolve
PROPERTY
    LockHandedOn

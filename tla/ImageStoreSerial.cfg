SPECIFICATION Spec
CONSTANTS
    Procs = {p1}
    Images = {"i1", "i2"}
    Manifests = {"E", "F"}
    Layers = {"b1", "c1", "d1"}
    Layout <- LayoutEF
    ImageId <- ImageIdEF
    Bootable = {"F"}
    Unreadable = {}
    Filtered = {}
    Requests <- SerialRequests
    Serial = TRUE
    NoCommit = NoCommit
    NoManifest = NoManifest
INVARIANTS
    TypeInv
    ImagesComplete
    SuccessIsStored
    NoSpuriousFailure
    GcComplete
    DeploymentsCached
    BasesWhole
    DeploymentsStored

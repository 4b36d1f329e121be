SPECIFICATION Spec
CONSTANTS
    Procs = {p1}
    Images = {"i1"}
    Manifests = {"C", "F"}
    Layers = {"b1", "b2", "c1", "d1"}
    Layout <- LayoutCF
    ImageId <- ImageIdCF
    Bootable = {"F"}
    Unreadable = {}
    Filtered = {"d1"}
    Requests <- NorefRequests
    Serial = TRUE
    NoCommit = NoCommit
    NoManifest = NoManifest
INVARIANT
    NorefKeepsLayers

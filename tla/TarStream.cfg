SPECIFICATION Spec
CONSTANTS
    Names = {"/", ".", "sysroot", "usr", "etc", "var", "tmp", "lib", "bin", "a", "b", "c", "d", "z"}
    Commit = "commit"
    Commits = {"commit", "other"}
    Contents = {"f1", "f2", "zero", "lnk"}
    Symlinks = {"lnk"}
    Empties = {"zero"}
    Xattrs = {"x1", "x2"}
    XattrOf <- MCXattrOf
    Trees = {"root", "usr", "etc", "none"}
    Root = "root"
    Metas = {"m1", "m2"}
    RootMeta = "m1"
    Files <- MCFiles
    Dirs <- MCDirs
    Plans <- MCPlans
    Foreign <- MCForeign
    Stores <- MCStores
    MaxFaults = 1
INVARIANTS
    TypeOK
    LinksResolve
    NeverRefused
    ImportRestores
    PartialHonest
    SetExact
PROPERTY
    VerifiedOnly
CHECK_DEADLOCK FALSE

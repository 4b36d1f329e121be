SPECIFICATION Spec
CONSTANTS
    Names = {"/", ".", "sysroot", "usr", "etc", "var", "tmp", "a"}
    Commit = "commit"
    Commits = {"commit"}
    Contents = {"f1"}
    Symlinks = {}
    Empties = {}
    Xattrs = {"x1"}
    XattrOf <- MCXattrOf
    Trees = {"root", "var", "none"}
    Root = "root"
    Metas = {"m1"}
    RootMeta = "m1"
    Files <- VarFiles
    Dirs <- VarDirs
    Plans <- VarPlans
    Foreign = {}
    Stores = {{}}
    MaxFaults = 0
INVARIANT
    PathsOnce
CHECK_DEADLOCK FALSE

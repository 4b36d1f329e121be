SPECIFICATION Spec
SYMMETRY ImageSymmetry
CONSTANTS
    Objects = {"o1", "o2", "o3"}
    InodeMaps <- SomeInodes
    Images = {i1, i2}
    Base <- SomeBase
    Derived <- SomeDerived
    MaxChanges = 1
INVARIANT
    RepairExact
CHECK_DEADLOCK FALSE

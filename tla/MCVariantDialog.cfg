SPECIFICATION Spec
SYMMETRY Symmetry
CONSTANTS
    Admin = {a1, a2}
    Cell = {x, y}
    MaxVariants = 2
    MaxChecks = 3
    MaxSaves = 2
INVARIANTS TypeOK BusyAwaitsAnswer
PROPERTIES RemovedOnPurpose SaveReconciles
CHECK_DEADLOCK FALSE

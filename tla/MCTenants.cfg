\* Two handles, two ids; one command is cut off by a crash, or one of its operations fails.
CONSTANTS
    Handles = {alice, bob}
    Ids = {id1, id2}
    None = None
    MaxOld = 2
    MaxFaults = 1
SPECIFICATION Spec
SYMMETRY Symmetry
CHECK_DEADLOCK FALSE
INVARIANTS
    OneWholeCopy
    ReplicaStateIsOwn
    RowsMatchFiles
    StateTravelsAlong
PROPERTIES
    ServesItsHolder
    NeverComesUpEmpty

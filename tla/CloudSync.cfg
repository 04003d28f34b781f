CONSTANTS
    d1 = d1
    d2 = d2
    None = None
    Device <- Devices
    MaxEdit = 2
    MaxAttempt = 3
    MaxDay = 1
    MaxWipe = 0
    MaxFault = 1
    MaxDeath = 0

SPECIFICATION Spec

SYMMETRY Swap

INVARIANTS
    TypeOK
    HeadComplete
    UnsyncedEditsKept

PROPERTIES
    DirtyClearedExactly

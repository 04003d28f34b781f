CONSTANTS
    d1 = d1
    d2 = d2
    None = None
    Device = {d1}
    MaxEdit = 1
    MaxAttempt = 4
    MaxDay = 1
    MaxWipe = 1
    MaxFault = 2
    MaxDeath = 1

SPECIFICATION Spec

INVARIANTS
    FilesAccounted

PROPERTIES
    NoFileForgotten

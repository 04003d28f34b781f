CONSTANTS
    d1 = d1
    d2 = d2
    None = None
    Device <- Devices
    MaxEdit = 1
    MaxAttempt = 5
    MaxDay = 1
    MaxWipe = 0
    MaxFault = 1
    MaxDeath = 0

SPECIFICATION Spec
SYMMETRY Swap

INVARIANT PublishedChunksExist

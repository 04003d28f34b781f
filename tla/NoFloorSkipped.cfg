SPECIFICATION ExtractionSpec

CONSTANTS
    Runs = {r1, r2}
    ExtractEvery = 1
    MaxMessage = 3
    MaxGeneration = 1

CHECK_DEADLOCK FALSE

INVARIANT NoFloorSkipped

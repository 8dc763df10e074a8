CONSTANTS
    MaxFiducials = 3
    Circle = 4
    ClocksPerSec = 1000
    Ticks = {0, 1, 3}
    RawFrames <- SomeFrames
    Windows = TRUE
    MaxSent = 3
SPECIFICATION Spec
\* The server ends when it is closed.
CHECK_DEADLOCK FALSE
INVARIANTS
    FinderInv
    SpeedsOfLastSightings
    ViewIsOneFrame

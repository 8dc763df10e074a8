\* Videos 1, 3 and what is recorded up to number 4; xtrack2.avi has a name of the user's.
CONSTANTS
    Windows = TRUE
    Foreign = {2}
    MaxFile = 4
    MaxFrames = 6
    Directories <- SomeDirectories
    Ratios <- SomeRatios
SPECIFICATION Spec
INVARIANTS
    ModeAgrees
    RateKept
PROPERTIES
    NeverOverwrites
    PlaysInOrder
    QuitHonoured

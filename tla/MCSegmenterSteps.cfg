\* Every 3 x 4 image, without symmetry because a property is a liveness property.
CONSTANTS
    black = black
    white = white
    Colours = {black, white}
    Width = 3
    Height = 4
    MaxAdjacent = 2
SPECIFICATION FairSpec
INVARIANT PartsAreComponents
PROPERTIES
    ImplementsComponents
    FlagsKept
    FrameFinishes

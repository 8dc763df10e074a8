\* Every 4 x 4 image; lists of 3 entries, so that some saturate and most do not.
CONSTANTS
    black = black
    white = white
    Colours = {black, white}
    Width = 4
    Height = 4
    MaxAdjacent = 3
SYMMETRY ColourSymmetry
SPECIFICATION Spec
INVARIANTS
    TypeOK
    OneOwner
    BidirectionalAdjacency
    ListsMatchImage
    SaturationExact
    FlagsAndBoxesExact

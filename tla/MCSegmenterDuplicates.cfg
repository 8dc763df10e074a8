\* Lists of 8 entries: none of these images fills one.
CONSTANTS
    black = black
    white = white
    Colours = {black, white}
    Width = 4
    Height = 4
    MaxAdjacent = 8
SYMMETRY ColourSymmetry
SPECIFICATION Spec
INVARIANT NoDuplicateAdjacency

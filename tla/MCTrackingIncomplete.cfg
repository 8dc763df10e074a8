CONSTANTS
    black = black
    white = white
    Colours = {black, white}
    Width = 11
    Height = 7
    RegionLimit = 77
    MaxAdjacent = 6
    FuzzyRange = 2
    MaxCount = 2
    Trees <- FewTrees
    Images <- FewImages
SPECIFICATION TrackingSpec
INVARIANT NeverTraversesIncomplete

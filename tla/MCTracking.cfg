\* Four families of 11 x 7 images; fiducials of 5 and 6 regions, so that lists hold 6 entries.
CONSTANTS
    black = black
    white = white
    Colours = {black, white}
    Width = 11
    Height = 7
    RegionLimit = 77
    MaxAdjacent = 6
    FuzzyRange = 2
    MaxCount = 2
    Trees <- FewTrees
    Images <- FewImages
SPECIFICATION TrackingSpec
INVARIANTS
    HandsOverGraph
    Assertions
    StringsFit
    CandidatesExact
    IdsExact

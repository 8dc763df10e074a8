\* Nestings of up to 7 regions and two of 11 and 12, with fiducials of two symbols; 3 x 3 tiles of
\* four pixels; two frames of 8 x 6 pixels.
CONSTANTS
    Parts = {"search", "symbols", "thresholds", "Bernsen"}
    SymbolCount = 2
    MaxFiducials = 1
    Pictures <- MCPictures
    MaxRegions = 7
    Larger <- TwoFiducials
    Designs <- MCDesigns
    Placements <- MCPlacements
    Width = 12
    Height = 12
    TileSize = 4
    Threshold = 90
    GradientThreshold = 50
    TileArrayWidth = 4
    TileArrayHeight = 4
    Images <- MCImages
    Methods = {"simple", "adaptive", "overlapped", "gradient"}
    Unwritten = Unwritten
    BernsenWidth = 8
    BernsenHeight = 6
    ContrastThreshold = 40
    BernsenImages <- MCBernsenImages
    Frames = 2
    Behind <- MCBehind
SPECIFICATION MCSpec
\* The search of one picture ends, and six symbols are all there are.
CHECK_DEADLOCK FALSE
INVARIANTS
    ListedOnce
    RootsExact
    FiducialsAreRead
    PixelsAreJudged

---------------------------- MODULE MCLibfidtrack ----------------------------
(***************************************************************************)
(* The parts of libfidtrack that xtrack is linked with and does not call:  *)
(* the search for the regions of fiducials of six symbols, the             *)
(* identification of one, and the thresholders.  Every behaviour is about  *)
(* one of them, and the others have nothing to work on.                    *)
(***************************************************************************)
EXTENDS TopologySearch

CONSTANTS
    Parts,          \* those that are modelled
    MaxRegions,     \* the largest of the nestings that are all tried
    Larger,         \* larger nestings, as the region around each region
    Designs, Placements,                                            \* of SymbolOrders
    Width, Height, TileSize, Threshold, GradientThreshold,          \* of Thresholds
    TileArrayWidth, TileArrayHeight, Images, Methods, Unwritten,
    BernsenWidth, BernsenHeight, ContrastThreshold, BernsenImages, Frames, Behind

VARIABLES
    part,
    design, placement, points, lines, stage, fiducial,
    source, dest, method, pc, x, y, yt, sobel_tiles, max_tiles, min_tiles,
    grayImage, blackAndWhite, frame, min_max, threshold, behind, step, row

orderState == <<design, placement, points, lines, stage, fiducial>>
thresholdState == <<source, dest, method, pc, x, y, yt, sobel_tiles, max_tiles, min_tiles>>
bernsenState == <<grayImage, blackAndWhite, frame, min_max, threshold, behind, step, row>>

Orders == INSTANCE SymbolOrders WITH step <- stage
Thresholders == INSTANCE Thresholds
Bernsen == INSTANCE BernsenThreshold WITH
    Width <- BernsenWidth, Height <- BernsenHeight, Images <- BernsenImages,
    source <- grayImage, dest <- blackAndWhite, pc <- step

ASSUME SizeAssumptions == Thresholders!SizesAssumption /\ Bernsen!BernsenAssumption

-----------------------------------------------------------------------------
(***************************************************************************)
(* Pictures of the search                                                  *)
(***************************************************************************)
\* Regions lie in one another: p[r] < r is the region around r, the first lies in none.
NestingsOf[n \in 1 .. MaxRegions] ==
    IF n = 1 THEN {<<0>>} ELSE {Append(p, around) : p \in NestingsOf[n - 1], around \in 1 .. n - 1}
Nestings == UNION {NestingsOf[n] : n \in 1 .. MaxRegions} \cup Larger

\* The colour changes from a region to those inside it; a list has the inner regions first or last.
Picture(p, outermost, outerFirst) ==
    LET isOutermost[r \in 1 .. Len(p)] == IF r = 1 THEN TRUE ELSE ~isOutermost[p[r]]
        other == IF outermost = "black" THEN "white" ELSE "black"
        inner(r) == SelectSeq([k \in 1 .. Len(p) |-> k], LAMBDA k : p[k] = r)
        outer(r) == IF r = 1 THEN <<>> ELSE <<p[r]>>
    IN [r \in 1 .. Len(p) |->
           [colour |-> IF isOutermost[r] THEN outermost ELSE other,
            adjacent |-> IF outerFirst THEN outer(r) \o inner(r) ELSE inner(r) \o outer(r)]]

\* The segmenter may list two neighbours twice.
ListedTwice(picture, r, s) ==
    [picture EXCEPT ![r].adjacent = Append(@, s), ![s].adjacent = Append(@, r)]

MCPictures ==
    LET pictures == {Picture(p, outermost, first) : p \in Nestings, outermost \in {"black", "white"},
                                                    first \in BOOLEAN}
    IN  pictures \cup {ListedTwice(p, 2, p[2].adjacent[1]) : p \in {q \in pictures : Len(q) > 1}}

\* Two fiducials of two symbols side by side.
TwoFiducials == {<<0, 1, 2, 2, 3, 4, 1, 7, 7, 8, 9>>, <<0, 1, 2, 2, 3, 4, 4, 1, 8, 8, 9, 10>>}

(***************************************************************************)
(* Fiducials of six symbols                                                *)
(***************************************************************************)
\* Three symbols in a line and three more below it, in the image, where y points down.
Upright(a, b) == <<<<0, 0>>, <<a, 0>>, <<2 * a, 0>>, <<2 * a, b>>, <<a, b>>, <<0, b>>>>
Turned(corners, u, v) ==
    [i \in 1 .. 6 |-> <<u * corners[i][1] - v * corners[i][2], v * corners[i][1] + u * corners[i][2]>>]
Blurred(corners) ==
    LET error == <<<<1, 0>>, <<0, -1>>, <<-1, 1>>, <<1, 1>>, <<0, 1>>, <<-1, 0>>>>
    IN [i \in 1 .. 6 |-> <<corners[i][1] + error[i][1], corners[i][2] + error[i][2]>>]

MCPlacements == {Turned(Upright(12, 18), 0, -1), Blurred(Turned(Upright(4, 5), -3, 4))}

\* The symbol with one leaf at three of the corners, once with another symbol twice; and at none.
MCDesigns == {<<0, 1, 2, 3, 4, 5>>, <<5, 4, 0, 2, 1, 3>>, <<3, 5, 5, 0, 2, 4>>, <<1, 0, 2, 3, 4, 5>>}

(***************************************************************************)
(* Gray images                                                             *)
(***************************************************************************)
\* A background with one or two other pixels, and ramps, on which every pixel of a tile may raise
\* the running maximum.
PixelsOf(width, height) == (0 .. width - 1) \X (0 .. height - 1)
Dotted(pixels, dots, others, backgrounds) ==
    {[r \in pixels |-> IF r = p THEN dot ELSE IF r = q THEN 60 ELSE background] :
        p \in {s \in pixels : (s[1] + 2 * s[2]) % 3 = 0}, q \in others, dot \in dots,
        background \in backgrounds}
Ramps(pixels) ==
    {[r \in pixels |-> 128 + a * (r[1] - 5) + b * (r[2] - 5)] : a \in {-12, 3}, b \in {-2, 0, 10}}

MCImages == Dotted(PixelsOf(Width, Height), {40, 255}, {<<4, 4>>, <<5, 2>>}, {0, 100})
                \cup Ramps(PixelsOf(Width, Height))
\* The last one falls to the right and downwards.
MCBernsenImages == Dotted(PixelsOf(BernsenWidth, BernsenHeight), {5, 255}, {<<3, 3>>}, {20, 100})
                       \cup {[p \in PixelsOf(BernsenWidth, BernsenHeight) |-> 200 - 6 * p[1] - 15 * p[2]]}
MCBehind == {[min |-> 0, max |-> 255], [min |-> 200, max |-> 10]}

-----------------------------------------------------------------------------
\* The state of the parts that a behaviour is not about: no picture, no symbols, no image.
NoSearch ==
    /\ regions = <<>> /\ level = <<>> /\ leaves = <<>> /\ containers = <<>> /\ roots = <<>>
    /\ phase = "leaves" /\ next = 1 /\ place = 1 /\ fiducials = <<>>
NoSymbols ==
    /\ design = <<>> /\ placement = <<>> /\ points = <<>> /\ lines = <<>> /\ stage = "none"
    /\ fiducial = <<>>
NoThresholds ==
    /\ source = <<>> /\ dest = <<>> /\ method = "none" /\ pc = "none" /\ x = 0 /\ y = 0 /\ yt = 0
    /\ sobel_tiles = <<>> /\ max_tiles = <<>> /\ min_tiles = <<>>
NoBernsen ==
    /\ grayImage = <<>> /\ blackAndWhite = <<>> /\ frame = 0 /\ min_max = <<>> /\ threshold = <<>>
    /\ behind = <<>> /\ step = "none" /\ row = 0

MCInit ==
    /\ part \in Parts
    /\ IF part = "search" THEN Init ELSE NoSearch
    /\ IF part = "symbols" THEN Orders!Init ELSE NoSymbols
    /\ IF part = "thresholds" THEN Thresholders!Init ELSE NoThresholds
    /\ IF part = "Bernsen" THEN Bernsen!Init ELSE NoBernsen

MCNext ==
    \/ part = "search" /\ Next /\ UNCHANGED <<part, orderState, thresholdState, bernsenState>>
    \/ part = "symbols" /\ Orders!Next /\ UNCHANGED <<part, vars, thresholdState, bernsenState>>
    \/ part = "thresholds" /\ Thresholders!Next /\ UNCHANGED <<part, vars, orderState, bernsenState>>
    \/ part = "Bernsen" /\ Bernsen!Next /\ UNCHANGED <<part, vars, orderState, thresholdState>>

MCSpec == MCInit /\ [][MCNext]_<<part, vars, orderState, thresholdState, bernsenState>>

\* The codes of a fiducial are read once around from its first symbol and give its rank
\* (ReadsCodes), and the angle is that of its first line (PointsAlongFirstLine).
FiducialsAreRead == part = "symbols" => Orders!ReadsCodes /\ Orders!PointsAlongFirstLine

\* Every thresholder decides about every pixel, by the tiles or blocks that lie around it and not
\* by what is left of another frame or lies behind a buffer.
PixelsAreJudged ==
    CASE part = "thresholds" ->
            /\ Thresholders!TypeOK /\ Thresholders!AllWritten
            /\ Thresholders!JudgedByNearTiles /\ Thresholders!JudgedByOwnTile
            /\ Thresholders!JudgedFromMiddle
      [] part = "Bernsen" ->
            /\ Bernsen!TypeOK /\ Bernsen!ExtremesOfBlocks
            /\ Bernsen!JudgedBySurroundings /\ Bernsen!BrightStaysWhite
      [] OTHER -> TRUE
=============================================================================

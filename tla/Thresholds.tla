----------------------------- MODULE Thresholds -----------------------------
(***************************************************************************)
(* The four thresholders of threshold.c.  Each turns a gray image into a   *)
(* black and white one, walking over cells of the image; a step handles    *)
(* one cell, or one row of cells of overlapped_adaptive_threshold2.  The   *)
(* pointers that walk along with the loops, and the stride of the source,  *)
(* are coordinates here: a pixel is <<x, y>>, a cell a set of pixels.      *)
(***************************************************************************)
EXTENDS Integers, FiniteSets, FiniteSetsExt, SequencesExt

CONSTANTS
    Width, Height, TileSize,
    Threshold,                          \* of simple_threshold
    GradientThreshold,                  \* of overlapped_adaptive_threshold2
    TileArrayWidth, TileArrayHeight,    \* TILE_ARRAY_WIDTH and TILE_ARRAY_HEIGHT
    Images, Methods, Unwritten

Gray == 0 .. 255
White == 255
Black == 0
Half == TileSize \div 2

\* The tiles that fit into the image, and its pixels.
xtiles == Width \div TileSize
ytiles == Height \div TileSize
Area(xstart, xend, ystart, yend) == (xstart .. xend - 1) \X (ystart .. yend - 1)
Pixels == Area(0, Width, 0, Height)

SizesAssumption ==
    /\ Width \in Nat /\ Height \in Nat
    /\ TileSize \in 2 .. Width /\ TileSize <= Height
    /\ xtiles <= TileArrayWidth /\ ytiles <= TileArrayHeight     \* "hardwired dimensions for now"
    /\ Images \subseteq [Pixels -> Gray]
    /\ Methods \subseteq {"simple", "adaptive", "overlapped", "gradient"}

VARIABLES
    source, dest,
    method,         \* which of the functions runs
    pc,             \* the loop it is in
    x, y,           \* the position of that loop, in pixels
    yt,             \* the row of tiles of the loop, in overlapped_adaptive_threshold2
    sobel_tiles, max_tiles, min_tiles

vars == <<source, dest, method, pc, x, y, yt, sobel_tiles, max_tiles, min_tiles>>
tileVars == <<sobel_tiles, max_tiles, min_tiles>>

TileArray == 0 .. TileArrayWidth * TileArrayHeight - 1

\* The program calls a thresholder anew for every frame.
Init ==
    /\ source \in Images /\ method \in Methods
    /\ dest = [p \in Pixels |-> Unwritten]
    /\ pc = IF method = "gradient" THEN "statistics" ELSE method
    /\ x = 0 /\ y = 0 /\ yt = 0
    /\ sobel_tiles = [i \in TileArray |-> 0]
    /\ max_tiles = [i \in TileArray |-> 0] /\ min_tiles = [i \in TileArray |-> 0]

\* *p > threshold: 255, else 0, for the pixels of a cell.
Written(cell, threshold) ==
    [p \in Pixels |-> IF p \notin cell THEN dest[p]
                      ELSE IF source[p] > threshold THEN White ELSE Black]

(***************************************************************************)
(* simple_threshold                                                        *)
(***************************************************************************)
simple_threshold ==
    /\ pc = "simple" /\ pc' = "done"
    /\ dest' = Written(Pixels, Threshold)
    /\ UNCHANGED <<source, method, x, y, yt, tileVars>>

(***************************************************************************)
(* simple_adaptive_threshold and overlapped_adaptive_threshold: the mean   *)
(* of a tile is the threshold of the tile, or of the middle of it          *)
(***************************************************************************)
Smaller(a, b) == IF a < b THEN a ELSE b
Tile(xs, ys) == Area(xs, Smaller(xs + TileSize, Width), ys, Smaller(ys + TileSize, Height))
SumOver(cell) == MapThenSumSet(LAMBDA p : source[p], cell)
Mean(cell) == SumOver(cell) \div Cardinality(cell)

\* for( y = 0; y < height; y += step ) for( x = 0; x < width; x += step )
NextCell(step) ==
    /\ x' = IF x + step < Width THEN x + step ELSE 0
    /\ y' = IF x + step < Width THEN y ELSE y + step
    /\ pc' = IF y' < Height THEN pc ELSE "done"

simple_adaptive_threshold ==
    /\ pc = "adaptive"
    /\ dest' = Written(Tile(x, y), Mean(Tile(x, y)))
    /\ NextCell(TileSize)
    /\ UNCHANGED <<source, method, yt, tileVars>>

\* fsd < 100, where fsd is the mean of the squared distances to the mean.
LowVariance(cell) ==
    LET n == Cardinality(cell)
    IN  n * MapThenSumSet(LAMBDA p : source[p] * source[p], cell) - SumOver(cell) * SumOver(cell)
            < 100 * n * n

\* The part of a tile that gets its threshold: from ys to ymax, or from xs to xmax.
Middle(start, size) ==
    (IF start = 0 THEN 0 ELSE start + TileSize \div 4)
        .. Smaller(start + TileSize - TileSize \div 4, size) - 1

overlapped_adaptive_threshold ==
    /\ pc = "overlapped"
    /\ LET mean == Mean(Tile(x, y)) - (IF LowVariance(Tile(x, y)) THEN 10 ELSE 0)
       IN  dest' = Written(Middle(x, Width) \X Middle(y, Height), mean)
    /\ NextCell(Half)
    /\ UNCHANGED <<source, method, yt, tileVars>>

(***************************************************************************)
(* overlapped_adaptive_threshold2: first the statistics of every tile      *)
(***************************************************************************)
\* The last column and the last row of the image are left out (REQUIRED_EXTRA).
Inner(xt, yi) ==
    Area(xt * TileSize, Smaller((xt + 1) * TileSize, Width - 1),
         yi * TileSize, Smaller((yi + 1) * TileSize, Height - 1))

Distance(a, b) == IF a < b THEN b - a ELSE a - b
Gradient(p) == Distance(source[<<p[1] + 1, p[2]>>], source[p]) + Distance(source[<<p[1], p[2] + 1>>], source[p])

\* A pixel that raises the running maximum is not compared with the minimum.
Before(p, q) == p[2] < q[2] \/ (p[2] = q[2] /\ p[1] < q[1])
RaisesMax(p, cell) == source[p] > 0 /\ \A q \in cell : Before(q, p) => source[q] < source[p]

MaxOf(cell) == Max({0} \cup {source[p] : p \in cell})
MinOf(cell) == Min({255} \cup {source[p] : p \in {q \in cell : ~RaisesMax(q, cell)}})
GradientOf(cell) == Max({0} \cup {Gradient(p) : p \in cell})

TileIndex(xt, yi) == yi * TileArrayWidth + xt
Tiles == (0 .. xtiles - 1) \X (0 .. ytiles - 1)

\* What the loop over the tiles leaves in an array, given the statistic of one tile.
Filled(array, statistic(_)) ==
    [i \in TileArray |->
        IF \E t \in Tiles : TileIndex(t[1], t[2]) = i
        THEN LET t == CHOOSE s \in Tiles : TileIndex(s[1], s[2]) = i IN statistic(Inner(t[1], t[2]))
        ELSE array[i]]

Statistics ==
    /\ pc = "statistics" /\ pc' = "top left"
    /\ sobel_tiles' = Filled(sobel_tiles, GradientOf)
    /\ max_tiles' = Filled(max_tiles, MaxOf)
    /\ min_tiles' = Filled(min_tiles, MinOf)
    /\ UNCHANGED <<source, dest, method, x, y, yt>>

(***************************************************************************)
(* Then the cells, which are shifted by half a tile against the tiles: a   *)
(* cell gets its threshold from the tiles it touches                       *)
(***************************************************************************)
CellOf(area, tiles) == [area |-> area, tiles |-> {TileIndex(t[1], t[2]) : t \in tiles}]

\* Without a strong gradient in one of its tiles the cell is black.
Steep(cell) == Max({sobel_tiles[i] : i \in cell.tiles}) > GradientThreshold
MeanOfExtremes(cell) ==
    (Max({max_tiles[i] : i \in cell.tiles}) + Min({min_tiles[i] : i \in cell.tiles})) \div 2

CellsWritten(cells) ==
    [p \in Pixels |->
        IF \A c \in cells : p \notin c.area THEN dest[p]
        ELSE LET c == CHOOSE d \in cells : p \in d.area
             IN  IF Steep(c) /\ source[p] > MeanOfExtremes(c) THEN White ELSE Black]

WriteCells(from, cells, to) ==
    /\ pc = from /\ pc' = to
    /\ dest' = CellsWritten(cells)
    /\ UNCHANGED <<source, method, x, y, tileVars>>

LastRow == (ytiles - 1) * TileSize + Half
FromMiddle(t) == t * TileSize + Half

TopLeft ==
    /\ WriteCells("top left", {CellOf(Area(0, Half, 0, Half), {<<0, 0>>})}, "top")
    /\ UNCHANGED yt

TopRow ==
    /\ WriteCells("top",
           {CellOf(Area(FromMiddle(xt), FromMiddle(xt) + TileSize, 0, Half), {<<xt, 0>>, <<xt + 1, 0>>}) :
               xt \in 0 .. xtiles - 2}, "top right")
    /\ UNCHANGED yt

TopRight ==
    /\ WriteCells("top right", {CellOf(Area(Width - Half, Width, 0, Half), {<<xtiles - 1, 0>>})},
                  IF ytiles > 1 THEN "left" ELSE "bottom left")
    /\ yt' = 0

LeftHalf ==
    /\ WriteCells("left",
           {CellOf(Area(0, Half, FromMiddle(yt), FromMiddle(yt) + TileSize), {<<0, yt>>, <<0, yt + 1>>})},
           "row")
    /\ UNCHANGED yt

FullRow ==
    /\ WriteCells("row",
           {CellOf(Area(FromMiddle(xt), FromMiddle(xt) + TileSize, FromMiddle(yt), FromMiddle(yt) + TileSize),
                   {xt, xt + 1} \X {yt, yt + 1}) : xt \in 0 .. xtiles - 2}, "right")
    /\ UNCHANGED yt

RightHalf ==
    /\ WriteCells("right",
           {CellOf(Area(Width - Half, Width, FromMiddle(yt), FromMiddle(yt) + TileSize),
                   {<<xtiles - 1, yt>>, <<xtiles - 1, yt + 1>>})},
           IF yt + 1 < ytiles - 1 THEN "left" ELSE "bottom left")
    /\ yt' = yt + 1

BottomLeft ==
    /\ WriteCells("bottom left", {CellOf(Area(0, Half, LastRow, LastRow + Half), {<<0, ytiles - 1>>})}, "bottom")
    /\ UNCHANGED yt

BottomRow ==
    /\ WriteCells("bottom",
           {CellOf(Area(FromMiddle(xt), FromMiddle(xt) + TileSize, LastRow, LastRow + Half),
                   {<<xt, ytiles - 1>>, <<xt + 1, ytiles - 1>>}) : xt \in 0 .. xtiles - 2}, "bottom right")
    /\ UNCHANGED yt

BottomRight ==
    /\ WriteCells("bottom right",
           {CellOf(Area(Width - Half, Width, LastRow, LastRow + Half), {<<xtiles - 1, ytiles - 1>>})}, "done")
    /\ UNCHANGED yt

Ended == pc = "done" /\ UNCHANGED vars

Next ==
    \/ simple_threshold \/ simple_adaptive_threshold \/ overlapped_adaptive_threshold
    \/ Statistics \/ TopLeft \/ TopRow \/ TopRight \/ LeftHalf \/ FullRow \/ RightHalf
    \/ BottomLeft \/ BottomRow \/ BottomRight
    \/ Ended

Spec == Init /\ [][Next]_vars

(***************************************************************************)
(* Properties                                                              *)
(***************************************************************************)
TypeOK ==
    /\ source \in [Pixels -> Gray] /\ method \in Methods
    /\ dest \in [Pixels -> {Black, White, Unwritten}]
    /\ pc \in {"simple", "adaptive", "overlapped", "statistics", "top left", "top", "top right", "left",
               "row", "right", "bottom left", "bottom", "bottom right", "done"}
    /\ x \in 0 .. Width /\ y \in 0 .. Height + TileSize /\ yt \in 0 .. ytiles - 1
    /\ \A tiles \in {max_tiles, min_tiles} : tiles \in [TileArray -> Gray]
    /\ sobel_tiles \in [TileArray -> 0 .. 510]

\* The cells of each of the four walks leave no pixel of the result out when the sides of the
\* image are multiples of an even tile size.
AllWritten == pc = "done" => \A p \in Pixels : dest[p] # Unwritten

\* overlapped_adaptive_threshold2: a pixel is judged by exactly the tiles that lie within half a
\* tile of it, whichever of the nine loops wrote it.
NearTiles(p) ==
    {t \in Tiles : \A d \in 1 .. 2 :
        p[d] >= t[d] * TileSize - Half /\ p[d] < (t[d] + 1) * TileSize + Half}
NearCells(p) == {Inner(t[1], t[2]) : t \in NearTiles(p)}
JudgedByNearTiles ==
    (pc = "done" /\ method = "gradient") =>
        \A p \in Pixels :
            dest[p] = White <=>
                /\ \E cell \in NearCells(p) : GradientOf(cell) > GradientThreshold
                /\ source[p] > (Max({MaxOf(cell) : cell \in NearCells(p)})
                                 + Min({MinOf(cell) : cell \in NearCells(p)})) \div 2

\* simple_adaptive_threshold: a pixel is compared with the mean of the tile it lies in.
JudgedByOwnTile ==
    (pc = "done" /\ method = "adaptive") =>
        \A p \in Pixels :
            LET tile == {q \in Pixels : \A d \in 1 .. 2 : p[d] \div TileSize = q[d] \div TileSize}
            IN  dest[p] = White <=> source[p] > Mean(tile)

\* overlapped_adaptive_threshold: the window that decides about a pixel reaches at least a quarter
\* of a tile beyond it on every side where the image does.
Window(p) ==
    LET start(c) == IF c < TileSize \div 4 THEN 0 ELSE ((c - TileSize \div 4) \div Half) * Half
    IN  Tile(start(p[1]), start(p[2]))
JudgedFromMiddle ==
    (pc = "done" /\ method = "overlapped") =>
        \A p \in Pixels :
            /\ \A q \in Pixels : (\A d \in 1 .. 2 : Distance(p[d], q[d]) <= TileSize \div 4) => q \in Window(p)
            /\ dest[p] = White <=>
                    source[p] > Mean(Window(p)) - (IF LowVariance(Window(p)) THEN 10 ELSE 0)
=============================================================================

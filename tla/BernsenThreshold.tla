-------------------------- MODULE BernsenThreshold --------------------------
(***************************************************************************)
(* tiled_bernsen_threshold.c: a threshold for every tile of the image, the *)
(* mean of the extremes of the blocks around it.  The blocks are shifted   *)
(* by half a tile.  One thresholder serves frame after frame and keeps its *)
(* two buffers.  A step is one row of blocks, of thresholds or of tiles;   *)
(* the strides and pointers of the code are indexes here.                  *)
(***************************************************************************)
EXTENDS Integers, FiniteSetsExt, SequencesExt

CONSTANTS
    Width, Height, TileSize, ContrastThreshold,
    Images, Frames,
    Behind          \* what the memory behind the buffer min_max may hold

Gray == 0 .. 255
White == 255
Black == 0
Extremes == [min : Gray, max : Gray]
Pixels == (0 .. Width - 1) \X (0 .. Height - 1)

BernsenAssumption ==
    /\ Width \in Nat /\ Height \in Nat /\ Frames \in Nat
    /\ TileSize \in 2 .. Width /\ TileSize <= Height
    /\ Images \subseteq [Pixels -> Gray]
    /\ Behind \subseteq Extremes

first_vector_size == TileSize \div 2
full_span_count == (Width - first_vector_size) \div TileSize
full_block_count == (Height - first_vector_size) \div TileSize
min_max_width == full_span_count + 2
min_max_height == full_block_count + 2
threshold_width == (Width \div TileSize) + 1
threshold_height == (Height \div TileSize) + 1

MinMaxBuffer == 0 .. min_max_width * min_max_height - 1
ThresholdBuffer == 0 .. threshold_width * threshold_height - 1

VARIABLES
    source, dest, frame,
    min_max, threshold,     \* the buffers of the thresholder
    behind,                 \* and the memory that follows the first
    pc, row                 \* where tiled_bernsen_threshold is

vars == <<source, dest, frame, min_max, threshold, behind, pc, row>>

initialize_tiled_bernsen_thresholder ==
    /\ \E junk \in Behind : min_max = [i \in MinMaxBuffer |-> junk]
    /\ threshold = [i \in ThresholdBuffer |-> 0]
    /\ behind \in Behind

Init ==
    /\ initialize_tiled_bernsen_thresholder
    /\ source \in Images /\ dest = [p \in Pixels |-> Black] /\ frame = 1
    /\ pc = "min max" /\ row = 0

(***************************************************************************)
(* compute_frame_min_max_tiles                                             *)
(***************************************************************************)
\* The pixels of the spans, or the lines of the blocks: half a tile, whole ones, and the rest.
Span(i, full, size) ==
    IF i = 0 THEN 0 .. first_vector_size - 1
    ELSE IF i <= full THEN first_vector_size + (i - 1) * TileSize .. first_vector_size + i * TileSize - 1
    ELSE first_vector_size + full * TileSize .. size - 1

Block(c, r) == Span(c, full_span_count, Width) \X Span(r, full_block_count, Height)

\* compute_span_min_max, line after line: a pixel that lowers the running minimum is not compared
\* with the maximum.
Before(p, q) == p[2] < q[2] \/ (p[2] = q[2] /\ p[1] < q[1])
LowersMin(p, block) == source[p] < 255 /\ \A q \in block : Before(q, p) => source[q] > source[p]

compute_span_min_max(block, old) ==
    [min |-> Min({old.min} \cup {source[p] : p \in block}),
     max |-> Max({old.max} \cup {source[p] : p \in {q \in block : ~LowersMin(q, block)}})]

init_min_max_forgotten(i) == min_max[i]
init_min_max(i) == [min |-> 255, max |-> 0]

compute_frame_min_max_tiles ==
    /\ pc = "min max"
    /\ min_max' = [i \in MinMaxBuffer |->
                      IF i \div min_max_width = row
                      THEN compute_span_min_max(Block(i % min_max_width, row), init_min_max(i))
                      ELSE min_max[i]]
    /\ IF row <= full_block_count THEN row' = row + 1 /\ pc' = pc ELSE row' = 0 /\ pc' = "thresholds"
    /\ UNCHANGED <<source, dest, frame, threshold, behind>>

(***************************************************************************)
(* compute_frame_threshold_tiles: rows are read with the width of the      *)
(* buffer, but there are as many thresholds in a row as there are tiles,   *)
(* and one more                                                            *)
(***************************************************************************)
At(i) == IF i \in MinMaxBuffer THEN min_max[i] ELSE behind

Clamped(min, max) ==
    LET mean == (min + max) \div 2
    IN  IF max - min >= ContrastThreshold THEN mean ELSE IF mean < 127 THEN White ELSE Black

Around(c, r) ==
    {r * min_max_width + c, r * min_max_width + c + 1,
     (r + 1) * min_max_width + c, (r + 1) * min_max_width + c + 1}

compute_row_thresholds(c, r) ==
    Clamped(Min({At(i).min : i \in Around(c, r)}), Max({At(i).max : i \in Around(c, r)}))

compute_frame_threshold_tiles ==
    /\ pc = "thresholds"
    /\ threshold' = [i \in ThresholdBuffer |->
                        IF i \div threshold_width = row
                        THEN compute_row_thresholds(i % threshold_width, row)
                        ELSE threshold[i]]
    /\ IF row + 1 < threshold_height THEN row' = row + 1 /\ pc' = pc ELSE row' = 0 /\ pc' = "apply"
    /\ UNCHANGED <<source, dest, frame, min_max, behind>>

(***************************************************************************)
(* apply_frame_thresholds                                                  *)
(***************************************************************************)
apply_frame_thresholds ==
    /\ pc = "apply"
    /\ dest' = [p \in Pixels |->
                   IF p[2] \div TileSize # row THEN dest[p]
                   ELSE IF source[p] > threshold[row * threshold_width + p[1] \div TileSize]
                        THEN White ELSE Black]
    /\ IF (row + 1) * TileSize < Height THEN row' = row + 1 /\ pc' = pc ELSE row' = 0 /\ pc' = "done"
    /\ UNCHANGED <<source, frame, min_max, threshold, behind>>

\* The caller has used the result and calls again with the next frame.
NextFrame ==
    /\ pc = "done" /\ frame < Frames
    /\ source' \in Images /\ frame' = frame + 1 /\ pc' = "min max" /\ row' = 0
    /\ UNCHANGED <<dest, min_max, threshold, behind>>

Ended == pc = "done" /\ frame = Frames /\ UNCHANGED vars

Next ==
    \/ compute_frame_min_max_tiles
    \/ compute_frame_threshold_tiles
    \/ apply_frame_thresholds
    \/ NextFrame
    \/ Ended

Spec == Init /\ [][Next]_vars

(***************************************************************************)
(* Properties                                                              *)
(***************************************************************************)
TypeOK ==
    /\ source \in [Pixels -> Gray] /\ dest \in [Pixels -> {Black, White}] /\ frame \in 1 .. Frames
    /\ min_max \in [MinMaxBuffer -> Extremes] /\ threshold \in [ThresholdBuffer -> Gray]
    /\ behind \in Behind
    /\ pc \in {"min max", "thresholds", "apply", "done"} /\ row \in 0 .. full_block_count + 1

\* Every pixel counts for one block, the one of the grid shifted by half a tile that it lies in, and
\* the extremes of a block are those of the present frame: nothing is left of the last one.
BlockOf(p) == [d \in 1 .. 2 |-> (p[d] + TileSize - first_vector_size) \div TileSize]
PixelsOf(c, r) == {p \in Pixels : BlockOf(p) = <<c, r>>}
Fresh(block) == compute_span_min_max(block, [min |-> 255, max |-> 0])
ExtremesOfBlocks ==
    pc # "min max" =>
        \A i \in MinMaxBuffer : min_max[i] = Fresh(PixelsOf(i % min_max_width, i \div min_max_width))

\* A pixel is judged by the blocks that make up the square of twice the tile size around its tile,
\* cut off at the borders, and by nothing behind the buffer.
Around2(p) ==
    {q \in Pixels : \A d \in 1 .. 2 :
        LET tile == p[d] \div TileSize
        IN  q[d] >= tile * TileSize - first_vector_size
            /\ q[d] < (tile + 1) * TileSize + TileSize - first_vector_size}
ExtremesAround(p) == {Fresh(PixelsOf(b[1], b[2])) : b \in {BlockOf(q) : q \in Around2(p)}}
JudgedBySurroundings ==
    pc = "done" =>
        \A p \in Pixels :
            dest[p] = White <=>
                source[p] > Clamped(Min({e.min : e \in ExtremesAround(p)}),
                                    Max({e.max : e \in ExtremesAround(p)}))

\* Where the contrast is high enough even without the maxima that the running comparison misses, no
\* pixel above the mean of the extremes around it turns black: a missed maximum only lowers the
\* threshold.
BrightStaysWhite ==
    pc = "done" =>
        \A p \in Pixels :
            LET min == Min({source[q] : q \in Around2(p)})
                max == Max({source[q] : q \in Around2(p)})
                seen == Max({e.max : e \in ExtremesAround(p)})
            IN  (seen - min >= ContrastThreshold /\ source[p] > (min + max) \div 2) => dest[p] = White

\* "each tile's threshold is taken of the mean of the min and max of a surrounding (2*tile_size)
\* square tile", tiled_bernsen_threshold.c:30-31
MeanOfSurroundings ==
    pc = "done" =>
        \A p \in Pixels :
            LET min == Min({source[q] : q \in Around2(p)})
                max == Max({source[q] : q \in Around2(p)})
            IN  max - min >= ContrastThreshold => (dest[p] = White <=> source[p] > (min + max) \div 2)

\* The same comment, for the tiles that are cut off by the right border.
MeanForPartialTiles ==
    pc = "done" =>
        \A p \in Pixels :
            p[1] \div TileSize = Width \div TileSize =>
                (dest[p] = White <=>
                    source[p] > Clamped(Min({e.min : e \in ExtremesAround(p)}),
                                        Max({e.max : e \in ExtremesAround(p)})))
=============================================================================

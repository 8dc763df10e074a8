----------------------------- MODULE Segmenter -----------------------------
(***************************************************************************)
(* The region segmenter of libfidtrack (segment.c, segment.h).             *)
(*                                                                         *)
(* build_regions reads a thresholded (two-coloured) image once, row by     *)
(* row.  It groups equal neighbours into regions with a union-find over    *)
(* region references, and keeps for every region the bounded list of the   *)
(* regions it touches.  Every loop of the C code is a sequence of steps    *)
(* here: one step per pixel read, per redirect followed, and per entry of  *)
(* an adjacency list that merge_regions or make_saturated handles.         *)
(*                                                                         *)
(* Columns, rows, regions and references are numbered from 1 (the C code   *)
(* counts them from 0); 0 stands for the null pointer.                     *)
(***************************************************************************)
EXTENDS Integers, Sequences, FiniteSets, Regions

CONSTANTS
    Colours,      \* the two values of a thresholded pixel
    Width,        \* width of the image
    Height,       \* height of the image
    MaxAdjacent   \* max_adjacent_regions: capacity of an adjacency list

ASSUME ColoursAssumption == \E a, b \in Colours : a # b /\ Colours = {a, b}
ASSUME SizeAssumption ==
    Width \in Nat \ {0} /\ Height \in Nat \ {0} /\ MaxAdjacent \in Nat \ {0}

NoColour == "unwritten"
\* The arrays of initialize_segmenter hold Width * Height regions and references.
Regions == 1 .. (Width * Height)
Refs == 1 .. (Width * Height)

VARIABLES
    pc,           \* where build_regions is
    x, y,         \* the pixel being read
    source,       \* the pixels read so far, row after row
    colour, box, flags, adjacent,   \* the regions, field by field
    regionCount,  \* region_count: regions ever taken from the array
    freed,        \* the list of merged regions that new_region reuses
    regionOf, redirect,             \* the region references, field by field
    refCount,     \* region_ref_count
    currentRow, previousRow,        \* references of the row being read and of the one above
    result,       \* cursor of the redirect-following loop
    neighbours,   \* regions the new region must still be made adjacent to
    saturating,   \* regions make_saturated must still be applied to
    i,            \* index of the first loop of merge_regions
    label         \* history: the reference every pixel was given

regionVars == <<colour, box, flags, adjacent, regionCount, freed>>
refVars == <<regionOf, redirect, refCount>>
rowVars == <<currentRow, previousRow, result>>
callVars == <<neighbours, saturating, i>>
inputVars == <<source, label>>
vars == <<pc, x, y, regionVars, refVars, rowVars, callVars, inputVars>>

EmptyBox == [left |-> 0, top |-> 0, right |-> 0, bottom |-> 0]

(***************************************************************************)
(* Both counters and the free list are reset for every frame; what earlier *)
(* frames left in the arrays is overwritten before it is read.             *)
(***************************************************************************)
Init ==
    /\ pc = "read" /\ x = 1 /\ y = 1
    /\ source = <<>> /\ label = <<>>
    /\ colour = [r \in Regions |-> NoColour]
    /\ box = [r \in Regions |-> EmptyBox]
    /\ flags = [r \in Regions |-> {}]
    /\ adjacent = [r \in Regions |-> <<>>]
    /\ regionCount = 0 /\ freed = <<>>
    /\ regionOf = [q \in Refs |-> Null]
    /\ redirect = [q \in Refs |-> Null]
    /\ refCount = 0
    /\ currentRow = <<>> /\ previousRow = <<>> /\ result = Null
    /\ neighbours = <<>> /\ saturating = <<>> /\ i = 1

(***************************************************************************)
(* References.  A reference is a root when it redirects to itself.         *)
(***************************************************************************)
IsRoot(q) == redirect[q] = q

\* RESOLVE_REGIONREF_REDIRECTS: one turn of its loop, then the write of what it found.
FollowRedirect ==
    /\ pc \in {"read", "bottom"}
    /\ result # Null
    /\ ~IsRoot(result)
    /\ result' = redirect[result]
    /\ UNCHANGED <<pc, x, y, regionVars, refVars, currentRow, previousRow, callVars, inputVars>>

Resolved == result # Null => IsRoot(result)
Compressed == IF result = Null THEN redirect
              ELSE [redirect EXCEPT ![previousRow[x]] = result]
ResolvedRow == IF result = Null THEN previousRow
               ELSE [previousRow EXCEPT ![x] = result]

\* The references of the pixels to the left of and above the one being read.
West == currentRow[x - 1]
North == result
RegionColour(q) == colour[regionOf[q]]

(***************************************************************************)
(* Adjacency lists                                                         *)
(***************************************************************************)
\* is_adjacent searches the shorter of the two lists.
IsAdjacent(a, b) ==
    IF Len(adjacent[a]) > Len(adjacent[b]) THEN Contains(adjacent[b], a)
                                           ELSE Contains(adjacent[a], b)

(***************************************************************************)
(* make_saturated: the region at the head of saturating is detached from   *)
(* its neighbours one by one, then marked.  The C code empties the list    *)
(* after its loop; nothing reads it before that.                           *)
(***************************************************************************)
DetachNeighbour ==
    /\ saturating # <<>>
    /\ LET r == Head(saturating) IN
        /\ adjacent[r] # <<>>
        /\ LET a == Head(adjacent[r]) IN
            /\ adjacent' = [adjacent EXCEPT ![a] = Without(@, r), ![r] = Tail(@)]
            /\ flags' = [flags EXCEPT ![a] = @ \cup {Fragmented}]
    /\ UNCHANGED <<pc, x, y, colour, box, regionCount, freed, refVars, rowVars, callVars, inputVars>>

MarkSaturated ==
    /\ saturating # <<>>
    /\ adjacent[Head(saturating)] = <<>>
    /\ flags' = [flags EXCEPT ![Head(saturating)] = @ \cup {Saturated}]
    /\ saturating' = Tail(saturating)
    /\ UNCHANGED <<pc, x, y, colour, box, adjacent, regionCount, freed, refVars, rowVars,
                   neighbours, i, inputVars>>

(***************************************************************************)
(* make_adjacent( r1, r2 ): r1 is the region of the pixel just read, r2    *)
(* the head of neighbours.  Detaching r1 cannot change the list of r2,     *)
(* because the two are not adjacent, so both lengths are read at once.     *)
(***************************************************************************)
Here == regionOf[currentRow[x]]
Touched == Head(neighbours)
IsFull(r) == Len(adjacent[r]) = MaxAdjacent

Linking ==
    /\ pc = "link" /\ saturating = <<>> /\ neighbours # <<>>
    /\ neighbours' = Tail(neighbours)
    /\ UNCHANGED <<pc, x, y, colour, box, regionCount, freed, refVars, rowVars, i, inputVars>>

\* The region that loses the link, and so is marked, is the one that is not saturated.
DetachedOneSwapped == IF Saturated \in flags[Here] THEN Here ELSE Touched
DetachedOne == IF Saturated \in flags[Here] THEN Touched ELSE Here

NeighbourSaturated ==
    /\ Linking
    /\ ~IsAdjacent(Here, Touched)
    /\ Saturated \in flags[Here] \cup flags[Touched]
    /\ flags' = [flags EXCEPT ![DetachedOne] = @ \cup {Fragmented}]
    /\ UNCHANGED <<adjacent, saturating>>

ListFull ==
    /\ Linking
    /\ ~IsAdjacent(Here, Touched)
    /\ Saturated \notin flags[Here] \cup flags[Touched]
    /\ IsFull(Here) \/ IsFull(Touched)
    /\ saturating' = (IF IsFull(Here) THEN <<Here>> ELSE <<>>)
                       \o (IF IsFull(Touched) THEN <<Touched>> ELSE <<>>)
    /\ flags' = [flags EXCEPT ![Here] = IF IsFull(Touched) THEN @ \cup {Fragmented} ELSE @,
                              ![Touched] = IF IsFull(Here) THEN @ \cup {Fragmented} ELSE @]
    /\ UNCHANGED adjacent

HasRoomUnsaturated == ~IsFull(Here) /\ ~IsFull(Touched)
HasRoom ==
    /\ Saturated \notin flags[Here] \cup flags[Touched]
    /\ ~IsFull(Here) /\ ~IsFull(Touched)

MakeAdjacent ==
    /\ Linking
    /\ ~IsAdjacent(Here, Touched) => HasRoom
    /\ adjacent' = IF IsAdjacent(Here, Touched) THEN adjacent
                   ELSE [adjacent EXCEPT ![Here] = Append(@, Touched), ![Touched] = Append(@, Here)]
    /\ UNCHANGED <<flags, saturating>>

(***************************************************************************)
(* new_region at (x, y), reusing the last freed region if there is one,    *)
(* and the cell of the current row that refers to it.                      *)
(***************************************************************************)
PoppedKept == freed
Popped == IF freed = <<>> THEN <<>> ELSE Tail(freed)

NewRegion(c, initialFlags, boxes, touching) ==
    LET r == IF freed = <<>> THEN regionCount + 1 ELSE Head(freed)
        q == refCount + 1
    IN  /\ regionCount' = IF freed = <<>> THEN r ELSE regionCount
        /\ freed' = Popped
        /\ colour' = [colour EXCEPT ![r] = c]
        /\ box' = [boxes EXCEPT ![r] = [left |-> x, top |-> y, right |-> x, bottom |-> y]]
        /\ flags' = [flags EXCEPT ![r] = initialFlags]
        /\ adjacent' = [adjacent EXCEPT ![r] = <<>>]
        /\ refCount' = q
        /\ redirect' = [Compressed EXCEPT ![q] = q]
        /\ regionOf' = [regionOf EXCEPT ![q] = r]
        /\ currentRow' = Append(currentRow, q)
        /\ label' = Append(label, q)
        /\ neighbours' = touching
        /\ pc' = "link"
        /\ UNCHANGED <<saturating, i>>

\* The pixel joins the region of reference q.
JoinRegion(q) ==
    /\ currentRow' = Append(currentRow, q)
    /\ label' = Append(label, q)
    /\ redirect' = Compressed
    /\ pc' = "link"
    /\ UNCHANGED <<regionCount, freed, colour, flags, adjacent, refCount, regionOf, callVars>>

(***************************************************************************)
(* build_regions, one action per way of handling the pixel just read       *)
(***************************************************************************)
ReadPixel(c) ==
    /\ pc = "read" /\ Resolved
    /\ source' = Append(source, c)
    /\ previousRow' = ResolvedRow
    /\ UNCHANGED <<x, y, result>>

FirstPixel(c) ==
    /\ x = 1 /\ y = 1
    /\ ReadPixel(c)
    /\ NewRegion(c, {Root}, box, <<>>)

TopLine(c) ==
    /\ x > 1 /\ y = 1
    /\ ReadPixel(c)
    /\ \/ c = RegionColour(West) /\ JoinRegion(West) /\ UNCHANGED box
       \/ c # RegionColour(West) /\ NewRegion(c, {Root}, box, <<regionOf[West]>>)

LeftEdge(c) ==
    /\ x = 1 /\ y > 1
    /\ ReadPixel(c)
    /\ \/ c = RegionColour(North) /\ JoinRegion(North) /\ UNCHANGED box
       \/ c # RegionColour(North) /\ NewRegion(c, {Root}, box, <<regionOf[North]>>)

InCentre(c) == x > 1 /\ y > 1 /\ ReadPixel(c)

\* The test that a run has met a region of its colour above that it does not belong to yet.
NeverMeets(c) == FALSE
MeetsNorth(c) == West # North /\ c = RegionColour(North)

ExtendWest(c) ==
    /\ InCentre(c)
    /\ c = RegionColour(West)
    /\ ~MeetsNorth(c)
    /\ JoinRegion(West)
    /\ UNCHANGED box

\* A run of the row ends: its region reaches at least to column x - 1.
WestRight == [box EXCEPT ![regionOf[West]].right = IF @ < x - 1 THEN x - 1 ELSE @]

NorthBottomKept == WestRight
NorthBottom == [WestRight EXCEPT ![regionOf[North]].bottom = y]

ExtendNorth(c) ==
    /\ InCentre(c)
    /\ c # RegionColour(West) /\ c = RegionColour(North)
    /\ JoinRegion(North)
    /\ box' = NorthBottom

TouchedByNewNorth == <<regionOf[North]>>
TouchedByNew == IF regionOf[West] # regionOf[North]
                THEN <<regionOf[North], regionOf[West]>> ELSE <<regionOf[North]>>

CentreNew(c) ==
    /\ InCentre(c)
    /\ c # RegionColour(West) /\ c # RegionColour(North)
    /\ NewRegion(c, {}, WestRight, TouchedByNew)

(***************************************************************************)
(* merge_regions( s, r1, r2 ): the region of the west pixel (r2) is merged *)
(* into the region of the north pixel (r1), then freed.                    *)
(***************************************************************************)
R1 == regionOf[North]
R2 == regionOf[West]

MergeRegions(c) ==
    /\ InCentre(c)
    /\ c = RegionColour(West) /\ MeetsNorth(c)
    /\ \/ /\ Saturated \in flags[R1]
          /\ saturating' = <<R2, R1>> /\ pc' = "mergeEnd"
       \/ /\ Saturated \notin flags[R1] /\ Saturated \in flags[R2]
          /\ saturating' = <<R1>> /\ pc' = "mergeEnd"
       \/ /\ Saturated \notin flags[R1] \cup flags[R2]
          /\ saturating' = <<>> /\ pc' = "common"
    /\ i' = 1
    /\ redirect' = Compressed
    /\ UNCHANGED <<regionVars, regionOf, refCount, currentRow, label, neighbours>>

\* First loop: entry i of r2 is removed when r1 is adjacent to that region too.
UnlinkedOneSided(a) == [adjacent EXCEPT ![R2] = DropEntry(@, i)]
Unlinked(a) == [adjacent EXCEPT ![a] = Without(@, R2), ![R2] = DropEntry(@, i)]
SameIndex == i
NextIndex == i + 1

RemoveCommon ==
    /\ pc = "common" /\ i <= Len(adjacent[R2])
    /\ adjacent' = IF IsAdjacent(adjacent[R2][i], R1) THEN Unlinked(adjacent[R2][i]) ELSE adjacent
    /\ i' = NextIndex
    /\ UNCHANGED <<pc, x, y, colour, box, flags, regionCount, freed, refVars, rowVars,
                   neighbours, saturating, inputVars>>

FitsOffByOne == Len(adjacent[R1]) + Len(adjacent[R2]) <= MaxAdjacent + 1
Fits == Len(adjacent[R1]) + Len(adjacent[R2]) <= MaxAdjacent

CheckCapacity ==
    /\ pc = "common" /\ i > Len(adjacent[R2])
    /\ i' = 1
    /\ IF Fits THEN pc' = "transfer" /\ UNCHANGED saturating
               ELSE pc' = "mergeEnd" /\ saturating' = <<R1, R2>>
    /\ UNCHANGED <<x, y, regionVars, refVars, rowVars, neighbours, inputVars>>

\* Second loop: the first remaining entry of r2 moves to r1.
TransferNeighbour ==
    /\ pc = "transfer" /\ adjacent[R2] # <<>>
    /\ LET a == Head(adjacent[R2]) IN
       adjacent' = [adjacent EXCEPT ![a] = Replaced(@, R2, R1),
                                    ![R1] = Append(@, a),
                                    ![R2] = Tail(@)]
    /\ UNCHANGED <<pc, x, y, colour, box, flags, regionCount, freed, refVars, rowVars,
                   callVars, inputVars>>

Lower(m, n) == IF n < m THEN n ELSE m
Higher(m, n) == IF n > m THEN n ELSE m
Union(b1, b2) ==
    [left |-> Lower(b1.left, b2.left), top |-> Lower(b1.top, b2.top),
     right |-> Higher(b1.right, b2.right), bottom |-> Higher(b1.bottom, b2.bottom)]

SurvivorFlagsLost == flags[R1]
SurvivorFlags == flags[R1] \cup flags[R2]
MergedCell == North

FreeMerged ==
    /\ \/ pc = "transfer" /\ adjacent[R2] = <<>>
       \/ pc = "mergeEnd" /\ saturating = <<>>
    /\ flags' = [flags EXCEPT ![R1] = SurvivorFlags, ![R2] = {Free}]
    /\ box' = [box EXCEPT ![R1] = Union(@, box[R2])]
    /\ freed' = <<R2>> \o freed
    /\ regionOf' = [regionOf EXCEPT ![West] = Null]
    /\ redirect' = [redirect EXCEPT ![West] = North]
    /\ currentRow' = Append(currentRow, MergedCell)
    /\ label' = Append(label, MergedCell)
    /\ pc' = "link"
    /\ UNCHANGED <<x, y, source, colour, adjacent, regionCount, refCount, previousRow, result,
                   callVars>>

(***************************************************************************)
(* The end of a pixel, of a row, of the image                              *)
(***************************************************************************)
RightEdge == IF x = Width /\ y > 1 THEN [flags EXCEPT ![Here] = @ \cup {Root}] ELSE flags

PixelDone ==
    /\ pc = "link" /\ neighbours = <<>> /\ saturating = <<>>
    /\ flags' = RightEdge
    /\ UNCHANGED <<colour, box, adjacent, regionCount, freed, refVars, callVars, inputVars>>

NextColumn ==
    /\ x < Width
    /\ PixelDone
    /\ x' = x + 1 /\ pc' = "read"
    /\ result' = IF y = 1 THEN Null ELSE previousRow[x + 1]
    /\ UNCHANGED <<y, currentRow, previousRow>>

NextRow ==
    /\ x = Width /\ y < Height
    /\ PixelDone
    /\ x' = 1 /\ y' = y + 1 /\ pc' = "read"
    /\ previousRow' = currentRow /\ currentRow' = <<>>
    /\ result' = currentRow[1]

LastPixel ==
    /\ x = Width /\ y = Height
    /\ PixelDone
    /\ x' = 1 /\ pc' = "bottom"
    /\ result' = currentRow[1]
    /\ UNCHANGED <<y, currentRow, previousRow>>

BottomRow ==
    /\ pc = "bottom" /\ Resolved
    /\ redirect' = [redirect EXCEPT ![currentRow[x]] = result]
    /\ currentRow' = [currentRow EXCEPT ![x] = result]
    /\ flags' = [flags EXCEPT ![regionOf[result]] = @ \cup {Root}]
    /\ \/ x < Width /\ x' = x + 1 /\ result' = currentRow[x + 1] /\ UNCHANGED pc
       \/ x = Width /\ pc' = "done" /\ result' = Null /\ UNCHANGED x
    /\ UNCHANGED <<y, source, label, colour, box, adjacent, regionCount, freed, regionOf, refCount,
                   previousRow, callVars>>

\* step_segmenter is called for the next frame.
StepSegmenter ==
    /\ pc = "done"
    /\ pc' = "read" /\ x' = 1 /\ y' = 1
    /\ source' = <<>> /\ label' = <<>>
    /\ colour' = [r \in Regions |-> NoColour]
    /\ box' = [r \in Regions |-> EmptyBox]
    /\ flags' = [r \in Regions |-> {}]
    /\ adjacent' = [r \in Regions |-> <<>>]
    /\ regionCount' = 0 /\ freed' = <<>>
    /\ regionOf' = [q \in Refs |-> Null]
    /\ redirect' = [q \in Refs |-> Null]
    /\ refCount' = 0
    /\ currentRow' = <<>> /\ previousRow' = <<>> /\ result' = Null
    /\ neighbours' = <<>> /\ saturating' = <<>> /\ i' = 1

Next ==
    \/ \E c \in Colours :
          \/ FirstPixel(c) \/ TopLine(c) \/ LeftEdge(c)
          \/ ExtendWest(c) \/ ExtendNorth(c) \/ CentreNew(c) \/ MergeRegions(c)
    \/ FollowRedirect
    \/ DetachNeighbour \/ MarkSaturated
    \/ NeighbourSaturated \/ ListFull \/ MakeAdjacent
    \/ RemoveCommon \/ CheckCapacity \/ TransferNeighbour \/ FreeMerged
    \/ NextColumn \/ NextRow \/ LastPixel \/ BottomRow
    \/ StepSegmenter

Spec == Init /\ [][Next]_vars
FairSpec == Spec /\ WF_vars(Next)

-----------------------------------------------------------------------------
(***************************************************************************)
(* Properties                                                              *)
(***************************************************************************)
Boxes == [left : 0 .. Width, top : 0 .. Height, right : 0 .. Width, bottom : 0 .. Height]

\* Type invariant: every index stays within the arrays initialize_segmenter allocates, and no
\* adjacency list ever holds more entries than its array has room for.
TypeOK ==
    /\ pc \in {"read", "link", "common", "transfer", "mergeEnd", "bottom", "done"}
    /\ x \in 1 .. Width /\ y \in 1 .. Height
    /\ source \in Seq(Colours) /\ Len(source) <= Width * Height
    /\ label \in Seq(Refs)
    /\ colour \in [Regions -> Colours \cup {NoColour}]
    /\ box \in [Regions -> Boxes]
    /\ flags \in [Regions -> SUBSET Flags]
    /\ adjacent \in [Regions -> Seq(Regions)]
    /\ \A r \in Regions : Len(adjacent[r]) <= MaxAdjacent
    /\ regionCount \in 0 .. Width * Height
    /\ freed \in Seq(Regions)
    /\ regionOf \in [Refs -> Regions \cup {Null}]
    /\ redirect \in [Refs -> Refs \cup {Null}]
    /\ refCount \in 0 .. Width * Height
    /\ currentRow \in Seq(Refs) /\ previousRow \in Seq(Refs)
    /\ result \in Refs \cup {Null}
    /\ neighbours \in Seq(Regions) /\ saturating \in Seq(Regions)
    /\ i \in 1 .. MaxAdjacent + 1

Live == (1 .. regionCount) \ ElementsOf(freed)

\* "the west cell's redirect is always up to date" (segment.c:414): the cell left of the pixel
\* being read never needs its redirects followed, however many merges the row has seen.
WestUpToDate ==
    pc \in {"read", "common", "transfer", "mergeEnd"} /\ x > 1 => IsRoot(West)

\* Every region in use belongs to exactly one root reference; a merged reference owns none, so no
\* cell can reach a freed region and no two cells disagree on whether they share a region.
OneOwner ==
    /\ \A q \in 1 .. refCount : IF IsRoot(q) THEN regionOf[q] \in Live ELSE regionOf[q] = Null
    /\ \A r \in Live : \E q \in 1 .. refCount : regionOf[q] = r
    /\ \A p, q \in 1 .. refCount : regionOf[p] = regionOf[q] /\ regionOf[p] # Null => p = q

\* The postconditions of make_adjacent and merge_regions and the "found" assertions of
\* remove_adjacent_from and replace_adjacent: adjacency is bidirectional, entry for entry, between
\* regions in use of opposite colours, at every step of every merge and saturation.
BidirectionalAdjacency ==
    /\ \A a \in Regions : \A b \in ElementsOf(adjacent[a]) : b \in Live /\ colour[a] # colour[b]
    /\ \A a, b \in Regions : Count(adjacent[a], b) = Count(adjacent[b], a)

\* A saturated region has an empty list for good, whichever region it is merged with.
SaturatedDetached ==
    \A r \in Regions : Saturated \in flags[r] => adjacent[r] = <<>>

\* merge_regions: "first removing all common adjacencies from r2" (segment.c:271): no region is
\* ever listed twice in the adjacency list of another.
NoDuplicateAdjacency ==
    \A a, b \in Regions : Count(adjacent[a], b) <= 1

\* Every frame is segmented to its last row: no redirect chain is circular and no loop is endless.
FrameFinishes == []<>(pc = "done")

=============================================================================

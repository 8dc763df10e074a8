------------------------------ MODULE Tracking ------------------------------
(***************************************************************************)
(* FiducialFinder::findFiducials (fiducials.cpp) frame after frame: the image is *)
(* segmented, then find_fiducialsX reads, marks and reorders the regions   *)
(* where the segmenter left them.                                          *)
(***************************************************************************)
EXTENDS Fidtracker

CONSTANTS
    Width, Height,
    MaxAdjacent,
    Images        \* the images considered: for every pixel the colours it may have

\* The capacities FiducialFinder gives initialize_segmenter: max_adjacencies is max_node_count.
ASSUME CapacityAssumption == RegionLimit = Width * Height /\ MaxAdjacent = MaxNodeCount

VARIABLES pc, x, y, source, box, freed, regionOf, redirect, refCount, currentRow, previousRow,
          result, neighbours, saturating, i, label

Seg == INSTANCE Segmenter

segmenterOnly == <<pc, x, y, source, box, freed, regionOf, redirect, refCount, currentRow,
                   previousRow, result, neighbours, saturating, i, label>>
allVars == <<segmenterOnly, vars>>

\* phase is "idle" while the image is segmented.
TrackingInit == Seg!Init /\ Fresh /\ phase = "idle"

Segment ==
    /\ phase = "idle" /\ pc # "done"
    /\ Seg!Next
    /\ \E image \in Images : \A p \in 1 .. Len(source') : source'[p] \in image[p]
    /\ UNCHANGED trackerVars

FindFiducials ==
    /\ phase = "idle" /\ pc = "done"
    /\ phase' = "scan"
    /\ UNCHANGED <<segmenterOnly, graphVars, scanned, walkVars, resultVars>>

Track == phase # "idle" /\ Next /\ UNCHANGED segmenterOnly

\* The tracker's fields of a region are reset with the region: by new_region, at the latest.
NextFrame ==
    /\ phase = "done"
    /\ Seg!StepSegmenter
    /\ phase' = "idle" /\ scanned' = 1 /\ walker' = Null
    /\ traversed' = {}
    /\ childrenVisited' = [r \in Regions |-> 0]
    /\ descendents' = [r \in Regions |-> Unvisited]
    /\ depth' = [r \in Regions |-> 0]
    /\ candidates' = <<>> /\ fiducials' = <<>>
    /\ treeString' = NoString /\ nextString' = 0
    /\ reportedTo' = [r \in Regions |-> Null]

TrackingNext == Segment \/ FindFiducials \/ Track \/ NextFrame

TrackingSpec == TrackingInit /\ [][TrackingNext]_allVars

-----------------------------------------------------------------------------
\* What the segmenter leaves after any of its merges and saturations is a graph as the tracker
\* relies on: an incomplete list is always marked, at whichever end of the link that was dropped.
HandsOverGraph == phase = "idle" /\ pc = "done" => RegionGraph

=============================================================================

---------------------------- MODULE Fidtracker -----------------------------
(***************************************************************************)
(* The fiducial tracker of libfidtrack (fidtrackX.c): one call of          *)
(* find_fiducialsX on the region graph that the segmenter left.            *)
(*                                                                         *)
(* find_roots starts at the leaves and walks up: a region is entered when  *)
(* all of its neighbours but one have been counted, and the regions with   *)
(* about as many descendents as a known fiducial become candidates.        *)
(* find_fiducialsX then walks down from every candidate, writes its tree   *)
(* as a string of depths and looks that up.                                *)
(***************************************************************************)
EXTENDS Integers, Sequences, FiniteSetsExt, Regions, TreeIdMap
Lists == INSTANCE SequencesExt

CONSTANTS
    RegionLimit,  \* regions the segmenter has room for
    FuzzyRange,   \* FUZZY_NODE_RANGE
    MaxCount      \* max_count: fiducials the caller has room for

ASSUME TrackerAssumption ==
    RegionLimit \in Nat \ {0} /\ FuzzyRange \in Nat /\ MaxCount \in Nat \ {0}

Regions == 1 .. RegionLimit

\* initialize_fidtrackerX
MinTarget == MinNodeCount - 1
MaxTarget == MaxNodeCount - 1
MinRange == Max({3, MinTarget - FuzzyRange})
MaxRange == MaxTarget + FuzzyRange

VARIABLES
    regionCount, colour, flags, adjacent,   \* the regions, as the segmenter left them
    phase,            \* where find_fiducialsX is
    scanned,          \* the region find_roots looks at
    walker,           \* the region the walk upwards is about to enter
    traversed,        \* regions whose level is TRAVERSED
    childrenVisited, descendents, depth,    \* the fields of a region the tracker writes
    candidates,       \* the list of root regions
    fiducials,        \* what has been found
    treeString,       \* temp_coloured_depth_string
    nextString,       \* next_depth_string: buffers used for the current tree
    reportedTo        \* history: the region whose children_visited_count a region raised

graphVars == <<regionCount, colour, flags, adjacent>>
walkVars == <<walker, traversed, childrenVisited, descendents, depth, candidates, reportedTo>>
resultVars == <<fiducials, treeString, nextString>>
trackerVars == <<phase, scanned, walkVars, resultVars>>
vars == <<graphVars, trackerVars>>

(***************************************************************************)
(* What the tracker relies on: the lists are symmetric and hold regions in *)
(* use of the other colour, saturated and freed regions have empty lists,  *)
(* and no set of regions is cut off from the rest of the image without one *)
(* of them being on the border of the image or marked as incomplete.       *)
(***************************************************************************)
Used == {r \in 1 .. regionCount : Free \notin flags[r]}

ClosedUnderAdjacency(A) == \A r \in A : ElementsOf(adjacent[r]) \subseteq A

RegionGraph ==
    /\ regionCount \in 0 .. RegionLimit
    /\ adjacent \in [Regions -> Seq(Regions)]
    /\ flags \in [Regions -> SUBSET Flags]
    /\ \A a \in Regions : \A b \in ElementsOf(adjacent[a]) :
          b \in Used /\ a \in ElementsOf(adjacent[b]) /\ colour[a] # colour[b]
    /\ \A r \in 1 .. regionCount : Saturated \in flags[r] => adjacent[r] = <<>>
    /\ \A A \in (SUBSET Used) \ {{}} :
          ClosedUnderAdjacency(A) => \E r \in A : flags[r] \cap {Root, Saturated, Fragmented} # {}

Unvisited == 32767    \* 0x7FFF
NoString == [colour |-> CHOOSE c \in Colours : TRUE, depths |-> <<>>]

\* The tracker's fields as new_region initialises them, and its empty list.
Fresh ==
    /\ scanned = 1 /\ walker = Null
    /\ traversed = {}
    /\ childrenVisited = [r \in Regions |-> 0]
    /\ descendents = [r \in Regions |-> Unvisited]
    /\ depth = [r \in Regions |-> 0]
    /\ candidates = <<>> /\ fiducials = <<>>
    /\ treeString = NoString /\ nextString = 0
    /\ reportedTo = [r \in Regions |-> Null]

Init == RegionGraph /\ Fresh /\ phase = "scan"

(***************************************************************************)
(* find_roots                                                              *)
(***************************************************************************)
IsStart(r) ==
    Len(adjacent[r]) = 1 /\ flags[r] \cap {Saturated, Fragmented, Root, Free} = {}

InScan == scanned <= regionCount

SkipRegion ==
    /\ phase = "scan" /\ InScan
    /\ ~IsStart(scanned)
    /\ scanned' = scanned + 1
    /\ UNCHANGED <<graphVars, phase, walkVars, resultVars>>

StartAtLeaf ==
    /\ phase = "scan" /\ InScan
    /\ IsStart(scanned)
    /\ walker' = scanned /\ phase' = "walk"
    /\ UNCHANGED <<graphVars, scanned, traversed, childrenVisited, descendents, depth, candidates,
                   reportedTo, resultVars>>

(***************************************************************************)
(* propagate_descendent_count_and_max_depth_upwards, which calls itself    *)
(* last: one step per region entered.                                      *)
(***************************************************************************)
Entries(r) == 1 .. Len(adjacent[r])
Counted(r) == {k \in Entries(r) : adjacent[r][k] \in traversed}
Open(r) == Entries(r) \ Counted(r)

Parent == IF Open(walker) = {} THEN Null ELSE adjacent[walker][Max(Open(walker))]
DescendentCountLeafless == MapThenSumSet(LAMBDA k : descendents[adjacent[walker][k]], Counted(walker))
DescendentCount == MapThenSumSet(LAMBDA k : descendents[adjacent[walker][k]] + 1, Counted(walker))
DepthBelow == Max({0} \cup {depth[adjacent[walker][k]] + 1 : k \in Counted(walker)})

WithinDepth == MinDepth <= DepthBelow /\ DepthBelow <= MaxDepth
InTarget == WithinDepth /\ MinTarget <= DescendentCount /\ DescendentCount < MaxTarget
InRange == WithinDepth /\ MinRange <= DescendentCount /\ DescendentCount < MaxRange
Found == WithinDepth /\ DescendentCount = MaxTarget

Enter ==
    /\ phase = "walk"
    /\ traversed' = traversed \cup {walker}
    /\ descendents' = [descendents EXCEPT ![walker] = DescendentCount]
    /\ depth' = [depth EXCEPT ![walker] = DepthBelow]
    /\ UNCHANGED <<regionCount, colour, adjacent, resultVars>>

Stop == phase' = "scan" /\ scanned' = scanned + 1 /\ walker' = Null

FindCandidate ==
    /\ Enter
    /\ Found
    /\ candidates' = Append(candidates, walker)
    /\ Stop
    /\ UNCHANGED <<flags, childrenVisited, reportedTo>>

\* Candidates of another size: a region that only nearly fits is marked as lost.
NoteCandidate ==
    /\ ~Found
    /\ candidates' = IF InTarget \/ InRange THEN Append(candidates, walker) ELSE candidates
    /\ flags' = IF InRange /\ ~InTarget THEN [flags EXCEPT ![walker] = @ \cup {Lost}] ELSE flags

MayReport == Parent # Null /\ flags[walker] \cap {Saturated, Root, Free} = {}

EndAtTop ==
    /\ Enter
    /\ NoteCandidate
    /\ ~MayReport
    /\ Stop
    /\ UNCHANGED <<childrenVisited, reportedTo>>

\* A parent on the border or with a list known to be incomplete has no parent in its list.
ParentReadyUnflagged == childrenVisited'[Parent] = Len(adjacent[Parent]) - 1
ParentReady ==
    /\ Saturated \notin flags[Parent]
    /\ childrenVisited'[Parent] =
          IF flags[Parent] \cap {Root, Fragmented} = {} THEN Len(adjacent[Parent]) - 1
                                                        ELSE Len(adjacent[Parent])
Climbs == DescendentCount < MaxTarget /\ DepthBelow < MaxDepth /\ ParentReady

ReportToParent ==
    /\ Enter
    /\ NoteCandidate
    /\ MayReport
    /\ childrenVisited' = [childrenVisited EXCEPT ![Parent] = @ + 1]
    /\ reportedTo' = [reportedTo EXCEPT ![walker] = Parent]
    /\ \/ Climbs /\ walker' = Parent /\ UNCHANGED <<phase, scanned>>
       \/ ~Climbs /\ Stop

(***************************************************************************)
(* The tree below a candidate.  A region with one neighbour is a leaf.     *)
(***************************************************************************)
Children(r) ==
    IF Len(adjacent[r]) = 1 THEN {}
    ELSE {a \in ElementsOf(adjacent[r]) : descendents[a] < descendents[r]}

\* The regions at every distance below r.
Layers(r) ==
    LET layer[d \in 0 .. descendents[r]] ==
            IF d = 0 THEN {r} ELSE UNION {Children(q) : q \in layer[d - 1]}
    IN  layer
Subtree(r) == LET layers == Layers(r) IN UNION {layers[d] : d \in DOMAIN layers}

\* set_depth( r, 0 ): the regions below a candidate form a tree, so each is in one layer.
Depths(r) ==
    LET layers == Layers(r)
        below == Subtree(r)
    IN  [q \in Regions |-> IF q \in below THEN CHOOSE d \in DOMAIN layers : q \in layers[d]
                                          ELSE depth[q]]

\* strcmp( s, t ) > 0, where a region without a string has the empty one.
Heavier(s, t) ==
    \E k \in 1 .. Len(s) :
        /\ k <= Len(t) + 1
        /\ \A j \in 1 .. k - 1 : s[j] = t[j]
        /\ k = Len(t) + 1 \/ s[k] > t[k]

\* qsort of an adjacency list by the strings of its regions, the greatest first.  The order it
\* leaves equal strings in makes no difference.
LeftHeavyUnsorted(list, string) == list
PutInOrder(sorted, q, string) ==
    LET ahead == Cardinality({k \in 1 .. Len(sorted) : ~Heavier(string[q], string[sorted[k]])})
    IN  Lists!InsertAt(sorted, ahead + 1, q)
LeftHeavy(list, string) == Lists!FoldLeft(LAMBDA sorted, q : PutInOrder(sorted, q, string), <<>>, list)

\* build_left_heavy_depth_string: the strings that the neighbours of q have while it sorts them,
\* and the string of every region of the subtree of r, when depth has the value d.
StringsBelow(q, string) ==
    [a \in ElementsOf(adjacent[q]) |-> IF a \in Children(q) THEN string[a] ELSE <<>>]
Sorted(q, string) == LeftHeavy(adjacent[q], StringsBelow(q, string))

StringOf(q, string, d) ==
    LET below == StringsBelow(q, string)
    IN  Lists!FoldLeft(LAMBDA joined, a : joined \o below[a], <<d[q]>>, LeftHeavy(adjacent[q], below))
DepthStrings(r, d) ==
    LET string[q \in Subtree(r)] == StringOf(q, string, d)
    IN  string

NeedsStringAlways(r) == TRUE
NeedsString(r) == Lost \notin flags[r]

(***************************************************************************)
(* compute_fiducial_statistics for the next candidate, without positions   *)
(* and angles.                                                             *)
(***************************************************************************)
Candidate == candidates[Len(fiducials) + 1]

NextFiducial ==
    /\ phase = "report" /\ Len(fiducials) < Len(candidates) /\ Len(fiducials) < MaxCount
    /\ depth' = Depths(Candidate)
    /\ UNCHANGED <<regionCount, colour, flags, phase, scanned, walker, traversed, childrenVisited,
                   descendents, candidates, reportedTo>>

IdentifyCandidate ==
    /\ NextFiducial
    /\ NeedsString(Candidate)
    /\ LET r == Candidate
           string == DepthStrings(r, Depths(r))
           below == Subtree(r)
       IN  /\ treeString' = [colour |-> colour[r], depths |-> string[r]]
           /\ nextString' = Cardinality(below)
           /\ adjacent' = [q \in Regions |-> IF q \in below THEN Sorted(q, string) ELSE adjacent[q]]
           /\ fiducials' = Append(fiducials, [root |-> r, id |-> TreeStringToId(treeString'),
                                              nodes |-> descendents[r]])

PassOverLost ==
    /\ NextFiducial
    /\ ~NeedsString(Candidate)
    /\ fiducials' = Append(fiducials, [root |-> Candidate, id |-> InvalidId,
                                       nodes |-> descendents[Candidate]])
    /\ UNCHANGED <<adjacent, treeString, nextString>>

ScanDone ==
    /\ phase = "scan" /\ ~InScan
    /\ phase' = "report"
    /\ UNCHANGED <<graphVars, scanned, walkVars, resultVars>>

Return ==
    /\ phase = "report"
    /\ Len(fiducials) = Len(candidates) \/ Len(fiducials) = MaxCount
    /\ phase' = "done"
    /\ UNCHANGED <<graphVars, scanned, walkVars, resultVars>>

Next ==
    \/ SkipRegion \/ StartAtLeaf
    \/ FindCandidate \/ EndAtTop \/ ReportToParent
    \/ ScanDone
    \/ IdentifyCandidate \/ PassOverLost \/ Return

Spec == Init /\ [][Next]_vars

-----------------------------------------------------------------------------
(***************************************************************************)
(* Properties                                                              *)
(***************************************************************************)

\* The assertions of find_roots and of the upward walk, which release builds leave out: whatever
\* order the leaves come in, no region is entered twice, a leaf is first reached by the scan, and
\* a region is entered only when all of its neighbours but at most one, its parent, have been.
Assertions ==
    /\ phase = "walk" =>
        /\ walker \notin traversed
        /\ childrenVisited[walker] \in {Len(adjacent[walker]) - 1, Len(adjacent[walker])}
        /\ \A j, k \in Open(walker) : j = k
        /\ \A a \in ElementsOf(adjacent[walker]) : walker \in ElementsOf(adjacent[a])
    /\ phase = "scan" /\ scanned <= regionCount /\ IsStart(scanned) =>
        scanned \notin traversed /\ childrenVisited[scanned] = 0

\* No tree needs more than the depth_string_count buffers of initialize_fidtrackerX, nor a longer
\* string than one of them holds, although regions with more descendents become candidates.
StringsFit == nextString <= MaxNodeCount /\ Len(treeString.depths) <= MaxNodeCount

\* "we also never traverse nodes which are saturated or fragmented" (fidtrackX.c:420): the walk
\* enters no region whose list is known to be incomplete.
NeverTraversesIncomplete ==
    \A r \in traversed : flags[r] \cap {Saturated, Fragmented} = {}

=============================================================================

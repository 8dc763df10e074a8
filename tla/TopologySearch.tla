--------------------------- MODULE TopologySearch ---------------------------
(***************************************************************************)
(* initialize_segment_topology (topologysearch.c): three passes over the   *)
(* regions of a segmented image that label black leaves, the white regions *)
(* around them and the roots around those, and link each into its list; and *)
(* the loop of find_fiducials120 (fidtrack120.c) over the roots it found.  *)
(* An action is one iteration of a pass.                                   *)
(***************************************************************************)
EXTENDS Integers, Sequences, FiniteSets

CONSTANTS
    SymbolCount,      \* symbol_count: how many symbols a fiducial has
    MaxFiducials,     \* count: how many fiducials the caller has room for
    Pictures          \* the segmented images: a sequence of regions [colour, adjacent] each

ASSUME CountsAssumption == SymbolCount \in Nat \ {0} /\ MaxFiducials \in Nat \ {0}
ASSUME PicturesAssumption ==
    \A p \in Pictures :
        Len(p) \in Nat \ {0} /\ \A r \in 1 .. Len(p) : p[r].adjacent \in Seq(1 .. Len(p))

\* As the segmenter leaves them: neighbours are of the other colour and list each other, perhaps
\* more than once.
ASSUME SegmentedAssumption ==
    \A p \in Pictures : \A r \in 1 .. Len(p) :
        /\ p[r].colour \in {"black", "white"}
        /\ \A k \in 1 .. Len(p[r].adjacent) :
              LET s == p[r].adjacent[k]
              IN  /\ p[s].colour # p[r].colour
                  /\ \E l \in 1 .. Len(p[s].adjacent) : p[s].adjacent[l] = r

LeafLevel == 0
LeafContainerLevel == 1
RootLevel == 2
UnknownLevel == -1
DiscardedLevel == -2

VARIABLES
    regions,
    level,            \* Region::level
    leaves, containers, roots,      \* the lists with these heads in PartialSegmentTopology
    phase,            \* the pass under way
    next,             \* the element of the pass's sequence that is looked at next
    place,            \* in the pass for roots: which of its neighbours
    fiducials         \* the roots whose fiducial was written to the caller's array

vars == <<regions, level, leaves, containers, roots, phase, next, place, fiducials>>

Ids == 1 .. Len(regions)
Adjacent(r) == regions[r].adjacent
AdjacentCount(r) == Len(Adjacent(r))
CountAdjacent(r, Test(_)) == Cardinality({k \in 1 .. AdjacentCount(r) : Test(Adjacent(r)[k])})

\* new_region gave every region UNKNOWN_REGION_LEVEL.
Init ==
    /\ regions \in Pictures
    /\ level = [r \in Ids |-> UnknownLevel]
    /\ leaves = <<>> /\ containers = <<>> /\ roots = <<>>
    /\ phase = "leaves" /\ next = 1 /\ place = 1 /\ fiducials = <<>>

EndPass(last, following) ==
    /\ phase' = IF next = last THEN following ELSE phase
    /\ next' = IF next = last THEN 1 ELSE next + 1

FindBlackLeaf ==
    /\ phase = "leaves"
    /\ IF regions[next].colour = "black" /\ AdjacentCount(next) = 1
       THEN /\ level' = [level EXCEPT ![next] = LeafLevel]
            /\ leaves' = Append(leaves, next)
       ELSE /\ level' = [level EXCEPT ![next] = UnknownLevel]
            /\ UNCHANGED leaves
    /\ EndPass(Len(regions), "containers")
    /\ UNCHANGED <<regions, containers, roots, place, fiducials>>

HasOnlyOneNonLeaf(r) == CountAdjacent(r, LAMBDA a : level[a] # LeafLevel) = 1

FitsAnySymbol(r) == AdjacentCount(r) >= 2
FitsSymbol(r) == AdjacentCount(r) >= 2 /\ AdjacentCount(r) <= SymbolCount + 1

IsConsideredAgain(r) == level[r] # DiscardedLevel
IsConsidered(r) == level[r] = UnknownLevel

FindContainer ==
    /\ phase = "containers" /\ leaves # <<>>
    /\ LET candidate == Adjacent(leaves[next])[1]
       IN \/ /\ ~IsConsidered(candidate)
             /\ UNCHANGED <<level, containers>>
          \/ /\ IsConsidered(candidate)
             /\ HasOnlyOneNonLeaf(candidate) /\ FitsSymbol(candidate)
             /\ level' = [level EXCEPT ![candidate] = LeafContainerLevel]
             /\ containers' = Append(containers, candidate)
          \/ /\ IsConsidered(candidate)
             /\ ~(HasOnlyOneNonLeaf(candidate) /\ FitsSymbol(candidate))
             /\ level' = [level EXCEPT ![candidate] = DiscardedLevel]
             /\ UNCHANGED containers
    /\ EndPass(Len(leaves), "roots")
    /\ UNCHANGED <<regions, leaves, roots, place, fiducials>>

OthersThanContainers(r) == CountAdjacent(r, LAMBDA a : level[a] # LeafContainerLevel)

IsRoot(r) ==
    /\ level[r] = UnknownLevel
    /\ \/ AdjacentCount(r) = SymbolCount /\ OthersThanContainers(r) = 0
       \/ AdjacentCount(r) = SymbolCount + 1 /\ OthersThanContainers(r) = 1

\* One neighbour of a container, which may have been found to be a root before.
FindRoot ==
    /\ phase = "roots" /\ containers # <<>>
    /\ LET candidate == Adjacent(containers[next])[place]
       IN \/ /\ IsRoot(candidate)
             /\ level' = [level EXCEPT ![candidate] = RootLevel]
             /\ roots' = Append(roots, candidate)
          \/ /\ ~IsRoot(candidate)
             /\ UNCHANGED <<level, roots>>
    /\ \/ /\ place < AdjacentCount(containers[next])
          /\ place' = place + 1
          /\ UNCHANGED <<phase, next>>
       \/ /\ place = AdjacentCount(containers[next])
          /\ place' = 1
          /\ EndPass(Len(containers), "compute")
    /\ UNCHANGED <<regions, leaves, containers, fiducials>>

IsFull(count) == count >= MaxFiducials

\* One iteration of the loop of find_fiducials120; what it computes is in module Fidtrack120.
ComputeFiducial ==
    /\ phase = "compute" /\ roots # <<>>
    /\ fiducials' = Append(fiducials, roots[next])
    /\ phase' = IF IsFull(Len(fiducials')) \/ next = Len(roots) THEN "done" ELSE phase
    /\ next' = next + 1
    /\ UNCHANGED <<regions, level, leaves, containers, roots, place>>

\* A pass over an empty list ends at once.
SkipEmpty ==
    /\ \/ phase = "containers" /\ leaves = <<>> /\ phase' = "roots"
       \/ phase = "roots" /\ containers = <<>> /\ phase' = "compute"
       \/ phase = "compute" /\ roots = <<>> /\ phase' = "done"
    /\ UNCHANGED <<regions, level, leaves, containers, roots, next, place, fiducials>>

Next == FindBlackLeaf \/ FindContainer \/ FindRoot \/ ComputeFiducial \/ SkipEmpty

Spec == Init /\ [][Next]_vars

-----------------------------------------------------------------------------
ListedRegions(list) == {list[k] : k \in 1 .. Len(list)}
HasNoRepetition(list) == \A k, l \in 1 .. Len(list) : list[k] = list[l] => k = l

TypeOK ==
    /\ level \in [Ids -> {LeafLevel, LeafContainerLevel, RootLevel, UnknownLevel, DiscardedLevel}]
    /\ leaves \in Seq(Ids) /\ containers \in Seq(Ids) /\ roots \in Seq(Ids)
    /\ phase \in {"leaves", "containers", "roots", "compute", "done"}
    /\ next \in Nat \ {0} /\ place \in Nat \ {0}
    /\ fiducials \in Seq(Ids)

\* The lists run through the next and previous of the regions themselves (link_region), so that a
\* region linked twice, or into two lists, would tear a list apart under the loop that follows it.
\* No region is, and the level of a region says in which list it is.
ListedOnce ==
    /\ HasNoRepetition(leaves) /\ HasNoRepetition(containers) /\ HasNoRepetition(roots)
    /\ ListedRegions(leaves) = {r \in Ids : level[r] = LeafLevel}
    /\ ListedRegions(containers) = {r \in Ids : level[r] = LeafContainerLevel}
    /\ ListedRegions(roots) = {r \in Ids : level[r] = RootLevel}

\* What the roots are, said of the picture alone and not of the passes: a region around as many
\* symbols as a fiducial has, with at most one other neighbour, where a symbol is a region with
\* one to SymbolCount black leaves and one other neighbour.  A neighbour counts as often as it is
\* listed.
IsBlackLeaf(r) == regions[r].colour = "black" /\ AdjacentCount(r) = 1
IsSymbol(r) ==
    /\ CountAdjacent(r, IsBlackLeaf) \in 1 .. SymbolCount
    /\ CountAdjacent(r, LAMBDA a : ~IsBlackLeaf(a)) = 1
IsFiducialRoot(r) ==
    /\ ~IsBlackLeaf(r) /\ ~IsSymbol(r)
    /\ CountAdjacent(r, IsSymbol) = SymbolCount
    /\ CountAdjacent(r, LAMBDA a : ~IsSymbol(a)) <= 1

RootsExact ==
    phase \in {"compute", "done"} => ListedRegions(roots) = {r \in Ids : IsFiducialRoot(r)}

\* find_fiducials120 writes one fiducial for every root, and no more than the caller has room for.
FiducialsFit ==
    /\ Len(fiducials) <= MaxFiducials
    /\ phase = "done" => \/ Len(fiducials) = MaxFiducials
                         \/ ListedRegions(fiducials) = ListedRegions(roots)

\* "assert( r->adjacent_region_count == 7 )" (fidtrack120.c:222, for six symbols): a root that is
\* looked at has its symbols and the region it lies in.
RootsLieInARegion == \A r \in ListedRegions(fiducials) : AdjacentCount(r) = SymbolCount + 1
=============================================================================

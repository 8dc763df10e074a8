---------------------------- MODULE MCSegmenter ----------------------------
(***************************************************************************)
(* The segmenter checked against the image it reads.                       *)
(***************************************************************************)
EXTENDS Segmenter, TLC

ColourSymmetry == Permutations(Colours)

\* The reference that q leads to, if n references redirect as rd says.
RootIn(rd, n, q) ==
    LET walk[p \in 1 .. n] == IF rd[p] = p THEN p ELSE walk[rd[p]] IN walk[q]

\* The root reference that a reference resolves to.
RootOf(q) == RootIn(redirect, refCount, q)

Pixels == 1 .. Len(label)
RootOfPixel == [p \in Pixels |-> RootOf(label[p])]
RegionOfPixel == [p \in Pixels |-> regionOf[RootOfPixel[p]]]

(***************************************************************************)
(* The abstract segmenter that this one implements: a part is the set of   *)
(* pixels whose references resolve to the same root.                       *)
(***************************************************************************)
Classes(root) == {{p \in DOMAIN root : root[p] = q} : q \in {root[p] : p \in DOMAIN root}}

Image == SubSeq(source, 1, Len(label))
Parts == Classes(RootOfPixel)

Abstract == INSTANCE Components WITH image <- Image, parts <- Parts

\* The references resolve to the same region exactly when the pixels are connected in the image
\* read so far: every pixel, redirect and merge is a step of Components or changes no part.
ImplementsComponents == Abstract!Spec

\* At the end of the image the parts are its connected components, however the merges came about.
PartsAreComponents == pc = "done" => Abstract!PartsClosed /\ Abstract!PartsConnected

\* Between two pixels and at the end of the image.
Settled == pc \in {"read", "done"}

TouchingRegions ==
    LET region == RegionOfPixel
    IN  UNION {{{region[p], region[n]} : n \in {m \in Abstract!Neighbours(p) : source[m] # source[p]}}
               : p \in Pixels}

\* Regions that touch list each other, unless one was saturated; then the other says so, and
\* fidtrackX.c can tell from its flags that its list is incomplete.  Regions that do not touch
\* never list each other.
ListsMatchImage ==
    Settled =>
        LET touching == TouchingRegions IN
        /\ \A a \in Live : \A b \in ElementsOf(adjacent[a]) : {a, b} \in touching
        /\ \A e \in touching : \A a, b \in e : a # b =>
              \/ b \in ElementsOf(adjacent[a])
              \/ Saturated \in flags[a] /\ Fragmented \in flags[b]
              \/ Saturated \in flags[b] /\ Fragmented \in flags[a]

\* A region is marked fragmented only because a region it touches is saturated.
FragmentedBySaturation ==
    Settled => \A a \in Live : Fragmented \in flags[a] =>
        \E e \in TouchingRegions : a \in e /\ \E b \in e \ {a} : Saturated \in flags[b]

\* A saturated region stays without links through later merges (SaturatedDetached), and what it lost
\* is told to its neighbours and to no other region (FragmentedBySaturation).
SaturationExact == SaturatedDetached /\ FragmentedBySaturation

Column(p) == ((p - 1) % Width) + 1
Row(p) == ((p - 1) \div Width) + 1
OnBorder(p) == Column(p) \in {1, Width} \/ Row(p) \in {1, Height}
PixelsOf(r) == {p \in Pixels : RegionOfPixel[p] = r}

\* At the end of the image exactly the regions that reach its border are adjacent to the root.
RootFlagsExact ==
    pc = "done" =>
        LET region == RegionOfPixel
        IN  \A r \in Live : Root \in flags[r] <=> \E p \in Pixels : region[p] = r /\ OnBorder(p)

\* The bounding box fidtrackX.c takes a fiducial's position from is that of the region's pixels,
\* for every region that does not reach the border.
BoxesExact ==
    pc = "done" =>
        LET region == RegionOfPixel
        IN  \A r \in Live : Root \notin flags[r] =>
                LET ps == {p \in Pixels : region[p] = r} IN
                /\ \A p \in ps : /\ Column(p) \in box[r].left .. box[r].right
                                 /\ Row(p) \in box[r].top .. box[r].bottom
                /\ \E p \in ps : Column(p) = box[r].left
                /\ \E p \in ps : Column(p) = box[r].right
                /\ \E p \in ps : Row(p) = box[r].top
                /\ \E p \in ps : Row(p) = box[r].bottom

\* What fidtrackX.c takes from a region besides its list: whether it reaches the border, and where
\* it lies in the image.
FlagsAndBoxesExact == RootFlagsExact /\ BoxesExact

\* What was noted of a pixel's region is not lost when that region is merged into another.
FlagsKept ==
    [][Len(label') >= Len(label) =>
        \A p \in Pixels : flags[RegionOfPixel[p]] \subseteq (flags[RegionOfPixel[p]])']_vars
=============================================================================

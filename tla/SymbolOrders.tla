---------------------------- MODULE SymbolOrders ----------------------------
(***************************************************************************)
(* Fiducials of known codes, turned and drawn with a little error, whose   *)
(* symbols are in any order in the list of the root.                       *)
(***************************************************************************)
EXTENDS Fidtrack120

CONSTANTS
    Designs,      \* the codes of a fiducial, once around it in clockwise order
    Placements    \* where the six symbols are, in the same order

VARIABLES design, placement
vars == <<design, placement, fiducialVars>>

Init == design \in Designs /\ placement \in Placements /\ InitFiducial

\* A symbol is a region with its leaves and the two around them.
NextSymbol ==
    /\ \E i \in 1 .. 6 :
          /\ \A k \in 1 .. Len(points) : points[k].at # placement[i]
          /\ Collect([at |-> placement[i], adjacentCount |-> design[i] + 2])
    /\ UNCHANGED <<design, placement>>

Next == NextSymbol \/ (ComputeFiducial /\ UNCHANGED <<design, placement>>)

Spec == Init /\ [][Next]_vars

-----------------------------------------------------------------------------
Corners == {1, 3, 4, 6}
FirstSymbolAt == {i \in 1 .. 6 : design[i] = 0}

\* Once around the fiducial from a corner, along the longer side first.
From(corner) ==
    CASE corner = 1 -> <<1, 2, 3, 4, 5, 6>> [] corner = 3 -> <<3, 2, 1, 6, 5, 4>>
      [] corner = 4 -> <<4, 5, 6, 1, 2, 3>> [] corner = 6 -> <<6, 5, 4, 3, 2, 1>>

\* Permutations of 0 .. 5 that begin with 0 (not the sequence's own business: all there are).
Codes == {s \in [1 .. 6 -> 0 .. 5] : s[1] = 0 /\ Range(s) = 0 .. 5}
Before(s, t) == \E i \in 1 .. 6 : s[i] < t[i] /\ \A j \in 1 .. i - 1 : s[j] = t[j]

\* In whatever order the segmenter listed the symbols, and however the fiducial lies, its codes are
\* read once around from the corner with the single leaf; a fiducial that has it at no corner, or
\* has a symbol twice, has no id, and every other its rank among the 120 there are.
ReadsCodes ==
    step = "done" =>
        LET f == fiducial
        IN IF Cardinality(FirstSymbolAt) = 1 /\ FirstSymbolAt \subseteq Corners
           THEN LET way == From(CHOOSE c \in FirstSymbolAt : TRUE)
                    codes == [i \in 1 .. 6 |-> design[way[i]]]
                IN /\ f.symbol_sequence = codes
                   /\ f.id = IF Range(codes) = 0 .. 5
                             THEN Cardinality({s \in Codes : Before(s, codes)})
                             ELSE InvalidFiducialId
           ELSE f.id = InvalidFiducialId

Dot(v, w) == v[1] * w[1] + v[2] * w[2]
Cross(v, w) == v[1] * w[2] - v[2] * w[1]
Abs(n) == IF n < 0 THEN -n ELSE n

\* The direction that the angle is taken from is that of the first line, to within a few degrees.
PointsAlongFirstLine ==
    step = "done" =>
        LET along == Along(lines[1][1], lines[1][3])
        IN 4 * Abs(Cross(along, fiducial.direction)) < Dot(along, fiducial.direction)

\* "vectors parallel to the shorter side of the fiducial, rotated 90 degrees" (fidtrack120.c:323)
\* are averaged with those parallel to the longer side, "so that the codes can be read in
\* clockwise order" (:277-278): rotated, they point along the longer sides.
ShortSidesAgree ==
    (step = "done" /\ FirstSymbolAt = {1}) =>
        \A i \in 1 .. 3 : Dot(ShortSides(lines)[i], Along(lines[1][1], lines[1][3])) > 0
=============================================================================

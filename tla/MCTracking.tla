----------------------------- MODULE MCTracking -----------------------------
(***************************************************************************)
(* The tracker on the regions of a few families of small images, checked   *)
(* against what the candidates and their identities should be.             *)
(***************************************************************************)
EXTENDS Tracking

CONSTANTS black, white

w == {white}
b == {black}
e == {black, white}   \* either

\* Two plates and a dot side by side: the border region has several children.
Plates == <<
    w, w, w, w, w, w, w, w, w, w, w,
    w, b, b, b, b, b, w, b, b, b, e,
    w, b, e, b, e, b, e, b, e, b, w,
    w, b, b, e, b, b, w, b, b, b, w,
    w, b, e, b, e, b, w, w, w, w, w,
    w, b, b, b, b, b, w, w, e, w, w,
    w, w, w, w, w, w, w, w, w, w, w >>

\* One plate with holes and a ring around a dot.  The holes may be so many that the plate is
\* saturated, and the plate may touch the border.
Ring == <<
    w, w, w, w, w, w, w, w, w, w, w,
    w, b, b, b, b, b, b, b, b, b, w,
    w, b, e, b, e, b, w, w, e, b, w,
    w, b, b, e, b, b, w, e, w, b, w,
    e, b, e, b, e, b, w, w, e, b, w,
    w, b, b, b, b, b, e, b, b, b, w,
    w, w, w, w, w, w, w, w, w, w, w >>

\* Holes that enclose a dot corner to corner: the regions form a cycle.
Cycle == <<
    w, w, w, w, w, w, w, w, w, w, w,
    w, b, b, b, b, b, b, b, b, b, w,
    w, b, w, b, e, b, w, w, w, b, w,
    w, b, b, w, b, e, w, e, w, b, w,
    w, b, e, b, e, b, w, w, w, b, w,
    w, b, b, b, b, b, e, b, b, b, w,
    w, w, w, w, w, w, w, w, w, w, w >>

\* Enough dots to saturate the border region, which leaves the plate with two holes incomplete.
Dots == <<
    w, w, w, w, w, w, w, w, w, w, w,
    w, b, b, b, b, b, w, b, w, e, w,
    w, b, e, b, w, b, w, w, w, w, w,
    w, b, b, b, b, b, w, e, w, b, w,
    w, w, w, w, w, w, w, w, w, w, w,
    w, b, w, e, w, b, w, e, w, e, w,
    w, w, w, w, w, w, w, w, w, w, w >>

FewImages == {Plates, Ring, Cycle, Dots}

Tree(c, depths) == [colour |-> c, depths |-> depths]
FewTrees == <<
    Tree(black, <<0, 1, 2, 1, 1>>),
    Tree(black, <<0, 1, 2, 1, 1, 1>>),
    Tree(black, <<0, 1, 1, 1, 1>>),
    Tree(white, <<0, 1, 2, 1, 1>>) >>

-----------------------------------------------------------------------------
(***************************************************************************)
(* What hangs below a region r: the regions reached without passing its    *)
(* parent p (or Null), if they form a tree whose regions other than r know *)
(* all of their neighbours.                                                *)
(***************************************************************************)
Incomplete(r) == flags[r] \cap {Root, Saturated, Fragmented} # {}

Reached(r, p) ==
    LET reach[d \in 0 .. regionCount] ==
            IF d = 0 THEN {r}
            ELSE LET near == reach[d - 1]
                 IN  near \cup (UNION {ElementsOf(adjacent[q]) : q \in near} \ {p})
    IN  reach[regionCount]

IsTreeBelow(r, p, branch) ==
    /\ \A q \in branch \ {r} : ~Incomplete(q) /\ p \notin ElementsOf(adjacent[q])
    /\ IF p = Null THEN Incomplete(r) /\ adjacent[r] # <<>>
                   ELSE p \in ElementsOf(adjacent[r]) /\ ~Incomplete(r)
    \* every link is counted at both of its ends, the one to p once
    /\ MapThenSumSet(LAMBDA q : Len(adjacent[q]), branch)
         = 2 * (Cardinality(branch) - 1) + (IF p = Null THEN 0 ELSE 1)

Parents(r) == {p \in ElementsOf(adjacent[r]) \cup {Null} : IsTreeBelow(r, p, Reached(r, p))}

\* For a region with such a parent; the border stops it from having two.
Below(r) == Reached(r, CHOOSE p \in Parents(r) : TRUE)

\* The sequences of depths, in preorder, of the trees below the regions in children, which are at
\* depth d below r, for every order of the children.
RECURSIVE Preorders(_, _, _)
Preorders(r, children, d) ==
    IF children = {} THEN {<<>>}
    ELSE UNION {{<<d>> \o s \o t : s \in Preorders(c, ElementsOf(adjacent[c]) \ {r}, d + 1),
                                   t \in Preorders(r, children \ {c}, d)} : c \in children}

PreordersBelow(r) ==
    LET p == CHOOSE p \in Parents(r) : TRUE
    IN  {<<0>> \o s : s \in Preorders(r, ElementsOf(adjacent[r]) \ {p}, 1)}

HeightBelow(r) ==
    LET s == CHOOSE s \in PreordersBelow(r) : TRUE IN Max({s[k] : k \in 1 .. Len(s)})

-----------------------------------------------------------------------------
Descendents(r) == Cardinality(Below(r)) - 1
Fits(r) == Descendents(r) \in MinTarget .. MaxTarget
NearlyFits(r) == Descendents(r) \in MinRange .. MaxRange - 1

\* Whatever order the leaves are scanned in, find_roots collects exactly the regions with a tree of
\* about the size of a fiducial below them, each once, and marks those of another size as lost.
\* The walk gives up on a tree as soon as it is too large or too deep.
CandidatesExact ==
    phase \in {"report", "done"} =>
        LET rooted == {r \in Used : Parents(r) # {}}
            climbed(r) == \A q \in Below(r) \ {r} :
                             Descendents(q) < MaxTarget /\ HeightBelow(q) < MaxDepth
        IN  /\ ElementsOf(candidates) =
                 {r \in rooted : /\ climbed(r)
                                 /\ HeightBelow(r) \in MinDepth .. MaxDepth
                                 /\ Fits(r) \/ NearlyFits(r)}
            /\ \A j, k \in 1 .. Len(candidates) : candidates[j] = candidates[k] => j = k
            /\ \A r \in ElementsOf(candidates) : Lost \in flags[r] <=> ~Fits(r)

\* A fiducial has the id of a tree exactly when its regions form that tree, in whatever order they
\* were found and listed.  Excepted are roots with a single listed neighbour, an only child: they
\* are on the border or incomplete, and build_left_heavy_depth_string takes them for leaves.
IdsExact ==
    \A k \in 1 .. Len(fiducials) :
        LET r == fiducials[k].root
            matching == {t \in 1 .. Len(Trees) : /\ Trees[t].colour = colour[r]
                                                 /\ Trees[t].depths \in PreordersBelow(r)}
        IN  Len(adjacent[r]) # 1 =>
                fiducials[k].id = IF matching = {} THEN InvalidId ELSE Min(matching) - 1

=============================================================================

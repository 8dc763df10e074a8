------------------------ MODULE TopologySearchProofs ------------------------
(***************************************************************************)
(* The lists of the topology search and the fiducials it returns, for any  *)
(* picture of any number of regions, any number of symbols and any room.   *)
(*                                                                         *)
(* The argument: a region is linked into a list in the step that takes it  *)
(* from the unknown level to that of the list, and no later step changes   *)
(* its level; in the first pass that holds because what has not been       *)
(* looked at is unknown.  That the passes stay inside the lists needs that *)
(* a leaf has one neighbour and a container two.  Which regions are roots  *)
(* is a second invariant, on top of the first.                             *)
(***************************************************************************)
EXTENDS TopologySearch, FiniteSetTheorems, TLAPS

\* What a region's level says of its neighbours.
LevelInv ==
    /\ regions \in Pictures
    /\ \A r \in Ids : /\ level[r] = LeafLevel => AdjacentCount(r) = 1
                      /\ level[r] = LeafContainerLevel => AdjacentCount(r) >= 2
    /\ phase = "leaves" => \A r \in Ids : r >= next => level[r] = UnknownLevel

\* A pass looks at an element of its list, and begins with the first.
PassInv ==
    /\ phase = "leaves" => next <= Len(regions)
    /\ phase = "containers" => IF leaves = <<>> THEN next = 1 ELSE next <= Len(leaves)
    /\ phase = "roots" => IF containers = <<>> THEN next = 1 /\ place = 1
                          ELSE next <= Len(containers) /\ place <= AdjacentCount(containers[next])
    /\ phase # "roots" => place = 1
    /\ phase = "compute" => IF roots = <<>> THEN next = 1 ELSE next <= Len(roots)

\* The fiducials are those of the first roots.
FiducialsInv ==
    /\ Len(fiducials) <= MaxFiducials
    /\ phase \in {"leaves", "containers", "roots"} => fiducials = <<>>
    /\ phase = "compute" => Len(fiducials) < MaxFiducials /\ Len(fiducials) = next - 1
    /\ Len(fiducials) <= Len(roots)
    /\ \A k \in 1 .. Len(fiducials) : fiducials[k] = roots[k]
    /\ phase = "done" => Len(fiducials) = MaxFiducials \/ Len(fiducials) = Len(roots)

SearchInv == TypeOK /\ ListedOnce /\ LevelInv /\ PassInv /\ FiducialsInv

-----------------------------------------------------------------------------
\* Neighbours are regions of the same picture.
LEMMA AdjacentAreRegions ==
    ASSUME regions \in Pictures
    PROVE  /\ Len(regions) \in Nat \ {0}
           /\ \A r \in Ids : /\ Adjacent(r) \in Seq(Ids) /\ AdjacentCount(r) \in Nat
                             /\ \A k \in 1 .. AdjacentCount(r) : Adjacent(r)[k] \in Ids
<1>1. Len(regions) \in Nat \ {0} /\ \A r \in Ids : Adjacent(r) \in Seq(Ids)
  BY PicturesAssumption DEF Ids, Adjacent
<1> QED
  BY <1>1 DEF AdjacentCount

\* A region that is in no list yet is linked at the end of one.
LEMMA Linked ==
    ASSUME NEW S, NEW list \in Seq(S), NEW r \in S, r \notin ListedRegions(list), HasNoRepetition(list)
    PROVE  /\ Append(list, r) \in Seq(S) /\ HasNoRepetition(Append(list, r))
           /\ ListedRegions(Append(list, r)) = ListedRegions(list) \cup {r}
           /\ Append(list, r) # <<>> /\ Len(Append(list, r)) = Len(list) + 1
<1> DEFINE longer == Append(list, r)
<1>1. /\ longer \in Seq(S) /\ Len(longer) = Len(list) + 1 /\ longer[Len(list) + 1] = r
      /\ \A k \in 1 .. Len(list) : longer[k] = list[k]
      /\ Len(list) \in Nat /\ longer # <<>>
  OBVIOUS
<1> HIDE DEF longer
<1>2. \A k \in 1 .. Len(longer) : k \in 1 .. Len(list) \/ k = Len(list) + 1
  BY <1>1
<1>3. \A k \in 1 .. Len(list) : k \in 1 .. Len(longer)
  BY <1>1
<1>4. Len(list) + 1 \in 1 .. Len(longer)
  BY <1>1
<1>5. \A k \in 1 .. Len(list) : list[k] # r
  BY DEF ListedRegions
<1>6. HasNoRepetition(longer)
  <2> SUFFICES ASSUME NEW k \in 1 .. Len(longer), NEW l \in 1 .. Len(longer), longer[k] = longer[l]
               PROVE  k = l
    BY DEF HasNoRepetition
  <2> QED
    BY <1>1, <1>2, <1>5 DEF HasNoRepetition
<1>7. ListedRegions(longer) = ListedRegions(list) \cup {r}
  BY <1>1, <1>2, <1>3, <1>4 DEF ListedRegions
<1> QED
  BY <1>1, <1>6, <1>7 DEF longer

LEMMA InitSearchInv == Init => SearchInv
<1> SUFFICES ASSUME Init PROVE SearchInv
  OBVIOUS
<1>1. Len(regions) \in Nat \ {0} /\ regions \in Pictures
  BY AdjacentAreRegions DEF Init
<1>2. /\ leaves = <<>> /\ containers = <<>> /\ roots = <<>> /\ fiducials = <<>>
      /\ phase = "leaves" /\ next = 1 /\ place = 1
      /\ level = [r \in Ids |-> UnknownLevel]
  BY DEF Init
<1>3. \A r \in Ids : level[r] = UnknownLevel
  BY <1>2
<1>4. leaves \in Seq(Ids) /\ containers \in Seq(Ids) /\ roots \in Seq(Ids) /\ fiducials \in Seq(Ids)
  BY <1>2
<1>5. TypeOK
  BY <1>2, <1>4 DEF TypeOK
<1>6. ListedOnce
  <2>1. /\ HasNoRepetition(<<>>) /\ ListedRegions(<<>>) = {}
    BY DEF HasNoRepetition, ListedRegions
  <2> QED
    BY <1>2, <1>3, <2>1 DEF ListedOnce, UnknownLevel, LeafLevel, LeafContainerLevel, RootLevel
<1>7. LevelInv /\ PassInv
  BY <1>1, <1>2, <1>3 DEF LevelInv, PassInv, UnknownLevel, LeafLevel, LeafContainerLevel
<1>8. FiducialsInv
  <2>1. Len(fiducials) = 0 /\ Len(roots) = 0 /\ \A k \in 1 .. 0 : FALSE
    BY <1>2
  <2> QED
    BY <1>2, <2>1, CountsAssumption DEF FiducialsInv
<1> QED
  BY <1>5, <1>6, <1>7, <1>8 DEF SearchInv

-----------------------------------------------------------------------------
\* The lists stay exact when a region of the unknown level is linked into the one of its new level.
LEMMA LinkedByLevel ==
    ASSUME TypeOK, ListedOnce, NEW r \in Ids, level[r] = UnknownLevel,
           NEW l \in {LeafLevel, LeafContainerLevel, RootLevel, DiscardedLevel},
           level' = [level EXCEPT ![r] = l], regions' = regions,
           leaves' = IF l = LeafLevel THEN Append(leaves, r) ELSE leaves,
           containers' = IF l = LeafContainerLevel THEN Append(containers, r) ELSE containers,
           roots' = IF l = RootLevel THEN Append(roots, r) ELSE roots
    PROVE  /\ ListedOnce'
           /\ level' \in [Ids -> {LeafLevel, LeafContainerLevel, RootLevel, UnknownLevel, DiscardedLevel}]
           /\ leaves' \in Seq(Ids) /\ containers' \in Seq(Ids) /\ roots' \in Seq(Ids)
           /\ level'[r] = l /\ \A q \in Ids \ {r} : level'[q] = level[q]
<1> USE DEF LeafLevel, LeafContainerLevel, RootLevel, UnknownLevel, DiscardedLevel
<1>1. /\ level \in [Ids -> {0, 1, 2, -1, -2}]
      /\ leaves \in Seq(Ids) /\ containers \in Seq(Ids) /\ roots \in Seq(Ids)
  BY DEF TypeOK
<1>2. /\ level'[r] = l /\ \A q \in Ids \ {r} : level'[q] = level[q]
      /\ level' \in [Ids -> {0, 1, 2, -1, -2}]
  BY <1>1
<1>3. /\ HasNoRepetition(leaves) /\ HasNoRepetition(containers) /\ HasNoRepetition(roots)
      /\ ListedRegions(leaves) = {q \in Ids : level[q] = 0}
      /\ ListedRegions(containers) = {q \in Ids : level[q] = 1}
      /\ ListedRegions(roots) = {q \in Ids : level[q] = 2}
  BY DEF ListedOnce
<1>4. r \notin ListedRegions(leaves) /\ r \notin ListedRegions(containers) /\ r \notin ListedRegions(roots)
  BY <1>3
<1>5. /\ leaves' \in Seq(Ids) /\ HasNoRepetition(leaves')
      /\ ListedRegions(leaves') =
            IF l = 0 THEN ListedRegions(leaves) \cup {r} ELSE ListedRegions(leaves)
  <2>1. /\ Append(leaves, r) \in Seq(Ids) /\ HasNoRepetition(Append(leaves, r))
        /\ ListedRegions(Append(leaves, r)) = ListedRegions(leaves) \cup {r}
    <3>1. leaves \in Seq(Ids) /\ HasNoRepetition(leaves) /\ r \notin ListedRegions(leaves)
      BY <1>1, <1>3, <1>4
    <3> QED
      BY ONLY r \in Ids, <3>1, Linked
  <2>2. CASE l = 0
    BY <2>1, <2>2
  <2>3. CASE l # 0
    BY <1>1, <1>3, <2>3
  <2> QED
    BY <2>2, <2>3
<1>6. /\ containers' \in Seq(Ids) /\ HasNoRepetition(containers')
      /\ ListedRegions(containers') =
            IF l = 1 THEN ListedRegions(containers) \cup {r} ELSE ListedRegions(containers)
  <2>1. /\ Append(containers, r) \in Seq(Ids) /\ HasNoRepetition(Append(containers, r))
        /\ ListedRegions(Append(containers, r)) = ListedRegions(containers) \cup {r}
    <3>1. containers \in Seq(Ids) /\ HasNoRepetition(containers) /\ r \notin ListedRegions(containers)
      BY <1>1, <1>3, <1>4
    <3> QED
      BY ONLY r \in Ids, <3>1, Linked
  <2>2. CASE l = 1
    BY <2>1, <2>2
  <2>3. CASE l # 1
    BY <1>1, <1>3, <2>3
  <2> QED
    BY <2>2, <2>3
<1>7. /\ roots' \in Seq(Ids) /\ HasNoRepetition(roots')
      /\ ListedRegions(roots') =
            IF l = 2 THEN ListedRegions(roots) \cup {r} ELSE ListedRegions(roots)
  <2>1. /\ Append(roots, r) \in Seq(Ids) /\ HasNoRepetition(Append(roots, r))
        /\ ListedRegions(Append(roots, r)) = ListedRegions(roots) \cup {r}
    <3>1. roots \in Seq(Ids) /\ HasNoRepetition(roots) /\ r \notin ListedRegions(roots)
      BY <1>1, <1>3, <1>4
    <3> QED
      BY ONLY r \in Ids, <3>1, Linked
  <2>2. CASE l = 2
    BY <2>1, <2>2
  <2>3. CASE l # 2
    BY <1>1, <1>3, <2>3
  <2> QED
    BY <2>2, <2>3
<1>8. Ids' = Ids
  BY DEF Ids
<1>9. ListedRegions(leaves') = {q \in Ids : level'[q] = 0}
  BY <1>2, <1>3, <1>5
<1>10. ListedRegions(containers') = {q \in Ids : level'[q] = 1}
  BY <1>2, <1>3, <1>6
<1>11. ListedRegions(roots') = {q \in Ids : level'[q] = 2}
  BY <1>2, <1>3, <1>7
<1>12. ListedOnce'
  BY <1>5, <1>6, <1>7, <1>8, <1>9, <1>10, <1>11 DEF ListedOnce, ListedRegions, HasNoRepetition
<1> QED
  BY <1>2, <1>5, <1>6, <1>7, <1>12

\* Or when nothing is linked.
LEMMA NothingLinked ==
    ASSUME TypeOK, ListedOnce, UNCHANGED <<regions, level, leaves, containers, roots>>
    PROVE  ListedOnce'
BY DEF ListedOnce, ListedRegions, HasNoRepetition, Ids

LEMMA FindBlackLeafStep ==
    ASSUME SearchInv, FindBlackLeaf
    PROVE  SearchInv'
<1>1. /\ phase = "leaves" /\ EndPass(Len(regions), "containers")
      /\ UNCHANGED <<regions, containers, roots, place, fiducials>>
  BY DEF FindBlackLeaf
<1>2. /\ next \in Ids /\ level[next] = UnknownLevel /\ regions \in Pictures /\ place = 1
      /\ Len(regions) \in Nat \ {0} /\ next <= Len(regions) /\ fiducials = <<>>
      /\ level \in [Ids -> {LeafLevel, LeafContainerLevel, RootLevel, UnknownLevel, DiscardedLevel}]
  <2>1. /\ regions \in Pictures /\ next \in Nat \ {0} /\ next <= Len(regions) /\ place = 1
        /\ fiducials = <<>>
        /\ level \in [Ids -> {LeafLevel, LeafContainerLevel, RootLevel, UnknownLevel, DiscardedLevel}]
    BY <1>1 DEF SearchInv, TypeOK, LevelInv, PassInv, FiducialsInv
  <2>2. Len(regions) \in Nat \ {0} /\ next \in Ids
    BY <2>1, AdjacentAreRegions DEF Ids
  <2>3. level[next] = UnknownLevel
    BY <1>1, <2>1, <2>2 DEF SearchInv, LevelInv
  <2> QED
    BY <2>1, <2>2, <2>3
<1>3. /\ ListedOnce' /\ leaves' \in Seq(Ids) /\ containers' \in Seq(Ids) /\ roots' \in Seq(Ids)
      /\ level' \in [Ids -> {LeafLevel, LeafContainerLevel, RootLevel, UnknownLevel, DiscardedLevel}]
      /\ \A r \in Ids \ {next} : level'[r] = level[r]
      /\ level'[next] = UnknownLevel \/ (level'[next] = LeafLevel /\ AdjacentCount(next) = 1)
  <2>1. CASE regions[next].colour = "black" /\ AdjacentCount(next) = 1
    <3>1. level' = [level EXCEPT ![next] = LeafLevel] /\ leaves' = Append(leaves, next)
      BY <2>1 DEF FindBlackLeaf
    <3>2. LeafLevel # LeafContainerLevel /\ LeafLevel # RootLevel
      BY DEF LeafLevel, LeafContainerLevel, RootLevel
    <3>3. /\ ListedOnce' /\ leaves' \in Seq(Ids) /\ containers' \in Seq(Ids) /\ roots' \in Seq(Ids)
          /\ level' \in [Ids -> {LeafLevel, LeafContainerLevel, RootLevel, UnknownLevel, DiscardedLevel}]
          /\ level'[next] = LeafLevel /\ \A q \in Ids \ {next} : level'[q] = level[q]
      BY <1>1, <1>2, <3>1, <3>2, LinkedByLevel DEF SearchInv
    <3> QED
      BY <2>1, <3>3
  <2>2. CASE ~(regions[next].colour = "black" /\ AdjacentCount(next) = 1)
    <3>1. level' = [level EXCEPT ![next] = UnknownLevel] /\ leaves' = leaves
      BY <2>2 DEF FindBlackLeaf
    <3>2. level' = level
      BY <1>2, <3>1
    <3> QED
      BY <1>1, <1>2, <3>1, <3>2, NothingLinked DEF SearchInv, TypeOK
  <2> QED
    BY <2>1, <2>2
<1>4. /\ next = Len(regions) => phase' = "containers" /\ next' = 1
      /\ next # Len(regions) => phase' = "leaves" /\ next' = next + 1
  BY <1>1 DEF EndPass
<1>5. Ids' = Ids /\ regions' = regions
  BY <1>1 DEF Ids
<1>6. TypeOK'
  BY <1>1, <1>2, <1>3, <1>4, <1>5 DEF SearchInv, TypeOK
<1>7. LevelInv'
  <2>1. \A r \in Ids : /\ level'[r] = LeafLevel => AdjacentCount(r) = 1
                       /\ level'[r] = LeafContainerLevel => AdjacentCount(r) >= 2
    BY <1>3, SMTT(60) DEF SearchInv, LevelInv, LeafLevel, LeafContainerLevel, UnknownLevel
  <2>2. phase' = "leaves" => \A r \in Ids : r >= next' => level'[r] = UnknownLevel
    <3> SUFFICES ASSUME phase' = "leaves", NEW r \in Ids, r >= next' PROVE level'[r] = UnknownLevel
      OBVIOUS
    <3>1. r # next /\ r >= next
      BY <1>2, <1>4 DEF Ids
    <3> QED
      BY <1>1, <1>3, <3>1 DEF SearchInv, LevelInv
  <2>3. regions' = regions
    BY <1>5
  <2>4. regions' \in Pictures
    BY <1>2, <1>5
  <2> QED
    BY <2>1, <2>2, <2>3, <2>4 DEF LevelInv, Ids, AdjacentCount, Adjacent
<1>8. PassInv'
  <2>1. leaves' # <<>> => 1 <= Len(leaves')
    BY <1>3
  <2>2. phase' = "leaves" => next' <= Len(regions)
    BY <1>2, <1>4
  <2>3. phase' = "containers" => next' = 1
    BY <1>4
  <2> QED
    BY <1>1, <1>2, <1>4, <2>1, <2>2, <2>3 DEF PassInv
<1>9. FiducialsInv'
  BY <1>1, <1>4 DEF SearchInv, FiducialsInv
<1> QED
  BY <1>3, <1>6, <1>7, <1>8, <1>9 DEF SearchInv

-----------------------------------------------------------------------------
\* The levels after the first pass.
LEMMA LevelsLater ==
    ASSUME regions' = regions, regions \in Pictures, phase' # "leaves",
           \A r \in Ids : /\ level'[r] = LeafLevel => AdjacentCount(r) = 1
                          /\ level'[r] = LeafContainerLevel => AdjacentCount(r) >= 2
    PROVE  LevelInv'
BY DEF LevelInv, Ids, AdjacentCount, Adjacent

\* An element of a list has the level of the list.
LEMMA ElementLevel ==
    ASSUME ListedOnce, TypeOK
    PROVE  /\ \A k \in 1 .. Len(leaves) : leaves[k] \in Ids /\ level[leaves[k]] = LeafLevel
           /\ \A k \in 1 .. Len(containers) :
                 containers[k] \in Ids /\ level[containers[k]] = LeafContainerLevel
BY DEF ListedOnce, ListedRegions

LEMMA FindContainerStep ==
    ASSUME SearchInv, FindContainer
    PROVE  SearchInv'
<1> DEFINE candidate == Adjacent(leaves[next])[1]
<1>1. /\ phase = "containers" /\ leaves # <<>> /\ EndPass(Len(leaves), "roots")
      /\ UNCHANGED <<regions, leaves, roots, place, fiducials>>
  BY DEF FindContainer
<1>2. /\ regions \in Pictures /\ place = 1 /\ fiducials = <<>>
      /\ next \in Nat \ {0} /\ next <= Len(leaves)
      /\ TypeOK /\ ListedOnce
      /\ \A r \in Ids : /\ level[r] = LeafLevel => AdjacentCount(r) = 1
                        /\ level[r] = LeafContainerLevel => AdjacentCount(r) >= 2
  BY <1>1 DEF SearchInv, TypeOK, LevelInv, PassInv, FiducialsInv
<1>3. Len(leaves) \in Nat \ {0} /\ next \in 1 .. Len(leaves)
  <2>1. leaves \in Seq(Ids)
    BY <1>2 DEF TypeOK
  <2> QED
    BY <1>2, <2>1
<1>4. candidate \in Ids
  <2>1. leaves[next] \in Ids /\ AdjacentCount(leaves[next]) = 1
    BY <1>2, <1>3, ElementLevel
  <2> QED
    BY <1>2, <2>1, AdjacentAreRegions
<1>5. /\ next = Len(leaves) => phase' = "roots" /\ next' = 1
      /\ next # Len(leaves) => phase' = "containers" /\ next' = next + 1
  BY <1>1 DEF EndPass
<1>6. /\ ListedOnce' /\ containers' \in Seq(Ids)
      /\ level' \in [Ids -> {LeafLevel, LeafContainerLevel, RootLevel, UnknownLevel, DiscardedLevel}]
      /\ \A r \in Ids \ {candidate} : level'[r] = level[r]
      /\ \/ level'[candidate] = level[candidate]
         \/ level'[candidate] = DiscardedLevel
         \/ level'[candidate] = LeafContainerLevel /\ AdjacentCount(candidate) >= 2
  <2>1. CASE UNCHANGED <<level, containers>>
    BY <1>1, <1>2, <2>1, NothingLinked DEF TypeOK
  <2>2. CASE /\ IsConsidered(candidate) /\ FitsSymbol(candidate)
             /\ level' = [level EXCEPT ![candidate] = LeafContainerLevel]
             /\ containers' = Append(containers, candidate)
    <3>1. level[candidate] = UnknownLevel /\ AdjacentCount(candidate) >= 2
      BY <2>2 DEF IsConsidered, FitsSymbol
    <3>2. LeafContainerLevel # LeafLevel /\ LeafContainerLevel # RootLevel
      BY DEF LeafLevel, LeafContainerLevel, RootLevel
    <3> HIDE DEF candidate
    <3>3. /\ ListedOnce' /\ containers' \in Seq(Ids)
          /\ level' \in [Ids -> {LeafLevel, LeafContainerLevel, RootLevel, UnknownLevel, DiscardedLevel}]
          /\ level'[candidate] = LeafContainerLevel
          /\ \A q \in Ids \ {candidate} : level'[q] = level[q]
      BY <1>1, <1>2, <1>4, <2>2, <3>1, <3>2, LinkedByLevel
    <3> QED
      BY <3>1, <3>3
  <2>3. CASE /\ IsConsidered(candidate) /\ UNCHANGED containers
             /\ level' = [level EXCEPT ![candidate] = DiscardedLevel]
    <3>1. level[candidate] = UnknownLevel
      BY <2>3 DEF IsConsidered
    <3>2. /\ DiscardedLevel # LeafLevel /\ DiscardedLevel # LeafContainerLevel
          /\ DiscardedLevel # RootLevel
      BY DEF LeafLevel, LeafContainerLevel, RootLevel, DiscardedLevel
    <3> HIDE DEF candidate
    <3>3. /\ ListedOnce' /\ containers' \in Seq(Ids)
          /\ level' \in [Ids -> {LeafLevel, LeafContainerLevel, RootLevel, UnknownLevel, DiscardedLevel}]
          /\ level'[candidate] = DiscardedLevel
          /\ \A q \in Ids \ {candidate} : level'[q] = level[q]
      BY <1>1, <1>2, <1>4, <2>3, <3>1, <3>2, LinkedByLevel
    <3> QED
      BY <3>3
  <2> QED
    BY <2>1, <2>2, <2>3 DEF FindContainer
<1> HIDE DEF candidate
<1>7. Ids' = Ids /\ regions' = regions
  BY <1>1 DEF Ids
<1>8. TypeOK'
  BY <1>1, <1>2, <1>5, <1>6, <1>7 DEF TypeOK
<1>9. \A r \in Ids : /\ level'[r] = LeafLevel => AdjacentCount(r) = 1
                     /\ level'[r] = LeafContainerLevel => AdjacentCount(r) >= 2
  BY <1>2, <1>6 DEF LeafLevel, LeafContainerLevel, DiscardedLevel
<1>10. LevelInv'
  BY <1>2, <1>5, <1>7, <1>9, LevelsLater
<1>11. PassInv'
  <2>1. phase' = "containers" => leaves' # <<>> /\ next' <= Len(leaves')
    BY <1>1, <1>3, <1>5
  <2>2. ASSUME phase' = "roots", containers' # <<>>
        PROVE  next' <= Len(containers') /\ place' <= Len(regions'[containers'[next']].adjacent)
    <3>1. next' = 1 /\ place' = 1 /\ 1 <= Len(containers') /\ Len(containers') \in Nat
      BY <1>1, <1>2, <1>5, <1>6, <2>2
    <3>2. containers'[1] \in Ids /\ level'[containers'[1]] = LeafContainerLevel
      BY <1>6, <1>7, <3>1 DEF ListedOnce, ListedRegions
    <3>3. Len(regions'[containers'[1]].adjacent) >= 2
      BY <1>7, <1>9, <3>2 DEF AdjacentCount, Adjacent
    <3> QED
      BY <3>1, <3>3
  <2>3. phase' = "roots" => next' = 1
    BY <1>5
  <2> QED
    BY <1>1, <1>2, <1>5, <2>1, <2>2, <2>3 DEF PassInv, AdjacentCount, Adjacent
<1>12. FiducialsInv'
  BY <1>1, <1>5 DEF SearchInv, FiducialsInv
<1> QED
  BY <1>6, <1>8, <1>10, <1>11, <1>12 DEF SearchInv

LEMMA FindRootStep ==
    ASSUME SearchInv, FindRoot
    PROVE  SearchInv'
<1> DEFINE candidate == Adjacent(containers[next])[place]
<1>1. /\ phase = "roots" /\ containers # <<>>
      /\ UNCHANGED <<regions, leaves, containers, fiducials>>
  BY DEF FindRoot
<1>2. /\ regions \in Pictures /\ fiducials = <<>>
      /\ next \in Nat \ {0} /\ next <= Len(containers)
      /\ place \in Nat \ {0} /\ place <= AdjacentCount(containers[next])
      /\ TypeOK /\ ListedOnce
  BY <1>1 DEF SearchInv, TypeOK, LevelInv, PassInv, FiducialsInv
<1>3. Len(containers) \in Nat \ {0} /\ next \in 1 .. Len(containers)
  <2>1. containers \in Seq(Ids)
    BY <1>2 DEF TypeOK
  <2> QED
    BY <1>2, <2>1
<1>4. /\ candidate \in Ids /\ containers[next] \in Ids
      /\ AdjacentCount(containers[next]) \in Nat
  <2>1. containers[next] \in Ids
    BY <1>2, <1>3, ElementLevel
  <2>2. AdjacentCount(containers[next]) \in Nat
    BY <1>2, <2>1, AdjacentAreRegions
  <2>3. place \in 1 .. AdjacentCount(containers[next])
    BY <1>2, <2>2
  <2> QED
    BY <1>2, <2>1, <2>2, <2>3, AdjacentAreRegions
<1>5. /\ ListedOnce' /\ roots' \in Seq(Ids)
      /\ level' \in [Ids -> {LeafLevel, LeafContainerLevel, RootLevel, UnknownLevel, DiscardedLevel}]
      /\ \A r \in Ids \ {candidate} : level'[r] = level[r]
      /\ level'[candidate] = level[candidate] \/ level'[candidate] = RootLevel
  <2>1. CASE UNCHANGED <<level, roots>>
    BY <1>1, <1>2, <2>1, NothingLinked DEF TypeOK
  <2>2. CASE /\ IsRoot(candidate) /\ roots' = Append(roots, candidate)
             /\ level' = [level EXCEPT ![candidate] = RootLevel]
    <3>1. level[candidate] = UnknownLevel
      BY <2>2 DEF IsRoot
    <3>2. RootLevel # LeafLevel /\ RootLevel # LeafContainerLevel
      BY DEF LeafLevel, LeafContainerLevel, RootLevel
    <3> HIDE DEF candidate
    <3>3. /\ ListedOnce' /\ roots' \in Seq(Ids)
          /\ level' \in [Ids -> {LeafLevel, LeafContainerLevel, RootLevel, UnknownLevel, DiscardedLevel}]
          /\ level'[candidate] = RootLevel
          /\ \A q \in Ids \ {candidate} : level'[q] = level[q]
      BY <1>1, <1>2, <1>4, <2>2, <3>1, <3>2, LinkedByLevel
    <3> QED
      BY <3>3
  <2> QED
    BY <2>1, <2>2 DEF FindRoot
<1> HIDE DEF candidate
<1>6. \/ /\ place < AdjacentCount(containers[next])
         /\ phase' = "roots" /\ next' = next /\ place' = place + 1
      \/ /\ next # Len(containers)
         /\ phase' = "roots" /\ next' = next + 1 /\ place' = 1
      \/ phase' = "compute" /\ next' = 1 /\ place' = 1
  BY <1>1 DEF FindRoot, EndPass
<1>7. Ids' = Ids /\ regions' = regions
  BY <1>1 DEF Ids
<1>8. TypeOK'
  <2>1. next' \in Nat \ {0} /\ place' \in Nat \ {0}
    BY <1>2, <1>6
  <2>2. phase' \in {"leaves", "containers", "roots", "compute", "done"}
    BY <1>6
  <2> QED
    BY <1>1, <1>2, <1>5, <1>7, <2>1, <2>2 DEF TypeOK
<1>9. \A r \in Ids : /\ level'[r] = LeafLevel => AdjacentCount(r) = 1
                     /\ level'[r] = LeafContainerLevel => AdjacentCount(r) >= 2
  BY <1>5 DEF SearchInv, LevelInv, LeafLevel, LeafContainerLevel, RootLevel
<1>10. LevelInv'
  <2>1. phase' # "leaves"
    BY <1>6
  <2> QED
    BY <1>2, <1>7, <1>9, <2>1, LevelsLater
<1>11. PassInv'
  <2>1. ASSUME phase' = "roots"
        PROVE  /\ containers' # <<>> /\ next' <= Len(containers')
               /\ place' <= Len(regions'[containers'[next']].adjacent)
    <3>1. containers' # <<>> /\ next' \in 1 .. Len(containers)
      BY <1>1, <1>3, <1>6, <2>1
    <3>2. place' <= AdjacentCount(containers[next'])
      <4>1. CASE next' = next /\ place' = place + 1 /\ place < AdjacentCount(containers[next])
        BY <1>2, <1>4, <4>1
      <4>2. CASE next' = next + 1 /\ place' = 1
        <5>1. containers[next'] \in Ids /\ level[containers[next']] = LeafContainerLevel
          BY <1>2, <3>1, ElementLevel
        <5>2. AdjacentCount(containers[next']) >= 2
          BY <5>1 DEF SearchInv, LevelInv
        <5>3. AdjacentCount(containers[next']) \in Nat
          BY <1>2, <5>1, AdjacentAreRegions
        <5> QED
          BY <4>2, <5>2, <5>3
      <4> QED
        BY <1>6, <2>1, <4>1, <4>2
    <3> QED
      BY <1>1, <3>1, <3>2 DEF AdjacentCount, Adjacent
  <2>2. ASSUME phase' = "compute", roots' # <<>> PROVE next' <= Len(roots')
    <3>1. next' = 1
      BY <1>6, <2>2
    <3> QED
      BY <1>5, <2>2, <3>1
  <2>3. phase' = "compute" => next' = 1
    BY <1>6
  <2>4. phase' # "roots" => place' = 1
    BY <1>6
  <2>5. phase' \in {"roots", "compute"}
    BY <1>6
  <2> QED
    BY <2>1, <2>2, <2>3, <2>4, <2>5 DEF PassInv, AdjacentCount, Adjacent
<1>12. FiducialsInv'
  <2>1. Len(fiducials) = 0 /\ Len(roots') \in Nat /\ \A k \in 1 .. 0 : FALSE
    BY <1>2, <1>5
  <2>2. phase' = "compute" => next' = 1
    BY <1>6
  <2>3. phase' \in {"roots", "compute"}
    BY <1>6
  <2> QED
    BY <1>1, <1>2, <2>1, <2>2, <2>3, CountsAssumption DEF FiducialsInv
<1> QED
  BY <1>5, <1>8, <1>10, <1>11, <1>12 DEF SearchInv

-----------------------------------------------------------------------------
LEMMA SkipEmptyStep ==
    ASSUME SearchInv, SkipEmpty
    PROVE  SearchInv'
<1>1. /\ UNCHANGED <<regions, level, leaves, containers, roots, next, place, fiducials>>
      /\ \/ phase = "containers" /\ leaves = <<>> /\ phase' = "roots"
         \/ phase = "roots" /\ containers = <<>> /\ phase' = "compute"
         \/ phase = "compute" /\ roots = <<>> /\ phase' = "done"
  BY DEF SkipEmpty
<1>2. TypeOK' /\ ListedOnce'
  <2>1. Ids' = Ids
    BY <1>1 DEF Ids
  <2> QED
    BY <1>1, <2>1, NothingLinked DEF SearchInv, TypeOK
<1>3. LevelInv'
  BY <1>1, LevelsLater DEF SearchInv, LevelInv
<1>4. next = 1 /\ place = 1
  BY <1>1 DEF SearchInv, PassInv
<1>5. PassInv'
  <2>1. ASSUME phase = "containers", containers # <<>>
        PROVE  1 <= Len(containers) /\ place <= Len(regions[containers[1]].adjacent)
    <3>1. containers \in Seq(Ids) /\ 1 \in 1 .. Len(containers)
      <4>1. containers \in Seq(Ids)
        BY DEF SearchInv, TypeOK
      <4> QED
        BY <2>1, <4>1
    <3>2. containers[1] \in Ids /\ level[containers[1]] = LeafContainerLevel
      BY <3>1, ElementLevel DEF SearchInv
    <3>3. AdjacentCount(containers[1]) >= 2 /\ AdjacentCount(containers[1]) \in Nat
      BY <3>2, AdjacentAreRegions DEF SearchInv, LevelInv
    <3>4. place = 1
      BY <1>4, <2>1
    <3> QED
      BY <3>1, <3>3, <3>4 DEF AdjacentCount, Adjacent
  <2>2. ASSUME phase = "roots", roots # <<>> PROVE 1 <= Len(roots)
    <3>1. roots \in Seq(Ids)
      BY DEF SearchInv, TypeOK
    <3> QED
      BY <2>2, <3>1
  <2> QED
    BY <1>1, <1>4, <2>1, <2>2 DEF SearchInv, PassInv, AdjacentCount, Adjacent
<1>6. FiducialsInv'
  <2>1. phase # "compute" => fiducials = <<>> /\ Len(fiducials) = 0
    BY <1>1 DEF SearchInv, FiducialsInv
  <2>2. roots = <<>> => Len(roots) = 0
    OBVIOUS
  <2>3. fiducials \in Seq(Ids) /\ Len(fiducials) \in Nat
    BY DEF SearchInv, TypeOK
  <2> QED
    BY <1>1, <1>4, <2>1, <2>2, <2>3, CountsAssumption DEF SearchInv, FiducialsInv
<1> QED
  BY <1>2, <1>3, <1>5, <1>6 DEF SearchInv

LEMMA ComputeFiducialStep ==
    ASSUME SearchInv, ComputeFiducial
    PROVE  SearchInv'
<1>1. /\ phase = "compute" /\ roots # <<>> /\ fiducials' = Append(fiducials, roots[next])
      /\ phase' = IF IsFull(Len(fiducials')) \/ next = Len(roots) THEN "done" ELSE phase
      /\ next' = next + 1
      /\ UNCHANGED <<regions, level, leaves, containers, roots, place>>
  BY DEF ComputeFiducial
<1>2. /\ next \in Nat \ {0} /\ next <= Len(roots) /\ roots \in Seq(Ids) /\ fiducials \in Seq(Ids)
      /\ Len(fiducials) < MaxFiducials /\ Len(fiducials) = next - 1
      /\ \A k \in 1 .. Len(fiducials) : fiducials[k] = roots[k]
      /\ place = 1
  BY <1>1 DEF SearchInv, TypeOK, PassInv, FiducialsInv
<1>3. next \in 1 .. Len(roots) /\ roots[next] \in Ids
  <2>1. next \in 1 .. Len(roots)
    BY <1>2
  <2> QED
    BY <1>2, <2>1
<1>4. /\ fiducials' \in Seq(Ids) /\ Len(fiducials') = next
      /\ \A k \in 1 .. next : fiducials'[k] = roots[k]
  BY <1>1, <1>2, <1>3
<1>5. phase' \in {"compute", "done"}
  BY <1>1
<1>6. TypeOK' /\ ListedOnce'
  <2>1. Ids' = Ids
    BY <1>1 DEF Ids
  <2> QED
    BY <1>1, <1>2, <1>4, <1>5, <2>1, NothingLinked DEF SearchInv, TypeOK
<1>7. LevelInv'
  BY <1>1, <1>5, LevelsLater DEF SearchInv, LevelInv
<1>8. PassInv' /\ FiducialsInv'
  BY <1>1, <1>2, <1>3, <1>4, <1>5, CountsAssumption DEF PassInv, FiducialsInv, IsFull
<1> QED
  BY <1>6, <1>7, <1>8 DEF SearchInv

LEMMA NextSearchInv == SearchInv /\ [Next]_vars => SearchInv'
<1> SUFFICES ASSUME SearchInv, [Next]_vars PROVE SearchInv'
  OBVIOUS
<1>1. CASE UNCHANGED vars
  BY <1>1, SMTT(60) DEF vars, SearchInv, TypeOK, Ids, ListedOnce, ListedRegions, HasNoRepetition,
              LevelInv, AdjacentCount, Adjacent, PassInv, FiducialsInv
<1>2. CASE Next
  BY <1>2, FindBlackLeafStep, FindContainerStep, FindRootStep, ComputeFiducialStep, SkipEmptyStep
     DEF Next
<1> QED
  BY <1>1, <1>2

-----------------------------------------------------------------------------
(***************************************************************************)
(* The roots are exact.  After the first pass the leaf level is that of    *)
(* the black leaves.  A symbol is found from any of its leaves, whose only *)
(* neighbour it is, and a root from any of its symbols, because neighbours *)
(* list each other.  A region that was discarded has a black leaf, which   *)
(* no root has: it would be white like its symbols.                        *)
(***************************************************************************)
LeafPlaces(r) == {k \in 1 .. AdjacentCount(r) : IsBlackLeaf(Adjacent(r)[k])}
SymbolPlaces(r) == {k \in 1 .. AdjacentCount(r) : IsSymbol(Adjacent(r)[k])}

LeafInv ==
    IF phase = "leaves"
    THEN \A r \in Ids : /\ level[r] \in {LeafLevel, UnknownLevel}
                        /\ r < next => (level[r] = LeafLevel <=> IsBlackLeaf(r))
    ELSE \A r \in Ids : level[r] = LeafLevel <=> IsBlackLeaf(r)

SymbolInv ==
    /\ \A r \in Ids : /\ level[r] = LeafContainerLevel => IsSymbol(r)
                      /\ level[r] = DiscardedLevel => ~IsSymbol(r) /\ LeafPlaces(r) # {}
    /\ phase = "containers" =>
         \A k \in 1 .. Len(leaves) : k < next => level[Adjacent(leaves[k])[1]] # UnknownLevel
    /\ phase \notin {"leaves", "containers"} =>
         \A r \in Ids : IsSymbol(r) => level[r] = LeafContainerLevel

\* What the pass for roots has looked at.
Met(r) ==
    \E i \in 1 .. Len(containers) : \E j \in 1 .. AdjacentCount(containers[i]) :
        r = Adjacent(containers[i])[j] /\ (i < next \/ (i = next /\ j < place))

RootInv ==
    /\ phase \in {"leaves", "containers"} => \A r \in Ids : level[r] # RootLevel
    /\ \A r \in Ids : level[r] = RootLevel => IsFiducialRoot(r)
    /\ phase = "roots" => \A r \in Ids : Met(r) /\ IsFiducialRoot(r) => level[r] = RootLevel
    /\ phase \in {"compute", "done"} => \A r \in Ids : IsFiducialRoot(r) => level[r] = RootLevel

ExactInv == LeafInv /\ SymbolInv /\ RootInv

LEMMA CountsAddUp ==
    ASSUME NEW n \in Nat, NEW A, NEW B, A \cup B = 1 .. n, A \cap B = {}
    PROVE  /\ Cardinality(A) \in Nat /\ Cardinality(B) \in Nat
           /\ Cardinality(A) + Cardinality(B) = n
           /\ Cardinality(A) = 0 <=> A = {}
<1>1. IsFiniteSet(1 .. n) /\ Cardinality(1 .. n) = n
  BY FS_Interval
<1>2. A \in SUBSET (1 .. n) /\ B \in SUBSET (1 .. n)
  OBVIOUS
<1>3. IsFiniteSet(A) /\ IsFiniteSet(B)
  BY <1>1, <1>2, FS_Subset
<1>4. Cardinality(A \cup B) = Cardinality(A) + Cardinality(B) - Cardinality(A \cap B)
  BY <1>3, FS_Union
<1>5. Cardinality(A) \in Nat /\ Cardinality(B) \in Nat /\ Cardinality(A \cap B) = 0
  BY <1>3, FS_CardinalityType, FS_EmptySet
<1>6. Cardinality(A) = 0 <=> A = {}
  BY <1>3, FS_EmptySet
<1>7. Cardinality(A \cup B) = n
  BY <1>1
<1>8. Cardinality(A) + Cardinality(B) = n
  BY <1>4, <1>5, <1>7
<1> QED
  BY <1>5, <1>6, <1>8

\* The neighbours of a region, counted by what they are.
LEMMA Counts ==
    ASSUME regions \in Pictures, NEW r \in Ids
    PROVE  /\ CountAdjacent(r, IsBlackLeaf) \in Nat
           /\ CountAdjacent(r, IsBlackLeaf) + CountAdjacent(r, LAMBDA a : ~IsBlackLeaf(a)) = AdjacentCount(r)
           /\ CountAdjacent(r, IsBlackLeaf) = 0 <=> LeafPlaces(r) = {}
           /\ CountAdjacent(r, IsSymbol) \in Nat
           /\ CountAdjacent(r, IsSymbol) + CountAdjacent(r, LAMBDA a : ~IsSymbol(a)) = AdjacentCount(r)
           /\ CountAdjacent(r, IsSymbol) = 0 <=> SymbolPlaces(r) = {}
           /\ CountAdjacent(r, LAMBDA a : ~IsBlackLeaf(a)) \in Nat
           /\ CountAdjacent(r, LAMBDA a : ~IsSymbol(a)) \in Nat
<1> DEFINE n == AdjacentCount(r)
           L == LeafPlaces(r)
           M == {k \in 1 .. n : ~IsBlackLeaf(Adjacent(r)[k])}
           S == SymbolPlaces(r)
           T == {k \in 1 .. n : ~IsSymbol(Adjacent(r)[k])}
<1>1. n \in Nat
  BY AdjacentAreRegions
<1>2. L \cup M = 1 .. n /\ L \cap M = {}
  BY DEF LeafPlaces
<1>3. S \cup T = 1 .. n /\ S \cap T = {}
  BY DEF SymbolPlaces
<1>4. /\ CountAdjacent(r, IsBlackLeaf) = Cardinality(L)
      /\ CountAdjacent(r, LAMBDA a : ~IsBlackLeaf(a)) = Cardinality(M)
      /\ CountAdjacent(r, IsSymbol) = Cardinality(S)
      /\ CountAdjacent(r, LAMBDA a : ~IsSymbol(a)) = Cardinality(T)
  BY DEF CountAdjacent, LeafPlaces, SymbolPlaces
<1> HIDE DEF n, L, M, S, T
<1>5. /\ Cardinality(L) \in Nat /\ Cardinality(M) \in Nat /\ Cardinality(L) + Cardinality(M) = n
      /\ Cardinality(L) = 0 <=> L = {}
  BY <1>1, <1>2, CountsAddUp
<1>6. /\ Cardinality(S) \in Nat /\ Cardinality(T) \in Nat /\ Cardinality(S) + Cardinality(T) = n
      /\ Cardinality(S) = 0 <=> S = {}
  BY <1>1, <1>3, CountsAddUp, ZenonT(60)
<1> QED
  BY <1>4, <1>5, <1>6 DEF n, L, S

\* Neighbours list each other and are of the two colours.
LEMMA Mutual ==
    ASSUME regions \in Pictures, NEW r \in Ids, NEW k \in 1 .. AdjacentCount(r)
    PROVE  /\ Adjacent(r)[k] \in Ids
           /\ \E l \in 1 .. AdjacentCount(Adjacent(r)[k]) : Adjacent(Adjacent(r)[k])[l] = r
           /\ regions[r].colour \in {"black", "white"}
           /\ regions[Adjacent(r)[k]].colour \in {"black", "white"}
           /\ regions[Adjacent(r)[k]].colour # regions[r].colour
<1>1. Adjacent(r)[k] \in Ids
  BY AdjacentAreRegions
<1> QED
  BY <1>1, SegmentedAssumption, SMTT(60) DEF Ids, Adjacent, AdjacentCount

LEMMA SamePicture ==
    ASSUME regions' = regions
    PROVE  /\ Ids' = Ids
           /\ \A r : AdjacentCount(r)' = AdjacentCount(r) /\ Adjacent(r)' = Adjacent(r)
           /\ \A r : IsBlackLeaf(r)' <=> IsBlackLeaf(r)
           /\ \A r : IsSymbol(r)' <=> IsSymbol(r)
           /\ \A r : IsFiducialRoot(r)' <=> IsFiducialRoot(r)
           /\ \A r : LeafPlaces(r)' = LeafPlaces(r)
<1>1. Ids' = Ids /\ \A r : AdjacentCount(r)' = AdjacentCount(r) /\ Adjacent(r)' = Adjacent(r)
  BY DEF Ids, AdjacentCount, Adjacent
<1>2. \A r : IsBlackLeaf(r)' <=> IsBlackLeaf(r)
  BY <1>1 DEF IsBlackLeaf
<1>3. \A r : IsSymbol(r)' <=> IsSymbol(r)
  BY DEF IsSymbol, CountAdjacent, IsBlackLeaf, AdjacentCount, Adjacent
<1>4. \A r : IsFiducialRoot(r)' <=> IsFiducialRoot(r)
  BY DEF IsFiducialRoot, IsSymbol, CountAdjacent, IsBlackLeaf, AdjacentCount, Adjacent
<1>5. \A r : LeafPlaces(r)' = LeafPlaces(r)
  BY DEF LeafPlaces, IsBlackLeaf, AdjacentCount, Adjacent
<1> QED
  BY <1>1, <1>2, <1>3, <1>4, <1>5

-----------------------------------------------------------------------------
\* The only neighbour of a leaf is white, and a symbol is the only neighbour of its leaves.
LEMMA LeafBelow ==
    ASSUME regions \in Pictures, NEW r \in Ids, NEW k \in LeafPlaces(r)
    PROVE  /\ Adjacent(r)[k] \in Ids /\ IsBlackLeaf(Adjacent(r)[k])
           /\ Adjacent(Adjacent(r)[k])[1] = r
           /\ regions[r].colour = "white"
<1>1. k \in 1 .. AdjacentCount(r) /\ IsBlackLeaf(Adjacent(r)[k])
  BY DEF LeafPlaces
<1>2. /\ Adjacent(r)[k] \in Ids
      /\ \E l \in 1 .. AdjacentCount(Adjacent(r)[k]) : Adjacent(Adjacent(r)[k])[l] = r
      /\ regions[r].colour \in {"black", "white"}
      /\ regions[Adjacent(r)[k]].colour # regions[r].colour
  BY <1>1, Mutual
<1>3. AdjacentCount(Adjacent(r)[k]) = 1 /\ regions[Adjacent(r)[k]].colour = "black"
  BY <1>1 DEF IsBlackLeaf
<1> QED
  BY <1>1, <1>2, <1>3

\* A region with a leaf beside it, which every symbol is, is white; a root is black and so has
\* none.
LEMMA SymbolFacts ==
    ASSUME regions \in Pictures, NEW r \in Ids
    PROVE  /\ LeafPlaces(r) # {} => regions[r].colour = "white"
           /\ IsSymbol(r) => LeafPlaces(r) # {} /\ AdjacentCount(r) >= 2 /\ ~IsBlackLeaf(r)
           /\ IsFiducialRoot(r) => SymbolPlaces(r) # {} /\ LeafPlaces(r) = {}
<1>1. LeafPlaces(r) # {} => regions[r].colour = "white"
  BY LeafBelow
<1>2. ASSUME NEW q \in Ids, IsSymbol(q)
      PROVE  LeafPlaces(q) # {} /\ AdjacentCount(q) >= 2 /\ ~IsBlackLeaf(q)
  <2>1. CountAdjacent(q, IsBlackLeaf) \in 1 .. SymbolCount /\ CountAdjacent(q, LAMBDA a : ~IsBlackLeaf(a)) = 1
    BY <1>2 DEF IsSymbol
  <2>2. /\ CountAdjacent(q, IsBlackLeaf) + CountAdjacent(q, LAMBDA a : ~IsBlackLeaf(a)) = AdjacentCount(q)
        /\ CountAdjacent(q, IsBlackLeaf) \in Nat
        /\ CountAdjacent(q, IsBlackLeaf) = 0 <=> LeafPlaces(q) = {}
    BY Counts
  <2>3. LeafPlaces(q) # {} /\ AdjacentCount(q) >= 2
    BY <2>1, <2>2, CountsAssumption
  <2> QED
    BY <2>3 DEF IsBlackLeaf
<1>3. ASSUME IsFiducialRoot(r) PROVE SymbolPlaces(r) # {} /\ LeafPlaces(r) = {}
  <2>1. CountAdjacent(r, IsSymbol) = SymbolCount
    BY <1>3 DEF IsFiducialRoot
  <2>2. SymbolPlaces(r) # {}
    BY <2>1, Counts, CountsAssumption
  <2>3. PICK k \in SymbolPlaces(r) : TRUE
    BY <2>2
  <2>4. k \in 1 .. AdjacentCount(r) /\ IsSymbol(Adjacent(r)[k])
    BY <2>3 DEF SymbolPlaces
  <2>5. Adjacent(r)[k] \in Ids /\ regions[Adjacent(r)[k]].colour # regions[r].colour
    BY <2>4, Mutual
  <2>6. LeafPlaces(Adjacent(r)[k]) # {}
    BY <1>2, <2>4, <2>5
  <2>7. regions[Adjacent(r)[k]].colour = "white"
    BY <2>5, <2>6, LeafBelow
  <2> QED
    BY <1>1, <2>2, <2>5, <2>7
<1> QED
  BY <1>1, <1>2, <1>3

\* The tests of the passes are what they should be, once the levels they look at are right.
LEMMA TestOfSymbol ==
    ASSUME regions \in Pictures, NEW r \in Ids, \A q \in Ids : level[q] = LeafLevel <=> IsBlackLeaf(q)
    PROVE  HasOnlyOneNonLeaf(r) /\ FitsSymbol(r) <=> IsSymbol(r)
<1>1. \A k \in 1 .. AdjacentCount(r) : level[Adjacent(r)[k]] # LeafLevel <=> ~IsBlackLeaf(Adjacent(r)[k])
  BY AdjacentAreRegions
<1>2. {k \in 1 .. AdjacentCount(r) : level[Adjacent(r)[k]] # LeafLevel}
        = {k \in 1 .. AdjacentCount(r) : ~IsBlackLeaf(Adjacent(r)[k])}
  BY <1>1
<1>3. CountAdjacent(r, LAMBDA a : level[a] # LeafLevel) = CountAdjacent(r, LAMBDA a : ~IsBlackLeaf(a))
  BY <1>2 DEF CountAdjacent
<1>4. /\ CountAdjacent(r, IsBlackLeaf) + CountAdjacent(r, LAMBDA a : ~IsBlackLeaf(a)) = AdjacentCount(r)
      /\ CountAdjacent(r, IsBlackLeaf) \in Nat
      /\ CountAdjacent(r, LAMBDA a : ~IsBlackLeaf(a)) \in Nat
  BY Counts
<1>5. HasOnlyOneNonLeaf(r) <=> CountAdjacent(r, LAMBDA a : ~IsBlackLeaf(a)) = 1
  BY <1>3 DEF HasOnlyOneNonLeaf
<1>6. FitsSymbol(r) <=> AdjacentCount(r) >= 2 /\ AdjacentCount(r) <= SymbolCount + 1
  BY DEF FitsSymbol
<1>7. IsSymbol(r) <=> /\ CountAdjacent(r, IsBlackLeaf) \in 1 .. SymbolCount
                      /\ CountAdjacent(r, LAMBDA a : ~IsBlackLeaf(a)) = 1
  BY DEF IsSymbol
<1> QED
  BY <1>4, <1>5, <1>6, <1>7, CountsAssumption

LEMMA TestOfRoot ==
    ASSUME regions \in Pictures, NEW r \in Ids,
           \A q \in Ids : level[q] = LeafContainerLevel <=> IsSymbol(q)
    PROVE  IsRoot(r) <=> /\ level[r] = UnknownLevel
                         /\ CountAdjacent(r, IsSymbol) = SymbolCount
                         /\ CountAdjacent(r, LAMBDA a : ~IsSymbol(a)) <= 1
<1>1. \A k \in 1 .. AdjacentCount(r) : level[Adjacent(r)[k]] # LeafContainerLevel <=> ~IsSymbol(Adjacent(r)[k])
  BY AdjacentAreRegions
<1>2. {k \in 1 .. AdjacentCount(r) : level[Adjacent(r)[k]] # LeafContainerLevel}
        = {k \in 1 .. AdjacentCount(r) : ~IsSymbol(Adjacent(r)[k])}
  BY <1>1
<1>3. OthersThanContainers(r) = CountAdjacent(r, LAMBDA a : ~IsSymbol(a))
  BY <1>2 DEF CountAdjacent, OthersThanContainers
<1>4. /\ CountAdjacent(r, IsSymbol) + CountAdjacent(r, LAMBDA a : ~IsSymbol(a)) = AdjacentCount(r)
      /\ CountAdjacent(r, IsSymbol) \in Nat
      /\ CountAdjacent(r, LAMBDA a : ~IsSymbol(a)) \in Nat
  BY Counts
<1>5. IsRoot(r) <=> /\ level[r] = UnknownLevel
                    /\ \/ AdjacentCount(r) = SymbolCount /\ CountAdjacent(r, LAMBDA a : ~IsSymbol(a)) = 0
                       \/ AdjacentCount(r) = SymbolCount + 1 /\ CountAdjacent(r, LAMBDA a : ~IsSymbol(a)) = 1
  BY <1>3 DEF IsRoot
<1> QED
  BY <1>4, <1>5, CountsAssumption

-----------------------------------------------------------------------------
\* When all leaves were looked at, every symbol has been met.
LEMMA SymbolsFound ==
    ASSUME regions \in Pictures, NEW lev, NEW list,
           \A r \in Ids : lev[r] \in {LeafLevel, LeafContainerLevel, UnknownLevel, DiscardedLevel},
           \A r \in Ids : lev[r] = LeafLevel <=> IsBlackLeaf(r),
           \A r \in Ids : lev[r] = DiscardedLevel => ~IsSymbol(r),
           ListedRegions(list) = {r \in Ids : lev[r] = LeafLevel},
           \A k \in 1 .. Len(list) : lev[Adjacent(list[k])[1]] # UnknownLevel
    PROVE  \A r \in Ids : IsSymbol(r) => lev[r] = LeafContainerLevel
<1> SUFFICES ASSUME NEW r \in Ids, IsSymbol(r) PROVE lev[r] = LeafContainerLevel
  OBVIOUS
<1>1. LeafPlaces(r) # {} /\ ~IsBlackLeaf(r)
  BY SymbolFacts
<1>2. PICK k \in LeafPlaces(r) : TRUE
  BY <1>1
<1>3. /\ Adjacent(r)[k] \in Ids /\ IsBlackLeaf(Adjacent(r)[k])
      /\ Adjacent(Adjacent(r)[k])[1] = r
  BY <1>2, LeafBelow
<1>4. PICK i \in 1 .. Len(list) : list[i] = Adjacent(r)[k]
  BY <1>3 DEF ListedRegions
<1>5. lev[r] # UnknownLevel
  BY <1>3, <1>4
<1> QED
  BY <1>1, <1>5

\* When all neighbours of containers were looked at, every root has been met.
LEMMA RootsFound ==
    ASSUME regions \in Pictures, NEW lev, NEW list,
           ListedRegions(list) = {r \in Ids : lev[r] = LeafContainerLevel},
           \A r \in Ids : IsSymbol(r) => lev[r] = LeafContainerLevel,
           \A i \in 1 .. Len(list) : \A j \in 1 .. AdjacentCount(list[i]) :
              IsFiducialRoot(Adjacent(list[i])[j]) => lev[Adjacent(list[i])[j]] = RootLevel
    PROVE  \A r \in Ids : IsFiducialRoot(r) => lev[r] = RootLevel
<1> SUFFICES ASSUME NEW r \in Ids, IsFiducialRoot(r) PROVE lev[r] = RootLevel
  OBVIOUS
<1>1. PICK k \in SymbolPlaces(r) : TRUE
  BY SymbolFacts
<1>2. k \in 1 .. AdjacentCount(r) /\ IsSymbol(Adjacent(r)[k])
  BY <1>1 DEF SymbolPlaces
<1>3. /\ Adjacent(r)[k] \in Ids
      /\ \E l \in 1 .. AdjacentCount(Adjacent(r)[k]) : Adjacent(Adjacent(r)[k])[l] = r
  BY <1>2, Mutual
<1>4. PICK i \in 1 .. Len(list) : list[i] = Adjacent(r)[k]
  BY <1>2, <1>3 DEF ListedRegions
<1> QED
  BY <1>3, <1>4

LEMMA InitExactInv == Init => ExactInv
<1> SUFFICES ASSUME Init PROVE ExactInv
  OBVIOUS
<1>1. /\ phase = "leaves" /\ next = 1 /\ \A r \in Ids : level[r] = UnknownLevel
      /\ \A r \in Ids : ~(r < next)
  BY DEF Init, Ids
<1> QED
  BY <1>1 DEF ExactInv, LeafInv, SymbolInv, RootInv, UnknownLevel, LeafLevel, LeafContainerLevel,
              RootLevel, DiscardedLevel

LEMMA FindBlackLeafExact ==
    ASSUME SearchInv, ExactInv, FindBlackLeaf
    PROVE  ExactInv'
<1>1. /\ phase = "leaves" /\ EndPass(Len(regions), "containers") /\ regions' = regions
      /\ level' = [level EXCEPT ![next] = IF IsBlackLeaf(next) THEN LeafLevel ELSE UnknownLevel]
  BY DEF FindBlackLeaf, IsBlackLeaf
<1>2. /\ next \in Nat \ {0} /\ regions \in Pictures /\ next <= Len(regions)
      /\ level \in [Ids -> {LeafLevel, LeafContainerLevel, RootLevel, UnknownLevel, DiscardedLevel}]
  BY <1>1 DEF SearchInv, TypeOK, LevelInv, PassInv
<1>3. Len(regions) \in Nat \ {0} /\ Ids = 1 .. Len(regions) /\ next \in Ids
  BY <1>2, AdjacentAreRegions DEF Ids
<1>4. /\ next = Len(regions) => phase' = "containers" /\ next' = 1
      /\ next # Len(regions) => phase' = "leaves" /\ next' = next + 1
  BY <1>1 DEF EndPass
<1>5. \A r \in Ids : /\ level[r] \in {LeafLevel, UnknownLevel}
                     /\ r < next => (level[r] = LeafLevel <=> IsBlackLeaf(r))
  BY <1>1 DEF ExactInv, LeafInv
<1>6. \A r \in Ids : /\ level'[r] \in {LeafLevel, UnknownLevel}
                     /\ r <= next => (level'[r] = LeafLevel <=> IsBlackLeaf(r))
  <2> SUFFICES ASSUME NEW r \in Ids
               PROVE  /\ level'[r] \in {LeafLevel, UnknownLevel}
                      /\ r <= next => (level'[r] = LeafLevel <=> IsBlackLeaf(r))
    OBVIOUS
  <2>1. CASE r = next
    BY <1>1, <1>2, <1>3, <2>1 DEF LeafLevel, UnknownLevel
  <2>2. CASE r # next
    <3>1. level'[r] = level[r]
      BY <1>1, <1>2, <2>2
    <3>2. r <= next => r < next
      BY <1>2, <1>3, <2>2
    <3> QED
      BY <1>5, <3>1, <3>2
  <2> QED
    BY <2>1, <2>2
<1>7. /\ Ids' = Ids /\ \A r : IsBlackLeaf(r)' <=> IsBlackLeaf(r)
  BY <1>1, SamePicture
<1>8. LeafInv'
  <2>1. CASE next = Len(regions)
    <3>1. \A r \in Ids : level'[r] = LeafLevel <=> IsBlackLeaf(r)
      BY <1>3, <1>6, <2>1
    <3> QED
      BY <1>4, <1>7, <2>1, <3>1 DEF LeafInv
  <2>2. CASE next # Len(regions)
    <3>1. \A r \in Ids : r < next' => r <= next
      BY <1>2, <1>3, <1>4, <2>2
    <3> QED
      BY <1>4, <1>6, <1>7, <2>2, <3>1 DEF LeafInv
  <2> QED
    BY <2>1, <2>2
<1>9. SymbolInv' /\ RootInv'
  <2>1. \A r \in Ids : /\ level'[r] # LeafContainerLevel /\ level'[r] # DiscardedLevel
                       /\ level'[r] # RootLevel
    BY <1>6 DEF UnknownLevel, LeafLevel, LeafContainerLevel, RootLevel, DiscardedLevel
  <2>2. phase' \in {"leaves", "containers"}
    BY <1>4
  <2>3. phase' = "containers" => \A k \in 1 .. Len(leaves') : ~(k < next')
    BY <1>4
  <2> QED
    BY <1>7, <2>1, <2>2, <2>3 DEF SymbolInv, RootInv
<1> QED
  BY <1>8, <1>9 DEF ExactInv

LEMMA FindContainerExact ==
    ASSUME SearchInv, ExactInv, FindContainer
    PROVE  ExactInv'
<1> DEFINE candidate == Adjacent(leaves[next])[1]
<1> USE DEF LeafLevel, LeafContainerLevel, RootLevel, UnknownLevel, DiscardedLevel
<1>1. /\ phase = "containers" /\ leaves # <<>> /\ EndPass(Len(leaves), "roots")
      /\ regions' = regions /\ leaves' = leaves /\ place' = place
  BY DEF FindContainer
<1>2. /\ regions \in Pictures /\ next \in Nat \ {0} /\ next <= Len(leaves) /\ place = 1
      /\ leaves \in Seq(Ids) /\ level \in [Ids -> {0, 1, 2, -1, -2}]
      /\ ListedRegions(leaves) = {r \in Ids : level[r] = 0}
  BY <1>1 DEF SearchInv, TypeOK, LevelInv, PassInv, ListedOnce
<1>3. next \in 1 .. Len(leaves) /\ Len(leaves) \in Nat /\ leaves[next] \in Ids
      /\ level[leaves[next]] = 0
  <2>1. next \in 1 .. Len(leaves) /\ Len(leaves) \in Nat
    BY <1>2
  <2> QED
    BY <1>2, <2>1 DEF ListedRegions
<1>4. /\ next = Len(leaves) => phase' = "roots" /\ next' = 1
      /\ next # Len(leaves) => phase' = "containers" /\ next' = next + 1
  BY <1>1 DEF EndPass
<1>5. /\ \A r \in Ids : level[r] = 0 <=> IsBlackLeaf(r)
      /\ \A r \in Ids : /\ level[r] = 1 => IsSymbol(r)
                        /\ level[r] = -2 => ~IsSymbol(r) /\ LeafPlaces(r) # {}
                        /\ level[r] # 2
      /\ \A k \in 1 .. Len(leaves) : k < next => level[Adjacent(leaves[k])[1]] # -1
  BY <1>1 DEF ExactInv, LeafInv, SymbolInv, RootInv
<1>6. candidate \in Ids /\ LeafPlaces(candidate) # {}
  <2>1. AdjacentCount(leaves[next]) = 1
    BY <1>3, <1>5 DEF IsBlackLeaf
  <2>2. /\ candidate \in Ids
        /\ \E l \in 1 .. AdjacentCount(candidate) : Adjacent(candidate)[l] = leaves[next]
    BY <1>2, <1>3, <2>1, Mutual
  <2> QED
    BY <1>3, <1>5, <2>2 DEF LeafPlaces
<1> HIDE DEF candidate
<1>7. HasOnlyOneNonLeaf(candidate) /\ FitsSymbol(candidate) <=> IsSymbol(candidate)
  <2>1. \A q \in Ids : level[q] = LeafLevel <=> IsBlackLeaf(q)
    BY <1>5
  <2> QED
    BY <1>2, <1>6, <2>1, TestOfSymbol
<1>8. \/ level[candidate] # -1 /\ level' = level
      \/ level[candidate] = -1 /\ IsSymbol(candidate) /\ level' = [level EXCEPT ![candidate] = 1]
      \/ level[candidate] = -1 /\ ~IsSymbol(candidate) /\ level' = [level EXCEPT ![candidate] = -2]
  BY <1>7 DEF FindContainer, IsConsidered, candidate
<1>9. /\ level' \in [Ids -> {0, 1, 2, -1, -2}] /\ level'[candidate] # -1
      /\ \A r \in Ids : level'[r] = level[r] \/ (r = candidate /\ level[r] = -1)
      /\ level'[candidate] \in {level[candidate], 1, -2}
      /\ \/ level'[candidate] = level[candidate]
         \/ level[candidate] = -1 /\ (level'[candidate] = 1 <=> IsSymbol(candidate))
  <2>1. CASE level[candidate] # -1 /\ level' = level
    BY <1>2, <2>1
  <2>2. CASE level[candidate] = -1 /\ IsSymbol(candidate) /\ level' = [level EXCEPT ![candidate] = 1]
    <3>1. level'[candidate] = 1 /\ \A r \in Ids : r # candidate => level'[r] = level[r]
      BY <1>2, <1>6, <2>2
    <3>2. level' \in [Ids -> {0, 1, 2, -1, -2}]
      BY <1>2, <2>2
    <3> QED
      BY <2>2, <3>1, <3>2
  <2>3. CASE level[candidate] = -1 /\ ~IsSymbol(candidate) /\ level' = [level EXCEPT ![candidate] = -2]
    <3>1. level'[candidate] = -2 /\ \A r \in Ids : r # candidate => level'[r] = level[r]
      BY <1>2, <1>6, <2>3
    <3>2. level' \in [Ids -> {0, 1, 2, -1, -2}]
      BY <1>2, <2>3
    <3> QED
      BY <2>3, <3>1, <3>2
  <2> QED
    BY <1>8, <2>1, <2>2, <2>3
<1>10. /\ Ids' = Ids /\ \A r : IsBlackLeaf(r)' <=> IsBlackLeaf(r)
       /\ \A r : IsSymbol(r)' <=> IsSymbol(r)
       /\ \A r : LeafPlaces(r)' = LeafPlaces(r)
       /\ \A r : Adjacent(r)' = Adjacent(r)
  BY <1>1, SamePicture
<1>11. /\ \A r \in Ids : level'[r] = 0 <=> IsBlackLeaf(r)
       /\ \A r \in Ids : /\ level'[r] = 1 => IsSymbol(r)
                         /\ level'[r] = -2 => ~IsSymbol(r) /\ LeafPlaces(r) # {}
                         /\ level'[r] # 2
  <2> SUFFICES ASSUME NEW r \in Ids
               PROVE  /\ level'[r] = 0 <=> IsBlackLeaf(r)
                      /\ level'[r] = 1 => IsSymbol(r)
                      /\ level'[r] = -2 => ~IsSymbol(r) /\ LeafPlaces(r) # {}
                      /\ level'[r] # 2
    OBVIOUS
  <2>1. CASE level'[r] = level[r]
    BY <1>5, <2>1
  <2>2. CASE r = candidate /\ level[r] = -1 /\ level'[r] # level[r]
    BY <1>5, <1>6, <1>9, <2>2
  <2> QED
    BY <1>9, <2>1, <2>2
<1>12. \A k \in 1 .. Len(leaves) : k < next + 1 => level'[Adjacent(leaves[k])[1]] # -1
  <2> SUFFICES ASSUME NEW k \in 1 .. Len(leaves), k < next + 1
               PROVE  level'[Adjacent(leaves[k])[1]] # -1
    OBVIOUS
  <2>1. CASE k = next
    BY <1>9, <2>1 DEF candidate
  <2>2. CASE k # next
    <3>1. k < next
      BY <1>2, <2>2
    <3>2. level[Adjacent(leaves[k])[1]] # -1
      BY <1>5, <3>1
    <3>3. leaves[k] \in Ids /\ level[leaves[k]] = 0
      BY <1>2 DEF ListedRegions
    <3>4. AdjacentCount(leaves[k]) = 1
      BY <1>5, <3>3 DEF IsBlackLeaf
    <3>5. Adjacent(leaves[k])[1] \in Ids
      BY <1>2, <3>3, <3>4, Mutual
    <3> QED
      BY <1>9, <3>2, <3>5
  <2> QED
    BY <2>1, <2>2
<1>13. LeafInv'
  BY <1>4, <1>10, <1>11 DEF LeafInv
<1>14. ASSUME phase' = "roots" PROVE \A r \in Ids : IsSymbol(r) => level'[r] = 1
  <2>1. next = Len(leaves)
    BY <1>4, <1>14
  <2>2. \A k \in 1 .. Len(leaves) : level'[Adjacent(leaves[k])[1]] # -1
    BY <1>2, <1>12, <2>1
  <2>3. ListedRegions(leaves) = {r \in Ids : level'[r] = LeafLevel}
    BY <1>2, <1>5, <1>11
  <2>4. \A r \in Ids : level'[r] \in {0, 1, -1, -2}
    BY <1>9, <1>11
  <2> QED
    BY <1>2, <1>11, <2>2, <2>3, <2>4, SymbolsFound, ZenonT(60)
<1>15. SymbolInv'
  <2>1. phase' = "containers" =>
          \A k \in 1 .. Len(leaves) : k < next' => level'[Adjacent(leaves[k])[1]] # -1
    BY <1>4, <1>12
  <2>2. phase' \in {"containers", "roots"}
    BY <1>4
  <2> QED
    BY <1>1, <1>10, <1>11, <1>14, <2>1, <2>2 DEF SymbolInv
<1>16. RootInv'
  <2>1. phase' = "roots" => next' = 1 /\ place' = 1
    BY <1>1, <1>2, <1>4
  <2>2. phase' = "roots" => \A r : ~Met(r)'
    BY <2>1 DEF Met
  <2>4. phase' \in {"containers", "roots"}
    BY <1>4
  <2>5. \A r \in Ids' : level'[r] # RootLevel
    BY <1>10, <1>11
  <2> QED
    BY <2>2, <2>4, <2>5 DEF RootInv
<1> QED
  BY <1>13, <1>15, <1>16 DEF ExactInv

LEMMA FindRootExact ==
    ASSUME SearchInv, ExactInv, FindRoot
    PROVE  ExactInv'
<1> DEFINE candidate == Adjacent(containers[next])[place]
<1> USE DEF LeafLevel, LeafContainerLevel, RootLevel, UnknownLevel, DiscardedLevel
<1>1. /\ phase = "roots" /\ containers # <<>> /\ regions' = regions /\ containers' = containers
      /\ \/ IsRoot(candidate) /\ level' = [level EXCEPT ![candidate] = 2]
         \/ ~IsRoot(candidate) /\ level' = level
      /\ \/ /\ place < AdjacentCount(containers[next])
            /\ place' = place + 1 /\ phase' = "roots" /\ next' = next
         \/ /\ place = AdjacentCount(containers[next]) /\ place' = 1
            /\ phase' = IF next = Len(containers) THEN "compute" ELSE "roots"
            /\ next' = IF next = Len(containers) THEN 1 ELSE next + 1
  BY DEF FindRoot, EndPass
<1>2. /\ regions \in Pictures /\ level \in [Ids -> {0, 1, 2, -1, -2}]
      /\ next \in Nat \ {0} /\ next <= Len(containers)
      /\ place \in Nat \ {0} /\ place <= AdjacentCount(containers[next])
      /\ containers \in Seq(Ids) /\ ListedRegions(containers) = {r \in Ids : level[r] = 1}
  BY <1>1 DEF SearchInv, TypeOK, LevelInv, PassInv, ListedOnce
<1>3. /\ next \in 1 .. Len(containers) /\ Len(containers) \in Nat
      /\ \A i \in 1 .. Len(containers) : containers[i] \in Ids /\ level[containers[i]] = 1
  <2>1. next \in 1 .. Len(containers) /\ Len(containers) \in Nat
    BY <1>2
  <2> QED
    BY <1>2, <2>1 DEF ListedRegions
<1>4. /\ \A r \in Ids : level[r] = 0 <=> IsBlackLeaf(r)
      /\ \A r \in Ids : level[r] = 1 <=> IsSymbol(r)
      /\ \A r \in Ids : level[r] = -2 => LeafPlaces(r) # {}
      /\ \A r \in Ids : level[r] = 2 => IsFiducialRoot(r)
      /\ \A r \in Ids : Met(r) /\ IsFiducialRoot(r) => level[r] = 2
  BY <1>1 DEF ExactInv, LeafInv, SymbolInv, RootInv
<1>5. /\ \A i \in 1 .. Len(containers) : AdjacentCount(containers[i]) \in Nat
      /\ \A i \in 1 .. Len(containers) : \A j \in 1 .. AdjacentCount(containers[i]) :
            Adjacent(containers[i])[j] \in Ids
  BY <1>2, <1>3, AdjacentAreRegions
<1>6. candidate \in Ids /\ place \in 1 .. AdjacentCount(containers[next])
  BY <1>2, <1>3, <1>5
<1> HIDE DEF candidate
<1>7. IsRoot(candidate) <=> level[candidate] = -1 /\ IsFiducialRoot(candidate)
  <2>1. \A q \in Ids : level[q] = LeafContainerLevel <=> IsSymbol(q)
    BY <1>4
  <2>2. IsRoot(candidate) <=> /\ level[candidate] = -1
                              /\ CountAdjacent(candidate, IsSymbol) = SymbolCount
                              /\ CountAdjacent(candidate, LAMBDA a : ~IsSymbol(a)) <= 1
    BY <1>2, <1>6, <2>1, TestOfRoot
  <2>3. level[candidate] = -1 => ~IsBlackLeaf(candidate) /\ ~IsSymbol(candidate)
    BY <1>4, <1>6
  <2> QED
    BY <2>2, <2>3 DEF IsFiducialRoot
<1>8. IsFiducialRoot(candidate) => level[candidate] \in {-1, 2}
  <2>1. IsFiducialRoot(candidate) => LeafPlaces(candidate) = {}
    BY <1>2, <1>6, SymbolFacts
  <2>2. IsFiducialRoot(candidate) => ~IsBlackLeaf(candidate) /\ ~IsSymbol(candidate)
    BY DEF IsFiducialRoot
  <2>3. level[candidate] \in {0, 1, 2, -1, -2}
    BY <1>2, <1>6
  <2> QED
    BY <1>4, <1>6, <2>1, <2>2, <2>3
<1>9. /\ level'[candidate] = 2 <=> IsFiducialRoot(candidate)
      /\ \A r \in Ids : level'[r] = level[r] \/ (level[r] = -1 /\ level'[r] = 2 /\ IsFiducialRoot(r))
  <2>1. CASE IsRoot(candidate) /\ level' = [level EXCEPT ![candidate] = 2]
    <3>1. level'[candidate] = 2 /\ \A r \in Ids : r # candidate => level'[r] = level[r]
      BY <1>2, <1>6, <2>1
    <3> QED
      BY <1>7, <2>1, <3>1
  <2>2. CASE ~IsRoot(candidate) /\ level' = level
    BY <1>4, <1>6, <1>7, <1>8, <2>2
  <2> QED
    BY <1>1, <2>1, <2>2 DEF candidate
<1>10. /\ Ids' = Ids /\ \A r : IsBlackLeaf(r)' <=> IsBlackLeaf(r)
       /\ \A r : IsSymbol(r)' <=> IsSymbol(r)
       /\ \A r : IsFiducialRoot(r)' <=> IsFiducialRoot(r)
       /\ \A r : LeafPlaces(r)' = LeafPlaces(r)
       /\ \A r : Adjacent(r)' = Adjacent(r) /\ AdjacentCount(r)' = AdjacentCount(r)
  BY <1>1, SamePicture
<1>11. \A r \in Ids : /\ level'[r] = 0 <=> IsBlackLeaf(r)
                      /\ level'[r] = 1 <=> IsSymbol(r)
                      /\ level'[r] = -2 => ~IsSymbol(r) /\ LeafPlaces(r) # {}
                      /\ level'[r] = 2 => IsFiducialRoot(r)
                      /\ level[r] = 2 => level'[r] = 2
  <2> SUFFICES ASSUME NEW r \in Ids
               PROVE  /\ level'[r] = 0 <=> IsBlackLeaf(r)
                      /\ level'[r] = 1 <=> IsSymbol(r)
                      /\ level'[r] = -2 => ~IsSymbol(r) /\ LeafPlaces(r) # {}
                      /\ level'[r] = 2 => IsFiducialRoot(r)
                      /\ level[r] = 2 => level'[r] = 2
    OBVIOUS
  <2>1. CASE level'[r] = level[r]
    BY <1>4, <2>1
  <2>2. CASE level[r] = -1 /\ level'[r] = 2 /\ IsFiducialRoot(r)
    BY <1>4, <2>2 DEF IsFiducialRoot
  <2> QED
    BY <1>9, <2>1, <2>2
<1>12. phase' \in {"roots", "compute"}
  BY <1>1
<1>13. LeafInv' /\ SymbolInv'
  BY <1>10, <1>11, <1>12 DEF LeafInv, SymbolInv
\* What was looked at is a root if it should be, and so is the neighbour looked at now.
<1>14. \A i \in 1 .. Len(containers) : \A j \in 1 .. AdjacentCount(containers[i]) :
          (i < next \/ (i = next /\ j < place + 1)) /\ IsFiducialRoot(Adjacent(containers[i])[j])
             => level'[Adjacent(containers[i])[j]] = 2
  <2> SUFFICES ASSUME NEW i \in 1 .. Len(containers), NEW j \in 1 .. AdjacentCount(containers[i]),
                      i < next \/ (i = next /\ j < place + 1),
                      IsFiducialRoot(Adjacent(containers[i])[j])
               PROVE  level'[Adjacent(containers[i])[j]] = 2
    OBVIOUS
  <2>1. CASE i = next /\ j = place
    BY <1>9, <2>1 DEF candidate
  <2>2. CASE ~(i = next /\ j = place)
    <3>1. i < next \/ (i = next /\ j < place)
      <4>1. i \in Int /\ j \in Int /\ place \in Int
        BY <1>2
      <4> QED
        BY <2>2, <4>1
    <3>2. Met(Adjacent(containers[i])[j])
      BY <3>1 DEF Met
    <3>3. level[Adjacent(containers[i])[j]] = 2
      BY <1>4, <1>5, <3>2
    <3> QED
      BY <1>5, <1>11, <3>3
  <2> QED
    BY <2>1, <2>2
<1>15. ASSUME phase' = "roots", NEW i \in 1 .. Len(containers), NEW j \in 1 .. AdjacentCount(containers[i]),
              i < next' \/ (i = next' /\ j < place')
       PROVE  i < next \/ (i = next /\ j < place + 1)
  <2>1. i \in Int /\ j \in Int /\ place \in Int /\ next \in Int
    BY <1>2
  <2>2. CASE place' = place + 1 /\ next' = next
    BY <1>15, <2>2
  <2>3. CASE place = AdjacentCount(containers[next]) /\ place' = 1 /\ next' = next + 1
    <3>1. i < next + 1
      BY <1>15, <2>1, <2>3
    <3>2. i = next => j < place + 1
      BY <2>1, <2>3
    <3> QED
      BY <2>1, <3>1, <3>2
  <2> QED
    BY <1>1, <1>15, <2>2, <2>3
<1>16. ASSUME phase' = "compute" PROVE \A r \in Ids : IsFiducialRoot(r) => level'[r] = 2
  <2>1. place = AdjacentCount(containers[next]) /\ next = Len(containers)
    BY <1>1, <1>16
  <2>2. \A i \in 1 .. Len(containers) : \A j \in 1 .. AdjacentCount(containers[i]) :
          i < next \/ (i = next /\ j < place + 1)
    <3> SUFFICES ASSUME NEW i \in 1 .. Len(containers), NEW j \in 1 .. AdjacentCount(containers[i])
                 PROVE  i < next \/ (i = next /\ j < place + 1)
      OBVIOUS
    <3>1. i \in Int /\ i <= next /\ j \in Int
      BY <1>3, <2>1
    <3>2. i = next => j <= place
      BY <2>1
    <3> QED
      BY <1>2, <3>1, <3>2
  <2>3. \A i \in 1 .. Len(containers) : \A j \in 1 .. AdjacentCount(containers[i]) :
          IsFiducialRoot(Adjacent(containers[i])[j]) => level'[Adjacent(containers[i])[j]] = RootLevel
    BY <1>14, <2>2
  <2>4. ListedRegions(containers) = {r \in Ids : level'[r] = LeafContainerLevel}
    BY <1>2, <1>4, <1>11
  <2>5. \A r \in Ids : IsSymbol(r) => level'[r] = LeafContainerLevel
    BY <1>11
  <2> QED
    BY <1>2, <2>3, <2>4, <2>5, RootsFound
<1>17. ASSUME phase' = "roots", NEW r \in Ids, Met(r)', IsFiducialRoot(r) PROVE level'[r] = 2
  <2>1. PICK i \in 1 .. Len(containers) : \E j \in 1 .. AdjacentCount(containers[i]) :
          r = Adjacent(containers[i])[j] /\ (i < next' \/ (i = next' /\ j < place'))
    BY <1>1, <1>17 DEF Met, Adjacent, AdjacentCount
  <2>2. PICK j \in 1 .. AdjacentCount(containers[i]) :
          r = Adjacent(containers[i])[j] /\ (i < next' \/ (i = next' /\ j < place'))
    BY <2>1
  <2> QED
    BY <1>14, <1>15, <1>17, <2>2
<1>18. RootInv'
  BY <1>10, <1>11, <1>12, <1>16, <1>17 DEF RootInv
<1> QED
  BY <1>13, <1>18 DEF ExactInv

LEMMA SkipEmptyExact ==
    ASSUME SearchInv, ExactInv, SkipEmpty
    PROVE  ExactInv'
<1>1. /\ UNCHANGED <<regions, level, leaves, containers, roots, next, place, fiducials>>
      /\ \/ phase = "containers" /\ leaves = <<>> /\ phase' = "roots"
         \/ phase = "roots" /\ containers = <<>> /\ phase' = "compute"
         \/ phase = "compute" /\ roots = <<>> /\ phase' = "done"
  BY DEF SkipEmpty
<1>2. /\ regions \in Pictures /\ next = 1 /\ place = 1
      /\ level \in [Ids -> {LeafLevel, LeafContainerLevel, RootLevel, UnknownLevel, DiscardedLevel}]
      /\ ListedRegions(leaves) = {r \in Ids : level[r] = LeafLevel}
      /\ ListedRegions(containers) = {r \in Ids : level[r] = LeafContainerLevel}
  BY <1>1 DEF SearchInv, TypeOK, LevelInv, PassInv, ListedOnce
<1>3. /\ Ids' = Ids /\ \A r : IsBlackLeaf(r)' <=> IsBlackLeaf(r)
      /\ \A r : IsSymbol(r)' <=> IsSymbol(r)
      /\ \A r : IsFiducialRoot(r)' <=> IsFiducialRoot(r)
      /\ \A r : LeafPlaces(r)' = LeafPlaces(r)
  BY <1>1, SamePicture
<1>4. /\ \A r \in Ids : level[r] = LeafLevel <=> IsBlackLeaf(r)
      /\ \A r \in Ids : level[r] = LeafContainerLevel => IsSymbol(r)
      /\ \A r \in Ids : level[r] = DiscardedLevel => ~IsSymbol(r) /\ LeafPlaces(r) # {}
      /\ \A r \in Ids : level[r] = RootLevel => IsFiducialRoot(r)
  BY <1>1 DEF ExactInv, LeafInv, SymbolInv, RootInv
<1>5. \A r \in Ids : IsSymbol(r) => level[r] = LeafContainerLevel
  <2>1. CASE phase = "containers" /\ leaves = <<>>
    <3>1. \A k \in 1 .. Len(leaves) : level[Adjacent(leaves[k])[1]] # UnknownLevel
      BY <2>1
    <3>2. \A r \in Ids : level[r] # RootLevel
      BY <2>1 DEF ExactInv, RootInv
    <3>3. \A r \in Ids : level[r] \in {LeafLevel, LeafContainerLevel, UnknownLevel, DiscardedLevel}
      BY <1>2, <3>2
    <3> QED
      BY <1>2, <1>4, <3>1, <3>3, SymbolsFound
  <2>2. CASE phase # "containers"
    BY <1>1, <2>2 DEF ExactInv, SymbolInv
  <2> QED
    BY <1>1, <2>1, <2>2
<1>6. phase # "containers" => \A r \in Ids : IsFiducialRoot(r) => level[r] = RootLevel
  <2>1. CASE phase = "roots" /\ containers = <<>>
    <3>1. \A i \in 1 .. Len(containers) : \A j \in 1 .. AdjacentCount(containers[i]) :
            IsFiducialRoot(Adjacent(containers[i])[j]) => level[Adjacent(containers[i])[j]] = RootLevel
      BY <2>1
    <3> QED
      BY <1>2, <1>5, <3>1, RootsFound
  <2>2. CASE phase = "compute"
    BY <2>2 DEF ExactInv, RootInv
  <2> QED
    BY <1>1, <2>1, <2>2
<1>7. LeafInv' /\ SymbolInv'
  BY <1>1, <1>3, <1>4, <1>5 DEF LeafInv, SymbolInv
<1>8. RootInv'
  <2>1. phase' = "roots" => next' = 1 /\ place' = 1
    BY <1>1, <1>2
  <2>2. phase' = "roots" => \A r : ~Met(r)'
    BY <2>1 DEF Met
  <2> QED
    BY <1>1, <1>3, <1>4, <1>6, <2>2 DEF RootInv
<1> QED
  BY <1>7, <1>8 DEF ExactInv

\* Nothing of it depends on the fiducials that are computed.
LEMMA ExactStays ==
    ASSUME ExactInv, UNCHANGED <<regions, level>>,
           \/ UNCHANGED <<leaves, containers, next, place, phase>>
           \/ phase = "compute" /\ phase' \in {"compute", "done"}
    PROVE  ExactInv'
<1>1. /\ Ids' = Ids /\ \A r : IsBlackLeaf(r)' <=> IsBlackLeaf(r)
      /\ \A r : IsSymbol(r)' <=> IsSymbol(r)
      /\ \A r : IsFiducialRoot(r)' <=> IsFiducialRoot(r)
      /\ \A r : LeafPlaces(r)' = LeafPlaces(r)
      /\ \A r : Adjacent(r)' = Adjacent(r) /\ AdjacentCount(r)' = AdjacentCount(r)
  BY SamePicture
<1>2. CASE phase = "compute" /\ phase' \in {"compute", "done"}
  BY <1>1, <1>2 DEF ExactInv, LeafInv, SymbolInv, RootInv
<1>3. CASE UNCHANGED <<leaves, containers, next, place, phase>>
  <2>1. \A r : Met(r)' <=> Met(r)
    BY <1>3 DEF Met, Adjacent, AdjacentCount
  <2>2. LeafInv' /\ RootInv'
    BY <1>1, <1>3, <2>1 DEF ExactInv, LeafInv, RootInv
  <2>3. SymbolInv'
    BY <1>1, <1>3 DEF ExactInv, SymbolInv, Adjacent
  <2> QED
    BY <2>2, <2>3 DEF ExactInv
<1> QED
  BY <1>2, <1>3

LEMMA NextExactInv == SearchInv /\ ExactInv /\ [Next]_vars => ExactInv'
<1> SUFFICES ASSUME SearchInv, ExactInv, [Next]_vars PROVE ExactInv'
  OBVIOUS
<1>1. CASE UNCHANGED vars
  BY <1>1, ExactStays DEF vars
<1>2. CASE ComputeFiducial
  <2>1. UNCHANGED <<regions, level>> /\ phase = "compute" /\ phase' \in {"compute", "done"}
    BY <1>2 DEF ComputeFiducial
  <2> QED
    BY <2>1, ExactStays
<1> QED
  BY <1>1, <1>2, FindBlackLeafExact, FindContainerExact, FindRootExact, SkipEmptyExact DEF Next

-----------------------------------------------------------------------------
\* The strengthening: the lists, the levels and where the passes are.
THEOREM SearchInvariant == Spec => []SearchInv
BY InitSearchInv, NextSearchInv, PTL DEF Spec

\* The passes of initialize_segment_topology stay inside the lists and the picture.
THEOREM SearchTypeOK == Spec => []TypeOK
<1>1. SearchInv => TypeOK
  BY DEF SearchInv
<1> QED
  BY <1>1, SearchInvariant, PTL

\* link_region never links a region that is in a list already.
THEOREM SearchListedOnce == Spec => []ListedOnce
<1>1. SearchInv => ListedOnce
  BY DEF SearchInv
<1> QED
  BY <1>1, SearchInvariant, PTL

\* initialize_segment_topology finds all roots and nothing else, wherever their symbols and leaves
\* stand in the lists and however often they are listed.
THEOREM SearchRootsExact == Spec => []RootsExact
<1>1. SearchInv /\ ExactInv => RootsExact
  BY DEF SearchInv, ListedOnce, ExactInv, RootInv, RootsExact
<1>2. Init => ExactInv
  BY InitExactInv
<1>3. SearchInv /\ ExactInv /\ [Next]_vars => ExactInv'
  BY NextExactInv
<1> QED
  BY <1>1, <1>2, <1>3, SearchInvariant, PTL DEF Spec

\* find_fiducials120 writes no more fiducials than there is room for, and all that there are if
\* there is room.
THEOREM SearchFiducialsFit == Spec => []FiducialsFit
<1>1. SearchInv => FiducialsFit
  BY DEF SearchInv, FiducialsInv, FiducialsFit, ListedRegions
<1> QED
  BY <1>1, SearchInvariant, PTL
=============================================================================

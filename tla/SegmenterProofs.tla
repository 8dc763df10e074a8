-------------------------- MODULE SegmenterProofs --------------------------
(***************************************************************************)
(* Proofs about the segmenter, for images of every size and adjacency      *)
(* lists of every capacity: the invariant of its data structures, and that *)
(* it implements Components.                                               *)
(***************************************************************************)
EXTENDS MCSegmenter, FoldProofs

-----------------------------------------------------------------------------
(***************************************************************************)
(* What the list operations of segment.c do to the number of times a       *)
(* region is listed                                                        *)
(***************************************************************************)
\* The search loops of segment.c find an entry whenever there is one.
LEMMA FirstIndexFound ==
    ASSUME NEW S, NEW list \in Seq(S), NEW r, Contains(list, r)
    PROVE  FirstIndex(list, r) \in 1 .. Len(list) /\ list[FirstIndex(list, r)] = r
<1>1. \E k \in Occurrences(list, r) : \A j \in Occurrences(list, r) : k <= j
  <2>1. Occurrences(list, r) \subseteq Nat /\ Occurrences(list, r) # {}
    BY DEF Occurrences, Contains
  <2> QED
    BY ONLY <2>1, LeastElement
<1>2. \E k \in 1 .. Len(list) : list[k] = r /\ \A j \in 1 .. k - 1 : list[j] # r
  BY <1>1 DEF Occurrences
<1> QED
  BY <1>2 DEF FirstIndex

\* The number of times a region is listed is a natural, and positive when it is listed.
LEMMA CountType ==
    ASSUME NEW S, NEW list \in Seq(S), NEW r
    PROVE  /\ IsFiniteSet(Occurrences(list, r))
           /\ Count(list, r) \in Nat
           /\ Contains(list, r) <=> Count(list, r) > 0
<1>1. IsFiniteSet(1 .. Len(list))
  BY FS_Interval
<1>2. IsFiniteSet(Occurrences(list, r))
  BY <1>1, FS_Subset DEF Occurrences
<1>3. Count(list, r) \in Nat
  BY <1>2, FS_CardinalityType DEF Count
<1>4. Count(list, r) = 0 <=> Occurrences(list, r) = {}
  BY <1>2, FS_EmptySet DEF Count
<1>5. Contains(list, r) <=> Occurrences(list, r) # {}
  BY DEF Contains, Occurrences
<1> QED
  BY <1>2, <1>3, <1>4, <1>5

\* An empty list lists no region.
LEMMA CountEmpty == ASSUME NEW r PROVE Count(<<>>, r) = 0
<1>1. Occurrences(<<>>, r) = {}
  BY DEF Occurrences
<1> QED
  BY <1>1, FS_EmptySet DEF Count

\* Adding an entry, as make_adjacent does.
LEMMA CountAppend ==
    ASSUME NEW S, NEW list \in Seq(S), NEW e \in S, NEW r
    PROVE  Count(Append(list, e), r) = Count(list, r) + (IF e = r THEN 1 ELSE 0)
<1> DEFINE n == Len(list) + 1
<1>1. n \notin Occurrences(list, r)
  BY DEF Occurrences
<1>2. CASE e = r
  <2>1. Occurrences(Append(list, e), r) = Occurrences(list, r) \cup {n}
    BY <1>2 DEF Occurrences
  <2> QED
    BY <1>1, <1>2, <2>1, CountType, FS_AddElement DEF Count
<1>3. CASE e # r
  <2>1. Occurrences(Append(list, e), r) = Occurrences(list, r)
    BY <1>3 DEF Occurrences
  <2> QED
    BY <1>3, <2>1, CountType DEF Count
<1> QED
  BY <1>2, <1>3

\* Overwriting one entry.
LEMMA CountExcept ==
    ASSUME NEW S, NEW list \in Seq(S), NEW k \in 1 .. Len(list), NEW e \in S, NEW r
    PROVE  Count([list EXCEPT ![k] = e], r)
             = Count(list, r) - (IF list[k] = r THEN 1 ELSE 0) + (IF e = r THEN 1 ELSE 0)
<1> DEFINE new == [list EXCEPT ![k] = e]
           old == Occurrences(list, r)
           rest == old \ {k}
<1>1. IsFiniteSet(old) /\ Cardinality(old) = Count(list, r) /\ Count(list, r) \in Nat
  BY CountType DEF Count
<1>2. /\ IsFiniteSet(rest)
      /\ Cardinality(rest) = Count(list, r) - (IF list[k] = r THEN 1 ELSE 0)
  <2>1. k \in old <=> list[k] = r
    BY DEF Occurrences
  <2> HIDE DEF old
  <2> QED
    BY <1>1, <2>1, FS_RemoveElement
<1>3. Occurrences(new, r) = IF e = r THEN rest \cup {k} ELSE rest
  <2>1. new \in Seq(S) /\ Len(new) = Len(list)
    OBVIOUS
  <2>2. \A j \in 1 .. Len(list) : new[j] = IF j = k THEN e ELSE list[j]
    OBVIOUS
  <2> HIDE DEF new
  <2> QED
    BY <2>1, <2>2 DEF Occurrences
<1> HIDE DEF new, rest
<1>4. k \notin rest
  BY DEF rest
<1>5. CASE e = r
  <2>1. IsFiniteSet(rest \cup {k}) /\ Cardinality(rest \cup {k}) = Cardinality(rest) + 1
    BY ONLY <1>2, <1>4, FS_AddElement
  <2>2. Cardinality(rest) \in Nat
    BY ONLY <1>2, FS_CardinalityType
  <2>3. Count(new, r) = Cardinality(rest) + 1
    BY ONLY <1>3, <1>5, <2>1 DEF Count
  <2>4. Cardinality(rest) = Count(list, r) - (IF list[k] = r THEN 1 ELSE 0)
    BY ONLY <1>2
  <2> QED
    BY ONLY <1>1, <1>5, <2>2, <2>3, <2>4 DEF new
<1>6. CASE e # r
  BY <1>1, <1>2, <1>3, <1>6, FS_CardinalityType DEF Count, new
<1> QED
  BY <1>5, <1>6

\* Taking the first entry off a list.
LEMMA CountTail ==
    ASSUME NEW S, NEW list \in Seq(S), list # <<>>, NEW r
    PROVE  Count(Tail(list), r) = Count(list, r) - (IF Head(list) = r THEN 1 ELSE 0)
<1> DEFINE old == Occurrences(list, r)
           new == Occurrences(Tail(list), r)
           rest == old \ {1}
           shift == [j \in new |-> j + 1]
<1>1. IsFiniteSet(old) /\ Cardinality(old) = Count(list, r) /\ Count(list, r) \in Nat
  BY CountType DEF Count
<1>2. IsFiniteSet(new) /\ Cardinality(new) = Count(Tail(list), r)
  <2>1. Tail(list) \in Seq(S)
    OBVIOUS
  <2> QED
    BY <2>1, CountType DEF Count
<1>3. Cardinality(rest) = Count(list, r) - (IF Head(list) = r THEN 1 ELSE 0)
  <2>1. 1 \in old <=> Head(list) = r
    BY DEF Occurrences
  <2> HIDE DEF old, shift, new
  <2>2. CASE 1 \in old
    BY <1>1, <2>1, <2>2, FS_RemoveElement
  <2>3. CASE 1 \notin old
    <3>1. rest = old
      BY <2>3
    <3> HIDE DEF rest
    <3> QED
      BY <1>1, <2>1, <2>3, <3>1
  <2> QED
    BY <2>2, <2>3
<1>4. Cardinality(rest) = Cardinality(new)
  <2>1. shift \in [new -> rest]
    BY DEF Occurrences
  <2>2. \A a, b \in new : shift[a] = shift[b] => a = b
    BY DEF Occurrences
  <2>3. \A t \in rest : \E a \in new : shift[a] = t
    <3> SUFFICES ASSUME NEW t \in rest PROVE \E a \in new : shift[a] = t
      OBVIOUS
    <3>1. t - 1 \in new
      BY DEF Occurrences
    <3>2. shift[t - 1] = t
      BY <3>1 DEF Occurrences
    <3> QED
      BY <3>1, <3>2
  <2>4. shift \in Bijection(new, rest)
    BY <2>1, <2>2, <2>3, Fun_IsBij
  <2> QED
    BY <1>2, <2>4, FS_Bijection DEF ExistsBijection
<1> QED
  BY <1>2, <1>3, <1>4

\* Taking any entry off a list by moving the last one into its place.
LEMMA CountDropEntry ==
    ASSUME NEW S, NEW list \in Seq(S), NEW k \in 1 .. Len(list), NEW r
    PROVE  /\ DropEntry(list, k) \in Seq(S)
           /\ Len(DropEntry(list, k)) = Len(list) - 1
           /\ Count(DropEntry(list, k), r) = Count(list, r) - (IF list[k] = r THEN 1 ELSE 0)
<1> DEFINE n == Len(list)
           new == DropEntry(list, k)
           old == Occurrences(list, r)
           rest == old \ {k}
<1>1. new \in Seq(S) /\ Len(new) = n - 1
  <2>1. new \in [1 .. n - 1 -> S] /\ n - 1 \in Nat
    BY DEF DropEntry
  <2> QED
    BY <2>1
<1>2. IsFiniteSet(old) /\ Cardinality(old) = Count(list, r) /\ Count(list, r) \in Nat
  BY CountType DEF Count
<1>3. IsFiniteSet(rest) /\ Cardinality(rest) = Count(list, r) - (IF list[k] = r THEN 1 ELSE 0)
  <2>1. k \in old <=> list[k] = r
    BY DEF Occurrences
  <2> HIDE DEF old
  <2> QED
    BY <1>2, <2>1, FS_RemoveElement
<1>4. CASE k = n \/ list[n] # r
  <2>1. Occurrences(new, r) = rest
    BY <1>1, <1>4 DEF DropEntry, Occurrences
  <2> QED
    BY <1>1, <1>3, <2>1 DEF Count
<1>5. CASE k # n /\ list[n] = r
  <2>1. Occurrences(new, r) = (rest \ {n}) \cup {k}
    BY <1>1, <1>5 DEF DropEntry, Occurrences
  <2>2. n \in rest
    BY <1>5 DEF Occurrences
  <2>3. k \notin rest \ {n}
    OBVIOUS
  <2> HIDE DEF rest
  <2>4. IsFiniteSet(rest \ {n}) /\ Cardinality(rest \ {n}) = Cardinality(rest) - 1
    BY <1>3, <2>2, FS_RemoveElement
  <2>5. Cardinality((rest \ {n}) \cup {k}) = Cardinality(rest) - 1 + 1
    BY <2>3, <2>4, FS_AddElement
  <2>6. Cardinality(rest) \in Nat
    BY <1>3, FS_CardinalityType
  <2> QED
    BY <1>1, <1>3, <2>1, <2>5, <2>6 DEF Count
<1> QED
  BY <1>1, <1>4, <1>5

\* remove_adjacent_from drops one entry for the region, when there is one, and no other.
LEMMA CountWithout ==
    ASSUME NEW S, NEW list \in Seq(S), NEW r, Contains(list, r), NEW t
    PROVE  /\ Without(list, r) \in Seq(S)
           /\ Len(Without(list, r)) = Len(list) - 1
           /\ Count(Without(list, r), t) = Count(list, t) - (IF r = t THEN 1 ELSE 0)
BY FirstIndexFound, CountDropEntry DEF Without

\* replace_adjacent turns one entry for r2, when there is one, into an entry for r3.
LEMMA CountReplaced ==
    ASSUME NEW S, NEW list \in Seq(S), NEW r2, NEW r3 \in S, Contains(list, r2), NEW t
    PROVE  /\ Replaced(list, r2, r3) \in Seq(S)
           /\ Len(Replaced(list, r2, r3)) = Len(list)
           /\ Count(Replaced(list, r2, r3), t)
                = Count(list, t) - (IF r2 = t THEN 1 ELSE 0) + (IF r3 = t THEN 1 ELSE 0)
<1>1. FirstIndex(list, r2) \in 1 .. Len(list) /\ list[FirstIndex(list, r2)] = r2
  BY FirstIndexFound
<1>2. Replaced(list, r2, r3) = [list EXCEPT ![FirstIndex(list, r2)] = r3]
  BY DEF Replaced
<1> DEFINE k == FirstIndex(list, r2)
<1>3. [list EXCEPT ![k] = r3] \in Seq(S) /\ Len([list EXCEPT ![k] = r3]) = Len(list)
  BY <1>1
<1>4. Count([list EXCEPT ![k] = r3], t)
        = Count(list, t) - (IF list[k] = t THEN 1 ELSE 0) + (IF r3 = t THEN 1 ELSE 0)
  BY <1>1, CountExcept
<1> QED
  BY <1>1, <1>2, <1>3, <1>4

\* The regions of a list are those listed at least once.
LEMMA ElementsCounted ==
    ASSUME NEW S, NEW list \in Seq(S), NEW r
    PROVE  r \in ElementsOf(list) <=> Count(list, r) > 0
BY CountType DEF ElementsOf, Contains

\* The first entry and the others.
LEMMA TailElements ==
    ASSUME NEW S, NEW list \in Seq(S), list # <<>>
    PROVE  /\ Head(list) \in S /\ Tail(list) \in Seq(S)
           /\ ElementsOf(list) = {Head(list)} \cup ElementsOf(Tail(list))
<1>1. Head(list) = list[1] /\ Head(list) \in S /\ Tail(list) \in Seq(S)
  OBVIOUS
<1>2. ASSUME NEW k \in 1 .. Len(list), k # 1
      PROVE  k - 1 \in 1 .. Len(Tail(list)) /\ list[k] = Tail(list)[k - 1]
  BY <1>2
<1>3. ASSUME NEW k \in 1 .. Len(Tail(list))
      PROVE  k + 1 \in 1 .. Len(list) /\ list[k + 1] = Tail(list)[k]
  OBVIOUS
<1>4. 1 \in 1 .. Len(list)
  OBVIOUS
<1>5. ElementsOf(list) \subseteq {Head(list)} \cup ElementsOf(Tail(list))
  BY <1>1, <1>2 DEF ElementsOf
<1>6. {Head(list)} \cup ElementsOf(Tail(list)) \subseteq ElementsOf(list)
  BY <1>1, <1>3, <1>4 DEF ElementsOf
<1> QED
  BY <1>1, <1>5, <1>6

\* replace_adjacent brings no other region into a list than r3.
LEMMA ReplacedElements ==
    ASSUME NEW S, NEW list \in Seq(S), NEW r2, NEW r3 \in S, Contains(list, r2)
    PROVE  /\ Replaced(list, r2, r3) \in Seq(S)
           /\ Len(Replaced(list, r2, r3)) = Len(list)
           /\ ElementsOf(Replaced(list, r2, r3)) \subseteq ElementsOf(list) \cup {r3}
<1>1. Replaced(list, r2, r3) \in Seq(S) /\ Len(Replaced(list, r2, r3)) = Len(list)
  BY FirstIndexFound DEF Replaced
<1>2. \A k \in 1 .. Len(list) : Replaced(list, r2, r3)[k] \in {list[k], r3}
  BY DEF Replaced
<1> QED
  BY <1>1, <1>2 DEF ElementsOf

\* The regions of a list of two.
LEMMA PairElements ==
    ASSUME NEW a, NEW b PROVE a \in ElementsOf(<<a, b>>) /\ b \in ElementsOf(<<a, b>>)
<1>1. 1 \in 1 .. Len(<<a, b>>) /\ 2 \in 1 .. Len(<<a, b>>) /\ <<a, b>>[1] = a /\ <<a, b>>[2] = b
  OBVIOUS
<1> QED
  BY <1>1 DEF ElementsOf

\* Adding an entry brings no other region into a list.
LEMMA AppendElements ==
    ASSUME NEW S, NEW list \in Seq(S), NEW e \in S
    PROVE  /\ Append(list, e) \in Seq(S)
           /\ Len(Append(list, e)) = Len(list) + 1
           /\ ElementsOf(Append(list, e)) \subseteq ElementsOf(list) \cup {e}
<1>1. /\ Len(Append(list, e)) = Len(list) + 1
      /\ \A k \in 1 .. Len(list) : Append(list, e)[k] = list[k]
      /\ Append(list, e)[Len(list) + 1] = e
  OBVIOUS
<1>2. \A k \in 1 .. Len(list) + 1 : k = Len(list) + 1 \/ k \in 1 .. Len(list)
  OBVIOUS
<1> QED
  BY <1>1, <1>2 DEF ElementsOf

\* Adding an entry in front, as merge_regions does to the list of freed regions.
LEMMA PushElements ==
    ASSUME NEW S, NEW list \in Seq(S), NEW e \in S
    PROVE  /\ <<e>> \o list \in Seq(S)
           /\ Len(<<e>> \o list) = Len(list) + 1
           /\ (<<e>> \o list)[1] = e
           /\ \A k \in 1 .. Len(list) : /\ (<<e>> \o list)[k + 1] = list[k]
                                        /\ k + 1 \in 1 .. Len(<<e>> \o list)
<1>1. /\ <<e>> \in Seq(S) /\ Len(<<e>>) = 1 /\ <<e>>[1] = e
      /\ <<e>> \o list \in Seq(S) /\ Len(<<e>> \o list) = Len(list) + 1
  OBVIOUS
<1> QED
  BY <1>1

-----------------------------------------------------------------------------
(***************************************************************************)
(* The inductive invariant                                                 *)
(***************************************************************************)
\* The number of the pixel at the cursor, row after row.
Position == (y - 1) * Width + x
Merging == pc \in {"common", "transfer", "mergeEnd"}
Scanning == pc \in {"read", "link"} \/ Merging

\* Every pixel read makes at most one reference, and every region was made with a reference.
CountInv ==
    /\ regionCount <= refCount /\ refCount <= Len(label)
    /\ pc = "read" => Len(source) = Position - 1
    /\ pc = "link" \/ Merging => Len(source) = Position
    /\ pc = "read" \/ Merging => Len(label) = Position - 1
    /\ pc = "link" => Len(label) = Position
    /\ pc \in {"bottom", "done"} => Len(label) = Width * Height

RowsInv ==
    /\ Len(currentRow) = IF pc = "link" THEN x ELSE IF Scanning THEN x - 1 ELSE Width
    /\ y > 1 => Len(previousRow) = Width
    /\ \A k \in 1 .. Len(currentRow) : currentRow[k] \in 1 .. refCount
    /\ \A k \in 1 .. Len(previousRow) : previousRow[k] \in 1 .. refCount

\* A root is found at once: the cursor moves only away from references that redirect.
CursorInv ==
    /\ Scanning /\ y = 1 => result = Null
    /\ Scanning /\ y > 1 => result \in 1 .. refCount
    /\ pc = "read" /\ y > 1 /\ IsRoot(previousRow[x]) => result = previousRow[x]
    /\ pc = "bottom" => result \in 1 .. refCount
    /\ pc = "bottom" /\ IsRoot(currentRow[x]) => result = currentRow[x]

RedirectInv == \A q \in 1 .. refCount : redirect[q] \in 1 .. refCount

FreedInv ==
    /\ \A k \in 1 .. Len(freed) : freed[k] \in 1 .. regionCount
    /\ \A j, k \in 1 .. Len(freed) : freed[j] = freed[k] => j = k

\* The cells beside the cursor hold roots, and a merge is between two of them.
RootsInv ==
    /\ (pc = "read" \/ Merging) /\ x > 1 => IsRoot(West)
    /\ pc = "link" => IsRoot(currentRow[x])
    /\ Merging => x > 1 /\ y > 1 /\ IsRoot(North) /\ West # North

\* make_adjacent is only called on the new region and a different-coloured one.
LinkInv ==
    /\ pc # "link" => neighbours = <<>>
    /\ pc = "link" => \A k \in 1 .. Len(neighbours) :
          neighbours[k] \in Live /\ colour[neighbours[k]] # colour[Here]

\* A merge is between regions of one colour; it gives the survivor no list longer than there is
\* room for, and a list that saturates is emptied before the merge ends.
MergeInv ==
    /\ Merging => colour[R1] = colour[R2]
    /\ pc \in {"common", "transfer"} => Saturated \notin flags[R1] \cup flags[R2]
    /\ pc = "transfer" => Len(adjacent[R1]) + Len(adjacent[R2]) <= MaxAdjacent
    /\ pc = "mergeEnd" => \A r \in {R1, R2} : adjacent[r] = <<>> \/ r \in ElementsOf(saturating)
    /\ saturating # <<>> => pc \in {"link", "mergeEnd"}

IInv ==
    /\ TypeOK /\ CountInv /\ RowsInv /\ CursorInv /\ RedirectInv /\ OneOwner /\ FreedInv
    /\ RootsInv /\ LinkInv /\ MergeInv /\ BidirectionalAdjacency /\ SaturatedDetached

-----------------------------------------------------------------------------
\* The assumptions on the constants, in the form the proofs below use.
LEMMA SizeFacts ==
    /\ Width \in Nat /\ Width >= 1 /\ Height \in Nat /\ Height >= 1
    /\ MaxAdjacent \in Nat /\ MaxAdjacent >= 1 /\ Width * Height \in Nat /\ Width * Height >= 1
BY SizeAssumption

\* The invariant holds before the first pixel.
LEMMA InitIInv == Init => IInv
<1> SUFFICES ASSUME Init PROVE IInv
  OBVIOUS
<1> USE SizeFacts
<1>1. TypeOK
  BY DEF Init, TypeOK, Boxes, EmptyBox, Regions, Refs, Flags, Null, NoColour
<1>2. CountInv /\ RowsInv /\ CursorInv /\ RedirectInv /\ OneOwner /\ FreedInv
  BY DEF Init, CountInv, RowsInv, CursorInv, RedirectInv, OneOwner, FreedInv, Position, Scanning,
         Merging, Live, ElementsOf, Null, IsRoot, Regions, Refs
<1>3. RootsInv /\ LinkInv /\ MergeInv
  BY DEF Init, RootsInv, LinkInv, MergeInv, Merging
<1>4. BidirectionalAdjacency /\ SaturatedDetached
  <2>1. \A a \in Regions : adjacent[a] = <<>> /\ flags[a] = {}
    BY DEF Init
  <2>2. \A a \in Regions : ElementsOf(adjacent[a]) = {}
    BY <2>1 DEF ElementsOf
  <2>3. \A a, b \in Regions : Count(adjacent[a], b) = 0
    BY <2>1, CountEmpty
  <2> QED
    BY <2>1, <2>2, <2>3 DEF BidirectionalAdjacency, SaturatedDetached
<1> QED
  BY <1>1, <1>2, <1>3, <1>4 DEF IInv

\* Following a redirect moves only the cursor.
LEMMA FollowRedirectIInv == IInv /\ FollowRedirect => IInv'
<1> SUFFICES ASSUME IInv, FollowRedirect PROVE IInv'
  OBVIOUS
<1> USE SizeFacts DEF IInv, FollowRedirect, regionVars, refVars, callVars, inputVars
<1>1. TypeOK'
  BY DEF TypeOK, IsRoot
<1>2. CountInv' /\ RowsInv' /\ RedirectInv' /\ OneOwner' /\ FreedInv'
  BY DEF CountInv, RowsInv, RedirectInv, OneOwner, FreedInv, Position, Scanning,
         Merging, Live, ElementsOf, IsRoot
<1>3. CursorInv'
  BY DEF CursorInv, RedirectInv, Scanning, Merging, IsRoot
<1>4. RootsInv' /\ LinkInv' /\ MergeInv'
  BY DEF RootsInv, LinkInv, MergeInv, Merging, IsRoot, West, North, Here
<1>5. BidirectionalAdjacency' /\ SaturatedDetached'
  BY DEF BidirectionalAdjacency, SaturatedDetached, Live
<1> QED
  BY <1>1, <1>2, <1>3, <1>4, <1>5

-----------------------------------------------------------------------------
(***************************************************************************)
(* Steps that change adjacency lists only                                  *)
(***************************************************************************)
\* What these steps leave alone; a neighbour may be dealt with, and a merge may go on.
ReferencesKept ==
    /\ UNCHANGED <<x, y, colour, box, regionCount, freed, refVars, rowVars, inputVars>>
    /\ pc' = pc \/ (Merging /\ Merging')
    /\ neighbours' = neighbours \/ (neighbours # <<>> /\ neighbours' = Tail(neighbours))

\* The parts of the invariant about references, cells and free regions survive such a step.
LEMMA ReferencesKeptInv ==
    IInv /\ ReferencesKept =>
        /\ CountInv' /\ RowsInv' /\ CursorInv' /\ RedirectInv' /\ OneOwner' /\ FreedInv'
        /\ RootsInv' /\ LinkInv' /\ neighbours' \in Seq(Regions)
        /\ Live' = Live /\ R1' = R1 /\ R2' = R2 /\ Merging' = Merging
<1> SUFFICES ASSUME IInv, ReferencesKept
             PROVE  /\ CountInv' /\ RowsInv' /\ CursorInv' /\ RedirectInv' /\ OneOwner' /\ FreedInv'
                    /\ RootsInv' /\ LinkInv' /\ neighbours' \in Seq(Regions)
                    /\ Live' = Live /\ R1' = R1 /\ R2' = R2 /\ Merging' = Merging
  OBVIOUS
<1> USE DEF IInv, ReferencesKept, refVars, rowVars, inputVars
<1>1. Live' = Live /\ R1' = R1 /\ R2' = R2 /\ Here' = Here /\ West' = West /\ North' = North
      /\ Merging' = Merging /\ Scanning' = Scanning /\ Position' = Position
  BY DEF Live, R1, R2, Here, West, North, Merging, Scanning, Position
<1>2. \A q : IsRoot(q)' <=> IsRoot(q)
  BY DEF IsRoot
<1>3. \A p \in {"read", "link", "bottom", "done"} : pc' = p <=> pc = p
  BY DEF Merging
<1>4. CountInv' /\ RowsInv' /\ CursorInv'
  BY <1>1, <1>2, <1>3 DEF CountInv, RowsInv, CursorInv
<1>5. RedirectInv' /\ OneOwner' /\ FreedInv' /\ RootsInv'
  BY <1>1, <1>2, <1>3 DEF RedirectInv, OneOwner, FreedInv, RootsInv
<1>6. neighbours \in Seq(Regions)
  BY DEF TypeOK
<1>7. /\ neighbours' \in Seq(Regions)
      /\ \A k \in 1 .. Len(neighbours') : \E j \in 1 .. Len(neighbours) : neighbours'[k] = neighbours[j]
  <2>1. CASE neighbours' = neighbours
    BY <1>6, <2>1
  <2>2. CASE neighbours # <<>> /\ neighbours' = Tail(neighbours)
    <3>1. \A k \in 1 .. Len(neighbours') :
              k + 1 \in 1 .. Len(neighbours) /\ neighbours'[k] = neighbours[k + 1]
      BY <1>6, <2>2
    <3> QED
      BY <1>6, <2>2, <3>1
  <2> QED
    BY <2>1, <2>2
<1>8. LinkInv'
  BY <1>1, <1>3, <1>7 DEF LinkInv
<1> QED
  BY <1>1, <1>4, <1>5, <1>7, <1>8

\* Dropping the entry for each other from the lists of two regions keeps adjacency bidirectional.
LEMMA UnlinkPair ==
    ASSUME TypeOK, BidirectionalAdjacency,
           NEW new \in [Regions -> Seq(Regions)],
           NEW a \in Regions, NEW r \in Regions, a # r,
           \A t \in Regions \ {a, r} : new[t] = adjacent[t],
           \A t \in Regions : Count(new[a], t) = Count(adjacent[a], t) - (IF r = t THEN 1 ELSE 0),
           \A t \in Regions : Count(new[r], t) = Count(adjacent[r], t) - (IF a = t THEN 1 ELSE 0)
    PROVE  /\ \A p, q \in Regions : Count(new[p], q) = Count(new[q], p)
           /\ \A p \in Regions : ElementsOf(new[p]) \subseteq ElementsOf(adjacent[p])
<1>0. adjacent \in [Regions -> Seq(Regions)]
  BY DEF TypeOK
<1>1. \A p, q \in Regions : Count(new[p], q) \in Nat /\ Count(adjacent[p], q) \in Nat
  BY <1>0, CountType
<1>2. \A p, q \in Regions : Count(adjacent[p], q) = Count(adjacent[q], p)
  BY DEF BidirectionalAdjacency
<1>3. /\ Count(new[a], r) = Count(adjacent[a], r) - 1
      /\ Count(new[r], a) = Count(adjacent[r], a) - 1
  OBVIOUS
<1>4. /\ \A t \in Regions \ {r} : Count(new[a], t) = Count(adjacent[a], t)
      /\ \A t \in Regions \ {a} : Count(new[r], t) = Count(adjacent[r], t)
  <2>1. ASSUME NEW t \in Regions, t # r PROVE Count(new[a], t) = Count(adjacent[a], t)
    <3>1. Count(new[a], t) = Count(adjacent[a], t) - 0
      BY <2>1
    <3> QED
      BY <1>1, <3>1
  <2>2. ASSUME NEW t \in Regions, t # a PROVE Count(new[r], t) = Count(adjacent[r], t)
    <3>1. Count(new[r], t) = Count(adjacent[r], t) - 0
      BY <2>2
    <3> QED
      BY <1>1, <3>1
  <2> QED
    BY <2>1, <2>2
<1>5. ASSUME NEW p \in Regions, NEW q \in Regions
      PROVE  /\ Count(new[p], q) = Count(new[q], p)
             /\ Count(new[p], q) <= Count(adjacent[p], q)
  <2>1. CASE p = a /\ q = r
    BY <1>1, <1>2, <1>3, <2>1
  <2>2. CASE p = r /\ q = a
    BY <1>1, <1>2, <1>3, <2>2
  <2>3. CASE ~(p = a /\ q = r) /\ ~(p = r /\ q = a)
    <3>1. Count(new[p], q) = Count(adjacent[p], q)
      BY <1>4, <2>3
    <3>2. Count(new[q], p) = Count(adjacent[q], p)
      BY <1>4, <2>3
    <3> QED
      BY <1>1, <1>2, <3>1, <3>2
  <2> QED
    BY <2>1, <2>2, <2>3
<1>6. ASSUME NEW p \in Regions, NEW q \in ElementsOf(new[p]) PROVE q \in ElementsOf(adjacent[p])
  <2>1. q \in Regions
    BY DEF ElementsOf
  <2>2. Count(new[p], q) > 0
    <3>1. new[p] \in Seq(Regions)
      OBVIOUS
    <3> QED
      BY <3>1, ElementsCounted
  <2>3. Count(adjacent[p], q) > 0
    <3>1. Count(new[p], q) <= Count(adjacent[p], q)
      BY <1>5, <2>1
    <3>2. Count(new[p], q) \in Nat /\ Count(adjacent[p], q) \in Nat
      BY <1>1, <2>1
    <3> QED
      BY <2>2, <3>1, <3>2
  <2> QED
    BY <1>0, <2>3, ElementsCounted
<1> QED
  BY <1>5, <1>6

\* Regions that list each other: entries are matched, and never between a region and itself.
LEMMA ListedBothWays ==
    ASSUME TypeOK, BidirectionalAdjacency, NEW r \in Regions, NEW a \in ElementsOf(adjacent[r])
    PROVE  /\ a \in Regions /\ a # r /\ a \in Live /\ colour[a] # colour[r]
           /\ Contains(adjacent[r], a) /\ Contains(adjacent[a], r)
<1>1. a \in Regions
  BY SMTT(60) DEF TypeOK, ElementsOf
<1>2. a \in Live /\ colour[a] # colour[r]
  BY DEF BidirectionalAdjacency
<1>3. Contains(adjacent[r], a)
  BY DEF ElementsOf, Contains
<1>4. Count(adjacent[r], a) > 0
  BY <1>1, <1>3, CountType DEF TypeOK
<1>5. Count(adjacent[a], r) > 0
  BY <1>1, <1>4 DEF BidirectionalAdjacency
<1>6. Contains(adjacent[a], r)
  BY <1>1, <1>5, CountType DEF TypeOK
<1> QED
  BY <1>1, <1>2, <1>3, <1>6

\* The regions of a merge are in use, distinct, and of one colour.
LEMMA MergedRegions ==
    ASSUME IInv, Merging
    PROVE  /\ R1 \in Regions /\ R2 \in Regions /\ R1 # R2 /\ R1 \in Live /\ R2 \in Live
           /\ colour[R1] = colour[R2]
           /\ North \in 1 .. refCount /\ West \in 1 .. refCount /\ IsRoot(North) /\ IsRoot(West)
           /\ North # West
<1> USE SizeFacts DEF IInv
<1>1. x - 1 \in 1 .. Len(currentRow) /\ IsRoot(West) /\ IsRoot(North) /\ West # North /\ y > 1
  BY DEF RootsInv, RowsInv, Merging, Scanning, TypeOK
<1>2. West \in 1 .. refCount /\ North \in 1 .. refCount
  BY <1>1 DEF West, North, RowsInv, CursorInv, Scanning
<1>3. R1 \in Live /\ R2 \in Live /\ R1 # R2
  <2>1. regionOf[West] \in Live /\ regionOf[North] \in Live
    BY <1>1, <1>2 DEF OneOwner
  <2>2. \A r \in Live : r # Null
    BY DEF Live, Null
  <2> QED
    BY <1>1, <1>2, <2>1, <2>2 DEF OneOwner, R1, R2
<1>4. Live \subseteq Regions
  BY DEF Live, TypeOK, Regions
<1> QED
  BY <1>1, <1>2, <1>3, <1>4 DEF MergeInv

\* What of the invariant holds when entries for each other leave the lists of two regions and no
\* region that still has a list is marked saturated.
LEMMA UnlinkedInv ==
    ASSUME IInv, ReferencesKept,
           NEW a \in Regions, NEW r \in Regions, a # r,
           \A t \in Regions \ {a, r} : adjacent'[t] = adjacent[t],
           adjacent' = [t \in Regions |-> adjacent'[t]],
           adjacent'[a] \in Seq(Regions), Len(adjacent'[a]) = Len(adjacent[a]) - 1,
           adjacent'[r] \in Seq(Regions), Len(adjacent'[r]) = Len(adjacent[r]) - 1,
           \A t \in Regions : Count(adjacent'[a], t) = Count(adjacent[a], t) - (IF r = t THEN 1 ELSE 0),
           \A t \in Regions : Count(adjacent'[r], t) = Count(adjacent[r], t) - (IF a = t THEN 1 ELSE 0),
           flags' \in [Regions -> SUBSET Flags],
           \A t \in Regions : flags'[t] \subseteq flags[t] \cup {Fragmented},
           saturating' = saturating, i' \in 1 .. MaxAdjacent + 1, pc' = pc
    PROVE  /\ MergeInv' => IInv'
           /\ \A t \in Regions : adjacent[t] = <<>> => adjacent'[t] = <<>>
<1> USE DEF IInv
<1>0. adjacent \in [Regions -> Seq(Regions)]
  BY DEF TypeOK
<1>1. \A t \in Regions : adjacent'[t] \in Seq(Regions) /\ Len(adjacent'[t]) <= Len(adjacent[t])
  <2>1. \A t \in Regions : Len(adjacent[t]) \in Nat
    BY <1>0
  <2>2. ASSUME NEW t \in Regions
        PROVE  adjacent'[t] \in Seq(Regions) /\ Len(adjacent'[t]) <= Len(adjacent[t])
    <3>1. CASE t = a
      BY <2>1, <3>1
    <3>2. CASE t = r
      BY <2>1, <3>2
    <3>3. CASE t \notin {a, r}
      BY <1>0, <2>1, <3>3
    <3> QED
      BY <3>1, <3>2, <3>3
  <2> QED
    BY <2>2
<1>2. adjacent' \in [Regions -> Seq(Regions)]
  BY <1>1
<1>3. TypeOK'
  <2>1. \A t \in Regions : Len(adjacent'[t]) <= MaxAdjacent
    <3>1. \A t \in Regions : Len(adjacent[t]) <= MaxAdjacent
      BY DEF TypeOK
    <3>2. \A t \in Regions : Len(adjacent[t]) \in Nat /\ Len(adjacent'[t]) \in Nat
      BY <1>0, <1>2, SMTT(60)
    <3>3. ASSUME NEW t \in Regions PROVE Len(adjacent'[t]) <= MaxAdjacent
      <4>1. Len(adjacent'[t]) <= Len(adjacent[t]) /\ Len(adjacent[t]) <= MaxAdjacent
        BY <1>1, <3>1
      <4>2. Len(adjacent[t]) \in Nat /\ Len(adjacent'[t]) \in Nat /\ MaxAdjacent \in Nat
        BY <3>2, SizeFacts
      <4> QED
        BY <4>1, <4>2
    <3> QED
      BY <3>3
  <2> QED
    BY <1>2, <2>1, ReferencesKeptInv DEF TypeOK, ReferencesKept, refVars, rowVars, inputVars
<1>4. BidirectionalAdjacency'
  <2>1. /\ \A p, q \in Regions : Count(adjacent'[p], q) = Count(adjacent'[q], p)
        /\ \A p \in Regions : ElementsOf(adjacent'[p]) \subseteq ElementsOf(adjacent[p])
    BY <1>2, UnlinkPair, ZenonT(60)
  <2> QED
    BY <2>1, ReferencesKeptInv DEF BidirectionalAdjacency, ReferencesKept
<1>5. \A t \in Regions : adjacent[t] = <<>> => adjacent'[t] = <<>>
  <2>1. \A t \in Regions : adjacent[t] = <<>> => Len(adjacent'[t]) = 0
    <3>1. \A t \in Regions : Len(adjacent'[t]) \in Nat
      BY <1>2
    <3> QED
      BY <1>1, <3>1
  <2> QED
    BY <1>2, <2>1
<1>6. SaturatedDetached'
  BY <1>5 DEF SaturatedDetached, Fragmented, Saturated
<1> QED
  BY <1>3, <1>4, <1>5, <1>6, ReferencesKeptInv

\* make_saturated, one turn of its loop: two matching entries go.
LEMMA DetachNeighbourIInv == IInv /\ DetachNeighbour => IInv'
<1> SUFFICES ASSUME IInv, DetachNeighbour PROVE IInv'
  OBVIOUS
<1> USE DEF IInv
<1> DEFINE r == Head(saturating)
           a == Head(adjacent[r])
<1>0. adjacent \in [Regions -> Seq(Regions)] /\ flags \in [Regions -> SUBSET Flags]
      /\ saturating \in Seq(Regions)
  BY DEF TypeOK
<1>1. /\ saturating # <<>> /\ adjacent[r] # <<>>
      /\ adjacent' = [adjacent EXCEPT ![a] = Without(@, r), ![r] = Tail(@)]
      /\ flags' = [flags EXCEPT ![a] = @ \cup {Fragmented}]
      /\ saturating' = saturating /\ i' = i
      /\ pc' = pc /\ ReferencesKept
  BY DEF DetachNeighbour, ReferencesKept, callVars
<1>2. r \in Regions /\ a \in ElementsOf(adjacent[r])
  BY <1>0, <1>1 DEF ElementsOf
<1>3. a \in Regions /\ a # r /\ Contains(adjacent[a], r)
  BY <1>2, ListedBothWays, SMTT(60)
<1>4. /\ adjacent'[a] = Without(adjacent[a], r)
      /\ adjacent'[r] = Tail(adjacent[r])
      /\ \A t \in Regions \ {a, r} : adjacent'[t] = adjacent[t]
      /\ adjacent' = [t \in Regions |-> adjacent'[t]]
  BY <1>0, <1>1, <1>2, <1>3
<1>5. /\ adjacent'[a] \in Seq(Regions) /\ Len(adjacent'[a]) = Len(adjacent[a]) - 1
      /\ \A t \in Regions : Count(adjacent'[a], t) = Count(adjacent[a], t) - (IF r = t THEN 1 ELSE 0)
  <2>1. adjacent[a] \in Seq(Regions)
    BY <1>0, <1>3
  <2> HIDE DEF a, r
  <2> QED
    BY <1>3, <1>4, <2>1, CountWithout, SMTT(60)
<1>6. /\ adjacent'[r] \in Seq(Regions) /\ Len(adjacent'[r]) = Len(adjacent[r]) - 1
      /\ \A t \in Regions : Count(adjacent'[r], t) = Count(adjacent[r], t) - (IF a = t THEN 1 ELSE 0)
  <2>1. adjacent[r] \in Seq(Regions) /\ adjacent[r] # <<>> /\ adjacent'[r] = Tail(adjacent[r])
    BY <1>0, <1>1, <1>2, <1>4
  <2>2. ASSUME NEW t \in Regions
        PROVE  Count(Tail(adjacent[r]), t) = Count(adjacent[r], t) - (IF a = t THEN 1 ELSE 0)
    BY <2>1, CountTail
  <2> QED
    BY <2>1, <2>2, SMTT(60)
<1> HIDE DEF a, r
<1>7. /\ flags' \in [Regions -> SUBSET Flags]
      /\ \A t \in Regions : flags'[t] \subseteq flags[t] \cup {Fragmented}
  BY <1>0, <1>1, <1>3 DEF Flags, Fragmented
<1>8. /\ MergeInv' => IInv'
      /\ \A t \in Regions : adjacent[t] = <<>> => adjacent'[t] = <<>>
  <2>1. i' \in 1 .. MaxAdjacent + 1
    BY <1>1 DEF TypeOK
  <2> QED
    BY <1>1, <1>2, <1>3, <1>4, <1>5, <1>6, <1>7, <2>1, UnlinkedInv, ZenonT(60)
<1>9. MergeInv'
  <2>1. R1' = R1 /\ R2' = R2 /\ Merging' = Merging /\ pc' = pc /\ colour' = colour
    BY <1>1, ReferencesKeptInv DEF ReferencesKept
  <2>2. pc \in {"link", "mergeEnd"}
    BY <1>1 DEF MergeInv
  <2>3. CASE pc = "link"
    BY <1>1, <2>1, <2>3 DEF MergeInv, Merging
  <2>4. CASE pc = "mergeEnd"
    <3>1. R1 \in Regions /\ R2 \in Regions
      BY <2>4, MergedRegions DEF Merging
    <3> QED
      BY <1>1, <1>8, <2>1, <2>4, <3>1 DEF MergeInv, Merging
  <2> QED
    BY <2>2, <2>3, <2>4
<1> QED
  BY <1>8, <1>9

\* make_saturated, after its loop: the list of the region being marked is empty.
LEMMA MarkSaturatedIInv == IInv /\ MarkSaturated => IInv'
<1> SUFFICES ASSUME IInv, MarkSaturated PROVE IInv'
  OBVIOUS
<1> USE DEF IInv
<1> DEFINE r == Head(saturating)
<1>1. /\ saturating # <<>> /\ adjacent[r] = <<>> /\ adjacent' = adjacent
      /\ flags' = [flags EXCEPT ![r] = @ \cup {Saturated}]
      /\ saturating' = Tail(saturating) /\ i' = i
      /\ pc' = pc /\ ReferencesKept
  BY DEF MarkSaturated, ReferencesKept
<1>2. saturating \in Seq(Regions) /\ flags \in [Regions -> SUBSET Flags]
  BY DEF TypeOK
<1>3. /\ r \in Regions /\ saturating' \in Seq(Regions)
      /\ ElementsOf(saturating) \subseteq {r} \cup ElementsOf(saturating')
  BY <1>1, <1>2, TailElements
<1> HIDE DEF r
<1>4. TypeOK'
  <2>1. flags' \in [Regions -> SUBSET Flags]
    BY <1>1, <1>2, <1>3 DEF Flags, Saturated
  <2> QED
    BY <1>1, <1>3, <2>1, ReferencesKeptInv DEF TypeOK, ReferencesKept, refVars, rowVars, inputVars
<1>5. BidirectionalAdjacency'
  BY <1>1, ReferencesKeptInv DEF BidirectionalAdjacency, ReferencesKept
<1>6. SaturatedDetached'
  BY <1>1, <1>2, <1>3 DEF SaturatedDetached
<1>7. MergeInv'
  <2>1. R1' = R1 /\ R2' = R2 /\ Merging' = Merging /\ pc' = pc /\ colour' = colour
    BY <1>1, ReferencesKeptInv DEF ReferencesKept
  <2>2. pc \in {"link", "mergeEnd"}
    BY <1>1 DEF MergeInv
  <2>3. pc = "mergeEnd" => \A t \in {R1, R2} : adjacent[t] = <<>> \/ t \in ElementsOf(saturating')
    BY <1>1, <1>3 DEF MergeInv
  <2> QED
    BY <1>1, <2>1, <2>2, <2>3 DEF MergeInv, Merging
<1> QED
  BY <1>1, <1>4, <1>5, <1>6, <1>7, ReferencesKeptInv

-----------------------------------------------------------------------------
(***************************************************************************)
(* make_adjacent                                                           *)
(***************************************************************************)
\* The two regions are in use and of different colours.
LEMMA LinkedRegions ==
    ASSUME IInv, Linking
    PROVE  /\ Here \in Regions /\ Touched \in Regions /\ Here # Touched
           /\ Here \in Live /\ Touched \in Live /\ colour[Here] # colour[Touched]
<1> USE SizeFacts DEF IInv
<1>1. pc = "link" /\ neighbours # <<>> /\ neighbours \in Seq(Regions)
  BY DEF Linking, TypeOK
<1>2. Touched \in Live /\ colour[Touched] # colour[Here]
  <2>1. 1 \in 1 .. Len(neighbours) /\ Touched = neighbours[1]
    BY <1>1 DEF Touched
  <2> QED
    BY <1>1, <2>1 DEF LinkInv
<1>3. Here \in Live
  <2>1. x \in 1 .. Len(currentRow) /\ IsRoot(currentRow[x])
    BY <1>1 DEF RootsInv, RowsInv, Merging, Scanning, TypeOK
  <2> QED
    BY <2>1 DEF Here, RowsInv, OneOwner
<1>4. Live \subseteq Regions
  BY DEF Live, TypeOK, Regions
<1> QED
  BY <1>2, <1>3, <1>4

\* What of the invariant a step of make_adjacent cannot disturb, whatever it does to the lists.
LEMMA LinkingInv ==
    IInv /\ Linking => ReferencesKept /\ pc = "link" /\ pc' = "link" /\ MergeInv'
<1> SUFFICES ASSUME IInv, Linking PROVE ReferencesKept /\ pc = "link" /\ pc' = "link" /\ MergeInv'
  OBVIOUS
<1>1. ReferencesKept /\ pc = "link" /\ pc' = "link"
  BY DEF Linking, ReferencesKept
<1> QED
  BY <1>1 DEF MergeInv, Merging

\* make_adjacent, when one of the regions is saturated: only a flag is set.
LEMMA NeighbourSaturatedIInv == IInv /\ NeighbourSaturated => IInv'
<1> SUFFICES ASSUME IInv, NeighbourSaturated PROVE IInv'
  OBVIOUS
<1> USE DEF IInv
<1>1. /\ Linking /\ UNCHANGED <<adjacent, saturating, i>>
      /\ flags' = [flags EXCEPT ![DetachedOne] = @ \cup {Fragmented}]
  BY DEF NeighbourSaturated, Linking
<1>2. ReferencesKept /\ MergeInv' /\ pc' = pc
  BY <1>1, LinkingInv
<1>3. DetachedOne \in Regions /\ flags \in [Regions -> SUBSET Flags]
  BY <1>1, LinkedRegions DEF DetachedOne, TypeOK
<1>4. TypeOK'
  <2>1. flags' \in [Regions -> SUBSET Flags]
    BY <1>1, <1>3 DEF Flags, Fragmented
  <2> QED
    BY <1>1, <1>2, <2>1, ReferencesKeptInv DEF TypeOK, ReferencesKept, refVars, rowVars, inputVars
<1>5. BidirectionalAdjacency'
  BY <1>1, <1>2, ReferencesKeptInv DEF BidirectionalAdjacency, ReferencesKept
<1>6. SaturatedDetached'
  BY <1>1, <1>3 DEF SaturatedDetached, Fragmented, Saturated
<1> QED
  BY <1>2, <1>4, <1>5, <1>6, ReferencesKeptInv

\* make_adjacent, when a list is full: it is emptied next, and nothing is added.
LEMMA ListFullIInv == IInv /\ ListFull => IInv'
<1> SUFFICES ASSUME IInv, ListFull PROVE IInv'
  OBVIOUS
<1> USE DEF IInv
<1>1. /\ Linking /\ UNCHANGED <<adjacent, i>>
      /\ saturating' = (IF IsFull(Here) THEN <<Here>> ELSE <<>>)
                         \o (IF IsFull(Touched) THEN <<Touched>> ELSE <<>>)
      /\ flags' = [flags EXCEPT ![Here] = IF IsFull(Touched) THEN @ \cup {Fragmented} ELSE @,
                                ![Touched] = IF IsFull(Here) THEN @ \cup {Fragmented} ELSE @]
  BY DEF ListFull, Linking
<1>2. ReferencesKept /\ MergeInv' /\ pc' = pc
  BY <1>1, LinkingInv
<1>3. Here \in Regions /\ Touched \in Regions /\ flags \in [Regions -> SUBSET Flags]
  BY <1>1, LinkedRegions DEF TypeOK
<1>4. \A r \in Regions : flags'[r] \subseteq flags[r] \cup {Fragmented}
  BY <1>1, <1>3
<1>5. TypeOK'
  <2>1. flags' \in [Regions -> SUBSET Flags]
    BY <1>1, <1>3, <1>4 DEF Flags, Fragmented
  <2>2. saturating' \in Seq(Regions)
    BY <1>1, <1>3
  <2> QED
    BY <1>1, <1>2, <2>1, <2>2, ReferencesKeptInv
    DEF TypeOK, ReferencesKept, refVars, rowVars, inputVars
<1>6. BidirectionalAdjacency'
  BY <1>1, <1>2, ReferencesKeptInv DEF BidirectionalAdjacency, ReferencesKept
<1>7. SaturatedDetached'
  BY <1>1, <1>4 DEF SaturatedDetached, Fragmented, Saturated
<1> QED
  BY <1>2, <1>5, <1>6, <1>7, ReferencesKeptInv

\* An entry for each other is added to the lists of two regions of different colours.
LEMMA LinkPair ==
    ASSUME NEW old \in [Regions -> Seq(Regions)], NEW new \in [Regions -> Seq(Regions)],
           \A p, q \in Regions : Count(old[p], q) = Count(old[q], p),
           NEW a \in Regions, NEW r \in Regions, a # r,
           new[a] = Append(old[a], r), new[r] = Append(old[r], a),
           \A t \in Regions \ {a, r} : new[t] = old[t]
    PROVE  /\ \A p, q \in Regions : Count(new[p], q) = Count(new[q], p)
           /\ ElementsOf(new[a]) \subseteq ElementsOf(old[a]) \cup {r}
           /\ ElementsOf(new[r]) \subseteq ElementsOf(old[r]) \cup {a}
<1>1. \A p, q \in Regions : Count(new[p], q) \in Nat /\ Count(old[p], q) \in Nat
  BY CountType
<1>2. old[a] \in Seq(Regions) /\ old[r] \in Seq(Regions)
  OBVIOUS
<1>3. ASSUME NEW t \in Regions
      PROVE  /\ Count(new[a], t) = Count(old[a], t) + (IF r = t THEN 1 ELSE 0)
             /\ Count(new[r], t) = Count(old[r], t) + (IF a = t THEN 1 ELSE 0)
  <2>1. Count(Append(old[a], r), t) = Count(old[a], t) + (IF r = t THEN 1 ELSE 0)
    BY <1>2, CountAppend
  <2>2. Count(Append(old[r], a), t) = Count(old[r], t) + (IF a = t THEN 1 ELSE 0)
    BY <1>2, CountAppend
  <2> QED
    BY <2>1, <2>2
<1>4. /\ Count(new[a], r) = Count(old[a], r) + 1
      /\ Count(new[r], a) = Count(old[r], a) + 1
      /\ \A t \in Regions \ {r} : Count(new[a], t) = Count(old[a], t)
      /\ \A t \in Regions \ {a} : Count(new[r], t) = Count(old[r], t)
  <2>1. ASSUME NEW t \in Regions, t # r PROVE Count(new[a], t) = Count(old[a], t)
    <3>1. Count(new[a], t) = Count(old[a], t) + 0
      BY <1>3, <2>1
    <3> QED
      BY <1>1, <3>1
  <2>2. ASSUME NEW t \in Regions, t # a PROVE Count(new[r], t) = Count(old[r], t)
    <3>1. Count(new[r], t) = Count(old[r], t) + 0
      BY <1>3, <2>2
    <3> QED
      BY <1>1, <3>1
  <2> QED
    BY <1>3, <2>1, <2>2
<1>5. ASSUME NEW p \in Regions, NEW q \in Regions PROVE Count(new[p], q) = Count(new[q], p)
  <2>1. CASE p = a /\ q = r
    BY <1>1, <1>4, <2>1
  <2>2. CASE p = r /\ q = a
    BY <1>1, <1>4, <2>2
  <2>3. CASE ~(p = a /\ q = r) /\ ~(p = r /\ q = a)
    <3>1. Count(new[p], q) = Count(old[p], q)
      BY <1>4, <2>3
    <3>2. Count(new[q], p) = Count(old[q], p)
      BY <1>4, <2>3
    <3> QED
      BY <3>1, <3>2
  <2> QED
    BY <2>1, <2>2, <2>3
<1>6. /\ ElementsOf(new[a]) \subseteq ElementsOf(old[a]) \cup {r}
      /\ ElementsOf(new[r]) \subseteq ElementsOf(old[r]) \cup {a}
  BY <1>2, AppendElements
<1> QED
  BY <1>5, <1>6

\* make_adjacent, when there is room: two matching entries are added.
LEMMA MakeAdjacentIInv == IInv /\ MakeAdjacent => IInv'
<1> SUFFICES ASSUME IInv, MakeAdjacent PROVE IInv'
  OBVIOUS
<1> USE DEF IInv
<1>1. /\ Linking /\ UNCHANGED <<flags, saturating, i>>
      /\ ~IsAdjacent(Here, Touched) => HasRoom
      /\ adjacent' = IF IsAdjacent(Here, Touched) THEN adjacent
                     ELSE [adjacent EXCEPT ![Here] = Append(@, Touched),
                                           ![Touched] = Append(@, Here)]
  BY DEF MakeAdjacent, Linking
<1>2. ReferencesKept /\ MergeInv' /\ pc' = pc
  BY <1>1, LinkingInv
<1>3. adjacent \in [Regions -> Seq(Regions)] /\ \A t \in Regions : Len(adjacent[t]) <= MaxAdjacent
  BY DEF TypeOK
<1>4. CASE IsAdjacent(Here, Touched)
  <2>1. adjacent' = adjacent
    BY <1>1, <1>4
  <2>2. TypeOK'
    BY <1>1, <1>2, <2>1, ReferencesKeptInv
    DEF TypeOK, ReferencesKept, refVars, rowVars, inputVars
  <2>3. BidirectionalAdjacency' /\ SaturatedDetached'
    BY <1>1, <1>2, <2>1, ReferencesKeptInv
    DEF BidirectionalAdjacency, SaturatedDetached, ReferencesKept
  <2> QED
    BY <1>2, <2>2, <2>3, ReferencesKeptInv
<1>5. CASE ~IsAdjacent(Here, Touched)
  <2> DEFINE a == Here
             r == Touched
  <2>1. /\ a \in Regions /\ r \in Regions /\ a # r
        /\ a \in Live /\ r \in Live /\ colour[a] # colour[r]
    BY <1>1, LinkedRegions
  <2>2. adjacent' = [adjacent EXCEPT ![a] = Append(@, r), ![r] = Append(@, a)]
    BY <1>1, <1>5
  <2>3. /\ Saturated \notin flags[a] \cup flags[r]
        /\ Len(adjacent[a]) # MaxAdjacent /\ Len(adjacent[r]) # MaxAdjacent
    BY <1>1, <1>5 DEF HasRoom, IsFull
  <2> HIDE DEF a, r
  <2>4. /\ adjacent'[a] = Append(adjacent[a], r) /\ adjacent'[r] = Append(adjacent[r], a)
        /\ \A t \in Regions \ {a, r} : adjacent'[t] = adjacent[t]
        /\ adjacent' \in [Regions -> Seq(Regions)]
    <3>1. /\ adjacent[a] \in Seq(Regions) /\ adjacent[r] \in Seq(Regions)
          /\ Append(adjacent[a], r) \in Seq(Regions) /\ Append(adjacent[r], a) \in Seq(Regions)
      BY <1>3, <2>1
    <3> QED
      BY <1>3, <2>1, <2>2, <3>1
  <2>5. \A t \in Regions : Len(adjacent'[t]) <= MaxAdjacent
    <3>1. \A t \in Regions : Len(adjacent[t]) \in Nat
      BY <1>3
    <3>2. /\ Len(adjacent'[a]) = Len(adjacent[a]) + 1
          /\ Len(adjacent'[r]) = Len(adjacent[r]) + 1
      BY <1>3, <2>1, <2>4
    <3>3. Len(adjacent'[a]) <= MaxAdjacent /\ Len(adjacent'[r]) <= MaxAdjacent
      BY <1>3, <2>1, <2>3, <3>1, <3>2, SizeFacts
    <3> QED
      BY <1>3, <2>4, <3>3
  <2>6. TypeOK'
    BY <1>1, <1>2, <2>4, <2>5, ReferencesKeptInv
    DEF TypeOK, ReferencesKept, refVars, rowVars, inputVars
  <2>7. /\ \A p, q \in Regions : Count(adjacent'[p], q) = Count(adjacent'[q], p)
        /\ ElementsOf(adjacent'[a]) \subseteq ElementsOf(adjacent[a]) \cup {r}
        /\ ElementsOf(adjacent'[r]) \subseteq ElementsOf(adjacent[r]) \cup {a}
    <3>1. \A p, q \in Regions : Count(adjacent[p], q) = Count(adjacent[q], p)
      BY DEF BidirectionalAdjacency
    <3> QED
      BY <1>3, <2>1, <2>4, <3>1, LinkPair
  <2>8. BidirectionalAdjacency'
    <3>1. Live' = Live /\ colour' = colour
      BY <1>2, ReferencesKeptInv DEF ReferencesKept
    <3>2. ASSUME NEW p \in Regions, NEW q \in ElementsOf(adjacent'[p])
          PROVE  q \in Live /\ colour[p] # colour[q]
      <4>1. \A u \in Regions : \A v \in ElementsOf(adjacent[u]) : v \in Live /\ colour[u] # colour[v]
        BY DEF BidirectionalAdjacency
      <4>2. CASE p = a
        BY <2>1, <2>7, <3>2, <4>1, <4>2
      <4>3. CASE p = r
        BY <2>1, <2>7, <3>2, <4>1, <4>3
      <4>4. CASE p \notin {a, r}
        BY <2>4, <3>2, <4>1, <4>4
      <4> QED
        BY <4>2, <4>3, <4>4
    <3> QED
      BY <2>7, <3>1, <3>2 DEF BidirectionalAdjacency
  <2>9. SaturatedDetached'
    BY <1>1, <2>3, <2>4 DEF SaturatedDetached
  <2> QED
    BY <1>2, <2>6, <2>8, <2>9, ReferencesKeptInv
<1> QED
  BY <1>4, <1>5

-----------------------------------------------------------------------------
(***************************************************************************)
(* merge_regions                                                           *)
(***************************************************************************)
\* merge_regions, one turn of its first loop: two matching entries go, or none.
LEMMA RemoveCommonIInv == IInv /\ RemoveCommon => IInv'
<1> SUFFICES ASSUME IInv, RemoveCommon PROVE IInv'
  OBVIOUS
<1> USE DEF IInv
<1> DEFINE r == R2
           a == adjacent[R2][i]
<1>1. /\ pc = "common" /\ i <= Len(adjacent[r]) /\ i' = i + 1
      /\ adjacent' = IF IsAdjacent(a, R1)
                     THEN [adjacent EXCEPT ![a] = Without(@, r), ![r] = DropEntry(@, i)]
                     ELSE adjacent
      /\ UNCHANGED <<flags, neighbours, saturating>> /\ pc' = pc
      /\ ReferencesKept
  BY DEF RemoveCommon, ReferencesKept, NextIndex, Unlinked
<1>2. /\ adjacent \in [Regions -> Seq(Regions)] /\ \A t \in Regions : Len(adjacent[t]) <= MaxAdjacent
      /\ i \in 1 .. MaxAdjacent + 1
  BY DEF TypeOK
<1>3. r \in Regions
  BY <1>1, MergedRegions DEF Merging
<1>4. adjacent[r] \in Seq(Regions) /\ Len(adjacent[r]) \in Nat /\ Len(adjacent[r]) <= MaxAdjacent
  BY <1>2, <1>3
<1>5. i \in 1 .. Len(adjacent[r]) /\ i' \in 1 .. MaxAdjacent + 1
  BY <1>1, <1>2, <1>4, SizeFacts, SMTT(60)
<1>6. a \in ElementsOf(adjacent[r])
  BY <1>5 DEF ElementsOf
<1>7. a \in Regions /\ a # r /\ Contains(adjacent[a], r)
  BY <1>3, <1>6, ListedBothWays
<1>8. MergeInv' => IInv'
  <2>1. CASE adjacent' = adjacent
    <3>1. TypeOK'
      BY <1>1, <1>5, <2>1, ReferencesKeptInv DEF TypeOK, ReferencesKept, refVars, rowVars, inputVars
    <3>2. BidirectionalAdjacency' /\ SaturatedDetached'
      BY <1>1, <2>1, ReferencesKeptInv
      DEF BidirectionalAdjacency, SaturatedDetached, ReferencesKept
    <3> QED
      BY <1>1, <3>1, <3>2, ReferencesKeptInv
  <2>2. CASE adjacent' # adjacent
    <3>1. adjacent' = [adjacent EXCEPT ![a] = Without(@, r), ![r] = DropEntry(@, i)]
      BY <1>1, <2>2
    <3>2. adjacent[r][i] = a
      OBVIOUS
    <3> HIDE DEF a, r
    <3>3. /\ adjacent'[a] = Without(adjacent[a], r)
          /\ adjacent'[r] = DropEntry(adjacent[r], i)
          /\ \A t \in Regions \ {a, r} : adjacent'[t] = adjacent[t]
          /\ adjacent' = [t \in Regions |-> adjacent'[t]]
      BY <1>2, <1>3, <1>7, <3>1
    <3>4. /\ adjacent'[a] \in Seq(Regions) /\ Len(adjacent'[a]) = Len(adjacent[a]) - 1
          /\ \A t \in Regions :
                Count(adjacent'[a], t) = Count(adjacent[a], t) - (IF r = t THEN 1 ELSE 0)
      <4>1. adjacent[a] \in Seq(Regions)
        BY <1>2, <1>7
      <4> QED
        BY <1>7, <3>3, <4>1, CountWithout, SMTT(60)
    <3>5. /\ adjacent'[r] \in Seq(Regions) /\ Len(adjacent'[r]) = Len(adjacent[r]) - 1
          /\ \A t \in Regions :
                Count(adjacent'[r], t) = Count(adjacent[r], t) - (IF a = t THEN 1 ELSE 0)
      <4>1. ASSUME NEW t \in Regions
            PROVE  /\ DropEntry(adjacent[r], i) \in Seq(Regions)
                   /\ Len(DropEntry(adjacent[r], i)) = Len(adjacent[r]) - 1
                   /\ Count(DropEntry(adjacent[r], i), t)
                        = Count(adjacent[r], t) - (IF adjacent[r][i] = t THEN 1 ELSE 0)
        BY <1>4, <1>5, CountDropEntry
      <4> QED
        BY <1>3, <3>2, <3>3, <4>1
    <3>6. /\ flags' \in [Regions -> SUBSET Flags]
          /\ \A t \in Regions : flags'[t] \subseteq flags[t] \cup {Fragmented}
      BY <1>1 DEF TypeOK
    <3>7. MergeInv' => IInv'
      BY <1>1, <1>3, <1>5, <1>7, <3>3, <3>4, <3>5, <3>6, UnlinkedInv
    <3> QED
      BY <3>7
  <2> QED
    BY <2>1, <2>2
<1>9. MergeInv'
  <2>1. R1' = R1 /\ R2' = R2 /\ Merging' = Merging /\ pc' = pc /\ colour' = colour
    BY <1>1, ReferencesKeptInv DEF ReferencesKept
  <2> QED
    BY <1>1, <2>1 DEF MergeInv, Merging
<1> QED
  BY <1>8, <1>9

\* merge_regions, between its loops: the second loop is entered only with room enough.
LEMMA CheckCapacityIInv == IInv /\ CheckCapacity => IInv'
<1> SUFFICES ASSUME IInv, CheckCapacity PROVE IInv'
  OBVIOUS
<1> USE DEF IInv
<1>1. /\ pc = "common" /\ i' = 1
      /\ \/ Fits /\ pc' = "transfer" /\ saturating' = saturating
         \/ ~Fits /\ pc' = "mergeEnd" /\ saturating' = <<R1, R2>>
      /\ UNCHANGED <<adjacent, flags>>
      /\ ReferencesKept
  BY DEF CheckCapacity, ReferencesKept, Merging, regionVars
<1>2. R1 \in Regions /\ R2 \in Regions
  BY <1>1, MergedRegions DEF Merging
<1>3. TypeOK'
  <2>1. saturating' \in Seq(Regions)
    <3>1. saturating \in Seq(Regions) /\ <<R1, R2>> \in Seq(Regions)
      BY <1>2 DEF TypeOK
    <3> QED
      BY <1>1, <3>1
  <2> QED
    BY <1>1, <2>1, ReferencesKeptInv, SizeFacts, SMTT(60)
    DEF TypeOK, ReferencesKept, refVars, rowVars, inputVars
<1>4. BidirectionalAdjacency' /\ SaturatedDetached'
  BY <1>1, ReferencesKeptInv DEF BidirectionalAdjacency, SaturatedDetached, ReferencesKept
<1>5. MergeInv'
  <2>1. R1' = R1 /\ R2' = R2 /\ Merging' /\ Merging /\ colour' = colour
    BY <1>1, ReferencesKeptInv DEF ReferencesKept, Merging
  <2>2. CASE pc' = "transfer"
    BY <1>1, <2>1, <2>2 DEF MergeInv, Fits
  <2>3. CASE pc' = "mergeEnd"
    <3>1. R1 \in ElementsOf(saturating') /\ R2 \in ElementsOf(saturating')
      BY <1>1, <2>3, PairElements
    <3> QED
      BY <1>1, <2>1, <2>3, <3>1 DEF MergeInv
  <2> QED
    BY <1>1, <2>2, <2>3
<1> QED
  BY <1>1, <1>3, <1>4, <1>5, ReferencesKeptInv

\* An entry of r moves to s, and the region it names lists s where it listed r.
LEMMA MovePair ==
    ASSUME adjacent \in [Regions -> Seq(Regions)], adjacent' \in [Regions -> Seq(Regions)],
           \A p, q \in Regions : Count(adjacent[p], q) = Count(adjacent[q], p),
           NEW a \in Regions, NEW r \in Regions, NEW s \in Regions, a # r, a # s, r # s,
           adjacent[r] # <<>>, Head(adjacent[r]) = a, Contains(adjacent[a], r),
           adjacent'[a] = Replaced(adjacent[a], r, s),
           adjacent'[s] = Append(adjacent[s], a), adjacent'[r] = Tail(adjacent[r]),
           \A t \in Regions \ {a, r, s} : adjacent'[t] = adjacent[t]
    PROVE  \A p, q \in Regions : Count(adjacent'[p], q) = Count(adjacent'[q], p)
<1>1. \A p, q \in Regions : Count(adjacent'[p], q) \in Nat /\ Count(adjacent[p], q) \in Nat
  BY CountType
<1>2. adjacent[a] \in Seq(Regions) /\ adjacent[r] \in Seq(Regions) /\ adjacent[s] \in Seq(Regions)
  OBVIOUS
<1>3. ASSUME NEW t \in Regions
      PROVE  /\ Count(adjacent'[a], t)
                  = Count(adjacent[a], t) - (IF r = t THEN 1 ELSE 0) + (IF s = t THEN 1 ELSE 0)
             /\ Count(adjacent'[s], t) = Count(adjacent[s], t) + (IF a = t THEN 1 ELSE 0)
             /\ Count(adjacent'[r], t) = Count(adjacent[r], t) - (IF a = t THEN 1 ELSE 0)
  <2>1. Count(Replaced(adjacent[a], r, s), t)
          = Count(adjacent[a], t) - (IF r = t THEN 1 ELSE 0) + (IF s = t THEN 1 ELSE 0)
    BY <1>2, CountReplaced
  <2>2. Count(Append(adjacent[s], a), t) = Count(adjacent[s], t) + (IF a = t THEN 1 ELSE 0)
    BY <1>2, CountAppend
  <2>3. Count(Tail(adjacent[r]), t) = Count(adjacent[r], t) - (IF Head(adjacent[r]) = t THEN 1 ELSE 0)
    BY <1>2, CountTail
  <2> QED
    BY <2>1, <2>2, <2>3
<1>4. /\ Count(adjacent'[a], r) = Count(adjacent[a], r) - 1
      /\ Count(adjacent'[r], a) = Count(adjacent[r], a) - 1
      /\ Count(adjacent'[a], s) = Count(adjacent[a], s) + 1
      /\ Count(adjacent'[s], a) = Count(adjacent[s], a) + 1
  <2>1. /\ Count(adjacent'[a], r) = Count(adjacent[a], r) - 1 + 0
        /\ Count(adjacent'[a], s) = Count(adjacent[a], s) - 0 + 1
    BY <1>3
  <2>2. Count(adjacent[a], r) \in Nat /\ Count(adjacent[a], s) \in Nat
    BY <1>1
  <2>3. /\ Count(adjacent'[r], a) = Count(adjacent[r], a) - 1
        /\ Count(adjacent'[s], a) = Count(adjacent[s], a) + 1
    BY <1>3
  <2> QED
    BY <2>1, <2>2, <2>3
<1>5. /\ \A t \in Regions \ {r, s} : Count(adjacent'[a], t) = Count(adjacent[a], t)
      /\ \A t \in Regions \ {a} : Count(adjacent'[s], t) = Count(adjacent[s], t)
      /\ \A t \in Regions \ {a} : Count(adjacent'[r], t) = Count(adjacent[r], t)
  <2>1. ASSUME NEW t \in Regions, t # r, t # s PROVE Count(adjacent'[a], t) = Count(adjacent[a], t)
    <3>1. Count(adjacent'[a], t) = Count(adjacent[a], t) - 0 + 0
      BY <1>3, <2>1
    <3>2. Count(adjacent[a], t) \in Nat
      BY <1>1, <2>1
    <3> QED
      BY <3>1, <3>2
  <2>2. ASSUME NEW t \in Regions, t # a
        PROVE  /\ Count(adjacent'[s], t) = Count(adjacent[s], t)
               /\ Count(adjacent'[r], t) = Count(adjacent[r], t)
    <3>1. /\ Count(adjacent'[s], t) = Count(adjacent[s], t) + 0
          /\ Count(adjacent'[r], t) = Count(adjacent[r], t) - 0
      BY <1>3, <2>2
    <3>2. Count(adjacent[s], t) \in Nat /\ Count(adjacent[r], t) \in Nat
      BY <1>1, <2>2
    <3> QED
      BY <3>1, <3>2
  <2> QED
    BY <2>1, <2>2
<1>6. ASSUME NEW p \in Regions, NEW q \in Regions PROVE Count(adjacent'[p], q) = Count(adjacent'[q], p)
  <2>1. CASE p = a /\ q \in {r, s}
    BY <1>1, <1>4, <2>1
  <2>2. CASE p \in {r, s} /\ q = a
    BY <1>1, <1>4, <2>2
  <2>3. CASE ~(p = a /\ q \in {r, s}) /\ ~(p \in {r, s} /\ q = a)
    <3>1. Count(adjacent'[p], q) = Count(adjacent[p], q)
      BY <1>5, <2>3
    <3>2. Count(adjacent'[q], p) = Count(adjacent[q], p)
      BY <1>5, <2>3
    <3> QED
      BY <3>1, <3>2
  <2> QED
    BY <2>1, <2>2, <2>3
<1> QED
  BY <1>6

\* merge_regions, one turn of its second loop: an entry moves and its match follows.
LEMMA TransferNeighbourIInv == IInv /\ TransferNeighbour => IInv'
<1> SUFFICES ASSUME IInv, TransferNeighbour PROVE IInv'
  OBVIOUS
<1> USE DEF IInv
<1> DEFINE r == R2
           s == R1
           a == Head(adjacent[R2])
<1>1. /\ pc = "transfer" /\ adjacent[r] # <<>>
      /\ adjacent' = [adjacent EXCEPT ![a] = Replaced(@, r, s), ![s] = Append(@, a), ![r] = Tail(@)]
      /\ UNCHANGED <<flags, neighbours, saturating, i>> /\ pc' = pc
      /\ ReferencesKept
  BY DEF TransferNeighbour, ReferencesKept, callVars
<1>2. adjacent \in [Regions -> Seq(Regions)] /\ \A t \in Regions : Len(adjacent[t]) <= MaxAdjacent
  BY DEF TypeOK
<1>3. /\ r \in Regions /\ s \in Regions /\ r # s /\ s \in Live /\ colour[s] = colour[r]
  BY <1>1, MergedRegions DEF Merging
<1>4. a \in ElementsOf(adjacent[r])
  BY <1>1, <1>2, <1>3 DEF ElementsOf
<1>5. /\ a \in Regions /\ a # r /\ a # s /\ a \in Live /\ colour[a] # colour[s]
      /\ Contains(adjacent[a], r)
  BY <1>3, <1>4, ListedBothWays
<1>6. Head(adjacent[r]) = a
  OBVIOUS
<1>7. /\ Saturated \notin flags[s] /\ Saturated \notin flags[r]
      /\ Len(adjacent[s]) + Len(adjacent[r]) <= MaxAdjacent
  BY <1>1 DEF MergeInv
<1> HIDE DEF a, r, s
<1>8. /\ adjacent[a] \in Seq(Regions) /\ adjacent[r] \in Seq(Regions) /\ adjacent[s] \in Seq(Regions)
      /\ Len(adjacent[a]) \in Nat /\ Len(adjacent[r]) \in Nat /\ Len(adjacent[s]) \in Nat
  BY <1>2, <1>3, <1>5
<1>9. /\ Replaced(adjacent[a], r, s) \in Seq(Regions)
      /\ Len(Replaced(adjacent[a], r, s)) = Len(adjacent[a])
      /\ ElementsOf(Replaced(adjacent[a], r, s)) \subseteq ElementsOf(adjacent[a]) \cup {s}
  BY <1>3, <1>5, <1>8, ReplacedElements
<1>10. /\ Append(adjacent[s], a) \in Seq(Regions)
       /\ Len(Append(adjacent[s], a)) = Len(adjacent[s]) + 1
       /\ ElementsOf(Append(adjacent[s], a)) \subseteq ElementsOf(adjacent[s]) \cup {a}
  BY <1>5, <1>8, AppendElements
<1>11. /\ Tail(adjacent[r]) \in Seq(Regions)
       /\ Len(Tail(adjacent[r])) = Len(adjacent[r]) - 1
       /\ ElementsOf(Tail(adjacent[r])) \subseteq ElementsOf(adjacent[r])
  BY <1>1, <1>8, TailElements
<1>12. /\ adjacent'[a] = Replaced(adjacent[a], r, s)
       /\ adjacent'[s] = Append(adjacent[s], a)
       /\ adjacent'[r] = Tail(adjacent[r])
       /\ \A t \in Regions \ {a, r, s} : adjacent'[t] = adjacent[t]
       /\ adjacent' = [t \in Regions |-> adjacent'[t]]
  BY <1>1, <1>2, <1>3, <1>5
<1>13. adjacent' \in [Regions -> Seq(Regions)]
  <2>1. \A t \in Regions : adjacent'[t] \in Seq(Regions)
    BY <1>2, <1>9, <1>10, <1>11, <1>12
  <2> QED
    BY <1>12, <2>1
<1>14. /\ Len(adjacent'[a]) <= MaxAdjacent /\ Len(adjacent'[s]) <= MaxAdjacent
       /\ Len(adjacent'[r]) <= MaxAdjacent
       /\ Len(adjacent'[s]) + Len(adjacent'[r]) <= MaxAdjacent
  <2>1. Len(adjacent[r]) # 0
    BY <1>1, <1>8
  <2>2. Len(adjacent[a]) <= MaxAdjacent
    BY <1>2, <1>5
  <2> QED
    <3>1. /\ Len(adjacent'[a]) = Len(adjacent[a])
          /\ Len(adjacent'[s]) = Len(adjacent[s]) + 1
          /\ Len(adjacent'[r]) = Len(adjacent[r]) - 1
      BY <1>9, <1>10, <1>11, <1>12
    <3>2. MaxAdjacent \in Nat
      BY SizeFacts
    <3> DEFINE m == Len(adjacent[s])
               n == Len(adjacent[r])
    <3>3. m \in Nat /\ n \in Nat /\ n # 0 /\ m + n <= MaxAdjacent
      BY <1>7, <1>8, <2>1
    <3>4. /\ Len(adjacent'[a]) <= MaxAdjacent
          /\ Len(adjacent'[s]) = m + 1 /\ Len(adjacent'[r]) = n - 1
      BY <2>2, <3>1
    <3> HIDE DEF m, n
    <3>5. m + 1 <= MaxAdjacent /\ n - 1 <= MaxAdjacent /\ (m + 1) + (n - 1) <= MaxAdjacent
      BY <3>2, <3>3
    <3> QED
      BY <3>4, <3>5
<1>15. TypeOK'
  <2>1. \A t \in Regions : Len(adjacent'[t]) <= MaxAdjacent
    BY <1>2, <1>12, <1>14
  <2> QED
    BY <1>1, <1>13, <2>1, ReferencesKeptInv DEF TypeOK, ReferencesKept, refVars, rowVars, inputVars
<1>16. BidirectionalAdjacency'
  <2>1. \A p, q \in Regions : Count(adjacent'[p], q) = Count(adjacent'[q], p)
    <3>1. \A p, q \in Regions : Count(adjacent[p], q) = Count(adjacent[q], p)
      BY DEF BidirectionalAdjacency
    <3> QED
      <4>1. adjacent[r] # <<>>
        BY <1>1
      <4> HIDE <1>1
      <4> QED
        BY <1>2, <1>3, <1>5, <1>6, <1>12, <1>13, <3>1, <4>1, MovePair, ZenonT(60)
  <2>2. Live' = Live /\ colour' = colour
    BY <1>1, ReferencesKeptInv DEF ReferencesKept
  <2>3. ASSUME NEW p \in Regions, NEW q \in ElementsOf(adjacent'[p])
        PROVE  q \in Live /\ colour[p] # colour[q]
    <3>1. \A u \in Regions : \A v \in ElementsOf(adjacent[u]) : v \in Live /\ colour[u] # colour[v]
      BY DEF BidirectionalAdjacency
    <3>2. CASE p = a
      BY <1>3, <1>5, <1>9, <1>12, <2>3, <3>1, <3>2
    <3>3. CASE p = s
      BY <1>3, <1>5, <1>10, <1>12, <2>3, <3>1, <3>3
    <3>4. CASE p = r
      BY <1>11, <1>12, <2>3, <3>1, <3>4
    <3>5. CASE p \notin {a, r, s}
      BY <1>12, <2>3, <3>1, <3>5
    <3> QED
      BY <3>2, <3>3, <3>4, <3>5
  <2> QED
    BY <2>1, <2>2, <2>3 DEF BidirectionalAdjacency
<1>17. SaturatedDetached'
  <2>1. adjacent[a] # <<>>
    BY <1>5 DEF Contains
  <2> QED
    BY <1>1, <1>7, <1>12, <2>1 DEF SaturatedDetached
<1>18. MergeInv'
  <2>1. s = R1' /\ r = R2' /\ s = R1 /\ r = R2 /\ Merging' = Merging /\ colour' = colour
    BY <1>1, ReferencesKeptInv DEF ReferencesKept, r, s
  <2> QED
    BY <1>1, <1>14, <2>1 DEF MergeInv, Merging
<1> QED
  BY <1>1, <1>15, <1>16, <1>17, <1>18, ReferencesKeptInv

-----------------------------------------------------------------------------
(***************************************************************************)
(* Pixels                                                                  *)
(***************************************************************************)
\* The pixels are numbered from 1 to Width * Height.
LEMMA PositionFacts ==
    ASSUME x \in 1 .. Width, y \in 1 .. Height
    PROVE  /\ Position \in 1 .. Width * Height
           /\ x < Width => y * Width - Position >= 1
           /\ x = Width => Position = y * Width
           /\ x = Width /\ y = Height => Position = Width * Height
<1>1. Width \in Nat /\ Height \in Nat /\ x \in Nat /\ y \in Nat /\ y >= 1 /\ x >= 1 /\ x <= Width
      /\ y <= Height
  BY SizeFacts
<1>2. /\ y * Width \in Nat /\ (y - 1) * Width \in Nat
      /\ y * Width = (y - 1) * Width + Width
  BY <1>1
<1>3. y * Width <= Width * Height
  <2>1. (Height - y) * Width \in Nat
    BY <1>1
  <2>2. (Height - y) * Width = Width * Height - y * Width /\ Width * Height \in Nat
    BY <1>1
  <2> QED
    BY <1>2, <2>1, <2>2
<1>4. Width * Height \in Nat
  BY <1>1
<1>5. Position = y * Width - Width + x
  BY <1>1, <1>2 DEF Position
<1>6. Width * Height = Height * Width
  BY <1>1
<1> QED
  BY <1>1, <1>2, <1>3, <1>4, <1>5, <1>6

\* Writing what the redirects resolve to changes no root.
LEMMA CompressedRoots ==
    ASSUME IInv, pc = "read", Resolved
    PROVE  /\ Compressed \in [Refs -> Refs \cup {Null}]
           /\ \A q \in 1 .. refCount : Compressed[q] \in 1 .. refCount
           /\ \A q \in 1 .. refCount : Compressed[q] = q <=> IsRoot(q)
           /\ ResolvedRow \in Seq(Refs) /\ Len(ResolvedRow) = Len(previousRow)
           /\ \A k \in 1 .. Len(previousRow) : ResolvedRow[k] \in 1 .. refCount
<1> USE DEF IInv
<1>1. /\ redirect \in [Refs -> Refs \cup {Null}] /\ previousRow \in Seq(Refs)
      /\ refCount \in Nat /\ 1 .. refCount \subseteq Refs /\ y \in Nat
      /\ x \in 1 .. Width /\ y >= 1
  BY SizeFacts DEF TypeOK, Refs
<1>2. /\ \A q \in 1 .. refCount : redirect[q] \in 1 .. refCount
      /\ \A k \in 1 .. Len(previousRow) : previousRow[k] \in 1 .. refCount
  BY DEF RedirectInv, RowsInv
<1>3. CASE result = Null
  BY <1>1, <1>2, <1>3 DEF Compressed, ResolvedRow, IsRoot
<1>4. CASE result # Null
  <2>1. y > 1 /\ result \in 1 .. refCount /\ IsRoot(result)
    BY <1>1, <1>4 DEF CursorInv, Scanning, Resolved
  <2>2. Len(previousRow) = Width
    BY <2>1 DEF RowsInv
  <2>3. x \in 1 .. Len(previousRow) /\ previousRow[x] \in 1 .. refCount
    BY <1>1, <1>2, <2>2
  <2>4. IsRoot(previousRow[x]) => result = previousRow[x]
    BY <2>1 DEF CursorInv
  <2>5. /\ Compressed = [redirect EXCEPT ![previousRow[x]] = result]
        /\ ResolvedRow = [previousRow EXCEPT ![x] = result]
    BY <1>4 DEF Compressed, ResolvedRow
  <2>6. Compressed[previousRow[x]] = result
        /\ \A q \in 1 .. refCount : q # previousRow[x] => Compressed[q] = redirect[q]
    BY <1>1, <2>3, <2>5
  <2>7. \A q \in 1 .. refCount : Compressed[q] = q <=> IsRoot(q)
    BY <2>1, <2>3, <2>4, <2>6 DEF IsRoot
  <2>8. \A q \in 1 .. refCount : Compressed[q] \in 1 .. refCount
    BY <1>2, <2>1, <2>6
  <2>9. Compressed \in [Refs -> Refs \cup {Null}]
    BY <1>1, <2>1, <2>5
  <2>10. /\ ResolvedRow \in Seq(Refs) /\ Len(ResolvedRow) = Len(previousRow)
         /\ \A k \in 1 .. Len(previousRow) : ResolvedRow[k] \in 1 .. refCount
    BY <1>1, <1>2, <2>1, <2>3, <2>5
  <2> QED
    BY <2>7, <2>8, <2>9, <2>10
<1> QED
  BY <1>3, <1>4

\* The pixel to the left belongs to a region in use; so does the one above, once resolved.
LEMMA BesidePixel ==
    ASSUME IInv, pc = "read", Resolved
    PROVE  /\ x > 1 => /\ West \in 1 .. refCount /\ IsRoot(West)
                       /\ regionOf[West] \in Live
           /\ y > 1 => /\ North \in 1 .. refCount /\ IsRoot(North)
                       /\ regionOf[North] \in Live
           /\ x \in 1 .. Width /\ y \in 1 .. Height
           /\ Live \subseteq Regions
<1> USE DEF IInv
<1>1. x \in 1 .. Width /\ y \in 1 .. Height /\ Live \subseteq Regions /\ Len(currentRow) = x - 1
  BY SizeFacts DEF TypeOK, Live, Regions, RowsInv, Scanning
<1>2. ASSUME x > 1 PROVE West \in 1 .. refCount /\ IsRoot(West) /\ regionOf[West] \in Live
  <2>1. x - 1 \in 1 .. Len(currentRow)
    BY <1>1, <1>2, SizeFacts
  <2>2. West \in 1 .. refCount
    BY <2>1 DEF West, RowsInv
  <2>3. IsRoot(West)
    BY <1>2 DEF RootsInv
  <2> QED
    BY <2>2, <2>3 DEF OneOwner
<1>3. ASSUME y > 1 PROVE North \in 1 .. refCount /\ IsRoot(North) /\ regionOf[North] \in Live
  <2>1. North \in 1 .. refCount
    BY <1>3 DEF CursorInv, Scanning, North
  <2>2. North # Null
    BY <2>1 DEF Null
  <2>3. IsRoot(North)
    BY <2>2 DEF Resolved, North
  <2> QED
    BY <2>1, <2>3 DEF OneOwner
<1> QED
  BY <1>1, <1>2, <1>3

\* What every action that reads a pixel finds and does.
LEMMA PixelRead ==
    ASSUME IInv, NEW c \in Colours, ReadPixel(c)
    PROVE  /\ pc = "read" /\ Resolved
           /\ UNCHANGED <<x, y, result>> /\ Position' = Position
           /\ source' \in Seq(Colours) /\ Len(source') = Position /\ Len(source') <= Width * Height
           /\ Len(label) = Position - 1 /\ Len(currentRow) = x - 1
           /\ previousRow' = ResolvedRow
           /\ neighbours = <<>> /\ saturating = <<>>
<1> USE DEF IInv
<1>1. pc = "read" /\ Resolved /\ UNCHANGED <<x, y, result>> /\ previousRow' = ResolvedRow
      /\ source' = Append(source, c)
  BY DEF ReadPixel
<1>2. source \in Seq(Colours) /\ Len(source) = Position - 1 /\ x \in 1 .. Width /\ y \in 1 .. Height
  BY <1>1 DEF TypeOK, CountInv
<1>3. Position \in 1 .. Width * Height
  BY <1>2, PositionFacts
<1>4. source' \in Seq(Colours) /\ Len(source') = Position /\ Len(source') <= Width * Height
  BY <1>1, <1>2, <1>3, SizeFacts
<1>5. Len(label) = Position - 1 /\ Len(currentRow) = x - 1
  BY <1>1 DEF CountInv, RowsInv, Scanning
<1>6. neighbours = <<>> /\ saturating = <<>>
  BY <1>1 DEF LinkInv, MergeInv
<1>7. Position' = Position
  BY <1>1 DEF Position
<1> QED
  BY <1>1, <1>4, <1>5, <1>6, <1>7

\* The rows and the label of the pixel, when its cell gets reference q.
LEMMA CellAdded ==
    ASSUME IInv, Len(currentRow) = x - 1, Len(label) = Position - 1,
           NEW q \in Refs,
           currentRow' = Append(currentRow, q), label' = Append(label, q)
    PROVE  /\ currentRow' \in Seq(Refs) /\ Len(currentRow') = x /\ currentRow'[x] = q
           /\ \A k \in 1 .. Len(currentRow') : currentRow'[k] = q \/ currentRow'[k] \in 1 .. refCount
           /\ label' \in Seq(Refs) /\ Len(label') = Position
<1> USE DEF IInv
<1>1. currentRow \in Seq(Refs) /\ label \in Seq(Refs) /\ x \in 1 .. Width /\ y \in 1 .. Height
  BY DEF TypeOK
<1>2. /\ Len(currentRow') = Len(currentRow) + 1 /\ Len(label') = Len(label) + 1
      /\ currentRow' \in Seq(Refs) /\ label' \in Seq(Refs)
      /\ \A k \in 1 .. Len(currentRow) : currentRow'[k] = currentRow[k]
      /\ currentRow'[Len(currentRow) + 1] = q
  BY <1>1
<1>3. x \in Nat /\ Position \in Nat /\ Position >= 1 /\ x >= 1
  BY <1>1, PositionFacts, SizeFacts
<1>4. Len(currentRow') = x /\ Len(label') = Position /\ currentRow'[x] = q
  BY <1>2, <1>3
<1>5. \A k \in 1 .. Len(currentRow') : k \in 1 .. Len(currentRow) \/ k = x
  BY <1>3, <1>4
<1>6. \A k \in 1 .. Len(currentRow) : currentRow[k] \in 1 .. refCount
  BY DEF RowsInv
<1> QED
  BY <1>2, <1>4, <1>5, <1>6

\* A pixel that joins a region gets a cell that refers to a root.
LEMMA JoinRegionIInv ==
    ASSUME IInv, NEW c \in Colours, ReadPixel(c), NEW q \in 1 .. refCount, IsRoot(q),
           JoinRegion(q), box' \in [Regions -> Boxes]
    PROVE  IInv'
<1> USE DEF IInv
<1>1. /\ pc' = "link" /\ redirect' = Compressed
      /\ currentRow' = Append(currentRow, q) /\ label' = Append(label, q)
      /\ UNCHANGED <<regionCount, freed, colour, flags, adjacent, refCount, regionOf>>
      /\ UNCHANGED <<neighbours, saturating, i>>
  BY DEF JoinRegion, callVars
<1>2. /\ pc = "read" /\ Resolved /\ x' = x /\ y' = y /\ result' = result /\ Position' = Position
      /\ source' \in Seq(Colours) /\ Len(source') = Position /\ Len(source') <= Width * Height
      /\ Len(label) = Position - 1 /\ Len(currentRow) = x - 1
      /\ previousRow' = ResolvedRow /\ neighbours = <<>> /\ saturating = <<>>
  BY PixelRead
<1>3. /\ redirect' \in [Refs -> Refs \cup {Null}]
      /\ \A p \in 1 .. refCount : redirect'[p] \in 1 .. refCount
      /\ \A p \in 1 .. refCount : IsRoot(p)' <=> IsRoot(p)
      /\ previousRow' \in Seq(Refs) /\ Len(previousRow') = Len(previousRow)
      /\ \A k \in 1 .. Len(previousRow) : previousRow'[k] \in 1 .. refCount
  BY <1>1, <1>2, CompressedRoots DEF IsRoot
<1>4. q \in Refs
  BY SizeFacts DEF TypeOK, Refs
<1>5. /\ currentRow' \in Seq(Refs) /\ Len(currentRow') = x /\ currentRow'[x] = q
      /\ \A k \in 1 .. Len(currentRow') : currentRow'[k] \in 1 .. refCount
      /\ label' \in Seq(Refs) /\ Len(label') = Position
  BY <1>1, <1>2, <1>4, CellAdded
<1>6. Live' = Live
  BY <1>1 DEF Live
<1>7. TypeOK'
  BY <1>1, <1>2, <1>3, <1>5 DEF TypeOK
<1>8. CountInv'
  <2>1. x \in 1 .. Width /\ y \in 1 .. Height
    BY DEF TypeOK
  <2>2. Position \in Nat
    BY <2>1, PositionFacts, SizeFacts
  <2>3. regionCount <= refCount /\ refCount <= Position - 1 /\ refCount \in Nat
    BY <1>2, SizeFacts DEF CountInv, TypeOK
  <2>4. refCount <= Position
    BY <2>2, <2>3
  <2> QED
    BY <1>1, <1>2, <1>5, <2>3, <2>4 DEF CountInv, Merging
<1>9. RowsInv'
  <2>1. y > 1 => Len(previousRow) = Width
    BY DEF RowsInv
  <2> QED
    BY <1>1, <1>2, <1>3, <1>5, <2>1 DEF RowsInv
<1>10. CursorInv' /\ RedirectInv' /\ FreedInv'
  BY <1>1, <1>2, <1>3 DEF CursorInv, RedirectInv, FreedInv, Scanning
<1>11. OneOwner'
  BY <1>1, <1>3, <1>6 DEF OneOwner
<1>12. RootsInv' /\ LinkInv' /\ MergeInv'
  BY <1>1, <1>2, <1>3, <1>5 DEF RootsInv, LinkInv, MergeInv, Merging
<1>13. BidirectionalAdjacency' /\ SaturatedDetached'
  BY <1>1, <1>6 DEF BidirectionalAdjacency, SaturatedDetached
<1> QED
  BY <1>7, <1>8, <1>9, <1>10, <1>11, <1>12, <1>13

\* Nobody is adjacent to a region that is not in use.
LEMMA UnusedRegion ==
    ASSUME TypeOK, BidirectionalAdjacency, NEW r \in Regions \ Live
    PROVE  adjacent[r] = <<>>
<1>1. SUFFICES ASSUME adjacent[r] # <<>> PROVE FALSE
  OBVIOUS
<1> DEFINE a == Head(adjacent[r])
<1>2. adjacent[r] \in Seq(Regions)
  BY DEF TypeOK
<1>3. a \in ElementsOf(adjacent[r])
  BY <1>1, <1>2 DEF ElementsOf
<1>4. a \in Regions /\ Contains(adjacent[a], r)
  BY <1>3, ListedBothWays
<1>5. r \in ElementsOf(adjacent[a])
  BY <1>4 DEF Contains, ElementsOf
<1> QED
  BY <1>4, <1>5 DEF BidirectionalAdjacency

\* new_region takes a region that is not in use and a reference never used before.
LEMMA RegionTaken ==
    ASSUME IInv, NEW c \in Colours, ReadPixel(c),
           NEW r, r = IF freed = <<>> THEN regionCount + 1 ELSE Head(freed),
           regionCount' = IF freed = <<>> THEN r ELSE regionCount,
           freed' = IF freed = <<>> THEN <<>> ELSE Tail(freed)
    PROVE  /\ r \in Regions /\ r \notin Live /\ Live' = Live \cup {r}
           /\ refCount + 1 \in Refs /\ refCount \in Nat /\ refCount + 1 <= Position
           /\ regionCount' \in 0 .. Width * Height /\ regionCount' <= refCount + 1
           /\ freed' \in Seq(Regions)
           /\ \A k \in 1 .. Len(freed') : freed'[k] \in 1 .. regionCount'
           /\ \A j, k \in 1 .. Len(freed') : freed'[j] = freed'[k] => j = k
<1> USE DEF IInv
<1>1. /\ x \in 1 .. Width /\ y \in 1 .. Height /\ freed \in Seq(Regions)
      /\ regionCount \in Nat /\ refCount \in Nat
      /\ regionCount <= refCount /\ refCount <= Position - 1
  BY PixelRead, SizeFacts, SMTT(60) DEF TypeOK, CountInv
<1>2. Position \in Nat /\ Position <= Width * Height /\ Width * Height \in Nat
  BY <1>1, PositionFacts, SizeFacts
<1>3. refCount + 1 \in Refs /\ refCount + 1 <= Position
  BY <1>1, <1>2 DEF Refs
<1>4. regionCount + 1 \in Regions
  BY <1>1, <1>2 DEF Regions
<1>5. CASE freed = <<>>
  <2>1. r = regionCount + 1 /\ regionCount' = regionCount + 1 /\ freed' = <<>>
    BY <1>5
  <2>2. ElementsOf(freed) = {} /\ ElementsOf(freed') = {}
    BY <1>5, <2>1 DEF ElementsOf
  <2>3. r \notin Live /\ Live' = Live \cup {r}
    BY <1>1, <2>1, <2>2 DEF Live
  <2>4. regionCount' \in 0 .. Width * Height /\ regionCount' <= refCount + 1
    BY <1>1, <1>2, <2>1
  <2> QED
    BY <1>1, <1>3, <1>4, <2>1, <2>3, <2>4
<1>6. CASE freed # <<>>
  <2>1. r = Head(freed) /\ regionCount' = regionCount /\ freed' = Tail(freed)
    BY <1>6
  <2>2. /\ r \in Regions /\ freed' \in Seq(Regions)
        /\ ElementsOf(freed) = {r} \cup ElementsOf(freed')
    BY <1>1, <1>6, <2>1, TailElements
  <2>3. /\ 1 \in 1 .. Len(freed) /\ freed[1] = r
        /\ \A k \in 1 .. Len(freed') : k + 1 \in 1 .. Len(freed) /\ freed'[k] = freed[k + 1]
    BY <1>1, <1>6, <2>1
  <2>4. r \in 1 .. regionCount
    BY <2>3 DEF FreedInv
  <2>5. r \notin ElementsOf(freed')
    <3>1. ASSUME NEW k \in 1 .. Len(freed'), freed'[k] = r PROVE FALSE
      <4>1. k + 1 = 1
        BY <2>3, <3>1 DEF FreedInv
      <4> QED
        BY <4>1
    <3> QED
      BY <3>1 DEF ElementsOf
  <2>6. r \notin Live /\ Live' = Live \cup {r}
    BY <2>1, <2>2, <2>4, <2>5 DEF Live
  <2>7. /\ \A k \in 1 .. Len(freed') : freed'[k] \in 1 .. regionCount'
        /\ \A j, k \in 1 .. Len(freed') : freed'[j] = freed'[k] => j = k
    <3>1. \A k \in 1 .. Len(freed') : freed'[k] \in 1 .. regionCount'
      BY <2>1, <2>3 DEF FreedInv
    <3>2. ASSUME NEW j \in 1 .. Len(freed'), NEW k \in 1 .. Len(freed'), freed'[j] = freed'[k]
          PROVE  j = k
      <4>1. j + 1 = k + 1
        BY <2>3, <3>2 DEF FreedInv
      <4> QED
        BY <4>1
    <3> QED
      BY <3>1, <3>2
  <2>8. regionCount' \in 0 .. Width * Height /\ regionCount' <= refCount + 1
    BY <1>1, <1>2, <2>1
  <2> QED
    BY <1>1, <1>3, <2>2, <2>6, <2>7, <2>8
<1> QED
  BY <1>5, <1>6

\* A new region has a new root, no neighbours yet, and no neighbour that is not in use.
LEMMA NewRegionIInv ==
    ASSUME IInv, NEW c \in Colours, ReadPixel(c),
           NEW f \in SUBSET (Flags \ {Saturated}), NEW boxes \in [Regions -> Boxes],
           NEW touching \in Seq(Regions),
           \A k \in 1 .. Len(touching) : touching[k] \in Live /\ colour[touching[k]] # c,
           NewRegion(c, f, boxes, touching)
    PROVE  IInv'
<1> USE DEF IInv
<1> DEFINE r == IF freed = <<>> THEN regionCount + 1 ELSE Head(freed)
           q == refCount + 1
           pixelBox == [left |-> x, top |-> y, right |-> x, bottom |-> y]
<1>1. /\ regionCount' = IF freed = <<>> THEN r ELSE regionCount
      /\ freed' = IF freed = <<>> THEN <<>> ELSE Tail(freed)
      /\ colour' = [colour EXCEPT ![r] = c]
      /\ box' = [boxes EXCEPT ![r] = pixelBox]
      /\ flags' = [flags EXCEPT ![r] = f]
      /\ adjacent' = [adjacent EXCEPT ![r] = <<>>]
      /\ refCount' = q
      /\ redirect' = [Compressed EXCEPT ![q] = q]
      /\ regionOf' = [regionOf EXCEPT ![q] = r]
      /\ currentRow' = Append(currentRow, q) /\ label' = Append(label, q)
      /\ neighbours' = touching /\ pc' = "link"
      /\ UNCHANGED <<saturating, i>>
  BY DEF NewRegion, Popped
<1>2. /\ pc = "read" /\ Resolved /\ x' = x /\ y' = y /\ result' = result /\ Position' = Position
      /\ source' \in Seq(Colours) /\ Len(source') = Position /\ Len(source') <= Width * Height
      /\ Len(label) = Position - 1 /\ Len(currentRow) = x - 1
      /\ previousRow' = ResolvedRow /\ neighbours = <<>> /\ saturating = <<>>
  BY PixelRead
<1>3. /\ r \in Regions /\ r \notin Live /\ Live' = Live \cup {r}
      /\ q \in Refs /\ refCount \in Nat /\ q <= Position
      /\ regionCount' \in 0 .. Width * Height /\ regionCount' <= q
      /\ freed' \in Seq(Regions)
      /\ \A k \in 1 .. Len(freed') : freed'[k] \in 1 .. regionCount'
      /\ \A j, k \in 1 .. Len(freed') : freed'[j] = freed'[k] => j = k
  BY <1>1, RegionTaken
<1> HIDE DEF r
<1>4. adjacent' = adjacent
  <2>1. adjacent[r] = <<>> /\ adjacent \in [Regions -> Seq(Regions)]
    BY <1>3, UnusedRegion DEF TypeOK
  <2> QED
    BY <1>1, <2>1
<1>5. q \in Nat /\ q \notin 1 .. refCount /\ \A p \in 1 .. q : p = q \/ p \in 1 .. refCount
  BY <1>3
<1>6. /\ currentRow' \in Seq(Refs) /\ Len(currentRow') = x /\ currentRow'[x] = q
      /\ \A k \in 1 .. Len(currentRow') : currentRow'[k] = q \/ currentRow'[k] \in 1 .. refCount
      /\ label' \in Seq(Refs) /\ Len(label') = Position
  BY <1>1, <1>2, <1>3, CellAdded
<1>7. \A p \in 1 .. refCount : p \in 1 .. q
  BY <1>3
<1>8. q \in 1 .. q
  BY <1>3
<1>9. /\ refCount' \in 0 .. Width * Height /\ x \in 1 .. Width /\ y \in 1 .. Height
  BY <1>1, <1>3, SizeFacts DEF Refs, TypeOK
<1> HIDE DEF q
<1>10. /\ Compressed \in [Refs -> Refs \cup {Null}]
       /\ \A p \in 1 .. refCount : Compressed[p] \in 1 .. refCount
       /\ \A p \in 1 .. refCount : Compressed[p] = p <=> IsRoot(p)
       /\ previousRow' \in Seq(Refs) /\ Len(previousRow') = Len(previousRow)
       /\ \A k \in 1 .. Len(previousRow) : previousRow'[k] \in 1 .. refCount
  BY <1>2, CompressedRoots
<1>11. /\ redirect' \in [Refs -> Refs \cup {Null}]
       /\ redirect'[q] = q
       /\ \A p \in 1 .. refCount : p \in Refs /\ redirect'[p] = Compressed[p]
  <2>1. \A p \in 1 .. refCount : p \in Refs /\ p # q
    BY <1>5, SizeFacts DEF TypeOK, Refs
  <2> QED
    BY <1>1, <1>3, <1>10, <2>1
<1>12. /\ regionOf' \in [Refs -> Regions \cup {Null}]
       /\ regionOf'[q] = r
       /\ \A p \in 1 .. refCount : regionOf'[p] = regionOf[p]
  BY <1>1, <1>3, <1>5, <1>11, ZenonT(60) DEF TypeOK
<1>13. /\ colour' \in [Regions -> Colours \cup {NoColour}] /\ colour'[r] = c
       /\ \A t \in Regions \ {r} : colour'[t] = colour[t]
  BY <1>1, <1>3 DEF TypeOK
<1>14. /\ flags' \in [Regions -> SUBSET Flags] /\ Saturated \notin flags'[r]
       /\ \A t \in Regions \ {r} : flags'[t] = flags[t]
  BY <1>1, <1>3 DEF TypeOK
<1>15. TypeOK'
  <2>1. pixelBox \in Boxes
    BY <1>9, SizeFacts DEF Boxes
  <2>2. box' \in [Regions -> Boxes]
    BY <1>1, <1>3, <2>1
  <2>3. pc' = "link" /\ neighbours' \in Seq(Regions) /\ saturating' = saturating /\ i' = i
    BY <1>1
  <2> HIDE DEF pixelBox
  <2> QED
    BY <1>2, <1>3, <1>4, <1>6, <1>9, <1>10, <1>11, <1>12, <1>13, <1>14, <2>2, <2>3 DEF TypeOK
<1>16. CountInv'
  BY <1>1, <1>2, <1>3, <1>6 DEF CountInv, Merging
<1>17. RowsInv' /\ CursorInv' /\ RedirectInv' /\ FreedInv'
  <2>1. y > 1 => Len(previousRow) = Width
    BY DEF RowsInv
  <2>2. RowsInv'
    BY <1>1, <1>2, <1>6, <1>7, <1>8, <1>10, <2>1 DEF RowsInv
  <2>3. CursorInv'
    BY <1>1, <1>2, <1>7 DEF CursorInv, Scanning
  <2>4. RedirectInv'
    BY <1>1, <1>5, <1>7, <1>8, <1>10, <1>11 DEF RedirectInv
  <2>5. FreedInv'
    BY <1>3 DEF FreedInv
  <2> QED
    BY <2>2, <2>3, <2>4, <2>5
<1>18. OneOwner'
  <2>1. \A p \in 1 .. refCount : IsRoot(p)' <=> IsRoot(p)
    BY <1>10, <1>11 DEF IsRoot
  <2>2. r # Null
    BY <1>3 DEF Regions, Null
  <2>3. \A p \in 1 .. refCount : regionOf'[p] # r
    BY <1>3, <1>12, <2>2 DEF OneOwner
  <2>4. \A p \in 1 .. q : IF IsRoot(p)' THEN regionOf'[p] \in Live' ELSE regionOf'[p] = Null
    <3>1. \A p \in 1 .. refCount :
              IF IsRoot(p)' THEN regionOf'[p] \in Live' ELSE regionOf'[p] = Null
      BY <1>3, <1>12, <2>1 DEF OneOwner
    <3>2. redirect'[q] = q /\ regionOf'[q] \in Live'
      BY <1>3, <1>11, <1>12
    <3> QED
      BY <1>5, <3>1, <3>2 DEF IsRoot
  <2>5. \A t \in Live' : \E p \in 1 .. q : regionOf'[p] = t
    BY <1>3, <1>7, <1>8, <1>12 DEF OneOwner
  <2>6. \A o, p \in 1 .. q : regionOf'[o] = regionOf'[p] /\ regionOf'[o] # Null => o = p
    BY <1>5, <1>12, <2>3 DEF OneOwner
  <2> QED
    BY <1>1, <2>4, <2>5, <2>6 DEF OneOwner
<1>19. RootsInv'
  BY <1>1, <1>2, <1>6, <1>11 DEF RootsInv, Merging, IsRoot
<1>20. LinkInv'
  <2>1. Here' = r
    BY <1>2, <1>6, <1>12 DEF Here
  <2>2. \A k \in 1 .. Len(touching) :
            touching[k] \in Live' /\ touching[k] # r /\ colour'[touching[k]] # c
    BY <1>3, <1>13
  <2> QED
    BY <1>1, <1>13, <2>1, <2>2 DEF LinkInv
<1>21. MergeInv'
  BY <1>1 DEF MergeInv, Merging
<1>22. BidirectionalAdjacency'
  <2>1. ASSUME NEW a \in Regions, NEW b \in ElementsOf(adjacent[a])
        PROVE  b \in Live' /\ colour'[a] # colour'[b]
    <3>1. b \in Live /\ b \in Regions /\ colour[a] # colour[b] /\ b # r
      BY <1>3, <2>1, ListedBothWays
    <3>2. a # r
      <4>1. a = r => adjacent[a] = <<>>
        BY <1>3, UnusedRegion
      <4> QED
        BY <2>1, <4>1 DEF ElementsOf
    <3> QED
      BY <1>3, <1>13, <3>1, <3>2
  <2> QED
    BY <1>4, <2>1 DEF BidirectionalAdjacency
<1>23. SaturatedDetached'
  BY <1>4, <1>14 DEF SaturatedDetached
<1> QED
  BY <1>15, <1>16, <1>17, <1>18, <1>19, <1>20, <1>21, <1>22, <1>23

\* The boxes of CentreNew and ExtendNorth stay within the image.
LEMMA BoxFacts ==
    ASSUME TypeOK
    PROVE  /\ regionOf[West] \in Regions /\ x > 1 => WestRight \in [Regions -> Boxes]
           /\ regionOf[West] \in Regions /\ regionOf[North] \in Regions /\ x > 1
                => NorthBottom \in [Regions -> Boxes]
<1>1. box \in [Regions -> Boxes] /\ x \in 1 .. Width /\ y \in 1 .. Height
  BY DEF TypeOK
<1>2. Width \in Nat /\ Height \in Nat
  BY SizeFacts
<1>3. ASSUME regionOf[West] \in Regions, x > 1 PROVE WestRight \in [Regions -> Boxes]
  <2> DEFINE r == regionOf[West]
             old == box[r]
             right == IF old.right < x - 1 THEN x - 1 ELSE old.right
  <2>1. old \in Boxes
    BY <1>1, <1>3
  <2>2. WestRight = [box EXCEPT ![r] = [old EXCEPT !.right = right]]
    BY DEF WestRight
  <2>3. right \in 0 .. Width
    BY <1>1, <1>2, <1>3, <2>1 DEF Boxes
  <2> HIDE DEF right
  <2>4. [old EXCEPT !.right = right] \in Boxes
    BY <2>1, <2>3 DEF Boxes
  <2> HIDE DEF r, old
  <2> QED
    BY <1>1, <2>2, <2>4
<1>4. ASSUME WestRight \in [Regions -> Boxes], regionOf[North] \in Regions
      PROVE  NorthBottom \in [Regions -> Boxes]
  <2> DEFINE r == regionOf[North]
             old == WestRight[r]
  <2>1. old \in Boxes
    BY <1>4
  <2>2. NorthBottom = [WestRight EXCEPT ![r] = [old EXCEPT !.bottom = y]]
    BY DEF NorthBottom
  <2>3. y \in 0 .. Height
    BY <1>1, <1>2
  <2>4. [old EXCEPT !.bottom = y] \in Boxes
    BY <2>1, <2>3 DEF Boxes
  <2> HIDE DEF r, old
  <2> QED
    BY <1>4, <2>2, <2>4
<1> QED
  BY <1>3, <1>4

\* The lists of regions a new region must be made adjacent to.
LEMMA OneTouched ==
    ASSUME NEW r \in Regions
    PROVE  /\ <<r>> \in Seq(Regions)
           /\ \A k \in 1 .. Len(<<r>>) : <<r>>[k] = r
OBVIOUS

\* The same, for two regions.
LEMMA TwoTouched ==
    ASSUME NEW r \in Regions, NEW s \in Regions
    PROVE  /\ <<r, s>> \in Seq(Regions)
           /\ \A k \in 1 .. Len(<<r, s>>) : <<r, s>>[k] \in {r, s}
OBVIOUS

\* A step that reads a pixel and does not begin a merge.
ReadWithoutMerge(c) ==
    FirstPixel(c) \/ TopLine(c) \/ LeftEdge(c) \/ ExtendWest(c) \/ ExtendNorth(c) \/ CentreNew(c)

\* Every way of handling a pixel that begins no merge.
LEMMA ReadIInv == ASSUME IInv, NEW c \in Colours, ReadWithoutMerge(c) PROVE IInv'
<1> USE DEF IInv
<1>1. ReadPixel(c)
  BY DEF ReadWithoutMerge, FirstPixel, TopLine, LeftEdge, ExtendWest, ExtendNorth, CentreNew, InCentre
<1>2. pc = "read" /\ Resolved
  BY <1>1, PixelRead
<1>3. /\ x > 1 => West \in 1 .. refCount /\ IsRoot(West) /\ regionOf[West] \in Live
      /\ y > 1 => North \in 1 .. refCount /\ IsRoot(North) /\ regionOf[North] \in Live
      /\ x \in 1 .. Width /\ y \in 1 .. Height
      /\ Live \subseteq Regions
  BY <1>2, BesidePixel
<1>4. /\ box \in [Regions -> Boxes]
      /\ {Root} \in SUBSET (Flags \ {Saturated}) /\ {} \in SUBSET (Flags \ {Saturated})
  BY DEF TypeOK, Flags, Root, Saturated
<1>5. CASE FirstPixel(c)
  <2>1. NewRegion(c, {Root}, box, <<>>)
    BY <1>5 DEF FirstPixel
  <2>2. <<>> \in Seq(Regions) /\ \A k \in 1 .. Len(<<>>) : <<>>[k] \in Live /\ colour[<<>>[k]] # c
    OBVIOUS
  <2> QED
    BY <1>1, <1>4, <2>1, <2>2, NewRegionIInv
<1>6. ASSUME NEW q \in {West, North}, q \in 1 .. refCount, regionOf[q] \in Live,
             c # RegionColour(q), NewRegion(c, {Root}, box, <<regionOf[q]>>)
      PROVE  IInv'
  <2> DEFINE touching == <<regionOf[q]>>
  <2>1. /\ touching \in Seq(Regions)
        /\ \A k \in 1 .. Len(touching) : touching[k] \in Live /\ colour[touching[k]] # c
    BY <1>3, <1>6, OneTouched DEF RegionColour
  <2>2. NewRegion(c, {Root}, box, touching)
    BY <1>6
  <2> HIDE DEF touching
  <2> QED
    BY <1>1, <1>4, <2>1, <2>2, NewRegionIInv
<1>7. ASSUME NEW q \in {West, North}, q \in 1 .. refCount, IsRoot(q),
             JoinRegion(q), box' \in [Regions -> Boxes]
      PROVE  IInv'
  BY <1>1, <1>7, JoinRegionIInv
<1>8. CASE TopLine(c)
  <2>1. x > 1
    BY <1>8 DEF TopLine
  <2>2. CASE JoinRegion(West) /\ UNCHANGED box
    BY <1>3, <1>4, <1>7, <2>1, <2>2
  <2>3. CASE c # RegionColour(West) /\ NewRegion(c, {Root}, box, <<regionOf[West]>>)
    BY <1>3, <1>6, <2>1, <2>3
  <2> QED
    BY <1>8, <2>2, <2>3 DEF TopLine
<1>9. CASE LeftEdge(c)
  <2>1. y > 1
    BY <1>9 DEF LeftEdge
  <2>2. CASE JoinRegion(North) /\ UNCHANGED box
    BY <1>3, <1>4, <1>7, <2>1, <2>2
  <2>3. CASE c # RegionColour(North) /\ NewRegion(c, {Root}, box, <<regionOf[North]>>)
    BY <1>3, <1>6, <2>1, <2>3
  <2> QED
    BY <1>9, <2>2, <2>3 DEF LeftEdge
<1>10. CASE ExtendWest(c)
  <2>1. x > 1 /\ JoinRegion(West) /\ UNCHANGED box
    BY <1>10 DEF ExtendWest, InCentre
  <2> QED
    BY <1>3, <1>4, <1>7, <2>1
<1>11. CASE ExtendNorth(c)
  <2>1. x > 1 /\ y > 1 /\ JoinRegion(North) /\ box' = NorthBottom
    BY <1>11 DEF ExtendNorth, InCentre
  <2>2. box' \in [Regions -> Boxes]
    BY <1>3, <2>1, BoxFacts
  <2> QED
    BY <1>3, <1>7, <2>1, <2>2
<1>12. CASE CentreNew(c)
  <2>1. /\ x > 1 /\ y > 1 /\ c # RegionColour(West) /\ c # RegionColour(North)
        /\ NewRegion(c, {}, WestRight, TouchedByNew)
    BY <1>12 DEF CentreNew, InCentre
  <2>2. WestRight \in [Regions -> Boxes]
    BY <1>3, <2>1, BoxFacts
  <2>3. /\ TouchedByNew \in Seq(Regions)
        /\ \A k \in 1 .. Len(TouchedByNew) : TouchedByNew[k] \in {regionOf[North], regionOf[West]}
    <3>1. regionOf[North] \in Regions /\ regionOf[West] \in Regions
      BY <1>3, <2>1
    <3>2. CASE regionOf[North] = regionOf[West]
      <4>1. TouchedByNew = <<regionOf[North]>>
        BY <3>2 DEF TouchedByNew
      <4> QED
        BY <3>1, <4>1, OneTouched
    <3>3. CASE regionOf[North] # regionOf[West]
      <4>1. TouchedByNew = <<regionOf[North], regionOf[West]>>
        BY <3>3 DEF TouchedByNew
      <4> QED
        BY <3>1, <4>1, TwoTouched
    <3> QED
      BY <3>2, <3>3
  <2>4. \A k \in 1 .. Len(TouchedByNew) : TouchedByNew[k] \in Live /\ colour[TouchedByNew[k]] # c
    BY <1>3, <2>1, <2>3 DEF RegionColour
  <2> QED
    BY <1>1, <1>4, <2>1, <2>2, <2>3, <2>4, NewRegionIInv
<1> QED
  BY <1>5, <1>8, <1>9, <1>10, <1>11, <1>12 DEF ReadWithoutMerge

\* A merge begins between two roots of one colour; a saturated one will be emptied.
LEMMA MergeRegionsIInv == ASSUME IInv, NEW c \in Colours, MergeRegions(c) PROVE IInv'
<1> USE DEF IInv
<1>1. /\ x > 1 /\ y > 1 /\ ReadPixel(c)
      /\ c = RegionColour(West) /\ West # North /\ c = RegionColour(North)
      /\ \/ Saturated \in flags[R1] /\ saturating' = <<R2, R1>> /\ pc' = "mergeEnd"
         \/ Saturated \in flags[R2] /\ saturating' = <<R1>> /\ pc' = "mergeEnd"
         \/ Saturated \notin flags[R1] \cup flags[R2] /\ saturating' = <<>> /\ pc' = "common"
      /\ i' = 1 /\ redirect' = Compressed
      /\ UNCHANGED <<colour, box, flags, adjacent, regionCount, freed>>
      /\ UNCHANGED <<regionOf, refCount, currentRow, label, neighbours>>
  BY DEF MergeRegions, InCentre, MeetsNorth, regionVars
<1>2. /\ pc = "read" /\ Resolved /\ x' = x /\ y' = y /\ result' = result /\ Position' = Position
      /\ source' \in Seq(Colours) /\ Len(source') = Position /\ Len(source') <= Width * Height
      /\ Len(label) = Position - 1 /\ Len(currentRow) = x - 1
      /\ previousRow' = ResolvedRow /\ neighbours = <<>>
  BY <1>1, PixelRead
<1>3. /\ redirect' \in [Refs -> Refs \cup {Null}]
      /\ \A p \in 1 .. refCount : redirect'[p] \in 1 .. refCount
      /\ \A p \in 1 .. refCount : IsRoot(p)' <=> IsRoot(p)
      /\ previousRow' \in Seq(Refs) /\ Len(previousRow') = Len(previousRow)
      /\ \A k \in 1 .. Len(previousRow) : previousRow'[k] \in 1 .. refCount
  BY <1>1, <1>2, CompressedRoots DEF IsRoot
<1>4. /\ West \in 1 .. refCount /\ IsRoot(West) /\ regionOf[West] \in Live
      /\ North \in 1 .. refCount /\ IsRoot(North) /\ regionOf[North] \in Live
      /\ Live \subseteq Regions
  BY <1>1, <1>2, BesidePixel
<1>5. R1 \in Regions /\ R2 \in Regions /\ colour[R1] = colour[R2]
  BY <1>1, <1>4 DEF R1, R2, RegionColour
<1>6. /\ West' = West /\ North' = North /\ R1' = R1 /\ R2' = R2 /\ Live' = Live
      /\ Merging' /\ pc' \in {"common", "mergeEnd"}
  BY <1>1, <1>2 DEF West, North, R1, R2, Live, Merging
<1>7. TypeOK'
  <2>1. saturating' \in Seq(Regions)
    <3>1. <<R2, R1>> \in Seq(Regions) /\ <<R1>> \in Seq(Regions) /\ <<>> \in Seq(Regions)
      BY <1>5
    <3> QED
      BY <1>1, <3>1
  <2>2. i' \in 1 .. MaxAdjacent + 1 /\ pc' \in {"common", "mergeEnd"}
    BY <1>1, SizeFacts
  <2>3. UNCHANGED <<colour, box, flags, adjacent, regionCount, freed>>
        /\ UNCHANGED <<regionOf, refCount, currentRow, label, neighbours>>
    BY <1>1
  <2> QED
    BY <1>2, <1>3, <2>1, <2>2, <2>3 DEF TypeOK
<1>8. CountInv'
  BY <1>1, <1>2 DEF CountInv, Merging
<1>9. RowsInv'
  BY <1>1, <1>2, <1>3, <1>6 DEF RowsInv, Scanning, Merging
<1>10. CursorInv' /\ RedirectInv' /\ FreedInv'
  BY <1>1, <1>2, <1>3, <1>6 DEF CursorInv, RedirectInv, FreedInv, Scanning
<1>11. OneOwner'
  BY <1>1, <1>3, <1>6 DEF OneOwner
<1>12. RootsInv'
  <2>1. IsRoot(West)' /\ IsRoot(North)'
    BY <1>3, <1>4, <1>6 DEF IsRoot
  <2> QED
    BY <1>1, <1>2, <1>6, <2>1 DEF RootsInv
<1>13. LinkInv'
  BY <1>1, <1>2 DEF LinkInv
<1>14. MergeInv'
  <2>1. CASE Saturated \in flags[R1] /\ saturating' = <<R2, R1>> /\ pc' = "mergeEnd"
    BY <1>1, <1>5, <1>6, <2>1, PairElements DEF MergeInv
  <2>2. CASE Saturated \in flags[R2] /\ saturating' = <<R1>> /\ pc' = "mergeEnd"
    <3>1. adjacent[R2] = <<>>
      BY <1>5, <2>2 DEF SaturatedDetached
    <3>2. R1 \in ElementsOf(saturating')
      <4>1. 1 \in 1 .. Len(<<R1>>) /\ <<R1>>[1] = R1
        OBVIOUS
      <4> QED
        BY <2>2, <4>1 DEF ElementsOf
    <3> QED
      BY <1>1, <1>5, <1>6, <2>2, <3>1, <3>2 DEF MergeInv
  <2>3. CASE Saturated \notin flags[R1] \cup flags[R2] /\ saturating' = <<>> /\ pc' = "common"
    BY <1>1, <1>5, <1>6, <2>3 DEF MergeInv
  <2> QED
    BY <1>1, <2>1, <2>2, <2>3
<1>15. BidirectionalAdjacency' /\ SaturatedDetached'
  BY <1>1, <1>6 DEF BidirectionalAdjacency, SaturatedDetached
<1> QED
  BY <1>7, <1>8, <1>9, <1>10, <1>11, <1>12, <1>13, <1>14, <1>15

\* A merge ends: the region freed has no neighbours left, and its reference redirects.
LEMMA FreeMergedIInv == IInv /\ FreeMerged => IInv'
<1> SUFFICES ASSUME IInv, FreeMerged PROVE IInv'
  OBVIOUS
<1> USE DEF IInv
<1> DEFINE s == R1
           r == R2
           w == West
           n == North
<1>1. /\ (pc = "transfer" /\ adjacent[r] = <<>>) \/ (pc = "mergeEnd" /\ saturating = <<>>)
      /\ flags' = [flags EXCEPT ![s] = flags[s] \cup flags[r], ![r] = {Free}]
      /\ box' = [box EXCEPT ![s] = Union(@, box[r])]
      /\ freed' = <<r>> \o freed
      /\ regionOf' = [regionOf EXCEPT ![w] = Null]
      /\ redirect' = [redirect EXCEPT ![w] = n]
      /\ currentRow' = Append(currentRow, n) /\ label' = Append(label, n)
      /\ pc' = "link"
      /\ UNCHANGED <<x, y, source, colour, adjacent, regionCount, refCount, previousRow, result>>
      /\ UNCHANGED <<neighbours, saturating, i>>
  BY DEF FreeMerged, SurvivorFlags, MergedCell, callVars
<1>2. Merging
  BY <1>1 DEF Merging
<1>3. /\ s \in Regions /\ r \in Regions /\ s # r /\ s \in Live /\ r \in Live
      /\ n \in 1 .. refCount /\ w \in 1 .. refCount /\ redirect[n] = n /\ redirect[w] = w /\ n # w
      /\ regionOf[w] = r /\ regionOf[n] = s
  BY <1>2, MergedRegions DEF R1, R2, IsRoot
<1>4. adjacent[r] = <<>> /\ (Saturated \in flags[s] \cup flags[r] => adjacent[s] = <<>>)
  <2>1. CASE pc = "transfer"
    BY <1>1, <2>1 DEF MergeInv
  <2>2. CASE pc = "mergeEnd" /\ saturating = <<>>
    <3>1. ElementsOf(saturating) = {}
      BY <2>2 DEF ElementsOf
    <3> QED
      BY <2>2, <3>1 DEF MergeInv
  <2> QED
    BY <1>1, <2>1, <2>2
<1>5. /\ Len(label) = Position - 1 /\ Len(currentRow) = x - 1 /\ Position' = Position
      /\ Len(source) = Position /\ neighbours = <<>>
  BY <1>1, <1>2 DEF CountInv, RowsInv, Scanning, LinkInv, Merging, Position
<1> HIDE DEF s, r, w, n
<1>6. n \in Refs /\ w \in Refs /\ 1 .. refCount \subseteq Refs
  BY <1>3, SizeFacts DEF TypeOK, Refs
<1>7. /\ currentRow' \in Seq(Refs) /\ Len(currentRow') = x /\ currentRow'[x] = n
      /\ \A k \in 1 .. Len(currentRow') : currentRow'[k] \in 1 .. refCount
      /\ label' \in Seq(Refs) /\ Len(label') = Position
  BY <1>1, <1>3, <1>5, <1>6, CellAdded
<1>8. /\ redirect' \in [Refs -> Refs \cup {Null}] /\ redirect'[w] = n
      /\ \A p \in Refs \ {w} : redirect'[p] = redirect[p]
      /\ regionOf' \in [Refs -> Regions \cup {Null}] /\ regionOf'[w] = Null
      /\ \A p \in Refs \ {w} : regionOf'[p] = regionOf[p]
  BY <1>1, <1>6 DEF TypeOK
<1>9. /\ freed \in Seq(Regions) /\ freed' \in Seq(Regions) /\ Len(freed') = Len(freed) + 1
      /\ freed'[1] = r /\ \A k \in 2 .. Len(freed') : freed'[k] = freed[k - 1] /\ k - 1 \in 1 .. Len(freed)
      /\ \A k \in 1 .. Len(freed) : freed[k] = freed'[k + 1] /\ k + 1 \in 1 .. Len(freed')
  <2>1. freed \in Seq(Regions)
    BY DEF TypeOK
  <2> DEFINE new == <<r>> \o freed
  <2>2. /\ new \in Seq(Regions) /\ Len(new) = Len(freed) + 1 /\ new[1] = r
        /\ \A k \in 1 .. Len(freed) : new[k + 1] = freed[k] /\ k + 1 \in 1 .. Len(new)
    BY <1>3, <2>1, PushElements
  <2>3. freed' = new
    BY <1>1
  <2> HIDE DEF new
  <2>4. \A k \in 2 .. Len(new) : k - 1 \in 1 .. Len(freed) /\ (k - 1) + 1 = k
    BY <2>1, <2>2
  <2> QED
    BY <2>1, <2>2, <2>3, <2>4
<1>10. ElementsOf(freed') = {r} \cup ElementsOf(freed)
  <2>1. ElementsOf(freed') \subseteq {r} \cup ElementsOf(freed)
    <3>1. \A k \in 1 .. Len(freed') : k = 1 \/ k \in 2 .. Len(freed')
      BY <1>9
    <3> QED
      BY <1>9, <3>1 DEF ElementsOf
  <2>2. 1 \in 1 .. Len(freed')
    BY <1>9
  <2>3. {r} \cup ElementsOf(freed) \subseteq ElementsOf(freed')
    <3>1. r \in ElementsOf(freed')
      BY <1>9, <2>2 DEF ElementsOf
    <3>2. ASSUME NEW k \in 1 .. Len(freed) PROVE freed[k] \in ElementsOf(freed')
      <4>1. freed[k] = freed'[k + 1] /\ k + 1 \in 1 .. Len(freed')
        BY <1>9
      <4> QED
        BY <4>1 DEF ElementsOf
    <3> QED
      BY <3>1, <3>2 DEF ElementsOf
  <2> QED
    BY <2>1, <2>3
<1>11. Live' = Live \ {r} /\ r \notin ElementsOf(freed) /\ r \in 1 .. regionCount
  BY <1>1, <1>3, <1>10 DEF Live
<1>12. /\ flags' \in [Regions -> SUBSET Flags]
       /\ flags'[s] = flags[s] \cup flags[r] /\ flags'[r] = {Free}
       /\ \A t \in Regions \ {s, r} : flags'[t] = flags[t]
  BY <1>1, <1>3, ZenonT(60) DEF TypeOK, Flags, Free
<1>13. TypeOK'
  <2>1. box' \in [Regions -> Boxes]
    <3>1. box \in [Regions -> Boxes] /\ box[s] \in Boxes /\ box[r] \in Boxes
      BY <1>3 DEF TypeOK
    <3>2. Union(box[s], box[r]) \in Boxes
      BY <3>1 DEF Union, Lower, Higher, Boxes
    <3> QED
      BY <1>1, <1>3, <3>1, <3>2
  <2>2. UNCHANGED <<x, y, source, colour, adjacent, regionCount, refCount, previousRow, result>>
        /\ UNCHANGED <<neighbours, saturating, i>> /\ pc' = "link"
    BY <1>1
  <2> QED
    BY <1>7, <1>8, <1>9, <1>12, <2>1, <2>2 DEF TypeOK
<1>14. CountInv'
  <2>1. refCount \in Nat /\ refCount <= Position - 1 /\ regionCount <= refCount /\ Position \in Nat
    <3>1. Position \in 1 .. Width * Height
      BY PositionFacts DEF TypeOK
    <3> QED
      BY <1>5, <3>1, SizeFacts DEF TypeOK, CountInv
  <2>2. refCount <= Position
    BY <2>1
  <2> QED
    BY <1>1, <1>5, <1>7, <2>1, <2>2 DEF CountInv, Merging
<1>15. RowsInv' /\ CursorInv' /\ RedirectInv'
  <2>1. RowsInv'
    BY <1>1, <1>7 DEF RowsInv
  <2>2. CursorInv'
    BY <1>1, <1>2 DEF CursorInv, Scanning
  <2>3. RedirectInv'
    BY <1>1, <1>3, <1>6, <1>8 DEF RedirectInv
  <2> QED
    BY <2>1, <2>2, <2>3
<1>16. FreedInv'
  <2>1. \A k \in 1 .. Len(freed') : k = 1 \/ k \in 2 .. Len(freed')
    BY <1>9
  <2>2. \A k \in 1 .. Len(freed') : freed'[k] \in 1 .. regionCount
    BY <1>9, <1>11, <2>1 DEF FreedInv
  <2>3. \A k \in 2 .. Len(freed') : freed'[k] # r
    BY <1>9, <1>11 DEF ElementsOf
  <2>4. ASSUME NEW j \in 2 .. Len(freed'), NEW k \in 2 .. Len(freed'), freed'[j] = freed'[k]
        PROVE  j = k
    <3>1. j - 1 = k - 1
      BY <1>9, <2>4 DEF FreedInv
    <3> QED
      BY <3>1
  <2> QED
    BY <1>1, <1>9, <2>1, <2>2, <2>3, <2>4 DEF FreedInv
<1>17. OneOwner'
  <2>1. \A p \in 1 .. refCount : p # w => (IsRoot(p)' <=> IsRoot(p)) /\ regionOf'[p] = regionOf[p]
    BY <1>6, <1>8 DEF IsRoot
  <2>2. \A p \in 1 .. refCount : p # w => regionOf[p] # r
    <3>1. r # Null
      BY <1>11 DEF Null
    <3> QED
      BY <1>3, <3>1 DEF OneOwner
  <2>3. \A p \in 1 .. refCount : IF IsRoot(p)' THEN regionOf'[p] \in Live' ELSE regionOf'[p] = Null
    <3>1. ~(redirect'[w] = w)
      BY <1>3, <1>8
    <3>2. \A p \in 1 .. refCount : p = w => ~IsRoot(p)' /\ regionOf'[p] = Null
      BY <1>8, <3>1 DEF IsRoot
    <3>3. \A p \in 1 .. refCount : p # w =>
              IF IsRoot(p)' THEN regionOf'[p] \in Live' ELSE regionOf'[p] = Null
      BY <1>11, <2>1, <2>2 DEF OneOwner
    <3> QED
      BY <3>2, <3>3
  <2>4. \A t \in Live' : \E p \in 1 .. refCount : regionOf'[p] = t
    <3>1. ASSUME NEW t \in Live' PROVE \E p \in 1 .. refCount : regionOf'[p] = t
      <4>1. PICK p \in 1 .. refCount : regionOf[p] = t
        BY <1>11, <3>1 DEF OneOwner
      <4>2. p # w
        BY <1>3, <1>11, <4>1
      <4> QED
        BY <2>1, <4>1, <4>2
    <3> QED
      BY <3>1
  <2>5. \A o, p \in 1 .. refCount : regionOf'[o] = regionOf'[p] /\ regionOf'[o] # Null => o = p
    BY <1>8, <2>1 DEF OneOwner
  <2> QED
    BY <1>1, <2>3, <2>4, <2>5 DEF OneOwner
<1>18. RootsInv'
  <2>1. redirect'[n] = n
    BY <1>3, <1>6, <1>8
  <2> QED
    BY <1>1, <1>7, <2>1 DEF RootsInv, Merging, IsRoot
<1>19. LinkInv' /\ MergeInv'
  BY <1>1, <1>5 DEF LinkInv, MergeInv, Merging
<1>20. BidirectionalAdjacency'
  <2>1. ASSUME NEW a \in Regions, NEW b \in ElementsOf(adjacent[a])
        PROVE  b \in Live' /\ colour[a] # colour[b]
    <3>1. b \in Live /\ colour[a] # colour[b] /\ Contains(adjacent[b], a)
      BY <2>1, ListedBothWays
    <3>2. b # r
      BY <1>4, <3>1 DEF Contains
    <3> QED
      BY <1>11, <3>1, <3>2
  <2> QED
    BY <1>1, <2>1 DEF BidirectionalAdjacency
<1>21. SaturatedDetached'
  BY <1>1, <1>4, <1>12 DEF SaturatedDetached, Saturated, Free
<1> QED
  BY <1>13, <1>14, <1>15, <1>16, <1>17, <1>18, <1>19, <1>20, <1>21

-----------------------------------------------------------------------------
(***************************************************************************)
(* The end of a pixel, of a row, of the image                              *)
(***************************************************************************)
\* What these steps keep of the regions, whatever flags they set.
LEMMA FlagsAddedInv ==
    ASSUME IInv, UNCHANGED <<colour, box, adjacent, regionCount, freed, regionOf, refCount>>,
           UNCHANGED <<source, label, saturating, i>>,
           \A q \in 1 .. refCount : IsRoot(q)' <=> IsRoot(q),
           \A t \in Regions : flags'[t] \subseteq flags[t] \cup {Root}
    PROVE  /\ Live' = Live /\ OneOwner' /\ FreedInv'
           /\ BidirectionalAdjacency' /\ SaturatedDetached'
<1> USE DEF IInv
<1>1. Live' = Live
  BY DEF Live
<1>2. OneOwner' /\ FreedInv'
  BY <1>1 DEF OneOwner, FreedInv
<1>3. BidirectionalAdjacency'
  BY <1>1 DEF BidirectionalAdjacency
<1>4. SaturatedDetached'
  BY DEF SaturatedDetached, Root, Saturated
<1> QED
  BY <1>1, <1>2, <1>3, <1>4

\* The pixel at the cursor is done.
LEMMA PixelDoneFacts ==
    ASSUME IInv, PixelDone
    PROVE  /\ pc = "link" /\ neighbours = <<>> /\ saturating = <<>>
           /\ flags' \in [Regions -> SUBSET Flags]
           /\ UNCHANGED <<colour, box, adjacent, regionCount, freed, regionOf, redirect, refCount>>
           /\ UNCHANGED <<neighbours, saturating, i, source, label>>
           /\ \A q : IsRoot(q)' <=> IsRoot(q)
           /\ OneOwner' /\ FreedInv' /\ BidirectionalAdjacency' /\ SaturatedDetached' /\ RedirectInv'
           /\ x \in 1 .. Width /\ y \in 1 .. Height
           /\ Len(source) = Position /\ Len(label) = Position /\ Len(currentRow) = x
           /\ IsRoot(currentRow[x]) /\ currentRow \in Seq(Refs)
           /\ \A k \in 1 .. Len(currentRow) : currentRow[k] \in 1 .. refCount
<1> USE DEF IInv
<1>1. /\ pc = "link" /\ neighbours = <<>> /\ saturating = <<>> /\ flags' = RightEdge
      /\ UNCHANGED <<colour, box, adjacent, regionCount, freed, regionOf, redirect, refCount>>
      /\ UNCHANGED <<neighbours, saturating, i, source, label>>
  BY DEF PixelDone, refVars, callVars, inputVars
<1>2. /\ flags' \in [Regions -> SUBSET Flags]
      /\ \A t \in Regions : flags'[t] \subseteq flags[t] \cup {Root}
  <2>1. flags \in [Regions -> SUBSET Flags] /\ Root \in Flags
    BY DEF TypeOK, Flags, Root
  <2>2. CASE flags' = flags
    BY <2>1, <2>2
  <2>3. CASE flags' = [flags EXCEPT ![Here] = @ \cup {Root}]
    <3> DEFINE h == Here
    <3>1. flags' = [flags EXCEPT ![h] = @ \cup {Root}]
      BY <2>3
    <3> HIDE DEF h
    <3> QED
      BY <2>1, <3>1
  <2> QED
    BY <1>1, <2>2, <2>3 DEF RightEdge
<1>3. \A q : IsRoot(q)' <=> IsRoot(q)
  BY <1>1 DEF IsRoot
<1>4. OneOwner' /\ FreedInv' /\ BidirectionalAdjacency' /\ SaturatedDetached'
  BY <1>1, <1>2, <1>3, FlagsAddedInv
<1>5. RedirectInv'
  BY <1>1 DEF RedirectInv
<1>6. /\ x \in 1 .. Width /\ y \in 1 .. Height /\ currentRow \in Seq(Refs)
      /\ Len(source) = Position /\ Len(label) = Position /\ Len(currentRow) = x
      /\ IsRoot(currentRow[x])
      /\ \A k \in 1 .. Len(currentRow) : currentRow[k] \in 1 .. refCount
  BY <1>1 DEF TypeOK, CountInv, RowsInv, RootsInv
<1> QED
  BY <1>1, <1>2, <1>3, <1>4, <1>5, <1>6

\* The cell just written becomes the west cell, and is a root.
LEMMA NextColumnIInv == IInv /\ NextColumn => IInv'
<1> SUFFICES ASSUME IInv, NextColumn PROVE IInv'
  OBVIOUS
<1> USE DEF IInv
<1>1. /\ x < Width /\ PixelDone /\ x' = x + 1 /\ pc' = "read"
      /\ result' = IF y = 1 THEN Null ELSE previousRow[x + 1]
      /\ UNCHANGED <<y, currentRow, previousRow>>
  BY DEF NextColumn
<1>2. /\ pc = "link" /\ neighbours = <<>> /\ saturating = <<>>
      /\ flags' \in [Regions -> SUBSET Flags]
      /\ UNCHANGED <<colour, box, adjacent, regionCount, freed, regionOf, redirect, refCount>>
      /\ UNCHANGED <<neighbours, saturating, i, source, label>>
      /\ \A q : IsRoot(q)' <=> IsRoot(q)
      /\ OneOwner' /\ FreedInv' /\ BidirectionalAdjacency' /\ SaturatedDetached' /\ RedirectInv'
      /\ x \in 1 .. Width /\ y \in 1 .. Height
      /\ Len(source) = Position /\ Len(label) = Position /\ Len(currentRow) = x
      /\ IsRoot(currentRow[x]) /\ currentRow \in Seq(Refs)
      /\ \A k \in 1 .. Len(currentRow) : currentRow[k] \in 1 .. refCount
  BY <1>1, PixelDoneFacts
<1>3. x \in Nat /\ x >= 1 /\ x' \in 1 .. Width /\ x' > 1 /\ x' - 1 = x
  BY <1>1, <1>2, SizeFacts
<1>4. Position' - 1 = Position
  BY <1>1, <1>2, <1>3, SizeFacts DEF Position
<1>5. y > 1 => result' = previousRow[x'] /\ previousRow[x'] \in 1 .. refCount /\ previousRow[x'] \in Refs
  <2>1. y > 1 => Len(previousRow) = Width /\ x' \in 1 .. Len(previousRow)
    BY <1>3 DEF RowsInv
  <2>2. 1 .. refCount \subseteq Refs
    BY SizeFacts DEF TypeOK, Refs
  <2> QED
    BY <1>1, <1>2, <2>1, <2>2 DEF RowsInv
<1>6. y = 1 => result' = Null
  BY <1>1
<1>7. TypeOK'
  <2>1. result' \in Refs \cup {Null}
    BY <1>2, <1>5, <1>6
  <2> QED
    BY <1>1, <1>2, <1>3, <2>1 DEF TypeOK
<1>8. CountInv'
  BY <1>1, <1>2, <1>4 DEF CountInv, Merging
<1>9. RowsInv' /\ CursorInv'
  BY <1>1, <1>2, <1>3, <1>5, <1>6 DEF RowsInv, CursorInv, Scanning, Merging, IsRoot
<1>10. RootsInv' /\ LinkInv' /\ MergeInv'
  <2>1. West' = currentRow[x]
    BY <1>1, <1>3 DEF West
  <2>2. redirect'[West'] = West'
    BY <1>2, <2>1 DEF IsRoot
  <2>3. RootsInv'
    BY <1>1, <2>2 DEF RootsInv, Merging, IsRoot
  <2> QED
    BY <1>1, <1>2, <2>3 DEF LinkInv, MergeInv, Merging
<1> QED
  BY <1>2, <1>7, <1>8, <1>9, <1>10

\* The row just written becomes the row above.
LEMMA NextRowIInv == IInv /\ NextRow => IInv'
<1> SUFFICES ASSUME IInv, NextRow PROVE IInv'
  OBVIOUS
<1> USE DEF IInv
<1>1. /\ x = Width /\ y < Height /\ PixelDone /\ x' = 1 /\ y' = y + 1 /\ pc' = "read"
      /\ previousRow' = currentRow /\ currentRow' = <<>> /\ result' = currentRow[1]
  BY DEF NextRow
<1>2. /\ pc = "link" /\ neighbours = <<>> /\ saturating = <<>>
      /\ flags' \in [Regions -> SUBSET Flags]
      /\ UNCHANGED <<colour, box, adjacent, regionCount, freed, regionOf, redirect, refCount>>
      /\ UNCHANGED <<neighbours, saturating, i, source, label>>
      /\ OneOwner' /\ FreedInv' /\ BidirectionalAdjacency' /\ SaturatedDetached' /\ RedirectInv'
      /\ x \in 1 .. Width /\ y \in 1 .. Height
      /\ Len(source) = Position /\ Len(label) = Position /\ Len(currentRow) = x
      /\ currentRow \in Seq(Refs)
      /\ \A k \in 1 .. Len(currentRow) : currentRow[k] \in 1 .. refCount
  BY <1>1, PixelDoneFacts
<1>3. y \in Nat /\ y' \in 1 .. Height /\ y' > 1 /\ x' \in 1 .. Width /\ 1 \in 1 .. Len(currentRow)
  BY <1>1, <1>2, SizeFacts
<1>4. Position' - 1 = Position
  <2>1. Position = y * Width
    BY <1>1, <1>2, PositionFacts
  <2>2. Position' = y * Width + 1 /\ y * Width \in Nat
    BY <1>1, <1>3, SizeFacts DEF Position
  <2> QED
    BY <2>1, <2>2
<1>5. result' \in 1 .. refCount /\ result' \in Refs
  <2>1. 1 .. refCount \subseteq Refs
    BY SizeFacts DEF TypeOK, Refs
  <2> QED
    BY <1>1, <1>2, <1>3, <2>1
<1>6. TypeOK'
  BY <1>1, <1>2, <1>3, <1>5, SMTT(60) DEF TypeOK
<1>7. CountInv'
  BY <1>1, <1>2, <1>4 DEF CountInv, Merging
<1>8. RowsInv' /\ CursorInv'
  BY <1>1, <1>2, <1>3, <1>5 DEF RowsInv, CursorInv, Scanning, Merging
<1>9. RootsInv' /\ LinkInv' /\ MergeInv'
  BY <1>1, <1>2 DEF RootsInv, LinkInv, MergeInv, Merging
<1> QED
  BY <1>2, <1>6, <1>7, <1>8, <1>9

\* The last pixel leads to the bottom row.
LEMMA LastPixelIInv == IInv /\ LastPixel => IInv'
<1> SUFFICES ASSUME IInv, LastPixel PROVE IInv'
  OBVIOUS
<1> USE DEF IInv
<1>1. /\ x = Width /\ y = Height /\ PixelDone /\ x' = 1 /\ pc' = "bottom"
      /\ result' = currentRow[1] /\ UNCHANGED <<y, currentRow, previousRow>>
  BY DEF LastPixel
<1>2. /\ pc = "link" /\ neighbours = <<>> /\ saturating = <<>>
      /\ flags' \in [Regions -> SUBSET Flags]
      /\ UNCHANGED <<colour, box, adjacent, regionCount, freed, regionOf, redirect, refCount>>
      /\ UNCHANGED <<neighbours, saturating, i, source, label>>
      /\ OneOwner' /\ FreedInv' /\ BidirectionalAdjacency' /\ SaturatedDetached' /\ RedirectInv'
      /\ x \in 1 .. Width /\ y \in 1 .. Height
      /\ Len(source) = Position /\ Len(label) = Position /\ Len(currentRow) = x
      /\ currentRow \in Seq(Refs)
      /\ \A k \in 1 .. Len(currentRow) : currentRow[k] \in 1 .. refCount
  BY <1>1, PixelDoneFacts
<1>3. x' \in 1 .. Width /\ 1 \in 1 .. Len(currentRow) /\ Position = Width * Height
  BY <1>1, <1>2, PositionFacts, SizeFacts
<1>4. result' \in 1 .. refCount /\ result' \in Refs
  <2>1. 1 .. refCount \subseteq Refs
    BY SizeFacts DEF TypeOK, Refs
  <2> QED
    BY <1>1, <1>2, <1>3, <2>1
<1>5. TypeOK'
  BY <1>1, <1>2, <1>3, <1>4 DEF TypeOK
<1>6. CountInv'
  BY <1>1, <1>2, <1>3 DEF CountInv, Merging
<1>7. RowsInv' /\ CursorInv'
  BY <1>1, <1>2, <1>4 DEF RowsInv, CursorInv, Scanning, Merging, IsRoot
<1>8. RootsInv' /\ LinkInv' /\ MergeInv'
  BY <1>1, <1>2 DEF RootsInv, LinkInv, MergeInv, Merging
<1> QED
  BY <1>2, <1>5, <1>6, <1>7, <1>8

\* Marking the bottom row changes flags and compresses redirects to the same roots.
LEMMA BottomRowIInv == IInv /\ BottomRow => IInv'
<1> SUFFICES ASSUME IInv, BottomRow PROVE IInv'
  OBVIOUS
<1> USE DEF IInv
<1>1. /\ pc = "bottom" /\ Resolved
      /\ redirect' = [redirect EXCEPT ![currentRow[x]] = result]
      /\ currentRow' = [currentRow EXCEPT ![x] = result]
      /\ flags' = [flags EXCEPT ![regionOf[result]] = @ \cup {Root}]
      /\ \/ x < Width /\ x' = x + 1 /\ result' = currentRow[x + 1] /\ pc' = pc
         \/ x = Width /\ pc' = "done" /\ result' = Null /\ x' = x
      /\ UNCHANGED <<y, source, label, colour, box, adjacent, regionCount, freed, regionOf>>
      /\ UNCHANGED <<refCount, previousRow, neighbours, saturating, i>>
  BY DEF BottomRow, callVars
<1>2. /\ x \in 1 .. Width /\ currentRow \in Seq(Refs) /\ Len(currentRow) = Width
      /\ redirect \in [Refs -> Refs \cup {Null}] /\ 1 .. refCount \subseteq Refs
      /\ flags \in [Regions -> SUBSET Flags]
      /\ \A k \in 1 .. Len(currentRow) : currentRow[k] \in 1 .. refCount
      /\ \A q \in 1 .. refCount : redirect[q] \in 1 .. refCount
  <2>1. /\ x \in 1 .. Width /\ currentRow \in Seq(Refs)
        /\ redirect \in [Refs -> Refs \cup {Null}] /\ flags \in [Regions -> SUBSET Flags]
    BY DEF TypeOK
  <2>2. 1 .. refCount \subseteq Refs
    BY SizeFacts DEF TypeOK, Refs
  <2>3. Len(currentRow) = Width /\ \A k \in 1 .. Len(currentRow) : currentRow[k] \in 1 .. refCount
    BY <1>1 DEF RowsInv, Scanning, Merging
  <2> QED
    BY <2>1, <2>2, <2>3 DEF RedirectInv
<1>3. result \in 1 .. refCount /\ (IsRoot(currentRow[x]) => result = currentRow[x])
  BY <1>1 DEF CursorInv
<1>4. IsRoot(result) /\ currentRow[x] \in 1 .. refCount
  <2>1. result # Null
    BY <1>3 DEF Null
  <2> QED
    BY <1>1, <1>2, <2>1 DEF Resolved
<1>5. /\ redirect' \in [Refs -> Refs \cup {Null}] /\ redirect'[currentRow[x]] = result
      /\ \A q \in 1 .. refCount : q # currentRow[x] => redirect'[q] = redirect[q]
  BY <1>1, <1>2, <1>3, <1>4
<1>6. \A q \in 1 .. refCount : IsRoot(q)' <=> IsRoot(q)
  BY <1>3, <1>4, <1>5 DEF IsRoot
<1>7. /\ currentRow' \in Seq(Refs) /\ Len(currentRow') = Width
      /\ \A k \in 1 .. Len(currentRow') : currentRow'[k] \in 1 .. refCount
      /\ x < Width => currentRow'[x + 1] = currentRow[x + 1]
  <2>1. currentRow' = [currentRow EXCEPT ![x] = result]
    BY <1>1
  <2>0. Width \in Nat
    BY SizeFacts
  <2>2. x \in 1 .. Len(currentRow) /\ result \in Refs /\ x \in Nat
    <3>1. x \in 1 .. Len(currentRow) /\ x \in Nat
      BY <1>2, <2>0
    <3>2. result \in Refs
      BY <1>2, <1>3
    <3> QED
      BY <3>1, <3>2
  <2>3. currentRow' \in Seq(Refs) /\ Len(currentRow') = Len(currentRow)
    BY <1>2, <2>1, <2>2
  <2>4. \A k \in 1 .. Len(currentRow) : currentRow'[k] = IF k = x THEN result ELSE currentRow[k]
    BY <1>2, <2>1
  <2>5. x < Width => x + 1 \in 1 .. Len(currentRow) /\ x + 1 # x
    BY <1>2, <2>0, <2>2
  <2> QED
    BY <1>2, <1>3, <2>3, <2>4, <2>5
<1>8. /\ flags' \in [Regions -> SUBSET Flags]
      /\ \A t \in Regions : flags'[t] \subseteq flags[t] \cup {Root}
  <2> DEFINE h == regionOf[result]
  <2>1. flags' = [flags EXCEPT ![h] = @ \cup {Root}]
    BY <1>1
  <2> HIDE DEF h
  <2> QED
    BY <1>2, <2>1 DEF Flags, Root
<1>9. OneOwner' /\ FreedInv' /\ BidirectionalAdjacency' /\ SaturatedDetached'
  BY <1>1, <1>6, <1>8, FlagsAddedInv
<1>10. RedirectInv'
  BY <1>1, <1>2, <1>3, <1>5 DEF RedirectInv
<1>11. CASE x < Width
  <2>1. x' = x + 1 /\ result' = currentRow[x + 1] /\ pc' = "bottom" /\ x + 1 \in 1 .. Width
    BY <1>1, <1>2, <1>11, SizeFacts
  <2>2. result' \in 1 .. refCount /\ result' \in Refs
    BY <1>2, <2>1
  <2>3. TypeOK'
    BY <1>1, <1>5, <1>7, <1>8, <2>1, <2>2 DEF TypeOK
  <2>4. CountInv' /\ RowsInv' /\ CursorInv'
    BY <1>1, <1>7, <1>11, <2>1, <2>2 DEF CountInv, RowsInv, CursorInv, Scanning, Merging, IsRoot
  <2>5. RootsInv' /\ LinkInv' /\ MergeInv'
    BY <1>1, <2>1 DEF RootsInv, LinkInv, MergeInv, Merging
  <2> QED
    BY <1>9, <1>10, <2>3, <2>4, <2>5
<1>12. CASE x = Width
  <2>1. x' = x /\ result' = Null /\ pc' = "done"
    BY <1>1, <1>2, <1>12, SizeFacts
  <2>2. TypeOK'
    BY <1>1, <1>2, <1>5, <1>7, <1>8, <2>1 DEF TypeOK
  <2>3. CountInv' /\ RowsInv' /\ CursorInv'
    BY <1>1, <1>7, <2>1 DEF CountInv, RowsInv, CursorInv, Scanning, Merging
  <2>4. RootsInv' /\ LinkInv' /\ MergeInv'
    BY <1>1, <2>1 DEF RootsInv, LinkInv, MergeInv, Merging
  <2> QED
    BY <1>9, <1>10, <2>2, <2>3, <2>4
<1> QED
  BY <1>1, <1>11, <1>12

\* A new frame begins as the first one did.
LEMMA StepSegmenterIInv == IInv /\ StepSegmenter => IInv'
<1> SUFFICES ASSUME IInv, StepSegmenter PROVE IInv'
  OBVIOUS
<1> USE SizeFacts DEF StepSegmenter
<1>1. TypeOK'
  BY DEF TypeOK, Boxes, EmptyBox, Regions, Refs, Flags, Null, NoColour
<1>2. CountInv' /\ RowsInv' /\ CursorInv' /\ RedirectInv' /\ OneOwner' /\ FreedInv'
  BY DEF CountInv, RowsInv, CursorInv, RedirectInv, OneOwner, FreedInv, Position, Scanning,
         Merging, Live, ElementsOf, Null, IsRoot, Regions, Refs
<1>3. RootsInv' /\ LinkInv' /\ MergeInv'
  BY DEF RootsInv, LinkInv, MergeInv, Merging
<1>4. BidirectionalAdjacency' /\ SaturatedDetached'
  <2>1. \A a \in Regions : adjacent'[a] = <<>> /\ flags'[a] = {}
    OBVIOUS
  <2>2. \A a \in Regions : ElementsOf(adjacent'[a]) = {}
    BY <2>1 DEF ElementsOf
  <2>3. \A a, b \in Regions : Count(adjacent'[a], b) = 0
    BY <2>1, CountEmpty
  <2> QED
    BY <2>1, <2>2, <2>3 DEF BidirectionalAdjacency, SaturatedDetached
<1> QED
  BY <1>1, <1>2, <1>3, <1>4 DEF IInv

-----------------------------------------------------------------------------
(***************************************************************************)
(* The invariant and what follows from it                                  *)
(***************************************************************************)
\* Nothing changes.
LEMMA StutterIInv == IInv /\ UNCHANGED vars => IInv'
<1> SUFFICES ASSUME IInv, UNCHANGED vars PROVE IInv'
  OBVIOUS
<1> USE DEF vars, regionVars, refVars, rowVars, callVars, inputVars
<1>1. ReferencesKept
  BY DEF ReferencesKept
<1>2. TypeOK' /\ BidirectionalAdjacency' /\ SaturatedDetached'
  BY DEF IInv, TypeOK, BidirectionalAdjacency, SaturatedDetached, Live
<1>3. MergeInv'
  BY DEF IInv, MergeInv, Merging, R1, R2, West, North
<1> QED
  BY <1>1, <1>2, <1>3, ReferencesKeptInv DEF IInv

LEMMA NextIInv == IInv /\ [Next]_vars => IInv'
<1> SUFFICES ASSUME IInv, [Next]_vars PROVE IInv'
  OBVIOUS
<1>1. ASSUME NEW c \in Colours, ReadWithoutMerge(c) \/ MergeRegions(c) PROVE IInv'
  BY <1>1, ReadIInv, MergeRegionsIInv
<1>2. CASE UNCHANGED vars
  BY <1>2, StutterIInv
<1>3. CASE FollowRedirect
  BY <1>3, FollowRedirectIInv
<1>4. CASE DetachNeighbour
  BY <1>4, DetachNeighbourIInv
<1>5. CASE MarkSaturated
  BY <1>5, MarkSaturatedIInv
<1>6. CASE NeighbourSaturated
  BY <1>6, NeighbourSaturatedIInv
<1>7. CASE ListFull
  BY <1>7, ListFullIInv
<1>8. CASE MakeAdjacent
  BY <1>8, MakeAdjacentIInv
<1>9. CASE RemoveCommon
  BY <1>9, RemoveCommonIInv
<1>10. CASE CheckCapacity
  BY <1>10, CheckCapacityIInv
<1>11. CASE TransferNeighbour
  BY <1>11, TransferNeighbourIInv
<1>12. CASE FreeMerged
  BY <1>12, FreeMergedIInv
<1>13. CASE NextColumn
  BY <1>13, NextColumnIInv
<1>14. CASE NextRow
  BY <1>14, NextRowIInv
<1>15. CASE LastPixel
  BY <1>15, LastPixelIInv
<1>16. CASE BottomRow
  BY <1>16, BottomRowIInv
<1>17. CASE StepSegmenter
  BY <1>17, StepSegmenterIInv
<1> QED
  BY <1>1, <1>2, <1>3, <1>4, <1>5, <1>6, <1>7, <1>8, <1>9, <1>10, <1>11, <1>12, <1>13, <1>14,
     <1>15, <1>16, <1>17
  DEF Next, ReadWithoutMerge

\* The inductive invariant holds of every image, frame after frame.
THEOREM InductiveInvariant == Spec => []IInv
BY InitIInv, NextIInv, PTL DEF Spec

\* No index leaves the arrays of initialize_segmenter, and no adjacency list overflows, for every
\* image size and list capacity.
THEOREM TypeCorrect == Spec => []TypeOK
<1>1. IInv => TypeOK
  BY DEF IInv
<1> QED
  BY <1>1, InductiveInvariant, PTL

\* The west cell's redirect is always up to date (segment.c:414).
THEOREM WestAlwaysUpToDate == Spec => []WestUpToDate
<1>1. IInv => WestUpToDate
  BY DEF IInv, RootsInv, WestUpToDate, Merging
<1> QED
  BY <1>1, InductiveInvariant, PTL

\* A region in use has one root reference, and no reference reaches a freed region.
THEOREM RegionsHaveOneOwner == Spec => []OneOwner
<1>1. IInv => OneOwner
  BY DEF IInv
<1> QED
  BY <1>1, InductiveInvariant, PTL

\* The "found" assertions of remove_adjacent_from and replace_adjacent never fail.
THEOREM AdjacencyIsBidirectional == Spec => []BidirectionalAdjacency
<1>1. IInv => BidirectionalAdjacency
  BY DEF IInv
<1> QED
  BY <1>1, InductiveInvariant, PTL

\* A saturated region never gets a neighbour again.
THEOREM SaturatedStaysDetached == Spec => []SaturatedDetached
<1>1. IInv => SaturatedDetached
  BY DEF IInv
<1> QED
  BY <1>1, InductiveInvariant, PTL

-----------------------------------------------------------------------------
(***************************************************************************)
(* What the redirects of the references resolve to                         *)
(***************************************************************************)
\* The redirects rd of n references lead to the roots, nearer with every step.
Walks(rd, n, root, rank) ==
    /\ root \in [1 .. n -> 1 .. n] /\ rank \in [1 .. n -> Nat]
    /\ \A q \in 1 .. n :
          /\ rd[q] \in 1 .. n
          /\ rd[root[q]] = root[q] /\ root[rd[q]] = root[q]
          /\ rd[q] = q => root[q] = q
          /\ rd[q] # q => rank[rd[q]] < rank[q]
          /\ root[q] # q => rank[root[q]] < rank[q]

\* RESOLVE_REGIONREF_REDIRECTS finds the root.
LEMMA WalkEnds ==
    ASSUME NEW rd, NEW n \in Nat, NEW root, NEW rank, Walks(rd, n, root, rank), NEW q \in 1 .. n
    PROVE  RootIn(rd, n, q) = root[q]
<1> DEFINE Walk(f) == f = [p \in 1 .. n |-> IF rd[p] = p THEN p ELSE f[rd[p]]]
           walk == CHOOSE f : Walk(f)
<1>1. root = [p \in 1 .. n |-> root[p]]
  BY DEF Walks
<1>2. \A p \in 1 .. n : root[p] = IF rd[p] = p THEN p ELSE root[rd[p]]
  BY DEF Walks
<1>3. Walk(root)
  BY <1>1, <1>2
<1>4. Walk(walk)
  BY ONLY <1>3
<1>5. \A p \in 1 .. n : walk[p] = IF rd[p] = p THEN p ELSE walk[rd[p]]
  BY <1>4
<1>6. RootIn(rd, n, q) = walk[q]
  BY DEF RootIn
<1> HIDE DEF walk
<1> DEFINE Bad == {rank[p] : p \in {o \in 1 .. n : walk[o] # root[o]}}
<1>7. Bad = {}
  <2> SUFFICES ASSUME Bad # {} PROVE FALSE
    OBVIOUS
  <2>1. Bad \subseteq Nat
    BY DEF Walks
  <2>2. PICK m \in Bad : \A k \in Bad : m <= k
    <3> HIDE DEF Bad
    <3> QED
      BY <2>1, LeastElement
  <2>3. PICK p \in 1 .. n : walk[p] # root[p] /\ m = rank[p]
    BY <2>2
  <2>4. rd[p] # p /\ rd[p] \in 1 .. n /\ rank[rd[p]] < rank[p] /\ rank[rd[p]] \in Nat /\ rank[p] \in Nat
    BY <1>2, <1>5, <2>3 DEF Walks
  <2>5. walk[rd[p]] = root[rd[p]]
    BY <2>2, <2>3, <2>4
  <2> QED
    BY <1>2, <1>5, <2>3, <2>4, <2>5
<1> QED
  BY <1>6, <1>7

\* Writing the root into a reference changes no root.
LEMMA CompressedWalks ==
    ASSUME NEW rd, NEW n \in Nat, NEW root, NEW rank, Walks(rd, n, root, rank), NEW c \in 1 .. n,
           NEW new, new[c] = root[c], \A q \in 1 .. n : q # c => new[q] = rd[q]
    PROVE  Walks(new, n, root, rank)
<1>1. \A q \in 1 .. n : new[root[q]] = root[q]
  BY DEF Walks
<1>2. \A q \in 1 .. n : root[root[q]] = root[q] /\ root[q] \in 1 .. n
  BY DEF Walks
<1>3. ASSUME NEW q \in 1 .. n PROVE root[new[q]] = root[q] /\ new[q] \in 1 .. n
  <2>1. CASE q = c
    BY <1>2, <2>1
  <2>2. CASE q # c
    BY <2>2 DEF Walks
  <2> QED
    BY <2>1, <2>2
<1>4. ASSUME NEW q \in 1 .. n
      PROVE  (new[q] = q => root[q] = q) /\ (new[q] # q => rank[new[q]] < rank[q])
  <2>1. CASE q = c
    BY <2>1 DEF Walks
  <2>2. CASE q # c
    BY <2>2 DEF Walks
  <2> QED
    BY <2>1, <2>2
<1> QED
  BY <1>1, <1>3, <1>4 DEF Walks

\* A new reference is its own root.
LEMMA NewRootWalks ==
    ASSUME NEW rd, NEW n \in Nat, NEW root, NEW rank, Walks(rd, n, root, rank),
           NEW new, new[n + 1] = n + 1, \A q \in 1 .. n : new[q] = rd[q]
    PROVE  Walks(new, n + 1, [q \in 1 .. n + 1 |-> IF q = n + 1 THEN q ELSE root[q]],
                             [q \in 1 .. n + 1 |-> IF q = n + 1 THEN 0 ELSE rank[q]])
<1> DEFINE root2 == [q \in 1 .. n + 1 |-> IF q = n + 1 THEN q ELSE root[q]]
           rank2 == [q \in 1 .. n + 1 |-> IF q = n + 1 THEN 0 ELSE rank[q]]
<1>1. \A q \in 1 .. n + 1 : q = n + 1 \/ (q \in 1 .. n /\ q # n + 1)
  OBVIOUS
<1>2. /\ root2[n + 1] = n + 1 /\ rank2[n + 1] = 0
      /\ \A q \in 1 .. n : root2[q] = root[q] /\ rank2[q] = rank[q] /\ q \in 1 .. n + 1
  OBVIOUS
<1>3. root2 \in [1 .. n + 1 -> 1 .. n + 1] /\ rank2 \in [1 .. n + 1 -> Nat]
  <2>1. \A q \in 1 .. n : root[q] \in 1 .. n + 1 /\ rank[q] \in Nat
    BY DEF Walks
  <2>2. \A q \in 1 .. n + 1 : root2[q] \in 1 .. n + 1 /\ rank2[q] \in Nat
    BY <1>1, <2>1
  <2> QED
    BY <2>2
<1> HIDE DEF root2, rank2
<1>4. ASSUME NEW q \in 1 .. n
      PROVE  /\ new[q] \in 1 .. n + 1
             /\ new[root2[q]] = root2[q] /\ root2[new[q]] = root2[q]
             /\ new[q] = q => root2[q] = q
             /\ new[q] # q => rank2[new[q]] < rank2[q]
             /\ root2[q] # q => rank2[root2[q]] < rank2[q]
  <2>1. /\ rd[q] \in 1 .. n /\ root[q] \in 1 .. n /\ rd[root[q]] = root[q] /\ root[rd[q]] = root[q]
        /\ rd[q] = q => root[q] = q
        /\ rd[q] # q => rank[rd[q]] < rank[q]
        /\ root[q] # q => rank[root[q]] < rank[q]
    BY DEF Walks
  <2> QED
    BY <1>2, <2>1
<1>5. Walks(new, n + 1, root2, rank2)
  <2>1. /\ new[n + 1] \in 1 .. n + 1 /\ new[root2[n + 1]] = root2[n + 1] /\ root2[new[n + 1]] = root2[n + 1]
        /\ new[n + 1] = n + 1 /\ root2[n + 1] = n + 1
    BY <1>2
  <2>2. ASSUME NEW q \in 1 .. n + 1
        PROVE  /\ new[q] \in 1 .. n + 1
               /\ new[root2[q]] = root2[q] /\ root2[new[q]] = root2[q]
               /\ new[q] = q => root2[q] = q
               /\ new[q] # q => rank2[new[q]] < rank2[q]
               /\ root2[q] # q => rank2[root2[q]] < rank2[q]
    <3>1. CASE q = n + 1
      BY ONLY <2>1, <3>1
    <3>2. CASE q \in 1 .. n
      BY ONLY <1>4, <3>2
    <3> QED
      BY <1>1, <3>1, <3>2
  <2> QED
    BY ONLY <1>3, <2>2 DEF Walks
<1> QED
  BY <1>5 DEF root2, rank2

\* What was a root and is redirected to another one takes along all that led to it.
Redirected(root, n, w, v) == [q \in 1 .. n |-> IF root[q] = w THEN v ELSE root[q]]

LEMMA MergedWalks ==
    ASSUME NEW rd, NEW n \in Nat, NEW root, NEW rank, Walks(rd, n, root, rank),
           NEW v \in 1 .. n, NEW w \in 1 .. n, v # w, rd[v] = v, rd[w] = w,
           NEW new, new[w] = v, \A q \in 1 .. n : q # w => new[q] = rd[q]
    PROVE  \E rank2 : Walks(new, n, Redirected(root, n, w, v), rank2)
<1> DEFINE root2 == Redirected(root, n, w, v)
           rank2 == [q \in 1 .. n |-> IF root[q] = w THEN rank[q] + rank[v] + 1 ELSE rank[q]]
<1>1. /\ root \in [1 .. n -> 1 .. n] /\ rank \in [1 .. n -> Nat]
      /\ root[v] = v /\ root[w] = w
  BY DEF Walks
<1>2. root2 \in [1 .. n -> 1 .. n] /\ rank2 \in [1 .. n -> Nat]
  <2>1. ASSUME NEW q \in 1 .. n
        PROVE  root[q] \in 1 .. n /\ rank[q] + rank[v] + 1 \in Nat /\ rank[q] \in Nat
    <3>1. root[q] \in 1 .. n /\ rank[q] \in Nat /\ rank[v] \in Nat
      BY <1>1
    <3> QED
      BY <3>1
  <2> QED
    BY <2>1 DEF Redirected
<1>3. \A q \in 1 .. n : /\ root2[q] = IF root[q] = w THEN v ELSE root[q]
                        /\ rank2[q] = IF root[q] = w THEN rank[q] + rank[v] + 1 ELSE rank[q]
  BY DEF Redirected
<1> HIDE DEF root2, rank2
<1>4. ASSUME NEW q \in 1 .. n
      PROVE  /\ new[q] \in 1 .. n
             /\ new[root2[q]] = root2[q] /\ root2[new[q]] = root2[q]
             /\ new[q] = q => root2[q] = q
             /\ new[q] # q => rank2[new[q]] < rank2[q]
             /\ root2[q] # q => rank2[root2[q]] < rank2[q]
  <2>1. /\ rd[q] \in 1 .. n /\ root[q] \in 1 .. n /\ rd[root[q]] = root[q] /\ root[rd[q]] = root[q]
        /\ rd[q] = q => root[q] = q
        /\ rd[q] # q => rank[rd[q]] < rank[q]
        /\ root[q] # q => rank[root[q]] < rank[q]
    BY DEF Walks
  <2>2. rank[q] \in Nat /\ rank[v] \in Nat /\ rank[rd[q]] \in Nat /\ rank[root[q]] \in Nat /\ rank[w] \in Nat
    BY <1>1, <2>1
  <2>3. CASE q = w
    <3>1. root2[w] = v /\ rank2[w] = rank[w] + rank[v] + 1 /\ root2[v] = v /\ rank2[v] = rank[v]
      BY <1>1, <1>3
    <3>2. new[w] = v /\ new[v] = v
      OBVIOUS
    <3> QED
      BY <2>2, <2>3, <3>1, <3>2
  <2>4. CASE q # w /\ root[q] = w
    <3>1. new[q] = rd[q] /\ root2[q] = v /\ rank2[q] = rank[q] + rank[v] + 1 /\ q # v
      BY <1>1, <1>3, <2>4
    <3>2. rd[q] # q
      BY <2>1, <2>4
    <3>3. root2[rd[q]] = v /\ rank2[rd[q]] = rank[rd[q]] + rank[v] + 1 /\ rank2[v] = rank[v]
      BY <1>1, <1>3, <2>1, <2>4
    <3> QED
      BY <2>1, <2>2, <3>1, <3>2, <3>3
  <2>5. CASE root[q] # w
    <3>1. new[q] = rd[q] /\ root2[q] = root[q] /\ rank2[q] = rank[q] /\ new[root[q]] = rd[root[q]]
      BY <1>1, <1>3, <2>1, <2>5
    <3>2. root2[rd[q]] = root[q] /\ rank2[rd[q]] = rank[rd[q]]
      BY <1>3, <2>1, <2>5
    <3>3. root[root[q]] = root[q]
      BY <2>1 DEF Walks
    <3>4. rank2[root[q]] = rank[root[q]]
      BY <1>3, <2>1, <2>5, <3>3
    <3> QED
      BY <2>1, <3>1, <3>2, <3>4
  <2> QED
    BY <2>3, <2>4, <2>5
<1>5. Walks(new, n, root2, rank2)
  BY <1>2, <1>4 DEF Walks
<1> QED
  BY <1>5 DEF root2

-----------------------------------------------------------------------------
(***************************************************************************)
(* Classes of pixels                                                       *)
(***************************************************************************)
\* Pixel n + 1 joins the classes of the pixels of T, and nothing else changes.
Joined(n, root, T) == {b \in Classes(root) : \E m \in T : m \in b}
Joins(n, root, T, new) ==
    /\ \A p, q \in 1 .. n : new[p] = new[q] <=>
          \/ root[p] = root[q]
          \/ (\E m \in T : root[m] = root[p]) /\ (\E m \in T : root[m] = root[q])
    /\ \A p \in 1 .. n : new[p] = new[n + 1] <=> \E m \in T : root[m] = root[p]

LEMMA JoinClasses ==
    ASSUME NEW n \in Nat, NEW root, DOMAIN root = 1 .. n, NEW new, DOMAIN new = 1 .. n + 1,
           NEW T \in SUBSET (1 .. n), Joins(n, root, T, new)
    PROVE  Classes(new) = (Classes(root) \ Joined(n, root, T)) \cup {{n + 1} \cup UNION Joined(n, root, T)}
<1> DEFINE old(p) == {o \in 1 .. n : root[o] = root[p]}
           cls(p) == {o \in 1 .. n + 1 : new[o] = new[p]}
           J == {root[m] : m \in T}
<1>1. \A b : b \in Classes(root) <=> \E p \in 1 .. n : b = old(p)
  BY DEF Classes
<1>2. \A b : b \in Classes(new) <=> \E p \in 1 .. n + 1 : b = cls(p)
  BY DEF Classes
<1>3. \A p \in 1 .. n : root[p] \in J <=> \E m \in T : root[m] = root[p]
  OBVIOUS
<1>4. \A o : o \in 1 .. n + 1 <=> o = n + 1 \/ o \in 1 .. n
  OBVIOUS
<1>5. /\ \A p, q \in 1 .. n : new[p] = new[q] <=> root[p] = root[q] \/ (root[p] \in J /\ root[q] \in J)
      /\ \A p \in 1 .. n : new[p] = new[n + 1] <=> root[p] \in J
  BY <1>3, ZenonT(60) DEF Joins
<1>6. \A p \in 1 .. n : old(p) \in Joined(n, root, T) <=> root[p] \in J
  <2>1. ASSUME NEW p \in 1 .. n PROVE (\E m \in T : m \in old(p)) <=> root[p] \in J
    OBVIOUS
  <2> HIDE DEF old, J
  <2> QED
    BY <1>1, <2>1 DEF Joined
<1> HIDE DEF J
<1>7. \A p \in 1 .. n : root[p] \notin J => cls(p) = old(p)
  <2> SUFFICES ASSUME NEW p \in 1 .. n, root[p] \notin J PROVE cls(p) = old(p)
    OBVIOUS
  <2>1. \A o : o \in cls(p) <=> o \in old(p)
    BY <1>4, <1>5
  <2> HIDE DEF cls, old
  <2> QED
    BY <2>1
<1>8. \A p \in 1 .. n : root[p] \in J => cls(p) = cls(n + 1)
  BY <1>4, <1>5
<1>9. cls(n + 1) = {n + 1} \cup UNION Joined(n, root, T)
  <2>1. ASSUME NEW o PROVE o \in cls(n + 1) <=> o = n + 1 \/ (o \in 1 .. n /\ root[o] \in J)
    BY <1>4, <1>5
  <2>2. ASSUME NEW o PROVE o \in UNION Joined(n, root, T) <=> o \in 1 .. n /\ root[o] \in J
    <3>1. ASSUME NEW b \in Joined(n, root, T), o \in b PROVE o \in 1 .. n /\ root[o] \in J
      <4>1. PICK p \in 1 .. n : b = old(p)
        BY <1>1 DEF Joined
      <4> QED
        BY <1>6, <3>1, <4>1
    <3>2. ASSUME o \in 1 .. n, root[o] \in J PROVE o \in UNION Joined(n, root, T)
      <4>1. o \in old(o) /\ old(o) \in Joined(n, root, T)
        BY <1>6, <3>2
      <4> QED
        BY <4>1
    <3> QED
      BY <3>1, <3>2
  <2> HIDE DEF cls
  <2> QED
    BY <2>1, <2>2
<1> HIDE DEF old, cls
<1>10. ASSUME NEW b
       PROVE b \in Classes(new) <=> \/ b = cls(n + 1)
                                    \/ b \in Classes(root) /\ b \notin Joined(n, root, T)
  <2>1. ASSUME b \in Classes(new)
        PROVE  b = cls(n + 1) \/ (b \in Classes(root) /\ b \notin Joined(n, root, T))
    <3>1. PICK p \in 1 .. n + 1 : b = cls(p)
      BY <1>2, <2>1
    <3> QED
      BY <1>1, <1>4, <1>6, <1>7, <1>8, <3>1
  <2>2. n + 1 \in 1 .. n + 1
    OBVIOUS
  <2>3. ASSUME b \in Classes(root), b \notin Joined(n, root, T) PROVE b \in Classes(new)
    <3>1. PICK p \in 1 .. n : b = old(p)
      BY <1>1, <2>3
    <3> QED
      BY <1>2, <1>4, <1>6, <1>7, <2>3, <3>1
  <2> QED
    BY <1>2, <2>1, <2>2, <2>3
<1> QED
  BY <1>9, <1>10

-----------------------------------------------------------------------------
(***************************************************************************)
(* What Components promises                                                *)
(***************************************************************************)
Beside(p) == Abstract!Neighbours(p)

\* ps are the connected components of the first n pixels of im.
ComponentsOf(im, n, ps) ==
    /\ UNION ps = 1 .. n
    /\ \A b1, b2 \in ps : b1 = b2 \/ b1 \cap b2 = {}
    /\ \A b \in ps : \A p, q \in b : im[p] = im[q]
    /\ \A p \in 1 .. n : \A m \in Beside(p) : im[p] = im[m] => \E b \in ps : {p, m} \subseteq b
    /\ \A b \in ps : \A half \in (SUBSET b) \ {{}, b} :
          \E p \in half, m \in b \ half : p \in Beside(m) \/ m \in Beside(p)

\* A neighbour was read before.
LEMMA BesideIsBefore ==
    ASSUME NEW p \in Nat, p >= 1, NEW m \in Beside(p)
    PROVE  m \in 1 .. p - 1
<1>1. Width \in Nat /\ Width >= 1
  BY SizeAssumption
<1>2. \/ p % Width # 1 /\ Width > 1 /\ m = p - 1
      \/ p > Width /\ m = p - Width
  BY DEF Beside, Abstract!Neighbours
<1>3. CASE p % Width # 1 /\ Width > 1 /\ m = p - 1
  <2>1. p # 1
    BY <1>1, <1>3
  <2> QED
    BY <1>3, <2>1
<1> QED
  BY <1>1, <1>2, <1>3

\* One more pixel of colour c unites the parts of its colour beside it.
JoinedParts(im, n, ps, c) == {b \in ps : \E m \in Beside(n + 1) \cap b : im[m] = c}
WithPixel(im, n, ps, c) ==
    (ps \ JoinedParts(im, n, ps, c)) \cup {{n + 1} \cup UNION JoinedParts(im, n, ps, c)}

\* One more pixel makes components of components.
LEMMA OneMorePixel ==
    ASSUME NEW n \in Nat, NEW im, NEW ps, ComponentsOf(im, n, ps),
           NEW c, NEW im2, im2[n + 1] = c, \A p \in 1 .. n : im2[p] = im[p],
           NEW ps2, ps2 = WithPixel(im, n, ps, c)
    PROVE  ComponentsOf(im2, n + 1, ps2)
<1>0. PICK joined : /\ joined = {b \in ps : \E m \in Beside(n + 1) \cap b : im[m] = c}
                    /\ ps2 = (ps \ joined) \cup {{n + 1} \cup UNION joined}
  BY DEF JoinedParts, WithPixel
<1> DEFINE new == {n + 1} \cup UNION joined
<1>1. /\ UNION ps = 1 .. n
      /\ \A b1, b2 \in ps : b1 = b2 \/ b1 \cap b2 = {}
      /\ \A b \in ps : \A p, q \in b : im[p] = im[q]
      /\ \A p \in 1 .. n : \A m \in Beside(p) : im[p] = im[m] => \E b \in ps : {p, m} \subseteq b
  BY DEF ComponentsOf
<1>2. \A b \in ps : \A half \in (SUBSET b) \ {{}, b} :
          \E p \in half, m \in b \ half : p \in Beside(m) \/ m \in Beside(p)
  BY DEF ComponentsOf
<1>3. /\ joined \subseteq ps
      /\ \A b \in joined : \E m \in Beside(n + 1) \cap b : im[m] = c
      /\ \A b \in ps : \A m \in b : m \in 1 .. n
      /\ \A b \in ps : \A m \in Beside(n + 1) \cap b : im[m] = c => b \in joined
  BY <1>0, <1>1
<1>4. \A b : b \in ps2 <=> b = new \/ (b \in ps /\ b \notin joined)
  BY <1>0
<1>5. \A o : o \in new <=> o = n + 1 \/ \E b \in joined : o \in b
  OBVIOUS
<1>6. n + 1 \notin 1 .. n /\ 1 .. n + 1 = (1 .. n) \cup {n + 1}
  OBVIOUS
<1> HIDE DEF new
<1>7. UNION ps2 = 1 .. n + 1
  <2>1. ASSUME NEW o \in UNION ps2 PROVE o \in 1 .. n + 1
    BY <1>3, <1>4, <1>5, <1>6
  <2>2. ASSUME NEW o \in 1 .. n + 1 PROVE o \in UNION ps2
    <3>1. CASE o = n + 1
      BY <1>4, <1>5, <3>1
    <3>2. CASE o \in 1 .. n
      <4>1. PICK b \in ps : o \in b
        BY <1>1, <3>2
      <4> QED
        BY <1>4, <1>5, <4>1
    <3> QED
      BY <1>6, <3>1, <3>2
  <2> QED
    BY <2>1, <2>2
<1>8. \A b1, b2 \in ps2 : b1 = b2 \/ b1 \cap b2 = {}
  <2>1. ASSUME NEW b \in ps, b \notin joined PROVE b \cap new = {}
    BY <1>1, <1>3, <1>5, <1>6, <2>1
  <2> QED
    BY <1>1, <1>4, <2>1
<1>9. \A b \in ps2 : \A p, q \in b : im2[p] = im2[q]
  <2>1. \A p \in new : im2[p] = c
    <3>1. ASSUME NEW b \in joined, NEW p \in b PROVE im2[p] = c
      BY <1>1, <1>3
    <3> QED
      BY <1>5, <3>1
  <2>2. ASSUME NEW b \in ps, NEW p \in b, NEW q \in b PROVE im2[p] = im2[q]
    BY <1>1, <1>3
  <2> QED
    BY <1>4, <2>1, <2>2
<1>10. ASSUME NEW p \in 1 .. n + 1, NEW m \in Beside(p), im2[p] = im2[m]
       PROVE  \E b \in ps2 : {p, m} \subseteq b
  <2>1. p \in Nat /\ p >= 1 /\ m \in 1 .. p - 1
    BY BesideIsBefore
  <2>2. CASE p = n + 1
    <3>1. m \in 1 .. n /\ im[m] = c
      BY <1>10, <2>1, <2>2
    <3>2. PICK b \in ps : m \in b
      BY <1>1, <3>1
    <3>3. b \in joined
      BY <1>3, <2>2, <3>1, <3>2
    <3> QED
      BY <1>4, <1>5, <2>2, <3>2, <3>3
  <2>3. CASE p # n + 1
    <3>1. p \in 1 .. n /\ m \in 1 .. n
      BY <2>1, <2>3
    <3>2. PICK b \in ps : {p, m} \subseteq b
      BY <1>1, <1>10, <3>1
    <3> QED
      BY <1>4, <1>5, <3>2
  <2> QED
    BY <2>2, <2>3
<1>11. ASSUME NEW b \in ps2, NEW half \in (SUBSET b) \ {{}, b}
       PROVE  \E p \in half, m \in b \ half : p \in Beside(m) \/ m \in Beside(p)
  <2>1. CASE b \in ps
    BY <1>2, <1>11, <2>1
  <2>2. CASE b = new
    <3>1. CASE \E a \in joined : a \cap half # {} /\ ~(a \subseteq half)
      <4>1. PICK a \in joined : a \cap half # {} /\ ~(a \subseteq half)
        BY <3>1
      <4>2. a \in ps /\ a \cap half \in (SUBSET a) \ {{}, a} /\ a \subseteq new
        BY <1>3, <1>5, <4>1
      <4> DEFINE part == a \cap half
      <4>4. part \in (SUBSET a) \ {{}, a}
        BY <4>2
      <4> HIDE DEF part
      <4>5. \E p \in part, m \in a \ part : p \in Beside(m) \/ m \in Beside(p)
        BY <1>2, <4>2, <4>4
      <4>3. PICK p \in a \cap half, m \in a \ (a \cap half) : p \in Beside(m) \/ m \in Beside(p)
        BY <4>5 DEF part
      <4> QED
        BY <2>2, <4>2, <4>3
    <3>2. CASE \A a \in joined : a \cap half = {} \/ a \subseteq half
      <4>1. CASE n + 1 \in half
        <5>1. PICK o \in b : o \notin half
          BY <1>11
        <5>2. PICK a \in joined : o \in a
          BY <1>5, <2>2, <4>1, <5>1
        <5>3. a \cap half = {}
          BY <3>2, <5>1, <5>2
        <5>4. PICK m \in Beside(n + 1) \cap a : im[m] = c
          BY <1>3
        <5> QED
          BY <1>5, <2>2, <4>1, <5>3, <5>4
      <4>2. CASE n + 1 \notin half
        <5>1. PICK o \in half : TRUE
          BY <1>11
        <5>2. PICK a \in joined : o \in a
          BY <1>5, <1>11, <2>2, <4>2
        <5>3. a \subseteq half
          BY <3>2, <5>2
        <5>4. PICK m \in Beside(n + 1) \cap a : im[m] = c
          BY <1>3
        <5> QED
          BY <1>5, <2>2, <4>2, <5>3, <5>4
      <4> QED
        BY <4>1, <4>2
    <3> QED
      BY <3>1, <3>2
  <2> QED
    BY <1>4, <2>1, <2>2
<1> QED
  BY <1>7, <1>8, <1>9, <1>10, <1>11 DEF ComponentsOf

LEMMA NoPixels == ASSUME NEW im PROVE ComponentsOf(im, 0, {})
BY DEF ComponentsOf

\* The components are what the properties of Components say.
LEMMA ComponentsAreParts ==
    ASSUME ComponentsOf(Image, Len(Image), Parts), Len(Image) \in Nat
    PROVE  Abstract!PartsClosed /\ Abstract!PartsConnected
<1>1. Abstract!PartsConnected
  BY DEF ComponentsOf, Abstract!PartsConnected, Beside
<1>2. ASSUME NEW p \in 1 .. Len(Image), NEW m \in Beside(p)
      PROVE  (Image[p] = Image[m]) <=> \E b \in Parts : {p, m} \subseteq b
  BY DEF ComponentsOf
<1>3. Abstract!PartsClosed
  BY <1>2 DEF ComponentsOf, Abstract!PartsClosed, Beside
<1> QED
  BY <1>1, <1>3

-----------------------------------------------------------------------------
(***************************************************************************)
(* Every pixel's reference leads to the root of the pixel's part           *)
(***************************************************************************)
PixelAt(k, r) == (r - 1) * Width + k

WalkInv == \E root, rank : Walks(redirect, refCount, root, rank)

LabelInv ==
    /\ Len(source) = IF Merging THEN Len(label) + 1 ELSE Len(label)
    /\ \A p \in 1 .. Len(label) :
          label[p] \in 1 .. refCount /\ colour[regionOf[RootOf(label[p])]] = source[p]
    /\ Merging => source[Position] = colour[R1]

CellsInv ==
    /\ \A k \in 1 .. Len(currentRow) :
          /\ PixelAt(k, y) \in 1 .. Len(label)
          /\ RootOf(currentRow[k]) = RootOf(label[PixelAt(k, y)])
    /\ y > 1 => \A k \in 1 .. Width :
          /\ PixelAt(k, y - 1) \in 1 .. Len(label)
          /\ RootOf(previousRow[k]) = RootOf(label[PixelAt(k, y - 1)])
    /\ (pc = "read" \/ Merging) /\ y > 1 => RootOf(result) = RootOf(previousRow[x])
    /\ pc = "bottom" => RootOf(result) = RootOf(currentRow[x])

PartsInv == WalkInv /\ LabelInv /\ CellsInv

\* What a reference resolves to after a step.
After(q) == RootIn(redirect', refCount', q)

-----------------------------------------------------------------------------
\* The roots are references that redirect to themselves, one for each part.
LEMMA RootFacts ==
    ASSUME IInv, WalkInv
    PROVE  \A q \in 1 .. refCount :
              /\ RootOf(q) \in 1 .. refCount /\ IsRoot(RootOf(q)) /\ RootOf(redirect[q]) = RootOf(q)
              /\ IsRoot(q) => RootOf(q) = q
              /\ RootOf(RootOf(q)) = RootOf(q)
<1>1. PICK root, rank : Walks(redirect, refCount, root, rank)
  BY DEF WalkInv
<1>2. refCount \in Nat
  BY SizeFacts DEF IInv, TypeOK
<1>3. \A q \in 1 .. refCount : RootOf(q) = root[q]
  BY <1>1, <1>2, WalkEnds DEF RootOf
<1>4. \A q \in 1 .. refCount :
         /\ root[q] \in 1 .. refCount /\ redirect[q] \in 1 .. refCount /\ redirect[root[q]] = root[q]
         /\ root[redirect[q]] = root[q] /\ (redirect[q] = q => root[q] = q)
  BY <1>1 DEF Walks
<1> QED
  BY <1>3, <1>4 DEF IsRoot

\* A step that leaves the roots what they were.
LEMMA SameWalks ==
    ASSUME refCount \in Nat, refCount' = refCount, NEW root, NEW rank,
           Walks(redirect, refCount, root, rank), Walks(redirect', refCount, root, rank)
    PROVE  WalkInv' /\ \A q \in 1 .. refCount : After(q) = RootOf(q)
<1>1. \A q \in 1 .. refCount : RootIn(redirect, refCount, q) = root[q]
  BY WalkEnds
<1>2. \A q \in 1 .. refCount : RootIn(redirect', refCount, q) = root[q]
  <2> DEFINE rd == redirect'
  <2>1. Walks(rd, refCount, root, rank)
    OBVIOUS
  <2> HIDE DEF rd
  <2>2. \A q \in 1 .. refCount : RootIn(rd, refCount, q) = root[q]
    BY <2>1, WalkEnds
  <2> QED
    BY <2>2 DEF rd
<1>3. Walks(redirect', refCount', root, rank)
  OBVIOUS
<1>4. WalkInv'
  BY <1>3 DEF WalkInv
<1> QED
  BY <1>1, <1>2, <1>4 DEF After, RootOf

\* The pixels beside the one at the cursor.
LEMMA RowOfPixels ==
    ASSUME x \in 1 .. Width, y \in 1 .. Height
    PROVE  /\ Position = PixelAt(x, y) /\ Position \in Nat /\ Position >= 1
           /\ x > 1 => Position - 1 = PixelAt(x - 1, y)
           /\ y > 1 => Position - Width = PixelAt(x, y - 1)
           /\ Beside(Position) = (IF x > 1 THEN {Position - 1} ELSE {})
                                   \cup (IF y > 1 THEN {Position - Width} ELSE {})
<1>1. Width \in Nat /\ Width >= 1 /\ x \in Nat /\ x >= 1 /\ x <= Width /\ y \in Nat /\ y >= 1
  BY SizeFacts
<1> DEFINE a == (y - 1) * Width
<1>2. a \in Nat /\ (y - 2) * Width = a - Width /\ (y > 1 => a >= Width) /\ (y = 1 => a = 0)
  <2>1. y = 1 => a = 0
    BY <1>1
  <2>2. y > 1 => (y - 2) * Width \in Nat
    BY <1>1
  <2>3. (y - 2) * Width = a - Width /\ a \in Nat
    BY <1>1
  <2> QED
    BY <1>1, <2>1, <2>2, <2>3
<1>3. a % Width = 0
  BY <1>1
<1>4. Position = a + x /\ PixelAt(x, y) = a + x /\ PixelAt(x - 1, y) = a + (x - 1)
      /\ PixelAt(x, y - 1) = (y - 2) * Width + x
  BY <1>1 DEF Position, PixelAt
<1>5. Width > 1 => ((a + x) % Width = 1 <=> x = 1)
  <2> SUFFICES ASSUME Width > 1 PROVE (a + x) % Width = 1 <=> x = 1
    OBVIOUS
  <2>1. x = Width => (a + x) % Width = 0
    BY <1>1
  <2>2. x < Width => (a + x) % Width = x
    BY <1>1
  <2> QED
    BY <1>1, <2>1, <2>2
<1> HIDE DEF a
<1>6. (Position % Width # 1 /\ Width > 1) <=> x > 1
  BY <1>1, <1>4, <1>5
<1>7. Position > Width <=> y > 1
  BY <1>1, <1>2, <1>4
<1>8. Beside(Position) = (IF x > 1 THEN {Position - 1} ELSE {})
                           \cup (IF y > 1 THEN {Position - Width} ELSE {})
  BY <1>6, <1>7 DEF Beside, Abstract!Neighbours
<1> QED
  BY <1>1, <1>2, <1>4, <1>8

-----------------------------------------------------------------------------
\* The image the abstract segmenter knows: the pixels that have a label.
LEMMA Prefix ==
    ASSUME NEW C, NEW s \in Seq(C), NEW n \in 0 .. Len(s)
    PROVE  /\ SubSeq(s, 1, n) \in Seq(C) /\ Len(SubSeq(s, 1, n)) = n
           /\ \A p \in 1 .. n : SubSeq(s, 1, n)[p] = s[p]
           /\ n = Len(s) => SubSeq(s, 1, n) = s
<1>1. /\ SubSeq(s, 1, n) \in Seq(C) /\ Len(SubSeq(s, 1, n)) = n
      /\ \A p \in 1 .. n : SubSeq(s, 1, n)[p] = s[p]
  OBVIOUS
<1>2. n = Len(s) => SubSeq(s, 1, n) = s
  BY <1>1
<1> QED
  BY <1>1, <1>2

LEMMA ImageFacts ==
    ASSUME IInv, LabelInv
    PROVE  /\ Image \in Seq(Colours) /\ Len(Image) = Len(label) /\ Len(label) \in Nat
           /\ \A p \in 1 .. Len(label) : Image[p] = source[p]
           /\ ~Merging => Image = source
<1>1. source \in Seq(Colours) /\ Len(label) \in Nat /\ Len(label) \in 0 .. Len(source)
  BY SMTT(60) DEF IInv, TypeOK, LabelInv
<1> QED
  BY <1>1, Prefix DEF Image, LabelInv

\* A part for every pixel.
LEMMA PixelRoots ==
    /\ DOMAIN RootOfPixel = 1 .. Len(label)
    /\ \A p \in 1 .. Len(label) : RootOfPixel[p] = RootOf(label[p])
BY DEF RootOfPixel, Pixels

LEMMA NewPixelRoots ==
    /\ RootOfPixel' = [p \in 1 .. Len(label') |-> After(label'[p])]
    /\ DOMAIN RootOfPixel' = 1 .. Len(label')
    /\ \A p \in 1 .. Len(label') : RootOfPixel'[p] = After(label'[p])
BY DEF RootOfPixel, Pixels, RootOf, After

\* A step that gives no pixel a label and leaves the roots what they were changes no part.
LEMMA SameParts ==
    ASSUME label' = label, \A p \in 1 .. Len(label) : After(label[p]) = RootOf(label[p])
    PROVE  RootOfPixel' = RootOfPixel /\ Parts' = Parts
<1>1. RootOfPixel' = [p \in 1 .. Len(label) |-> RootOf(label[p])]
  BY NewPixelRoots
<1>2. RootOfPixel' = RootOfPixel
  BY <1>1 DEF RootOfPixel, Pixels
<1> QED
  BY <1>2 DEF Parts

-----------------------------------------------------------------------------
\* What the abstract segmenter does when a pixel gets its label.
PixelAdded(c, q) ==
    /\ UNCHANGED <<x, y>> /\ pc' = "link"
    /\ Len(label) = Position - 1 /\ Len(currentRow) = x - 1
    /\ label' = Append(label, q) /\ currentRow' = Append(currentRow, q)
    /\ q \in 1 .. refCount' /\ refCount' \in Nat /\ refCount <= refCount'
    /\ Len(source') = Position /\ source'[Position] = c
    /\ \A p \in 1 .. Len(label) : source'[p] = source[p]
    /\ \A a \in 1 .. refCount : colour'[regionOf'[After(a)]] = colour[regionOf[RootOf(a)]]
    /\ colour'[regionOf'[After(q)]] = c
    /\ y > 1 => \A k \in 1 .. Width : previousRow'[k] \in 1 .. refCount
                                      /\ RootOf(previousRow'[k]) = RootOf(previousRow[k])

\* The pixels beside the one at the cursor that have its colour.
SameColour(c) == {m \in Beside(Position) : source[m] = c}

\* The roots that become one: those of these pixels, and that of q.
RootsJoin(c, q) ==
    LET joins(r) == \E m \in SameColour(c) : RootOf(label[m]) = r IN
    /\ \A a, b \in 1 .. refCount :
          After(a) = After(b) <=> RootOf(a) = RootOf(b) \/ (joins(RootOf(a)) /\ joins(RootOf(b)))
    /\ \A a \in 1 .. refCount : After(a) = After(q) <=> joins(RootOf(a))

LEMMA AddedInv ==
    ASSUME IInv, PartsInv, WalkInv', NEW c, NEW q, PixelAdded(c, q), RootsJoin(c, q)
    PROVE  PartsInv'
<1> USE DEF IInv, PartsInv
<1>1. /\ x \in 1 .. Width /\ y \in 1 .. Height /\ refCount \in Nat /\ label \in Seq(Refs)
      /\ currentRow \in Seq(Refs) /\ previousRow \in Seq(Refs) /\ Len(label) \in Nat /\ x \in Nat
  BY SizeFacts DEF TypeOK
<1>2. Position = PixelAt(x, y) /\ Position \in Nat /\ Position >= 1 /\ Position' = Position
  BY <1>1, RowOfPixels DEF PixelAdded, Position
<1>3. /\ Len(label') = Position /\ label'[Position] = q
      /\ \A p \in 1 .. Len(label) : label'[p] = label[p] /\ p \in 1 .. Position
      /\ \A p \in 1 .. Position : p = Position \/ p \in 1 .. Len(label)
      /\ \A k \in 1 .. x - 1 : currentRow'[k] = currentRow[k]
      /\ Len(currentRow') = x /\ currentRow'[x] = q
      /\ \A k \in 1 .. x : k = x \/ k \in 1 .. x - 1
  <2> HIDE DEF IInv, PartsInv
  <2>1. /\ label' = Append(label, q) /\ Len(label) = Position - 1
        /\ currentRow' = Append(currentRow, q) /\ Len(currentRow) = x - 1
    BY DEF PixelAdded
  <2>2. /\ Len(label') = Position /\ label'[Position] = q
        /\ \A p \in 1 .. Len(label) : label'[p] = label[p]
    BY <1>1, <1>2, <2>1
  <2>3. /\ Len(currentRow') = x /\ currentRow'[x] = q
        /\ \A k \in 1 .. x - 1 : currentRow'[k] = currentRow[k]
    BY <1>1, <2>1
  <2>4. /\ \A p \in 1 .. Len(label) : p \in 1 .. Position
        /\ \A p \in 1 .. Position : p = Position \/ p \in 1 .. Len(label)
        /\ \A k \in 1 .. x : k = x \/ k \in 1 .. x - 1
    BY <1>1, <1>2, <2>1
  <2> QED
    BY <2>2, <2>3, <2>4
<1>4. \A p \in 1 .. Len(label) : label[p] \in 1 .. refCount /\ colour[regionOf[RootOf(label[p])]] = source[p]
  BY DEF LabelInv
<1>5. \A a \in 1 .. refCount : a \in 1 .. refCount'
  BY <1>1 DEF PixelAdded
<1>6. LabelInv'
  <2>1. Len(source') = Len(label') /\ ~Merging'
    BY <1>3 DEF PixelAdded, Merging
  <2>2. ASSUME NEW p \in 1 .. Len(label')
        PROVE  label'[p] \in 1 .. refCount' /\ colour'[regionOf'[After(label'[p])]] = source'[p]
    <3>1. CASE p = Position
      BY <1>3, <3>1 DEF PixelAdded
    <3>2. CASE p \in 1 .. Len(label)
      BY <1>3, <1>4, <1>5, <3>2, SMTT(60) DEF PixelAdded
    <3> QED
      BY <1>3, <2>2, <3>1, <3>2
  <2> QED
    BY <2>1, <2>2 DEF LabelInv, RootOf, After
<1>7. \A a, b \in 1 .. refCount : RootOf(a) = RootOf(b) => After(a) = After(b)
  BY DEF RootsJoin
<1>8. CellsInv'
  <2>1. x' = x /\ y' = y /\ pc' = "link" /\ ~Merging'
    BY DEF PixelAdded, Merging
  <2>2. ASSUME NEW k \in 1 .. x
        PROVE  PixelAt(k, y) \in 1 .. Len(label') /\ After(currentRow'[k]) = After(label'[PixelAt(k, y)])
    <3>1. CASE k = x
      BY <1>2, <1>3, <3>1
    <3>2. CASE k \in 1 .. x - 1
      <4>1. k \in 1 .. Len(currentRow) /\ currentRow[k] \in 1 .. refCount
        BY <3>2 DEF PixelAdded, RowsInv
      <4>2. PixelAt(k, y) \in 1 .. Len(label) /\ RootOf(currentRow[k]) = RootOf(label[PixelAt(k, y)])
        BY <4>1 DEF CellsInv
      <4>3. label[PixelAt(k, y)] \in 1 .. refCount
        BY <1>4, <4>2
      <4> QED
        BY <1>3, <1>7, <3>2, <4>1, <4>2, <4>3
    <3> QED
      BY <1>3, <3>1, <3>2
  <2>3. ASSUME y > 1, NEW k \in 1 .. Width
        PROVE  /\ PixelAt(k, y - 1) \in 1 .. Len(label')
               /\ After(previousRow'[k]) = After(label'[PixelAt(k, y - 1)])
    <3>1. /\ PixelAt(k, y - 1) \in 1 .. Len(label)
          /\ RootOf(previousRow[k]) = RootOf(label[PixelAt(k, y - 1)])
      BY <2>3 DEF CellsInv
    <3>2. previousRow'[k] \in 1 .. refCount /\ RootOf(previousRow'[k]) = RootOf(previousRow[k])
      BY <2>3 DEF PixelAdded
    <3>3. label[PixelAt(k, y - 1)] \in 1 .. refCount
      BY <1>4, <3>1
    <3> QED
      BY <1>3, <1>7, <3>1, <3>2, <3>3
  <2>4. /\ \A k \in 1 .. Len(currentRow') : PixelAt(k, y') \in 1 .. Len(label')
                                            /\ After(currentRow'[k]) = After(label'[PixelAt(k, y')])
        /\ y' > 1 => \A k \in 1 .. Width : /\ PixelAt(k, y' - 1) \in 1 .. Len(label')
                                           /\ After(previousRow'[k]) = After(label'[PixelAt(k, y' - 1)])
    BY <1>3, <2>1, <2>2, <2>3
  <2>5. \A k, r : PixelAt(k, r)' = PixelAt(k, r)
    BY DEF PixelAt
  <2> QED
    BY <2>1, <2>4 DEF CellsInv, RootOf, After, PixelAt
<1> QED
  BY <1>6, <1>8

LEMMA AddedStep ==
    ASSUME IInv, PartsInv, PartsInv', NEW c \in Colours, NEW q, PixelAdded(c, q), RootsJoin(c, q),
           source' \in Seq(Colours)
    PROVE  Abstract!AddPixel(c)
<1> USE DEF IInv, PartsInv
<1> DEFINE n == Len(label)
           T == SameColour(c)
<1>1. /\ x \in 1 .. Width /\ y \in 1 .. Height /\ n \in Nat /\ label \in Seq(Refs) /\ q = q
  BY DEF TypeOK
<1>2. /\ Position \in 1 .. Width * Height /\ n + 1 = Position /\ n = Position - 1
  BY <1>1, PositionFacts, SMTT(60) DEF PixelAdded
<1>3. T \in SUBSET (1 .. n)
  <2>1. \A m \in Beside(Position) : m \in 1 .. Position - 1
    BY <1>2, BesideIsBefore, SizeFacts
  <2> QED
    BY <1>2, <2>1 DEF SameColour
<1>4. /\ Image \in Seq(Colours) /\ Len(Image) = n /\ \A p \in 1 .. n : Image[p] = source[p]
  BY ImageFacts
<1>5. Image' = Append(Image, c)
  <2>1. Len(label') = n + 1 /\ Len(source') = n + 1
    BY <1>1, <1>2 DEF PixelAdded
  <2>2. Image' = source'
    <3> DEFINE s == source'
    <3>1. s \in Seq(Colours) /\ Len(label') \in 0 .. Len(s) /\ Len(label') = Len(s)
      BY <1>1, <2>1
    <3> HIDE DEF s
    <3>2. SubSeq(s, 1, Len(label')) = s
      BY <3>1, Prefix
    <3> QED
      BY <3>2 DEF s, Image
  <2>3. \A p \in 1 .. n + 1 : source'[p] = IF p = n + 1 THEN c ELSE Image[p]
    BY <1>2, <1>4 DEF PixelAdded
  <2>4. source' = Append(Image, c)
    BY <1>4, <2>1, <2>3
  <2> QED
    BY <2>2, <2>4
<1>6. Joins(n, RootOfPixel, T, RootOfPixel')
  <2>1. /\ \A p \in 1 .. n : label[p] \in 1 .. refCount /\ RootOfPixel[p] = RootOf(label[p])
        /\ \A p \in 1 .. n : RootOfPixel'[p] = After(label[p])
        /\ RootOfPixel'[n + 1] = After(q)
    <3>1. /\ \A p \in 1 .. n : label'[p] = label[p] /\ p \in 1 .. Len(label')
          /\ n + 1 \in 1 .. Len(label') /\ label'[n + 1] = q
      BY <1>1 DEF PixelAdded
    <3> QED
      BY <3>1, PixelRoots, NewPixelRoots DEF LabelInv
  <2> DEFINE joins(r) == \E m \in T : RootOf(label[m]) = r
  <2>2. \A p \in 1 .. n : joins(RootOf(label[p])) <=> \E m \in T : RootOfPixel[m] = RootOfPixel[p]
    BY <1>3, <2>1
  <2>3. /\ \A a, b \in 1 .. refCount :
              After(a) = After(b) <=> RootOf(a) = RootOf(b) \/ (joins(RootOf(a)) /\ joins(RootOf(b)))
        /\ \A a \in 1 .. refCount : After(a) = After(q) <=> joins(RootOf(a))
    BY DEF RootsJoin
  <2> HIDE DEF joins, T
  <2> QED
    BY <2>1, <2>2, <2>3, SMTT(60) DEF Joins
<1>7. /\ DOMAIN RootOfPixel = 1 .. n /\ DOMAIN RootOfPixel' = 1 .. n + 1
  <2>1. Len(label') = n + 1
    BY <1>1 DEF PixelAdded
  <2> QED
    BY <2>1, PixelRoots, NewPixelRoots
<1> HIDE DEF T
<1>8. Classes(RootOfPixel') = (Classes(RootOfPixel) \ Joined(n, RootOfPixel, T))
                                 \cup {{n + 1} \cup UNION Joined(n, RootOfPixel, T)}
  <2> DEFINE new == RootOfPixel'
  <2>1. DOMAIN new = 1 .. n + 1 /\ Joins(n, RootOfPixel, T, new)
    BY <1>6, <1>7
  <2> HIDE DEF new
  <2>2. Classes(new) = (Classes(RootOfPixel) \ Joined(n, RootOfPixel, T))
                          \cup {{n + 1} \cup UNION Joined(n, RootOfPixel, T)}
    BY <1>1, <1>3, <1>7, <2>1, JoinClasses
  <2> QED
    BY <2>2 DEF new
<1>9. Joined(n, RootOfPixel, T) = {b \in Parts : \E m \in Beside(n + 1) \cap b : Image[m] = c}
  <2>1. \A m : m \in T <=> m \in Beside(n + 1) /\ Image[m] = c
    <3>1. \A m \in Beside(Position) : m \in 1 .. n
      BY <1>2, BesideIsBefore, SizeFacts
    <3> QED
      BY <1>2, <1>4, <3>1 DEF T, SameColour
  <2> QED
    BY <2>1 DEF Joined, Parts
<1>10. n + 1 <= Width * Height
  BY <1>2
<1> QED
  BY <1>4, <1>5, <1>8, <1>9, <1>10 DEF Abstract!AddPixel, Parts, Beside

-----------------------------------------------------------------------------
(***************************************************************************)
(* The roots after a step                                                  *)
(***************************************************************************)
RootsKept == WalkInv' /\ \A q \in 1 .. refCount : After(q) = RootOf(q)

\* The roots of the pixels beside the one at the cursor.
LEMMA RootsBeside ==
    ASSUME IInv, PartsInv, (pc = "read" /\ Resolved) \/ Merging
    PROVE  /\ x > 1 => /\ Position - 1 \in 1 .. Len(label) /\ RootOf(label[Position - 1]) = West
                       /\ West \in 1 .. refCount /\ RootOf(West) = West
                       /\ source[Position - 1] = RegionColour(West)
           /\ y > 1 => /\ Position - Width \in 1 .. Len(label) /\ RootOf(label[Position - Width]) = North
                       /\ North \in 1 .. refCount /\ RootOf(North) = North
                       /\ source[Position - Width] = RegionColour(North)
                       /\ previousRow[x] \in 1 .. refCount /\ RootOf(previousRow[x]) = North
<1> USE DEF IInv, PartsInv
<1>1. x \in 1 .. Width /\ y \in 1 .. Height /\ Len(currentRow) = x - 1 /\ Width \in Nat
  BY SizeFacts DEF TypeOK, RowsInv, Scanning, Merging
<1>2. /\ x > 1 => West \in 1 .. refCount /\ IsRoot(West)
      /\ y > 1 => North \in 1 .. refCount /\ IsRoot(North)
  BY BesidePixel, MergedRegions DEF Merging
<1>3. ASSUME x > 1
      PROVE  /\ Position - 1 \in 1 .. Len(label) /\ RootOf(label[Position - 1]) = West
             /\ RootOf(West) = West /\ source[Position - 1] = RegionColour(West)
  <2>1. x - 1 \in 1 .. Len(currentRow) /\ West = currentRow[x - 1]
    BY <1>1, <1>3 DEF West
  <2>2. Position - 1 = PixelAt(x - 1, y)
    BY <1>1, <1>3, RowOfPixels
  <2>3. PixelAt(x - 1, y) \in 1 .. Len(label) /\ RootOf(West) = RootOf(label[PixelAt(x - 1, y)])
    BY <2>1 DEF CellsInv
  <2>4. RootOf(West) = West
    BY <1>2, <1>3, RootFacts
  <2> QED
    BY <2>2, <2>3, <2>4 DEF LabelInv, RegionColour
<1>4. ASSUME y > 1
      PROVE  /\ Position - Width \in 1 .. Len(label) /\ RootOf(label[Position - Width]) = North
             /\ RootOf(North) = North /\ source[Position - Width] = RegionColour(North)
             /\ previousRow[x] \in 1 .. refCount /\ RootOf(previousRow[x]) = North
  <2>1. Position - Width = PixelAt(x, y - 1)
    BY <1>1, <1>4, RowOfPixels
  <2>2. /\ PixelAt(x, y - 1) \in 1 .. Len(label)
        /\ RootOf(previousRow[x]) = RootOf(label[PixelAt(x, y - 1)])
    BY <1>1, <1>4 DEF CellsInv
  <2>3. RootOf(North) = RootOf(previousRow[x])
    BY <1>4 DEF CellsInv, North
  <2>4. RootOf(North) = North
    BY <1>2, <1>4, RootFacts
  <2>5. previousRow[x] \in 1 .. refCount
    BY <1>1, <1>4 DEF RowsInv
  <2> QED
    BY <2>1, <2>2, <2>3, <2>4, <2>5, ZenonT(60) DEF LabelInv, RegionColour
<1> QED
  BY <1>2, <1>3, <1>4

\* What reading a pixel writes into a redirect is the root it leads to anyway.
LEMMA CompressedRow ==
    ASSUME IInv, PartsInv, pc = "read", Resolved, NEW root, NEW rank, Walks(redirect, refCount, root, rank)
    PROVE  /\ Walks(Compressed, refCount, root, rank)
           /\ y > 1 => \A k \in 1 .. Width : ResolvedRow[k] \in 1 .. refCount
                                             /\ RootOf(ResolvedRow[k]) = RootOf(previousRow[k])
<1> USE DEF IInv, PartsInv
<1>1. /\ refCount \in Nat /\ redirect \in [Refs -> Refs \cup {Null}] /\ previousRow \in Seq(Refs)
      /\ 1 .. refCount \subseteq Refs /\ x \in 1 .. Width /\ y \in Nat /\ y >= 1
  BY SizeFacts DEF TypeOK, Refs
<1>2. y > 1 => Len(previousRow) = Width /\ \A k \in 1 .. Width : previousRow[k] \in 1 .. refCount
  BY DEF RowsInv
<1>3. CASE result = Null
  <2>1. Compressed = redirect /\ ResolvedRow = previousRow
    BY <1>3 DEF Compressed, ResolvedRow
  <2> QED
    BY <1>2, <2>1
<1>4. CASE result # Null
  <2>1. y > 1
    BY <1>1, <1>4 DEF CursorInv, Scanning
  <2>2. previousRow[x] \in 1 .. refCount /\ RootOf(previousRow[x]) = result /\ RootOf(result) = result
        /\ result \in 1 .. refCount
    BY <2>1, RootsBeside DEF North
  <2>3. /\ Compressed = [redirect EXCEPT ![previousRow[x]] = result]
        /\ ResolvedRow = [previousRow EXCEPT ![x] = result]
    BY <1>4 DEF Compressed, ResolvedRow
  <2>4. root[previousRow[x]] = result
    BY <1>1, <2>2, WalkEnds DEF RootOf
  <2>5. Compressed[previousRow[x]] = root[previousRow[x]]
        /\ \A q \in 1 .. refCount : q # previousRow[x] => Compressed[q] = redirect[q]
    BY <1>1, <2>2, <2>3, <2>4
  <2>6. Walks(Compressed, refCount, root, rank)
    <3> DEFINE new == Compressed
    <3> HIDE DEF new
    <3>1. Walks(new, refCount, root, rank)
      BY <1>1, <2>2, <2>5, CompressedWalks DEF new
    <3> QED
      BY <3>1 DEF new
  <2>7. \A k \in 1 .. Width : ResolvedRow[k] = IF k = x THEN result ELSE previousRow[k]
    BY <1>1, <1>2, <2>1, <2>3
  <2> QED
    BY <1>2, <2>1, <2>2, <2>6, <2>7
<1> QED
  BY <1>3, <1>4

LEMMA ReadRoots ==
    ASSUME IInv, PartsInv, pc = "read", Resolved, redirect' = Compressed, refCount' = refCount
    PROVE  RootsKept
<1>1. PICK root, rank : Walks(redirect, refCount, root, rank)
  BY DEF PartsInv, WalkInv
<1>2. Walks(redirect', refCount, root, rank)
  BY <1>1, CompressedRow
<1>3. refCount \in Nat
  BY SizeFacts DEF IInv, TypeOK
<1> QED
  BY <1>1, <1>2, <1>3, SameWalks DEF RootsKept

\* A new reference is a root; the others lead where they led.
LEMMA NewRoots ==
    ASSUME IInv, PartsInv, pc = "read", Resolved, refCount' = refCount + 1, refCount + 1 \in Refs,
           redirect' = [Compressed EXCEPT ![refCount + 1] = refCount + 1]
    PROVE  RootsKept /\ After(refCount + 1) = refCount + 1
<1> DEFINE n == refCount
           rd == redirect'
<1>1. PICK root, rank : Walks(redirect, n, root, rank)
  BY DEF PartsInv, WalkInv
<1>2. Walks(Compressed, n, root, rank)
  BY <1>1, CompressedRow
<1>3. n \in Nat /\ Compressed \in [Refs -> Refs \cup {Null}] /\ n + 1 \in Refs /\ 1 .. n \subseteq Refs
  <2>1. n \in Nat /\ 1 .. n \subseteq Refs
    BY SizeFacts DEF IInv, TypeOK, Refs
  <2> QED
    BY <2>1, CompressedRoots
<1>4. rd[n + 1] = n + 1 /\ \A q \in 1 .. n : rd[q] = Compressed[q]
  BY <1>3
<1> DEFINE root2 == [q \in 1 .. n + 1 |-> IF q = n + 1 THEN q ELSE root[q]]
           rank2 == [q \in 1 .. n + 1 |-> IF q = n + 1 THEN 0 ELSE rank[q]]
<1>5. Walks(rd, n + 1, root2, rank2)
  <2> DEFINE old == Compressed
  <2>1. Walks(old, n, root, rank) /\ rd[n + 1] = n + 1 /\ \A q \in 1 .. n : rd[q] = old[q]
    BY <1>2, <1>4
  <2> HIDE DEF old, rd, n
  <2> QED
    BY <1>3, <2>1, NewRootWalks
<1>6. \A q \in 1 .. n + 1 : RootIn(rd, n + 1, q) = root2[q]
  <2>1. n + 1 \in Nat
    BY <1>3
  <2> HIDE DEF rd, root2, rank2, n
  <2> QED
    BY <1>5, <2>1, WalkEnds
<1>7. \A q \in 1 .. n : RootIn(redirect, n, q) = root[q]
  BY <1>1, <1>3, WalkEnds
<1>8. \A q \in 1 .. n : q \in 1 .. n + 1 /\ root2[q] = root[q]
  BY <1>3
<1>9. n + 1 \in 1 .. n + 1 /\ root2[n + 1] = n + 1
  BY <1>3
<1>10. WalkInv'
  <2> HIDE DEF root2, rank2
  <2> QED
    BY <1>5 DEF WalkInv
<1> HIDE DEF root2
<1> QED
  BY <1>6, <1>7, <1>8, <1>9, <1>10 DEF RootsKept, After, RootOf

\* A merge makes the root of the west pixel's part that of the north pixel's.
LEMMA MergedRoots ==
    ASSUME IInv, PartsInv, Merging, redirect' = [redirect EXCEPT ![West] = North], refCount' = refCount
    PROVE  /\ WalkInv'
           /\ \A q \in 1 .. refCount : After(q) = IF RootOf(q) = West THEN North ELSE RootOf(q)
<1> DEFINE n == refCount
           rd == redirect'
           v == North
           w == West
<1>1. PICK root, rank : Walks(redirect, n, root, rank)
  BY DEF PartsInv, WalkInv
<1>2. /\ n \in Nat /\ 1 .. n \subseteq Refs /\ redirect \in [Refs -> Refs \cup {Null}]
  BY SizeFacts DEF IInv, TypeOK, Refs
<1>3. v \in 1 .. n /\ w \in 1 .. n /\ v # w /\ redirect[v] = v /\ redirect[w] = w
  BY MergedRegions DEF IsRoot
<1>4. rd[w] = v /\ \A q \in 1 .. n : q # w => rd[q] = redirect[q]
  BY <1>2, <1>3
<1> HIDE DEF rd, v, w, n
<1>5. PICK rank2 : Walks(rd, n, Redirected(root, n, w, v), rank2)
  BY <1>1, <1>2, <1>3, <1>4, MergedWalks
<1> DEFINE root2 == Redirected(root, n, w, v)
<1>6. \A q \in 1 .. n : RootIn(rd, n, q) = root2[q]
  BY <1>2, <1>5, WalkEnds
<1>7. \A q \in 1 .. n : RootIn(redirect, n, q) = root[q]
  BY <1>1, <1>2, WalkEnds
<1>8. \A q \in 1 .. n : root2[q] = IF root[q] = w THEN v ELSE root[q]
  BY DEF Redirected
<1>9. WalkInv'
  BY <1>5 DEF WalkInv, rd, n
<1> QED
  BY <1>6, <1>7, <1>8, <1>9 DEF After, RootOf, rd, v, w, n

\* Marking the bottom row writes roots, too.
LEMMA BottomRoots ==
    ASSUME IInv, PartsInv, pc = "bottom", Resolved, refCount' = refCount,
           redirect' = [redirect EXCEPT ![currentRow[x]] = result]
    PROVE  /\ RootsKept /\ result \in 1 .. refCount /\ IsRoot(result) /\ RootOf(result) = result
           /\ RootOf(currentRow[x]) = result /\ currentRow[x] \in 1 .. refCount
<1> USE DEF IInv, PartsInv
<1>1. PICK root, rank : Walks(redirect, refCount, root, rank)
  BY DEF WalkInv
<1>2. /\ refCount \in Nat /\ redirect \in [Refs -> Refs \cup {Null}] /\ 1 .. refCount \subseteq Refs
      /\ x \in 1 .. Width
  BY SizeFacts DEF TypeOK, Refs
<1>3. result \in 1 .. refCount /\ IsRoot(result) /\ currentRow[x] \in 1 .. refCount
  <2>1. result \in 1 .. refCount /\ result # Null
    BY DEF CursorInv, Null
  <2>2. Len(currentRow) = Width
    BY DEF RowsInv, Scanning, Merging
  <2> QED
    BY <1>2, <2>1, <2>2 DEF Resolved, RowsInv
<1>4. RootOf(result) = result /\ RootOf(currentRow[x]) = result
  BY <1>3, RootFacts DEF CellsInv
<1>5. root[currentRow[x]] = result
  BY <1>1, <1>2, <1>3, <1>4, WalkEnds DEF RootOf
<1> DEFINE rd == redirect'
           c == currentRow[x]
<1>6. rd[c] = root[c] /\ \A q \in 1 .. refCount : q # c => rd[q] = redirect[q]
  BY <1>2, <1>3, <1>5
<1>7. Walks(rd, refCount, root, rank)
  <2> HIDE DEF rd
  <2> QED
    BY <1>1, <1>2, <1>3, <1>6, CompressedWalks
<1> QED
  BY <1>1, <1>2, <1>3, <1>4, <1>7, SameWalks DEF RootsKept

-----------------------------------------------------------------------------
(***************************************************************************)
(* Steps of the segmenter and of Components                                *)
(***************************************************************************)
PartsKept == PartsInv' /\ UNCHANGED <<Image, Parts>>

\* Steps that change adjacency lists and flags only.
LEMMA ReferencesKeptParts ==
    ASSUME IInv, PartsInv, ReferencesKept
    PROVE  PartsKept /\ RootOfPixel' = RootOfPixel
<1> USE DEF PartsInv
<1>1. /\ UNCHANGED <<x, y, colour, regionOf, redirect, refCount>>
      /\ UNCHANGED <<currentRow, previousRow, result, source, label>>
      /\ (pc' = "read" <=> pc = "read") /\ (pc' = "bottom" <=> pc = "bottom")
  BY DEF ReferencesKept, refVars, rowVars, inputVars, Merging
<1>2. R1' = R1 /\ Merging' = Merging /\ Position' = Position
  BY <1>1, ReferencesKeptInv DEF Position
<1>3. \A q : After(q) = RootOf(q)
  BY <1>1 DEF After, RootOf
<1>4. WalkInv'
  BY <1>1 DEF WalkInv
<1>5. LabelInv'
  BY <1>1, <1>2 DEF LabelInv, RootOf
<1>6. CellsInv'
  BY <1>1, <1>2 DEF CellsInv, RootOf, PixelAt
<1>7. UNCHANGED Image
  BY <1>1 DEF Image
<1> QED
  BY <1>1, <1>3, <1>4, <1>5, <1>6, <1>7, SameParts DEF PartsKept

LEMMA FollowRedirectParts ==
    ASSUME IInv, PartsInv, FollowRedirect
    PROVE  PartsKept /\ RootOfPixel' = RootOfPixel
<1> USE DEF PartsInv
<1>1. /\ UNCHANGED <<x, y, colour, regionOf, redirect, refCount>> /\ pc' = pc
      /\ UNCHANGED <<currentRow, previousRow, source, label>>
      /\ pc \in {"read", "bottom"} /\ result # Null /\ result' = redirect[result]
  BY DEF FollowRedirect, regionVars, refVars, inputVars
<1>2. ~Merging /\ ~Merging'
  BY <1>1 DEF Merging
<1>3. \A q : After(q) = RootOf(q)
  BY <1>1 DEF After, RootOf
<1>4. WalkInv'
  BY <1>1 DEF WalkInv
<1>5. LabelInv'
  BY <1>1, <1>2 DEF LabelInv, RootOf
<1>6. RootOf(redirect[result]) = RootOf(result)
  <2>1. result \in 1 .. refCount
    BY <1>1, SizeFacts DEF IInv, CursorInv, Scanning, Null, TypeOK
  <2> QED
    BY <2>1, RootFacts
<1>7. CellsInv'
  BY <1>1, <1>2, <1>6 DEF CellsInv, RootOf, PixelAt
<1>8. UNCHANGED Image
  BY <1>1 DEF Image
<1> QED
  BY <1>1, <1>3, <1>4, <1>5, <1>7, <1>8, SameParts DEF PartsKept

-----------------------------------------------------------------------------
\* A pixel of another colour than those beside it is a part of its own.
LEMMA NewRegionParts ==
    ASSUME IInv, PartsInv, NEW c \in Colours, ReadPixel(c), SameColour(c) = {},
           NEW f, NEW boxes, NEW touching, NewRegion(c, f, boxes, touching)
    PROVE  /\ RootsKept /\ PixelAdded(c, refCount + 1) /\ RootsJoin(c, refCount + 1)
           /\ \A q \in 1 .. refCount : regionOf'[q] = regionOf[q]
<1> USE DEF IInv, PartsInv
<1> DEFINE r == IF freed = <<>> THEN regionCount + 1 ELSE Head(freed)
           q == refCount + 1
<1>1. /\ regionCount' = IF freed = <<>> THEN r ELSE regionCount
      /\ freed' = IF freed = <<>> THEN <<>> ELSE Tail(freed)
      /\ colour' = [colour EXCEPT ![r] = c]
      /\ refCount' = q
      /\ redirect' = [Compressed EXCEPT ![q] = q]
      /\ regionOf' = [regionOf EXCEPT ![q] = r]
      /\ currentRow' = Append(currentRow, q) /\ label' = Append(label, q)
      /\ pc' = "link"
  BY DEF NewRegion, Popped
<1>2. /\ pc = "read" /\ Resolved /\ x' = x /\ y' = y
      /\ Len(source') = Position /\ Len(label) = Position - 1 /\ Len(currentRow) = x - 1
      /\ previousRow' = ResolvedRow
  BY PixelRead
<1>3. r \in Regions /\ r \notin Live /\ q \in Refs /\ refCount \in Nat
  BY <1>1, RegionTaken
<1> HIDE DEF r
<1>4. RootsKept /\ After(q) = q
  BY <1>1, <1>2, <1>3, NewRoots
<1>5. \A p \in 1 .. refCount : RootOf(p) \in 1 .. refCount /\ regionOf[RootOf(p)] \in Live
  BY RootFacts DEF OneOwner
<1>6. /\ regionOf'[q] = r /\ \A p \in 1 .. refCount : regionOf'[p] = regionOf[p]
  BY <1>1, <1>3 DEF TypeOK, Refs
<1>7. colour'[r] = c /\ \A t \in Live : colour'[t] = colour[t]
  BY <1>1, <1>3 DEF TypeOK, Live, Regions
<1>8. \A a \in 1 .. refCount : colour'[regionOf'[After(a)]] = colour[regionOf[RootOf(a)]]
  BY <1>4, <1>5, <1>6, <1>7 DEF RootsKept
<1>9. /\ source'[Position] = c /\ \A p \in 1 .. Len(label) : source'[p] = source[p]
  <2>1. source' = Append(source, c) /\ source \in Seq(Colours) /\ Len(source) = Len(label)
    BY <1>2 DEF ReadPixel, TypeOK, CountInv
  <2>2. Len(source) + 1 = Position
    BY <1>2, <2>1
  <2> QED
    BY <2>1, <2>2
<1>10. y > 1 => \A k \in 1 .. Width : previousRow'[k] \in 1 .. refCount
                                      /\ RootOf(previousRow'[k]) = RootOf(previousRow[k])
  <2>1. PICK root, rank : Walks(redirect, refCount, root, rank)
    BY DEF WalkInv
  <2> QED
    BY <1>2, <2>1, CompressedRow
<1>11. PixelAdded(c, q)
  BY <1>1, <1>2, <1>3, <1>4, <1>6, <1>7, <1>8, <1>9, <1>10 DEF PixelAdded
<1>12. RootsJoin(c, q)
  <2>1. \A a \in 1 .. refCount : After(a) = RootOf(a) /\ RootOf(a) # q
    BY <1>3, <1>4, <1>5 DEF RootsKept
  <2> HIDE DEF q
  <2> QED
    BY <1>4, <2>1 DEF RootsJoin
<1> QED
  BY <1>4, <1>6, <1>11, <1>12

\* A pixel of the colour of those beside it, which are of one part, joins that part.
LEMMA JoinRegionParts ==
    ASSUME IInv, PartsInv, NEW c \in Colours, ReadPixel(c),
           NEW q \in 1 .. refCount, RootOf(q) = q, RegionColour(q) = c,
           SameColour(c) # {}, \A m \in SameColour(c) : RootOf(label[m]) = q,
           JoinRegion(q)
    PROVE  /\ RootsKept /\ PixelAdded(c, q) /\ RootsJoin(c, q) /\ regionOf' = regionOf
<1> USE DEF IInv, PartsInv
<1>1. /\ currentRow' = Append(currentRow, q) /\ label' = Append(label, q)
      /\ redirect' = Compressed /\ pc' = "link"
      /\ UNCHANGED <<colour, refCount, regionOf>>
  BY DEF JoinRegion
<1>2. /\ pc = "read" /\ Resolved /\ x' = x /\ y' = y
      /\ Len(source') = Position /\ Len(label) = Position - 1 /\ Len(currentRow) = x - 1
      /\ previousRow' = ResolvedRow
  BY PixelRead
<1>3. RootsKept /\ refCount \in Nat
  BY <1>1, <1>2, ReadRoots, SizeFacts, SMTT(60) DEF TypeOK
<1>4. /\ source'[Position] = c /\ \A p \in 1 .. Len(label) : source'[p] = source[p]
  <2>1. source' = Append(source, c) /\ source \in Seq(Colours) /\ Len(source) = Len(label)
    BY <1>2 DEF ReadPixel, TypeOK, CountInv
  <2>2. Len(source) + 1 = Position
    BY <1>2, <2>1
  <2> QED
    BY <2>1, <2>2
<1>5. y > 1 => \A k \in 1 .. Width : previousRow'[k] \in 1 .. refCount
                                     /\ RootOf(previousRow'[k]) = RootOf(previousRow[k])
  <2>1. PICK root, rank : Walks(redirect, refCount, root, rank)
    BY DEF WalkInv
  <2> QED
    BY <1>2, <2>1, CompressedRow
<1>6. /\ \A a \in 1 .. refCount : colour'[regionOf'[After(a)]] = colour[regionOf[RootOf(a)]]
      /\ colour'[regionOf'[After(q)]] = c
  BY <1>1, <1>3 DEF RootsKept, RegionColour
<1>7. PixelAdded(c, q)
  BY <1>1, <1>2, <1>3, <1>4, <1>5, <1>6 DEF PixelAdded
<1>8. RootsJoin(c, q)
  <2>1. \A a \in 1 .. refCount : After(a) = RootOf(a)
    BY <1>3 DEF RootsKept
  <2>2. \A r : (\E m \in SameColour(c) : RootOf(label[m]) = r) <=> r = q
    OBVIOUS
  <2> QED
    BY <2>1, <2>2 DEF RootsJoin
<1> QED
  BY <1>1, <1>3, <1>7, <1>8

\* The pixels beside the one at the cursor that have its colour.
LEMMA SameColourFacts ==
    ASSUME IInv, PartsInv, (pc = "read" /\ Resolved) \/ Merging, NEW c
    PROVE  SameColour(c) = (IF x > 1 /\ c = RegionColour(West) THEN {Position - 1} ELSE {})
                             \cup (IF y > 1 /\ c = RegionColour(North) THEN {Position - Width} ELSE {})
<1>1. x \in 1 .. Width /\ y \in 1 .. Height
  BY DEF IInv, TypeOK
<1>2. Beside(Position) = (IF x > 1 THEN {Position - 1} ELSE {})
                            \cup (IF y > 1 THEN {Position - Width} ELSE {})
  BY <1>1, RowOfPixels
<1>3. /\ x > 1 => source[Position - 1] = RegionColour(West)
      /\ y > 1 => source[Position - Width] = RegionColour(North)
  BY RootsBeside
<1> QED
  BY <1>2, <1>3 DEF SameColour

-----------------------------------------------------------------------------
\* A pixel that begins no merge.
ReadAddsPart(c) ==
    /\ RootsKept
    /\ \A q \in 1 .. refCount : regionOf'[q] = regionOf[q]
    /\ \E q : PixelAdded(c, q) /\ RootsJoin(c, q)

LEMMA ReadAdds ==
    ASSUME IInv, PartsInv, NEW c \in Colours, ReadWithoutMerge(c)
    PROVE  ReadAddsPart(c)
<1> USE DEF PartsInv
<1>1. ReadPixel(c)
  BY DEF ReadWithoutMerge, FirstPixel, TopLine, LeftEdge, ExtendWest, ExtendNorth, CentreNew, InCentre
<1>2. pc = "read" /\ Resolved
  BY <1>1 DEF ReadPixel
<1>3. /\ x > 1 => /\ RootOf(label[Position - 1]) = West
                  /\ West \in 1 .. refCount /\ RootOf(West) = West
      /\ y > 1 => /\ RootOf(label[Position - Width]) = North
                  /\ North \in 1 .. refCount /\ RootOf(North) = North
  BY <1>2, RootsBeside
<1>4. SameColour(c) = (IF x > 1 /\ c = RegionColour(West) THEN {Position - 1} ELSE {})
                         \cup (IF y > 1 /\ c = RegionColour(North) THEN {Position - Width} ELSE {})
  BY <1>2, SameColourFacts
<1>5. x \in 1 .. Width /\ y \in 1 .. Height /\ Width \in Nat
  BY SizeFacts DEF IInv, TypeOK
<1>6. ASSUME NEW f, NEW boxes, NEW touching, NewRegion(c, f, boxes, touching), SameColour(c) = {}
      PROVE  ReadAddsPart(c)
  BY <1>1, <1>6, NewRegionParts DEF ReadAddsPart
<1>7. ASSUME NEW q \in 1 .. refCount, RootOf(q) = q, RegionColour(q) = c, JoinRegion(q),
             SameColour(c) # {}, \A m \in SameColour(c) : RootOf(label[m]) = q
      PROVE  ReadAddsPart(c)
  <2>1. /\ RootsKept /\ PixelAdded(c, q) /\ RootsJoin(c, q) /\ regionOf' = regionOf
    BY <1>1, <1>7, JoinRegionParts
  <2> QED
    BY <2>1 DEF ReadAddsPart
<1>8. ASSUME FirstPixel(c) PROVE ReadAddsPart(c)
  <2>1. NewRegion(c, {Root}, box, <<>>) /\ SameColour(c) = {}
    BY <1>4, <1>5, <1>8 DEF FirstPixel
  <2> QED
    BY <1>6, <2>1
<1>9. ASSUME TopLine(c) PROVE ReadAddsPart(c)
  <2>1. x > 1 /\ y = 1
    BY <1>9 DEF TopLine
  <2>2. ASSUME c = RegionColour(West) /\ JoinRegion(West) PROVE ReadAddsPart(c)
    <3>1. SameColour(c) = {Position - 1}
      BY <1>4, <2>1, <2>2
    <3> QED
      BY <1>3, <1>7, <2>1, <2>2, <3>1
  <2>3. ASSUME c # RegionColour(West) /\ NewRegion(c, {Root}, box, <<regionOf[West]>>) PROVE ReadAddsPart(c)
    <3>1. SameColour(c) = {}
      BY <1>4, <2>1, <2>3
    <3> QED
      BY <1>6, <2>3, <3>1
  <2> QED
    BY <1>9, <2>2, <2>3 DEF TopLine
<1>10. ASSUME LeftEdge(c) PROVE ReadAddsPart(c)
  <2>1. x = 1 /\ y > 1
    BY <1>10 DEF LeftEdge
  <2>2. ASSUME c = RegionColour(North) /\ JoinRegion(North) PROVE ReadAddsPart(c)
    <3>1. SameColour(c) = {Position - Width}
      BY <1>4, <2>1, <2>2
    <3> QED
      BY <1>3, <1>7, <2>1, <2>2, <3>1
  <2>3. ASSUME c # RegionColour(North) /\ NewRegion(c, {Root}, box, <<regionOf[North]>>) PROVE ReadAddsPart(c)
    <3>1. SameColour(c) = {}
      BY <1>4, <2>1, <2>3
    <3> QED
      BY <1>6, <2>3, <3>1
  <2> QED
    BY <1>10, <2>2, <2>3 DEF LeftEdge
<1>11. ASSUME ExtendWest(c) PROVE ReadAddsPart(c)
  <2>1. /\ x > 1 /\ y > 1 /\ c = RegionColour(West) /\ JoinRegion(West)
        /\ West = North \/ c # RegionColour(North)
    BY <1>11 DEF ExtendWest, InCentre, MeetsNorth
  <2>2. SameColour(c) # {} /\ \A m \in SameColour(c) : RootOf(label[m]) = West
    BY <1>3, <1>4, <2>1
  <2> QED
    BY <1>3, <1>7, <2>1, <2>2
<1>12. ASSUME ExtendNorth(c) PROVE ReadAddsPart(c)
  <2>1. /\ x > 1 /\ y > 1 /\ c # RegionColour(West) /\ c = RegionColour(North) /\ JoinRegion(North)
    BY <1>12 DEF ExtendNorth, InCentre
  <2>2. SameColour(c) = {Position - Width}
    BY <1>4, <2>1
  <2> QED
    BY <1>3, <1>7, <2>1, <2>2
<1>13. ASSUME CentreNew(c) PROVE ReadAddsPart(c)
  <2>1. /\ c # RegionColour(West) /\ c # RegionColour(North)
        /\ NewRegion(c, {}, WestRight, TouchedByNew)
    BY <1>13 DEF CentreNew, InCentre
  <2>2. SameColour(c) = {}
    BY <1>4, <2>1
  <2> QED
    BY <1>6, <2>1, <2>2
<1> QED
  BY <1>8, <1>9, <1>10, <1>11, <1>12, <1>13 DEF ReadWithoutMerge

LEMMA ReadParts ==
    ASSUME IInv, PartsInv, NEW c \in Colours, ReadWithoutMerge(c)
    PROVE  PartsInv' /\ Abstract!AddPixel(c)
<1>1. PICK q : PixelAdded(c, q) /\ RootsJoin(c, q)
  BY ReadAdds DEF ReadAddsPart
<1>2. WalkInv'
  BY ReadAdds DEF ReadAddsPart, RootsKept
<1>3. PartsInv'
  BY <1>1, <1>2, AddedInv
<1>4. ReadPixel(c)
  BY DEF ReadWithoutMerge, FirstPixel, TopLine, LeftEdge, ExtendWest, ExtendNorth, CentreNew, InCentre
<1>5. source' \in Seq(Colours)
  BY <1>4, PixelRead
<1> QED
  BY <1>1, <1>3, <1>5, AddedStep

\* A merge begins: the pixel has been read and gets its label when the merge ends.
LEMMA MergeRegionsParts ==
    ASSUME IInv, PartsInv, NEW c \in Colours, MergeRegions(c)
    PROVE  PartsKept /\ RootOfPixel' = RootOfPixel
<1> USE DEF IInv, PartsInv
<1>1. /\ x > 1 /\ y > 1 /\ ReadPixel(c)
      /\ c = RegionColour(West) /\ c = RegionColour(North)
      /\ pc' \in {"common", "mergeEnd"} /\ redirect' = Compressed
      /\ UNCHANGED <<colour, regionOf, refCount, currentRow, label>>
  BY DEF MergeRegions, InCentre, MeetsNorth, regionVars
<1>2. /\ pc = "read" /\ Resolved /\ x' = x /\ y' = y /\ result' = result /\ Position' = Position
      /\ source' \in Seq(Colours) /\ Len(source') = Position /\ Len(label) = Position - 1
      /\ previousRow' = ResolvedRow /\ source' = Append(source, c)
  BY <1>1, PixelRead DEF ReadPixel
<1>3. RootsKept
  BY <1>1, <1>2, ReadRoots
<1>4. Merging' /\ R1' = R1 /\ ~Merging /\ R1 = regionOf[North]
  BY <1>1, <1>2 DEF Merging, R1, North
<1>5. /\ source \in Seq(Colours) /\ Len(source) = Len(label) /\ Len(label) \in Nat /\ y \in Nat
      /\ x \in 1 .. Width
  BY <1>4 DEF LabelInv, TypeOK
<1>6. source'[Position] = c /\ Position = Len(source) + 1 /\ \A p \in 1 .. Len(label) : source'[p] = source[p]
  <2>1. Position = Len(source) + 1
    BY <1>2, <1>5
  <2> QED
    BY <1>2, <1>5, <2>1
<1>7. Image' = Image
  <2>1. Image = source
    BY <1>4, ImageFacts
  <2> DEFINE s == source'
             t == SubSeq(s, 1, Len(label))
  <2>2. s \in Seq(Colours) /\ Len(label) \in 0 .. Len(s) /\ \A p \in 1 .. Len(label) : s[p] = source[p]
    BY <1>2, <1>5, <1>6
  <2> HIDE DEF s
  <2>3. t \in Seq(Colours) /\ Len(t) = Len(source) /\ \A p \in 1 .. Len(source) : t[p] = source[p]
    BY <1>5, <2>2, Prefix
  <2>4. t = source
    <3> HIDE DEF t
    <3> QED
      BY <1>5, <2>3
  <2> QED
    BY <1>1, <2>1, <2>4 DEF Image, s
<1>8. \A p \in 1 .. Len(label) : label[p] \in 1 .. refCount /\ After(label[p]) = RootOf(label[p])
  BY <1>3 DEF RootsKept, LabelInv
<1>9. RootOfPixel' = RootOfPixel /\ Parts' = Parts
  BY <1>1, <1>8, SameParts
<1>10. LabelInv'
  <2>1. \A p \in 1 .. Len(label) :
            label[p] \in 1 .. refCount /\ colour[regionOf[After(label[p])]] = source'[p]
    BY <1>6, <1>8 DEF LabelInv
  <2>2. Len(source') = Len(label') + 1
    BY <1>1, <1>2, <1>5
  <2>3. source'[Position'] = colour'[R1']
    BY <1>1, <1>2, <1>4, <1>6 DEF RegionColour
  <2> QED
    BY <1>1, <1>4, <2>1, <2>2, <2>3 DEF LabelInv, RootOf, After
<1>11. CellsInv'
  <2>1. \A k \in 1 .. Len(currentRow) :
           /\ PixelAt(k, y) \in 1 .. Len(label) /\ currentRow[k] \in 1 .. refCount
           /\ After(currentRow[k]) = After(label[PixelAt(k, y)])
    BY <1>3, <1>8 DEF CellsInv, RowsInv, RootsKept
  <2>2. PICK root, rank : Walks(redirect, refCount, root, rank)
    BY DEF WalkInv
  <2>3. \A k \in 1 .. Width : previousRow'[k] \in 1 .. refCount
                              /\ RootOf(previousRow'[k]) = RootOf(previousRow[k])
    BY <1>1, <1>2, <2>2, CompressedRow
  <2>4. \A k \in 1 .. Width :
           /\ PixelAt(k, y - 1) \in 1 .. Len(label)
           /\ After(previousRow'[k]) = After(label[PixelAt(k, y - 1)])
    BY <1>1, <1>3, <1>8, <2>3 DEF CellsInv, RootsKept
  <2>5. After(result) = After(previousRow'[x])
    <3>1. RootOf(result) = RootOf(previousRow[x]) /\ result \in 1 .. refCount
      BY <1>1, <1>2 DEF CellsInv, CursorInv, Scanning
    <3> QED
      BY <1>3, <1>5, <2>3, <3>1 DEF RootsKept
  <2> QED
    BY <1>1, <1>2, <2>1, <2>4, <2>5 DEF CellsInv, RootOf, After, PixelAt
<1> QED
  BY <1>3, <1>7, <1>9, <1>10, <1>11 DEF PartsKept, RootsKept

\* A merge ends: the pixel unites the part to its left with the one above.
LEMMA FreeMergedAdds ==
    ASSUME IInv, PartsInv, FreeMerged
    PROVE  /\ WalkInv'
           /\ \A q \in 1 .. refCount : After(q) = IF RootOf(q) = West THEN North ELSE RootOf(q)
           /\ source[Position] \in Colours
           /\ PixelAdded(source[Position], North) /\ RootsJoin(source[Position], North)
<1> USE DEF IInv, PartsInv
<1> DEFINE w == West
           n == North
           c == source[Position]
<1>1. /\ pc \in {"transfer", "mergeEnd"} /\ pc' = "link"
      /\ regionOf' = [regionOf EXCEPT ![w] = Null]
      /\ redirect' = [redirect EXCEPT ![w] = n]
      /\ currentRow' = Append(currentRow, n) /\ label' = Append(label, n)
      /\ UNCHANGED <<x, y, source, colour, refCount, previousRow>>
  BY DEF FreeMerged, MergedCell
<1>2. Merging
  BY <1>1 DEF Merging
<1>3. /\ n \in 1 .. refCount /\ w \in 1 .. refCount /\ n # w /\ colour[R1] = colour[R2]
      /\ R1 = regionOf[n] /\ R2 = regionOf[w] /\ x > 1 /\ y > 1
  BY <1>2, MergedRegions DEF R1, R2, RootsInv
<1>4. /\ WalkInv'
      /\ \A q \in 1 .. refCount : After(q) = IF RootOf(q) = w THEN n ELSE RootOf(q)
  BY <1>1, <1>2, MergedRoots
<1>5. /\ c = RegionColour(w) /\ c = RegionColour(n)
  BY <1>2, <1>3 DEF LabelInv, RegionColour
<1>6. /\ RootOf(label[Position - 1]) = w /\ RootOf(w) = w
      /\ RootOf(label[Position - Width]) = n /\ RootOf(n) = n
  BY <1>2, <1>3, RootsBeside
<1>7. SameColour(c) = {Position - 1, Position - Width}
  <2>1. SameColour(c) = (IF x > 1 /\ c = RegionColour(w) THEN {Position - 1} ELSE {})
                         \cup (IF y > 1 /\ c = RegionColour(n) THEN {Position - Width} ELSE {})
    BY <1>2, SameColourFacts
  <2> HIDE DEF w, n, c
  <2> QED
    BY <1>3, <1>5, <2>1
<1>8. /\ Len(source) = Position /\ Len(label) = Position - 1 /\ Len(currentRow) = x - 1
      /\ refCount \in Nat /\ Width \in Nat /\ source \in Seq(Colours) /\ regionOf \in [Refs -> Regions \cup {Null}]
      /\ 1 .. refCount \subseteq Refs
  BY <1>1, <1>2, SizeFacts, SMTT(60) DEF CountInv, RowsInv, Scanning, Merging, TypeOK, Refs
<1>9. c \in Colours
  <2>1. x \in 1 .. Width /\ y \in 1 .. Height
    BY DEF TypeOK
  <2>2. Position \in 1 .. Len(source)
    BY <1>8, <2>1, RowOfPixels
  <2> QED
    BY <1>8, <2>2
<1>10. \A q \in 1 .. refCount : q # w => regionOf'[q] = regionOf[q]
  BY <1>1, <1>8
<1>11. \A q \in 1 .. refCount : colour[regionOf'[After(q)]] = colour[regionOf[RootOf(q)]]
  <2> SUFFICES ASSUME NEW q \in 1 .. refCount
               PROVE  colour[regionOf'[After(q)]] = colour[regionOf[RootOf(q)]]
    OBVIOUS
  <2>1. RootOf(q) \in 1 .. refCount
    BY RootFacts
  <2>2. CASE RootOf(q) = w
    BY <1>3, <1>4, <1>10, <2>2
  <2>3. CASE RootOf(q) # w
    BY <1>4, <1>10, <2>1, <2>3
  <2> QED
    BY <2>2, <2>3
<1>12. After(n) = n
  BY <1>3, <1>4, <1>6
<1>13. colour[regionOf'[After(n)]] = c
  BY <1>3, <1>5, <1>10, <1>12 DEF RegionColour
<1>14. y > 1 => \A k \in 1 .. Width : previousRow'[k] \in 1 .. refCount
                                      /\ RootOf(previousRow'[k]) = RootOf(previousRow[k])
  <2>1. Len(previousRow) = Width
    BY <1>3 DEF RowsInv
  <2> QED
    BY <1>1, <2>1 DEF RowsInv
<1> HIDE DEF w, n, c
<1>15. PixelAdded(c, n)
  <2>1. c = source'[Position]
    BY <1>1 DEF c
  <2> QED
    BY <1>1, <1>3, <1>8, <1>11, <1>13, <1>14, <2>1 DEF PixelAdded
<1>16. RootsJoin(c, n)
  <2>1. \A r : (\E m \in SameColour(c) : RootOf(label[m]) = r) <=> r = w \/ r = n
    BY <1>6, <1>7
  <2>2. \A a, b \in 1 .. refCount :
          After(a) = After(b) <=> RootOf(a) = RootOf(b) \/ (RootOf(a) \in {w, n} /\ RootOf(b) \in {w, n})
    BY <1>3, <1>4
  <2>3. \A a \in 1 .. refCount : After(a) = After(n) <=> RootOf(a) \in {w, n}
    BY <1>3, <1>4, <1>12
  <2> QED
    BY <2>1, <2>2, <2>3 DEF RootsJoin
<1> QED
  BY <1>4, <1>9, <1>15, <1>16 DEF w, n, c

LEMMA FreeMergedParts ==
    ASSUME IInv, PartsInv, FreeMerged
    PROVE  PartsInv' /\ \E c \in Colours : Abstract!AddPixel(c)
<1>1. PICK c \in Colours : c = source[Position]
  BY FreeMergedAdds
<1>2. WalkInv' /\ PixelAdded(c, North) /\ RootsJoin(c, North)
  BY <1>1, FreeMergedAdds
<1>3. PICK q : q = North
  OBVIOUS
<1>4. PixelAdded(c, q) /\ RootsJoin(c, q)
  BY <1>2, <1>3
<1>5. PartsInv'
  BY <1>2, <1>4, AddedInv
<1>6. source' \in Seq(Colours)
  BY DEF FreeMerged, IInv, TypeOK
<1>7. Abstract!AddPixel(c)
  BY <1>4, <1>5, <1>6, AddedStep
<1> QED
  BY <1>5, <1>7

-----------------------------------------------------------------------------
\* The steps of make_adjacent, make_saturated and merge_regions that only change lists and flags.
ListStep ==
    \/ DetachNeighbour \/ MarkSaturated
    \/ NeighbourSaturated \/ ListFull \/ MakeAdjacent
    \/ RemoveCommon \/ CheckCapacity \/ TransferNeighbour

LEMMA ListStepKeeps == ASSUME IInv, ListStep PROVE ReferencesKept
<1>1. CASE DetachNeighbour
  BY <1>1 DEF DetachNeighbour, ReferencesKept, callVars
<1>2. CASE MarkSaturated
  BY <1>2 DEF MarkSaturated, ReferencesKept
<1>3. ASSUME Linking PROVE ReferencesKept
  BY <1>3, LinkingInv
<1>4. CASE NeighbourSaturated
  BY <1>3, <1>4 DEF NeighbourSaturated
<1>5. CASE ListFull
  BY <1>3, <1>5 DEF ListFull
<1>6. CASE MakeAdjacent
  BY <1>3, <1>6 DEF MakeAdjacent
<1>7. CASE RemoveCommon
  BY <1>7 DEF RemoveCommon, ReferencesKept
<1>8. CASE CheckCapacity
  BY <1>8 DEF CheckCapacity, ReferencesKept, Merging, regionVars
<1>9. CASE TransferNeighbour
  BY <1>9 DEF TransferNeighbour, ReferencesKept, callVars
<1> QED
  BY <1>1, <1>2, <1>4, <1>5, <1>6, <1>7, <1>8, <1>9 DEF ListStep

\* A step between two pixels that leaves the roots what they were.
LEMMA CursorMoved ==
    ASSUME IInv, PartsInv, RootsKept, ~Merging, ~Merging', CellsInv',
           UNCHANGED <<source, label, colour, regionOf, refCount>>
    PROVE  PartsKept /\ RootOfPixel' = RootOfPixel
<1>1. /\ \A p \in 1 .. Len(label) :
            label[p] \in 1 .. refCount /\ colour[regionOf[RootOf(label[p])]] = source[p]
      /\ Len(source) = Len(label)
  BY DEF PartsInv, LabelInv
<1>2. \A p \in 1 .. Len(label) : After(label[p]) = RootOf(label[p])
  BY <1>1 DEF RootsKept
<1>3. LabelInv'
  <2>1. \A p \in 1 .. Len(label) :
            label[p] \in 1 .. refCount /\ colour[regionOf[After(label[p])]] = source[p]
    BY <1>1, <1>2
  <2> QED
    BY <1>1, <2>1 DEF LabelInv, RootOf, After
<1>4. Image' = Image
  BY DEF Image
<1>5. RootOfPixel' = RootOfPixel /\ Parts' = Parts
  BY <1>2, SameParts
<1> QED
  BY <1>3, <1>4, <1>5 DEF PartsKept, PartsInv, RootsKept

LEMMA DoneRoots ==
    ASSUME IInv, PartsInv, PixelDone
    PROVE  /\ RootsKept /\ pc = "link" /\ ~Merging
           /\ UNCHANGED <<source, label, colour, regionOf, redirect, refCount>>
           /\ \A q : After(q) = RootOf(q)
<1>1. pc = "link" /\ UNCHANGED <<source, label, colour, regionOf, redirect, refCount>>
  BY DEF PixelDone, refVars, inputVars
<1>2. WalkInv'
  BY <1>1 DEF PartsInv, WalkInv
<1>3. \A q : After(q) = RootOf(q)
  BY <1>1 DEF After, RootOf
<1> QED
  BY <1>1, <1>2, <1>3 DEF RootsKept, Merging

LEMMA NextColumnParts ==
    ASSUME IInv, PartsInv, NextColumn
    PROVE  PartsKept /\ RootOfPixel' = RootOfPixel
<1>1. /\ PixelDone /\ x' = x + 1 /\ pc' = "read"
      /\ result' = IF y = 1 THEN Null ELSE previousRow[x + 1]
      /\ UNCHANGED <<y, currentRow, previousRow>>
  BY DEF NextColumn
<1>2. y \in Nat /\ y >= 1
  BY SizeFacts DEF IInv, TypeOK
<1>3. y > 1 => result' = previousRow'[x']
  BY <1>1, <1>2
<1>4. CellsInv'
  BY <1>1, <1>3, DoneRoots DEF CellsInv, PartsInv, RootOf, PixelAt
<1>5. ~Merging'
  BY <1>1 DEF Merging
<1> QED
  BY <1>1, <1>4, <1>5, DoneRoots, CursorMoved

LEMMA NextRowParts ==
    ASSUME IInv, PartsInv, NextRow
    PROVE  PartsKept /\ RootOfPixel' = RootOfPixel
<1>1. /\ PixelDone /\ x' = 1 /\ x = Width /\ y' = y + 1 /\ pc' = "read"
      /\ previousRow' = currentRow /\ currentRow' = <<>> /\ result' = currentRow[1]
  BY DEF NextRow
<1>2. y \in Nat /\ Len(currentRow) = Width /\ Len(currentRow') = 0
  BY <1>1, SizeFacts, DoneRoots DEF IInv, TypeOK, RowsInv
<1>3. \A k \in 1 .. Width : /\ PixelAt(k, y) \in 1 .. Len(label)
                            /\ After(currentRow[k]) = After(label[PixelAt(k, y)])
  BY <1>1, <1>2, DoneRoots DEF PartsInv, CellsInv
<1>4. CellsInv'
  <2>1. \A k : PixelAt(k, y' - 1) = PixelAt(k, y)
    BY <1>1, <1>2 DEF PixelAt
  <2>2. \A k \in 1 .. Width : /\ PixelAt(k, y' - 1) \in 1 .. Len(label')
                              /\ After(previousRow'[k]) = After(label'[PixelAt(k, y' - 1)])
    BY <1>1, <1>3, <2>1, DoneRoots
  <2> QED
    BY <1>1, <1>2, <2>2 DEF CellsInv, RootOf, After, PixelAt, Merging
<1>5. ~Merging'
  BY <1>1 DEF Merging
<1> QED
  BY <1>1, <1>4, <1>5, DoneRoots, CursorMoved

LEMMA LastPixelParts ==
    ASSUME IInv, PartsInv, LastPixel
    PROVE  PartsKept /\ RootOfPixel' = RootOfPixel
<1>1. /\ PixelDone /\ x' = 1 /\ pc' = "bottom" /\ result' = currentRow[1]
      /\ UNCHANGED <<y, currentRow, previousRow>>
  BY DEF LastPixel
<1>2. CellsInv'
  BY <1>1, DoneRoots DEF CellsInv, PartsInv, RootOf, PixelAt, Merging
<1>3. ~Merging'
  BY <1>1 DEF Merging
<1> QED
  BY <1>1, <1>2, <1>3, DoneRoots, CursorMoved

LEMMA BottomRowParts ==
    ASSUME IInv, PartsInv, BottomRow
    PROVE  PartsKept /\ RootOfPixel' = RootOfPixel
<1> USE DEF PartsInv
<1>1. /\ pc = "bottom" /\ Resolved /\ pc' \in {"bottom", "done"}
      /\ redirect' = [redirect EXCEPT ![currentRow[x]] = result]
      /\ currentRow' = [currentRow EXCEPT ![x] = result]
      /\ pc' = "bottom" => x < Width /\ x' = x + 1 /\ result' = currentRow[x + 1]
      /\ UNCHANGED <<y, source, label, colour, regionOf, refCount, previousRow>>
  BY DEF BottomRow
<1>2. /\ RootsKept /\ result \in 1 .. refCount /\ RootOf(result) = result
      /\ RootOf(currentRow[x]) = result
  BY <1>1, BottomRoots
<1>3. x \in 1 .. Width /\ Width \in Nat /\ currentRow \in Seq(Refs) /\ Len(currentRow) = Width
      /\ \A k \in 1 .. Width : currentRow[k] \in 1 .. refCount
  BY <1>1, SizeFacts DEF IInv, TypeOK, RowsInv, Scanning, Merging
<1>4. /\ Len(currentRow') = Width
      /\ \A k \in 1 .. Width : currentRow'[k] = IF k = x THEN result ELSE currentRow[k]
  BY <1>1, <1>3
<1>5. \A p \in 1 .. Len(label) : label[p] \in 1 .. refCount /\ After(label[p]) = RootOf(label[p])
  BY <1>2 DEF RootsKept, LabelInv
<1>6. \A k \in 1 .. Width : /\ PixelAt(k, y) \in 1 .. Len(label)
                            /\ After(currentRow'[k]) = After(label[PixelAt(k, y)])
  <2>1. \A k \in 1 .. Width : /\ PixelAt(k, y) \in 1 .. Len(label)
                              /\ After(currentRow[k]) = After(label[PixelAt(k, y)])
    BY <1>2, <1>3, <1>5 DEF CellsInv, RootsKept
  <2>2. After(result) = After(currentRow[x])
    BY <1>2, <1>3 DEF RootsKept
  <2> QED
    BY <1>4, <2>1, <2>2
<1>7. y > 1 => \A k \in 1 .. Width :
          /\ PixelAt(k, y - 1) \in 1 .. Len(label)
          /\ After(previousRow[k]) = After(label[PixelAt(k, y - 1)])
  <2>1. y > 1 => \A k \in 1 .. Width : previousRow[k] \in 1 .. refCount
    BY DEF IInv, RowsInv
  <2> QED
    BY <1>2, <1>5, <2>1 DEF CellsInv, RootsKept
<1>8. pc' = "bottom" => result' = currentRow'[x']
  BY <1>1, <1>3, <1>4
<1>9. CellsInv'
  <2>1. pc' # "read" /\ ~Merging'
    BY <1>1 DEF Merging
  <2>2. \A k \in 1 .. Len(currentRow') :
           /\ PixelAt(k, y') \in 1 .. Len(label')
           /\ After(currentRow'[k]) = After(label'[PixelAt(k, y')])
    BY <1>1, <1>4, <1>6
  <2>3. y' > 1 => \A k \in 1 .. Width :
           /\ PixelAt(k, y' - 1) \in 1 .. Len(label')
           /\ After(previousRow'[k]) = After(label'[PixelAt(k, y' - 1)])
    BY <1>1, <1>7
  <2> QED
    BY <1>8, <2>1, <2>2, <2>3 DEF CellsInv, RootOf, After, PixelAt
<1>10. ~Merging /\ ~Merging'
  BY <1>1 DEF Merging
<1> QED
  BY <1>1, <1>2, <1>9, <1>10, CursorMoved

-----------------------------------------------------------------------------
(***************************************************************************)
(* The invariant, the refinement and what follows from them                *)
(***************************************************************************)
\* Before the first pixel of an image there is no part.
NothingRead ==
    pc = "read" /\ y = 1 /\ source = <<>> /\ label = <<>> /\ refCount = 0 /\ currentRow = <<>>
NoParts == PartsInv /\ Image = <<>> /\ Parts = {}

LEMMA EmptyParts == NothingRead => NoParts
<1> SUFFICES ASSUME NothingRead PROVE NoParts
  OBVIOUS
<1> USE DEF NothingRead
<1>1. WalkInv
  <2> DEFINE none == [q \in 1 .. 0 |-> 0]
  <2>1. Walks(redirect, 0, none, none)
    BY DEF Walks
  <2> QED
    BY <2>1 DEF WalkInv
<1>2. LabelInv /\ CellsInv
  BY DEF LabelInv, CellsInv, Merging
<1>3. Image = <<>>
  BY DEF Image
<1>4. Parts = {}
  BY DEF Parts, Classes, RootOfPixel, Pixels
<1> QED
  BY <1>1, <1>2, <1>3, <1>4 DEF PartsInv, NoParts

LEMMA StepSegmenterParts ==
    ASSUME IInv, PartsInv, StepSegmenter
    PROVE  PartsInv' /\ Abstract!NewImage
<1>1. /\ pc' = "read" /\ y' = 1 /\ source' = <<>> /\ label' = <<>> /\ refCount' = 0
      /\ currentRow' = <<>> /\ pc = "done"
  BY DEF StepSegmenter
<1>2. PartsInv' /\ Image' = <<>> /\ Parts' = {}
  <2>1. NothingRead'
    BY <1>1 DEF NothingRead
  <2>2. NoParts'
    BY <2>1, EmptyParts, PTL
  <2> QED
    BY <2>2 DEF NoParts
<1>3. Len(Image) = Width * Height
  BY <1>1, ImageFacts DEF IInv, CountInv, PartsInv
<1> QED
  BY <1>2, <1>3 DEF Abstract!NewImage

\* Every step of the segmenter is a step of Components, or changes neither image nor parts.
LEMMA PartsStep ==
    ASSUME IInv, PartsInv, [Next]_vars
    PROVE  PartsInv' /\ [Abstract!Next]_<<Image, Parts>>
<1> DEFINE Goal == PartsInv' /\ [Abstract!Next]_<<Image, Parts>>
<1>1. ASSUME PartsKept PROVE Goal
  BY <1>1 DEF PartsKept
<1>2. ASSUME NEW c \in Colours, Abstract!AddPixel(c), PartsInv' PROVE Goal
  BY <1>2 DEF Abstract!Next
<1> HIDE DEF Goal
<1>3. ASSUME NEW c \in Colours, ReadWithoutMerge(c) PROVE Goal
  BY <1>2, <1>3, ReadParts
<1>4. ASSUME NEW c \in Colours, MergeRegions(c) PROVE Goal
  BY <1>1, <1>4, MergeRegionsParts
<1>5. ASSUME FreeMerged PROVE Goal
  BY <1>2, <1>5, FreeMergedParts
<1>6. ASSUME ListStep PROVE Goal
  BY <1>1, <1>6, ListStepKeeps, ReferencesKeptParts
<1>7. ASSUME UNCHANGED vars PROVE Goal
  <2>1. ReferencesKept
    BY <1>7 DEF ReferencesKept, vars, regionVars, refVars, rowVars, callVars, inputVars
  <2> QED
    BY <1>1, <2>1, ReferencesKeptParts
<1>8. ASSUME FollowRedirect PROVE Goal
  BY <1>1, <1>8, FollowRedirectParts
<1>9. ASSUME NextColumn PROVE Goal
  BY <1>1, <1>9, NextColumnParts
<1>10. ASSUME NextRow PROVE Goal
  BY <1>1, <1>10, NextRowParts
<1>11. ASSUME LastPixel PROVE Goal
  BY <1>1, <1>11, LastPixelParts
<1>12. ASSUME BottomRow PROVE Goal
  BY <1>1, <1>12, BottomRowParts
<1>13. ASSUME StepSegmenter PROVE Goal
  BY <1>13, StepSegmenterParts DEF Goal, Abstract!Next
<1>14. Goal
  BY <1>3, <1>4, <1>5, <1>6, <1>7, <1>8, <1>9, <1>10, <1>11, <1>12, <1>13
  DEF Next, ReadWithoutMerge, ListStep
<1> QED
  BY <1>14 DEF Goal

\* Every pixel's reference resolves to the root of its part, in every frame.
THEOREM PartsInvariant == Spec => []PartsInv
<1>1. Init => PartsInv
  BY EmptyParts DEF Init, NothingRead, NoParts
<1>2. IInv /\ PartsInv /\ [Next]_vars => PartsInv'
  BY PartsStep
<1> QED
  BY <1>1, <1>2, InductiveInvariant, PTL DEF Spec

\* Whatever the runs, redirects and merges, the segmenter computes what Components promises.
THEOREM SegmenterImplementsComponents == Spec => ImplementsComponents
<1>1. Init => Abstract!Init
  BY EmptyParts DEF Init, NothingRead, NoParts, Abstract!Init
<1>2. IInv /\ PartsInv /\ [Next]_vars => [Abstract!Next]_<<Image, Parts>>
  BY PartsStep
<1> QED
  BY <1>1, <1>2, InductiveInvariant, PartsInvariant, PTL DEF Spec, ImplementsComponents, Abstract!Spec

ImageParts == ComponentsOf(Image, Len(Image), Parts) /\ Len(Image) \in Nat

\* A step of Components keeps its parts the connected components of its image.
LEMMA ImagePartsStep ==
    ASSUME Image \in Seq(Colours), ImageParts, [Abstract!Next]_<<Image, Parts>>
    PROVE  ImageParts'
<1>1. CASE UNCHANGED <<Image, Parts>>
  BY <1>1 DEF ImageParts
<1>2. CASE Abstract!NewImage
  <2>1. Image' = <<>> /\ Parts' = {}
    BY <1>2 DEF Abstract!NewImage
  <2>2. Len(Image') = 0
    BY <2>1
  <2> QED
    BY <2>1, <2>2, NoPixels DEF ImageParts
<1>3. ASSUME NEW c \in Colours, Abstract!AddPixel(c) PROVE ImageParts'
  <2> DEFINE n == Len(Image)
             im2 == Image'
             ps2 == Parts'
  <2>1. im2 = Append(Image, c) /\ ps2 = WithPixel(Image, n, Parts, c)
    BY <1>3 DEF Abstract!AddPixel, Beside, WithPixel, JoinedParts
  <2>2. /\ n \in Nat /\ Len(im2) = n + 1 /\ im2[n + 1] = c
        /\ \A p \in 1 .. n : im2[p] = Image[p]
    BY <2>1
  <2>3. ComponentsOf(Image, n, Parts)
    BY DEF ImageParts
  <2> HIDE DEF n, im2, ps2
  <2>4. ComponentsOf(im2, n + 1, ps2)
    BY <2>1, <2>2, <2>3, OneMorePixel
  <2> QED
    BY <2>2, <2>4 DEF ImageParts, n, im2, ps2
<1> QED
  BY <1>1, <1>2, <1>3 DEF Abstract!Next

LEMMA InitImageParts == Init => ImageParts
<1> SUFFICES ASSUME Init PROVE ImageParts
  OBVIOUS
<1>1. Image = <<>> /\ Parts = {} /\ Len(Image) = 0
  BY EmptyParts DEF Init, NothingRead, NoParts
<1> QED
  BY <1>1, NoPixels DEF ImageParts

LEMMA NextImageParts ==
    ASSUME IInv, PartsInv, ImageParts, [Next]_vars
    PROVE  ImageParts'
<1>1. Image \in Seq(Colours)
  BY ImageFacts DEF PartsInv
<1> QED
  BY <1>1, PartsStep, ImagePartsStep

LEMMA ImagePartsAlways == Spec => []ImageParts
<1>1. IInv /\ PartsInv /\ ImageParts /\ [Next]_vars => ImageParts'
  BY NextImageParts
<1> QED
  BY <1>1, InitImageParts, InductiveInvariant, PartsInvariant, PTL DEF Spec

\* After every pixel, and so at the end of the image, the parts are the connected components of
\* the pixels read: two pixels share a region exactly when a path of one colour joins them.
THEOREM PartsAreAlwaysComponents == Spec => []PartsAreComponents
<1>1. ImageParts => PartsAreComponents
  BY ComponentsAreParts DEF ImageParts, PartsAreComponents
<1> QED
  BY <1>1, ImagePartsAlways, PTL

-----------------------------------------------------------------------------
(***************************************************************************)
(* The region of every pixel                                               *)
(***************************************************************************)
\* Every pixel belongs to a region in use of its colour.
LEMMA PixelRegions ==
    ASSUME IInv, PartsInv
    PROVE  \A p \in 1 .. Len(label) :
              /\ label[p] \in 1 .. refCount /\ RootOf(label[p]) \in 1 .. refCount
              /\ RegionOfPixel[p] = regionOf[RootOf(label[p])]
              /\ RegionOfPixel[p] \in Live /\ RegionOfPixel[p] \in Regions
              /\ colour[RegionOfPixel[p]] = source[p]
<1>1. Live \subseteq Regions
  BY SizeFacts DEF IInv, TypeOK, Live, Regions
<1>2. \A p \in 1 .. Len(label) :
         label[p] \in 1 .. refCount /\ colour[regionOf[RootOf(label[p])]] = source[p]
  BY DEF PartsInv, LabelInv
<1>3. \A q \in 1 .. refCount : RootOf(q) \in 1 .. refCount /\ regionOf[RootOf(q)] \in Live
  BY RootFacts DEF PartsInv, IInv, OneOwner
<1>4. \A p \in 1 .. Len(label) : RegionOfPixel[p] = regionOf[RootOf(label[p])]
  BY PixelRoots DEF RegionOfPixel, Pixels
<1> QED
  BY <1>1, <1>2, <1>3, <1>4

LEMMA NewPixelRegions ==
    \A p \in 1 .. Len(label') : RegionOfPixel'[p] = regionOf'[After(label'[p])]
BY NewPixelRoots DEF RegionOfPixel, Pixels

\* A step that changes the root and the region of no pixel.
RegionsKept == UNCHANGED <<label, RegionOfPixel, Live>>

LEMMA KeptRegions ==
    ASSUME UNCHANGED <<label, regionOf, RootOfPixel, regionCount, freed>>
    PROVE  RegionsKept
BY DEF RegionsKept, RegionOfPixel, Pixels, Live

\* A step that gives the pixel at the cursor its label, in region r.
RegionGrown(r) ==
    /\ Len(label) = Position - 1 /\ Len(label') = Position
    /\ \A p \in 1 .. Len(label) : RegionOfPixel'[p] = RegionOfPixel[p]
    /\ RegionOfPixel'[Position] = r

LEMMA AppendedLabel ==
    ASSUME IInv, Len(label) = Position - 1, NEW q, label' = Append(label, q)
    PROVE  /\ Len(label') = Position /\ label'[Position] = q /\ Position \in 1 .. Len(label')
           /\ \A p \in 1 .. Len(label) : label'[p] = label[p] /\ p \in 1 .. Len(label')
<1>1. label \in Seq(Refs) /\ Position \in 1 .. Width * Height
  BY PositionFacts DEF IInv, TypeOK
<1>2. Len(label) \in Nat /\ Len(label) + 1 = Position /\ Position \in Nat
  BY <1>1, SizeFacts
<1> QED
  BY <1>1, <1>2

LEMMA GrownRegion ==
    ASSUME IInv, PartsInv, NEW c, NEW q, PixelAdded(c, q), RootsKept, After(q) = q,
           \A p \in 1 .. refCount : regionOf'[p] = regionOf[p]
    PROVE  RegionGrown(regionOf'[q])
<1>1. Len(label) = Position - 1 /\ label' = Append(label, q)
  BY DEF PixelAdded
<1>2. /\ Len(label') = Position /\ label'[Position] = q /\ Position \in 1 .. Len(label')
      /\ \A p \in 1 .. Len(label) : label'[p] = label[p] /\ p \in 1 .. Len(label')
  BY <1>1, AppendedLabel
<1>3. RegionOfPixel'[Position] = regionOf'[q]
  BY <1>2, NewPixelRegions
<1>4. ASSUME NEW p \in 1 .. Len(label) PROVE RegionOfPixel'[p] = RegionOfPixel[p]
  <2>1. RegionOfPixel'[p] = regionOf'[After(label[p])]
    BY <1>2, NewPixelRegions
  <2>2. label[p] \in 1 .. refCount /\ RootOf(label[p]) \in 1 .. refCount
        /\ RegionOfPixel[p] = regionOf[RootOf(label[p])]
    BY PixelRegions
  <2> QED
    BY <2>1, <2>2 DEF RootsKept
<1> QED
  BY <1>1, <1>2, <1>3, <1>4 DEF RegionGrown

-----------------------------------------------------------------------------
\* The pixel at the cursor begins region r.
NewPart(c, r) ==
    /\ r \in Regions /\ r \notin Live /\ Live' = Live \cup {r}
    /\ RegionGrown(r) /\ SameColour(c) = {}
    /\ flags' = [flags EXCEPT ![r] = IF x = 1 \/ y = 1 THEN {Root} ELSE {}]
    /\ box' = [(IF x = 1 \/ y = 1 THEN box ELSE WestRight)
                 EXCEPT ![r] = [left |-> x, top |-> y, right |-> x, bottom |-> y]]
    /\ adjacent' = adjacent
    /\ ElementsOf(neighbours') = {RegionOfPixel[m] : m \in Beside(Position)}
    /\ regionOf'[currentRow'[x]] = r

\* The pixel at the cursor joins region r, that of the pixels of its colour beside it.
JoinedPart(c, r) ==
    /\ r \in Live /\ Live' = Live
    /\ RegionGrown(r) /\ SameColour(c) # {}
    /\ \A m \in SameColour(c) : RegionOfPixel[m] = r
    /\ UNCHANGED <<flags, adjacent, neighbours>>
    /\ box' = IF x > 1 /\ y > 1 /\ c # RegionColour(West) THEN NorthBottom ELSE box
    /\ regionOf'[currentRow'[x]] = r

ReadPart(c, r) ==
    /\ pc = "read" /\ pc' = "link" /\ UNCHANGED <<x, y, saturating>> /\ Position' = Position
    /\ neighbours = <<>> /\ saturating = <<>>
    /\ source'[Position] = c /\ \A p \in 1 .. Len(label) : source'[p] = source[p]
    /\ NewPart(c, r) \/ JoinedPart(c, r)

LEMMA ListOfOne == ASSUME NEW a PROVE ElementsOf(<<a>>) = {a}
<1>1. Len(<<a>>) = 1 /\ <<a>>[1] = a
  OBVIOUS
<1> QED
  BY <1>1 DEF ElementsOf

LEMMA ListOfTwo == ASSUME NEW a, NEW b PROVE ElementsOf(<<a, b>>) = {a, b}
<1>1. Len(<<a, b>>) = 2 /\ <<a, b>>[1] = a /\ <<a, b>>[2] = b
  OBVIOUS
<1> QED
  BY <1>1 DEF ElementsOf

LEMMA PushedElements ==
    ASSUME NEW S, NEW list \in Seq(S), NEW e \in S
    PROVE  ElementsOf(<<e>> \o list) = {e} \cup ElementsOf(list)
<1> DEFINE new == <<e>> \o list
<1>1. /\ new \in Seq(S) /\ Len(new) = Len(list) + 1 /\ new[1] = e
      /\ \A k \in 1 .. Len(list) : new[k + 1] = list[k] /\ k + 1 \in 1 .. Len(new)
  BY PushElements
<1> HIDE DEF new
<1>2. \A k \in 1 .. Len(new) : k = 1 \/ (k - 1 \in 1 .. Len(list) /\ new[k] = list[k - 1])
  <2> SUFFICES ASSUME NEW k \in 1 .. Len(new), k # 1
               PROVE  k - 1 \in 1 .. Len(list) /\ new[k] = list[k - 1]
    OBVIOUS
  <2>1. k - 1 \in 1 .. Len(list) /\ (k - 1) + 1 = k
    BY <1>1
  <2> QED
    BY <1>1, <2>1
<1>3. 1 \in 1 .. Len(new)
  BY <1>1
<1>4. ElementsOf(new) = {e} \cup ElementsOf(list)
  <2>1. ElementsOf(new) \subseteq {e} \cup ElementsOf(list)
    BY <1>1, <1>2 DEF ElementsOf
  <2>2. e \in ElementsOf(new)
    BY <1>1, <1>3 DEF ElementsOf
  <2>3. \A k \in 1 .. Len(list) : list[k] \in ElementsOf(new)
    BY <1>1 DEF ElementsOf
  <2>4. ElementsOf(list) \subseteq ElementsOf(new)
    BY <2>3 DEF ElementsOf
  <2> QED
    BY <2>1, <2>2, <2>4
<1> QED
  BY <1>4 DEF new

LEMMA ListOfNone == ElementsOf(<<>>) = {}
BY DEF ElementsOf

\* The regions of the pixels beside the one at the cursor.
LEMMA RegionsBeside ==
    ASSUME IInv, PartsInv, (pc = "read" /\ Resolved) \/ Merging
    PROVE  /\ x > 1 => RegionOfPixel[Position - 1] = regionOf[West]
           /\ y > 1 => RegionOfPixel[Position - Width] = regionOf[North]
           /\ Beside(Position) = (IF x > 1 THEN {Position - 1} ELSE {})
                                   \cup (IF y > 1 THEN {Position - Width} ELSE {})
           /\ Beside(Position) \subseteq 1 .. Len(label)
<1>1. x \in 1 .. Width /\ y \in 1 .. Height
  BY DEF IInv, TypeOK
<1>2. Beside(Position) = (IF x > 1 THEN {Position - 1} ELSE {})
                            \cup (IF y > 1 THEN {Position - Width} ELSE {})
  BY <1>1, RowOfPixels
<1>3. /\ x > 1 => Position - 1 \in 1 .. Len(label) /\ RootOf(label[Position - 1]) = West
      /\ y > 1 => Position - Width \in 1 .. Len(label) /\ RootOf(label[Position - Width]) = North
  BY RootsBeside
<1> QED
  BY <1>2, <1>3, PixelRegions

LEMMA PixelRecorded ==
    ASSUME IInv, PartsInv, NEW c \in Colours, ReadPixel(c)
    PROVE  source'[Position] = c /\ \A p \in 1 .. Len(label) : source'[p] = source[p]
<1>1. pc = "read" /\ Len(label) = Position - 1
  BY PixelRead
<1>2. source' = Append(source, c) /\ source \in Seq(Colours) /\ Len(source) = Len(label)
  BY <1>1 DEF ReadPixel, PartsInv, LabelInv, Merging, IInv, TypeOK
<1>3. Len(source) + 1 = Position
  <2>1. Position \in 1 .. Width * Height
    BY PositionFacts DEF IInv, TypeOK
  <2> QED
    BY <1>1, <1>2, <2>1, SizeFacts
<1> QED
  BY <1>2, <1>3

\* A pixel of another colour than those beside it begins a region.
LEMMA NewPartRead ==
    ASSUME IInv, PartsInv, NEW c \in Colours, ReadPixel(c), SameColour(c) = {},
           NEW f, f = IF x = 1 \/ y = 1 THEN {Root} ELSE {},
           NEW boxes, boxes = IF x = 1 \/ y = 1 THEN box ELSE WestRight,
           NEW touching, ElementsOf(touching) = {RegionOfPixel[m] : m \in Beside(Position)},
           NewRegion(c, f, boxes, touching)
    PROVE  \E r : ReadPart(c, r)
<1> DEFINE r == IF freed = <<>> THEN regionCount + 1 ELSE Head(freed)
           q == refCount + 1
<1>1. /\ regionCount' = IF freed = <<>> THEN r ELSE regionCount
      /\ freed' = IF freed = <<>> THEN <<>> ELSE Tail(freed)
      /\ box' = [boxes EXCEPT ![r] = [left |-> x, top |-> y, right |-> x, bottom |-> y]]
      /\ flags' = [flags EXCEPT ![r] = f]
      /\ adjacent' = [adjacent EXCEPT ![r] = <<>>]
      /\ refCount' = q
      /\ redirect' = [Compressed EXCEPT ![q] = q]
      /\ regionOf' = [regionOf EXCEPT ![q] = r]
      /\ currentRow' = Append(currentRow, q)
      /\ neighbours' = touching /\ pc' = "link" /\ saturating' = saturating
  BY DEF NewRegion, Popped
<1>2. /\ pc = "read" /\ Resolved /\ x' = x /\ y' = y /\ Position' = Position
      /\ Len(label) = Position - 1 /\ Len(currentRow) = x - 1
      /\ neighbours = <<>> /\ saturating = <<>>
  BY PixelRead
<1>3. r \in Regions /\ r \notin Live /\ Live' = Live \cup {r} /\ q \in Refs /\ refCount \in Nat
  BY <1>1, RegionTaken
<1>4. RootsKept /\ PixelAdded(c, q) /\ \A p \in 1 .. refCount : regionOf'[p] = regionOf[p]
  BY NewRegionParts
<1> HIDE DEF r
<1>5. After(q) = q
  BY <1>1, <1>2, <1>3, NewRoots
<1>6. regionOf'[q] = r
  BY <1>1, <1>3 DEF IInv, TypeOK
<1>7. adjacent' = adjacent
  <2>1. adjacent[r] = <<>> /\ adjacent \in [Regions -> Seq(Regions)]
    BY <1>3, UnusedRegion DEF IInv, TypeOK
  <2> QED
    BY <1>1, <2>1
<1>8. currentRow'[x] = q /\ x' = x
  <2>1. currentRow \in Seq(Refs) /\ x \in Nat /\ Len(currentRow) \in Nat
    BY SizeFacts, SMTT(60) DEF IInv, TypeOK
  <2>2. Len(currentRow) + 1 = x
    BY <1>2, <2>1
  <2> QED
    BY <1>1, <1>2, <2>1, <2>2
<1> HIDE DEF q
<1>9. RegionGrown(r)
  BY <1>4, <1>5, <1>6, GrownRegion
<1>10. NewPart(c, r)
  BY <1>1, <1>3, <1>6, <1>7, <1>8, <1>9 DEF NewPart
<1> QED
  BY <1>1, <1>2, <1>10, PixelRecorded DEF ReadPart

\* A pixel of the colour of one beside it joins that one's region.
LEMMA JoinedPartRead ==
    ASSUME IInv, PartsInv, NEW c \in Colours, ReadPixel(c),
           NEW q \in 1 .. refCount, RootOf(q) = q, RegionColour(q) = c,
           SameColour(c) # {}, \A m \in SameColour(c) : RootOf(label[m]) = q,
           JoinRegion(q),
           box' = IF x > 1 /\ y > 1 /\ c # RegionColour(West) THEN NorthBottom ELSE box
    PROVE  \E r : ReadPart(c, r)
<1>1. /\ currentRow' = Append(currentRow, q) /\ pc' = "link"
      /\ UNCHANGED <<regionCount, freed, flags, adjacent, neighbours, saturating>>
  BY DEF JoinRegion, callVars
<1>2. /\ pc = "read" /\ Resolved /\ x' = x /\ y' = y /\ Position' = Position
      /\ Len(label) = Position - 1 /\ Len(currentRow) = x - 1
      /\ neighbours = <<>> /\ saturating = <<>>
  BY PixelRead
<1>3. RootsKept /\ PixelAdded(c, q) /\ regionOf' = regionOf
  BY JoinRegionParts
<1>4. After(q) = q
  BY <1>3 DEF RootsKept
<1>5. RegionGrown(regionOf'[q]) /\ regionOf'[q] = regionOf[q]
  BY <1>3, <1>4, GrownRegion
<1>6. \A m \in SameColour(c) : m \in 1 .. Len(label) /\ RegionOfPixel[m] = regionOf[q]
  BY <1>2, RegionsBeside, PixelRegions DEF SameColour
<1>7. regionOf[q] \in Live /\ Live' = Live
  <2>1. regionOf[q] \in Live
    BY <1>6, PixelRegions
  <2> QED
    BY <1>1, <2>1 DEF Live
<1>8. currentRow'[x] = q
  <2>1. currentRow \in Seq(Refs) /\ x \in Nat /\ Len(currentRow) \in Nat
    BY SizeFacts DEF IInv, TypeOK
  <2>2. Len(currentRow) + 1 = x
    BY <1>2, <2>1
  <2> QED
    BY <1>1, <1>2, <2>1, <2>2
<1>9. PICK r : r = regionOf[q]
  OBVIOUS
<1>10. JoinedPart(c, r)
  BY <1>1, <1>2, <1>3, <1>5, <1>6, <1>7, <1>8, <1>9 DEF JoinedPart
<1> QED
  BY <1>1, <1>2, <1>10, PixelRecorded DEF ReadPart

\* Every way of handling a pixel that begins no merge.
LEMMA PartRead ==
    ASSUME IInv, PartsInv, NEW c \in Colours, ReadWithoutMerge(c)
    PROVE  \E r : ReadPart(c, r)
<1> DEFINE Goal == \E r : ReadPart(c, r)
<1>1. ReadPixel(c)
  BY DEF ReadWithoutMerge, FirstPixel, TopLine, LeftEdge, ExtendWest, ExtendNorth, CentreNew, InCentre
<1>2. pc = "read" /\ Resolved
  BY <1>1 DEF ReadPixel
<1>3. /\ x > 1 => /\ RootOf(label[Position - 1]) = West
                  /\ West \in 1 .. refCount /\ RootOf(West) = West
      /\ y > 1 => /\ RootOf(label[Position - Width]) = North
                  /\ North \in 1 .. refCount /\ RootOf(North) = North
  BY <1>2, RootsBeside
<1>4. SameColour(c) = (IF x > 1 /\ c = RegionColour(West) THEN {Position - 1} ELSE {})
                         \cup (IF y > 1 /\ c = RegionColour(North) THEN {Position - Width} ELSE {})
  BY <1>2, SameColourFacts
<1>5. x \in 1 .. Width /\ y \in 1 .. Height /\ Width \in Nat
  BY SizeFacts DEF IInv, TypeOK
<1>6. /\ x > 1 => RegionOfPixel[Position - 1] = regionOf[West]
      /\ y > 1 => RegionOfPixel[Position - Width] = regionOf[North]
      /\ Beside(Position) = (IF x > 1 THEN {Position - 1} ELSE {})
                              \cup (IF y > 1 THEN {Position - Width} ELSE {})
  BY <1>2, RegionsBeside
<1>7. ASSUME NEW f, f = IF x = 1 \/ y = 1 THEN {Root} ELSE {},
             NEW boxes, boxes = IF x = 1 \/ y = 1 THEN box ELSE WestRight,
             NEW touching, ElementsOf(touching) = {RegionOfPixel[m] : m \in Beside(Position)},
             NewRegion(c, f, boxes, touching), SameColour(c) = {}
      PROVE  Goal
  BY <1>1, <1>7, NewPartRead
<1>8. ASSUME NEW q \in 1 .. refCount, RootOf(q) = q, RegionColour(q) = c, JoinRegion(q),
             SameColour(c) # {}, \A m \in SameColour(c) : RootOf(label[m]) = q,
             box' = IF x > 1 /\ y > 1 /\ c # RegionColour(West) THEN NorthBottom ELSE box
      PROVE  Goal
  BY <1>1, <1>8, JoinedPartRead
<1> HIDE DEF Goal
<1>9. ASSUME FirstPixel(c) PROVE Goal
  <2>1. NewRegion(c, {Root}, box, <<>>) /\ SameColour(c) = {} /\ x = 1 /\ y = 1
    BY <1>4, <1>5, <1>9 DEF FirstPixel
  <2>2. ElementsOf(<<>>) = {RegionOfPixel[m] : m \in Beside(Position)}
    BY <1>6, <2>1, ListOfNone
  <2> QED
    BY <1>7, <2>1, <2>2
<1>10. ASSUME TopLine(c) PROVE Goal
  <2>1. x > 1 /\ y = 1
    BY <1>10 DEF TopLine
  <2>2. ASSUME c = RegionColour(West), JoinRegion(West), UNCHANGED box PROVE Goal
    <3>1. SameColour(c) = {Position - 1}
      BY <1>4, <2>1, <2>2
    <3> QED
      BY <1>3, <1>8, <2>1, <2>2, <3>1
  <2>3. ASSUME c # RegionColour(West), NewRegion(c, {Root}, box, <<regionOf[West]>>) PROVE Goal
    <3>1. SameColour(c) = {}
      BY <1>4, <2>1, <2>3
    <3>2. PICK touching : touching = <<regionOf[West]>>
      OBVIOUS
    <3>3. ElementsOf(touching) = {RegionOfPixel[m] : m \in Beside(Position)}
      BY <1>6, <2>1, <3>2, ListOfOne
    <3> QED
      BY <1>7, <2>1, <2>3, <3>1, <3>2, <3>3
  <2> QED
    BY <1>10, <2>2, <2>3 DEF TopLine
<1>11. ASSUME LeftEdge(c) PROVE Goal
  <2>1. x = 1 /\ y > 1
    BY <1>11 DEF LeftEdge
  <2>2. ASSUME c = RegionColour(North), JoinRegion(North), UNCHANGED box PROVE Goal
    <3>1. SameColour(c) = {Position - Width}
      BY <1>4, <2>1, <2>2
    <3> QED
      BY <1>3, <1>8, <2>1, <2>2, <3>1
  <2>3. ASSUME c # RegionColour(North), NewRegion(c, {Root}, box, <<regionOf[North]>>) PROVE Goal
    <3>1. SameColour(c) = {}
      BY <1>4, <2>1, <2>3
    <3>2. PICK touching : touching = <<regionOf[North]>>
      OBVIOUS
    <3>3. ElementsOf(touching) = {RegionOfPixel[m] : m \in Beside(Position)}
      BY <1>6, <2>1, <3>2, ListOfOne
    <3> QED
      BY <1>7, <2>1, <2>3, <3>1, <3>2, <3>3
  <2> QED
    BY <1>11, <2>2, <2>3 DEF LeftEdge
<1>12. ASSUME ExtendWest(c) PROVE Goal
  <2>1. /\ x > 1 /\ y > 1 /\ c = RegionColour(West) /\ JoinRegion(West) /\ UNCHANGED box
        /\ West = North \/ c # RegionColour(North)
    BY <1>12 DEF ExtendWest, InCentre, MeetsNorth
  <2>2. SameColour(c) # {} /\ \A m \in SameColour(c) : RootOf(label[m]) = West
    BY <1>3, <1>4, <2>1
  <2> QED
    BY <1>3, <1>8, <2>1, <2>2
<1>13. ASSUME ExtendNorth(c) PROVE Goal
  <2>1. /\ x > 1 /\ y > 1 /\ c # RegionColour(West) /\ c = RegionColour(North) /\ JoinRegion(North)
        /\ box' = NorthBottom
    BY <1>13 DEF ExtendNorth, InCentre
  <2>2. SameColour(c) = {Position - Width}
    BY <1>4, <2>1
  <2> QED
    BY <1>3, <1>8, <2>1, <2>2
<1>14. ASSUME CentreNew(c) PROVE Goal
  <2>1. /\ x > 1 /\ y > 1 /\ c # RegionColour(West) /\ c # RegionColour(North)
        /\ NewRegion(c, {}, WestRight, TouchedByNew)
    BY <1>14 DEF CentreNew, InCentre
  <2>2. SameColour(c) = {}
    BY <1>4, <2>1
  <2>3. ElementsOf(TouchedByNew) = {regionOf[North], regionOf[West]}
    <3>1. PICK a, b : a = regionOf[North] /\ b = regionOf[West]
      OBVIOUS
    <3>2. TouchedByNew = IF b # a THEN <<a, b>> ELSE <<a>>
      BY <3>1 DEF TouchedByNew
    <3> QED
      BY <3>1, <3>2, ListOfOne, ListOfTwo
  <2>4. PICK touching, boxes : touching = TouchedByNew /\ boxes = WestRight
    OBVIOUS
  <2>5. ElementsOf(touching) = {RegionOfPixel[m] : m \in Beside(Position)}
    BY <1>6, <2>1, <2>3, <2>4
  <2>6. ~(x = 1 \/ y = 1)
    BY <2>1
  <2> QED
    BY <1>7, <2>1, <2>2, <2>4, <2>5, <2>6
<1>15. Goal
  BY <1>9, <1>10, <1>11, <1>12, <1>13, <1>14 DEF ReadWithoutMerge
<1> QED
  BY <1>15 DEF Goal

\* A merge ends: the region of the pixel to the left becomes part of the one above.
MergedPart ==
    /\ Merging /\ R1 # R2 /\ R1 \in Live /\ R2 \in Live /\ Live' = Live \ {R2}
    /\ x > 1 /\ y > 1
    /\ Len(label) = Position - 1 /\ Len(label') = Position /\ Position' = Position
    /\ \A p \in 1 .. Len(label) :
          RegionOfPixel'[p] = IF RegionOfPixel[p] = R2 THEN R1 ELSE RegionOfPixel[p]
    /\ RegionOfPixel'[Position] = R1
    /\ pc' = "link" /\ UNCHANGED <<x, y, source, adjacent, neighbours, saturating>>
    /\ flags'[R1] = flags[R1] \cup flags[R2]
    /\ box'[R1] = Union(box[R1], box[R2])
    /\ \A t \in Regions \ {R1, R2} : flags'[t] = flags[t] /\ box'[t] = box[t]

LEMMA PartMerged ==
    ASSUME IInv, PartsInv, FreeMerged
    PROVE  MergedPart
<1> DEFINE s == R1
           r == R2
<1>1. /\ flags' = [flags EXCEPT ![s] = flags[s] \cup flags[r], ![r] = {Free}]
      /\ box' = [box EXCEPT ![s] = Union(@, box[r])]
      /\ freed' = <<r>> \o freed
      /\ regionOf' = [regionOf EXCEPT ![West] = Null]
      /\ label' = Append(label, North)
      /\ pc' = "link" /\ pc \in {"transfer", "mergeEnd"}
      /\ UNCHANGED <<x, y, source, adjacent, regionCount, neighbours, saturating>>
  BY DEF FreeMerged, SurvivorFlags, MergedCell, callVars
<1>2. Merging
  BY <1>1 DEF Merging
<1>3. /\ s \in Regions /\ r \in Regions /\ s # r /\ s \in Live /\ r \in Live
      /\ North \in 1 .. refCount /\ West \in 1 .. refCount /\ IsRoot(North) /\ IsRoot(West)
      /\ North # West /\ regionOf[West] = r /\ regionOf[North] = s
  BY <1>2, MergedRegions DEF R1, R2
<1>4. \A q \in 1 .. refCount : After(q) = IF RootOf(q) = West THEN North ELSE RootOf(q)
  BY FreeMergedAdds
<1>5. x > 1 /\ y > 1 /\ Len(label) = Position - 1 /\ Position' = Position
  BY <1>1, <1>2 DEF IInv, RootsInv, CountInv, Position
<1>6. \A q \in 1 .. refCount : RootOf(q) \in 1 .. refCount /\ IsRoot(RootOf(q)) /\ (IsRoot(q) => RootOf(q) = q)
  BY RootFacts DEF PartsInv
<1>7. \A q \in 1 .. refCount : regionOf[RootOf(q)] = r <=> RootOf(q) = West
  <2>1. r # Null
    BY <1>3 DEF Live, Null
  <2> QED
    BY <1>3, <1>6, <2>1 DEF IInv, OneOwner
<1>8. regionOf \in [Refs -> Regions \cup {Null}] /\ 1 .. refCount \subseteq Refs
  BY SizeFacts DEF IInv, TypeOK, Refs
<1>9. \A q \in 1 .. refCount : q # West => regionOf'[q] = regionOf[q]
  BY <1>1, <1>8
<1>10. PICK n : n = North
  OBVIOUS
<1>11. /\ Len(label') = Position /\ label'[Position] = n /\ Position \in 1 .. Len(label')
       /\ \A p \in 1 .. Len(label) : label'[p] = label[p] /\ p \in 1 .. Len(label')
  <2>1. label' = Append(label, n)
    BY <1>1, <1>10
  <2> QED
    BY <1>5, <2>1, AppendedLabel
<1>12. RegionOfPixel'[Position] = s
  BY <1>3, <1>4, <1>6, <1>9, <1>10, <1>11, NewPixelRegions
<1>13. ASSUME NEW p \in 1 .. Len(label)
       PROVE  RegionOfPixel'[p] = IF RegionOfPixel[p] = r THEN s ELSE RegionOfPixel[p]
  <2>1. RegionOfPixel'[p] = regionOf'[After(label[p])]
    BY <1>11, NewPixelRegions
  <2>2. label[p] \in 1 .. refCount /\ RootOf(label[p]) \in 1 .. refCount
        /\ RegionOfPixel[p] = regionOf[RootOf(label[p])]
    BY PixelRegions
  <2>3. CASE RootOf(label[p]) = West
    BY <1>3, <1>4, <1>9, <2>1, <2>2, <2>3
  <2>4. CASE RootOf(label[p]) # West
    BY <1>4, <1>7, <1>9, <2>1, <2>2, <2>4
  <2> QED
    BY <2>3, <2>4
<1> HIDE DEF s, r
<1>14. Live' = Live \ {r}
  <2>1. freed \in Seq(Regions)
    BY DEF IInv, TypeOK
  <2>2. ElementsOf(<<r>> \o freed) = {r} \cup ElementsOf(freed)
    BY <1>3, <2>1, PushedElements
  <2> QED
    BY <1>1, <2>2 DEF Live
<1>15. /\ flags'[s] = flags[s] \cup flags[r]
       /\ \A t \in Regions \ {s, r} : flags'[t] = flags[t]
  BY <1>1, <1>3 DEF IInv, TypeOK
<1>16. box'[s] = Union(box[s], box[r]) /\ \A t \in Regions \ {s, r} : box'[t] = box[t]
  BY <1>1, <1>3 DEF IInv, TypeOK
<1> QED
  BY <1>1, <1>2, <1>3, <1>5, <1>11, <1>12, <1>13, <1>14, <1>15, <1>16 DEF MergedPart, s, r

-----------------------------------------------------------------------------
\* The steps that give no pixel a label, before the frame ends.
KeptStep ==
    \/ ListStep \/ UNCHANGED vars \/ FollowRedirect
    \/ \E c \in Colours : MergeRegions(c)
    \/ NextColumn \/ NextRow \/ LastPixel \/ BottomRow

LEMMA KeptStepRegions ==
    ASSUME IInv, PartsInv, KeptStep
    PROVE  RegionsKept
<1>1. ASSUME ReferencesKept PROVE RegionsKept
  <2>1. UNCHANGED <<label, regionOf, regionCount, freed>>
    BY <1>1 DEF ReferencesKept, refVars, inputVars
  <2> QED
    BY <1>1, <2>1, ReferencesKeptParts, KeptRegions
<1>2. CASE ListStep
  BY <1>1, <1>2, ListStepKeeps
<1>3. CASE UNCHANGED vars
  <2>1. ReferencesKept
    BY <1>3 DEF ReferencesKept, vars, regionVars, refVars, rowVars, callVars, inputVars
  <2> QED
    BY <1>1, <2>1
<1>4. CASE FollowRedirect
  <2>1. UNCHANGED <<label, regionOf, regionCount, freed>>
    BY <1>4 DEF FollowRedirect, regionVars, refVars, inputVars
  <2> QED
    BY <1>4, <2>1, FollowRedirectParts, KeptRegions
<1>5. ASSUME NEW c \in Colours, MergeRegions(c) PROVE RegionsKept
  <2>1. UNCHANGED <<label, regionOf, regionCount, freed>>
    BY <1>5 DEF MergeRegions, regionVars
  <2> QED
    BY <1>5, <2>1, MergeRegionsParts, KeptRegions
<1>6. ASSUME PixelDone PROVE UNCHANGED <<label, regionOf, regionCount, freed>>
  BY <1>6 DEF PixelDone, refVars, inputVars
<1>7. CASE NextColumn
  BY <1>6, <1>7, NextColumnParts, KeptRegions DEF NextColumn
<1>8. CASE NextRow
  BY <1>6, <1>8, NextRowParts, KeptRegions DEF NextRow
<1>9. CASE LastPixel
  BY <1>6, <1>9, LastPixelParts, KeptRegions DEF LastPixel
<1>10. CASE BottomRow
  <2>1. UNCHANGED <<label, regionOf, regionCount, freed>>
    BY <1>10 DEF BottomRow
  <2> QED
    BY <1>10, <2>1, BottomRowParts, KeptRegions
<1> QED
  BY <1>2, <1>3, <1>4, <1>5, <1>7, <1>8, <1>9, <1>10 DEF KeptStep

\* Every step of the segmenter is one of five kinds.
LEMMA StepKinds ==
    ASSUME [Next]_vars
    PROVE  \/ KeptStep \/ FreeMerged \/ StepSegmenter
           \/ \E c \in Colours : ReadWithoutMerge(c)
BY DEF Next, KeptStep, ReadWithoutMerge, ListStep

-----------------------------------------------------------------------------
(***************************************************************************)
(* What is noted of a region                                               *)
(***************************************************************************)
FlagsGrow(more) == \A r \in Regions : flags[r] \subseteq flags'[r] /\ flags'[r] \subseteq flags[r] \cup more

\* Saturating notes nothing else of a region.
LEMMA ListStepFlags ==
    ASSUME IInv, ListStep
    PROVE  FlagsGrow({Saturated, Fragmented}) /\ UNCHANGED box
<1>1. flags \in [Regions -> SUBSET Flags]
  BY DEF IInv, TypeOK
<1>2. ASSUME NEW r, NEW f \in {Saturated, Fragmented}, flags' = [flags EXCEPT ![r] = @ \cup {f}]
      PROVE  FlagsGrow({Saturated, Fragmented})
  BY <1>1, <1>2 DEF FlagsGrow
<1>3. ASSUME UNCHANGED flags PROVE FlagsGrow({Saturated, Fragmented})
  BY <1>3 DEF FlagsGrow
<1>4. ASSUME DetachNeighbour PROVE FlagsGrow({Saturated, Fragmented})
  BY <1>2, <1>4 DEF DetachNeighbour
<1>5. ASSUME MarkSaturated PROVE FlagsGrow({Saturated, Fragmented})
  BY <1>2, <1>5 DEF MarkSaturated
<1>6. ASSUME NeighbourSaturated PROVE FlagsGrow({Saturated, Fragmented})
  BY <1>2, <1>6 DEF NeighbourSaturated
<1>7. ASSUME ListFull PROVE FlagsGrow({Saturated, Fragmented})
  <2>1. PICK a, b : a = Here /\ b = Touched
    OBVIOUS
  <2>2. \E f, g \in SUBSET {Fragmented} : flags' = [flags EXCEPT ![a] = @ \cup f, ![b] = @ \cup g]
    <3>1. PICK f, g : /\ f = IF IsFull(Touched) THEN {Fragmented} ELSE {}
                      /\ g = IF IsFull(Here) THEN {Fragmented} ELSE {}
      OBVIOUS
    <3>2. flags' = [flags EXCEPT ![a] = IF IsFull(Touched) THEN @ \cup {Fragmented} ELSE @,
                                 ![b] = IF IsFull(Here) THEN @ \cup {Fragmented} ELSE @]
      BY <1>7, <2>1 DEF ListFull
    <3>3. \A old : /\ (IF IsFull(Touched) THEN old \cup {Fragmented} ELSE old) = old \cup f
                   /\ (IF IsFull(Here) THEN old \cup {Fragmented} ELSE old) = old \cup g
      BY <3>1
    <3>4. flags' = [flags EXCEPT ![a] = @ \cup f, ![b] = @ \cup g]
      BY <3>2, <3>3
    <3> QED
      BY <3>1, <3>4
  <2> QED
    BY <1>1, <2>2 DEF FlagsGrow
<1>8. ASSUME MakeAdjacent PROVE FlagsGrow({Saturated, Fragmented})
  BY <1>3, <1>8 DEF MakeAdjacent
<1>9. ASSUME RemoveCommon PROVE FlagsGrow({Saturated, Fragmented})
  BY <1>3, <1>9 DEF RemoveCommon
<1>10. ASSUME CheckCapacity PROVE FlagsGrow({Saturated, Fragmented})
  BY <1>3, <1>10 DEF CheckCapacity, regionVars
<1>11. ASSUME TransferNeighbour PROVE FlagsGrow({Saturated, Fragmented})
  BY <1>3, <1>11 DEF TransferNeighbour
<1>12. UNCHANGED box
  BY ListStepKeeps DEF ReferencesKept
<1> QED
  BY <1>4, <1>5, <1>6, <1>7, <1>8, <1>9, <1>10, <1>11, <1>12 DEF ListStep

LEMMA RightEdgeFlags ==
    ASSUME IInv, PixelDone
    PROVE  FlagsGrow({Root}) /\ UNCHANGED box
<1>1. flags \in [Regions -> SUBSET Flags]
  BY DEF IInv, TypeOK
<1>2. PICK h : h = Here
  OBVIOUS
<1>3. flags' = flags \/ flags' = [flags EXCEPT ![h] = @ \cup {Root}]
  BY <1>2 DEF PixelDone, RightEdge
<1> QED
  BY <1>1, <1>3 DEF FlagsGrow, PixelDone

\* No step takes a flag from a region before the region is freed.
LEMMA KeptStepFlags ==
    ASSUME IInv, KeptStep
    PROVE  \A r \in Regions : flags[r] \subseteq flags'[r]
<1>1. CASE ListStep
  BY <1>1, ListStepFlags DEF FlagsGrow
<1>2. CASE UNCHANGED vars \/ FollowRedirect \/ \E c \in Colours : MergeRegions(c)
  BY <1>2 DEF vars, regionVars, FollowRedirect, MergeRegions
<1>3. CASE NextColumn \/ NextRow \/ LastPixel
  BY <1>3, RightEdgeFlags DEF NextColumn, NextRow, LastPixel, FlagsGrow
<1>4. CASE BottomRow
  <2>1. PICK h : h = regionOf[result]
    OBVIOUS
  <2>2. flags' = [flags EXCEPT ![h] = @ \cup {Root}] /\ flags \in [Regions -> SUBSET Flags]
    BY <1>4, <2>1 DEF BottomRow, IInv, TypeOK
  <2> QED
    BY <2>2
<1> QED
  BY <1>1, <1>2, <1>3, <1>4 DEF KeptStep

\* What was noted of a pixel's region is not lost in a merge, until the frame ends.
THEOREM FlagsAreKept == Spec => FlagsKept
<1> DEFINE Kept == Len(label') >= Len(label) =>
                   \A p \in Pixels : flags[RegionOfPixel[p]] \subseteq (flags[RegionOfPixel[p]])'
<1>1. ASSUME IInv, PartsInv, [Next]_vars PROVE Kept
  <2> DEFINE n == Len(label)
  <2>1. \A p \in 1 .. n : RegionOfPixel[p] \in Live /\ RegionOfPixel[p] \in Regions
    BY <1>1, PixelRegions
  <2>2. ASSUME \A p \in 1 .. n : flags[RegionOfPixel[p]] \subseteq flags'[RegionOfPixel'[p]] PROVE Kept
    BY <2>2 DEF Pixels
  <2> HIDE DEF Kept
  <2>3. CASE KeptStep
    BY <1>1, <2>1, <2>2, <2>3, KeptStepRegions, KeptStepFlags DEF RegionsKept
  <2>4. CASE FreeMerged
    BY <1>1, <2>1, <2>2, <2>4, PartMerged DEF MergedPart
  <2>5. CASE StepSegmenter
    <3>1. n = Width * Height /\ Len(label') = 0
      BY <1>1, <2>5 DEF StepSegmenter, IInv, CountInv
    <3> QED
      BY <3>1, SizeFacts DEF Kept
  <2>6. ASSUME NEW c \in Colours, ReadWithoutMerge(c) PROVE Kept
    <3>1. PICK r : ReadPart(c, r)
      BY <1>1, <2>6, PartRead
    <3>2. \A p \in 1 .. n : RegionOfPixel'[p] = RegionOfPixel[p]
      BY <3>1 DEF ReadPart, NewPart, JoinedPart, RegionGrown
    <3>3. \A t \in Live : t \in Regions => flags'[t] = flags[t]
      BY <1>1, <3>1 DEF ReadPart, NewPart, JoinedPart, IInv, TypeOK
    <3> QED
      BY <2>1, <2>2, <3>2, <3>3
  <2> QED
    BY <1>1, <2>3, <2>4, <2>5, <2>6, StepKinds
<1>2. IInv /\ PartsInv /\ [Next]_vars => [Kept]_vars
  BY <1>1
<1>3. FlagsKept <=> [][Kept]_vars
  BY DEF FlagsKept
<1> HIDE DEF Kept
<1> QED
  BY <1>2, <1>3, InductiveInvariant, PartsInvariant, PTL DEF Spec

-----------------------------------------------------------------------------
(***************************************************************************)
(* Where a pixel is                                                        *)
(***************************************************************************)
LEMMA Divided ==
    ASSUME NEW w \in Nat, w >= 1, NEW a \in Nat, NEW b \in Nat, b < w
    PROVE  (a * w + b) \div w = a /\ (a * w + b) % w = b
<1> DEFINE n == a * w + b
           d == n \div w
           m == n % w
<1>1. n \in Nat /\ d \in Int /\ m \in 0 .. w - 1 /\ n = w * d + m
  OBVIOUS
<1>2. (a - d) * w = m - b
  BY <1>1
<1> HIDE DEF d, m, n
<1>3. m - b < w /\ m - b > 0 - w
  BY <1>1
<1>4. a - d < 1 /\ a - d > -1
  <2> DEFINE e == a - d
  <2>1. e \in Int /\ e * w = m - b
    BY <1>1, <1>2
  <2> HIDE DEF e
  <2>2. e >= 1 => e * w >= w
    BY <2>1
  <2>3. e <= -1 => e * w <= 0 - w
    BY <2>1
  <2>4. e < 1 /\ e > -1
    BY <1>1, <1>3, <2>1, <2>2, <2>3
  <2> QED
    BY <2>4 DEF e
<1>5. a = d
  BY <1>1, <1>4
<1>6. m = b
  BY <1>1, <1>2, <1>5
<1> QED
  BY <1>5, <1>6 DEF d, m, n

\* Column and Row of the pixel in a column and row.
LEMMA PixelInPlace ==
    ASSUME NEW k \in 1 .. Width, NEW r \in Nat, r >= 1
    PROVE  Column(PixelAt(k, r)) = k /\ Row(PixelAt(k, r)) = r /\ PixelAt(k, r) \in Nat
<1>1. Width \in Nat /\ Width >= 1 /\ r - 1 \in Nat /\ k - 1 \in Nat /\ k - 1 < Width
  BY SizeFacts
<1>2. PixelAt(k, r) - 1 = (r - 1) * Width + (k - 1) /\ PixelAt(k, r) \in Nat
  BY <1>1 DEF PixelAt
<1>3. /\ (PixelAt(k, r) - 1) \div Width = r - 1
      /\ (PixelAt(k, r) - 1) % Width = k - 1
  <2>1. /\ ((r - 1) * Width + (k - 1)) \div Width = r - 1
        /\ ((r - 1) * Width + (k - 1)) % Width = k - 1
    BY ONLY <1>1, Divided, ZenonT(60)
  <2> QED
    BY ONLY <1>2, <2>1, ZenonT(60)
<1> QED
  BY <1>1, <1>2, <1>3 DEF Column, Row

LEMMA PlaceOfPixel ==
    ASSUME NEW p \in Nat, p >= 1
    PROVE  /\ Column(p) \in 1 .. Width /\ Row(p) \in Nat /\ Row(p) >= 1
           /\ p = PixelAt(Column(p), Row(p))
<1> DEFINE d == (p - 1) \div Width
           m == (p - 1) % Width
<1>1. Width \in Nat /\ Width >= 1 /\ p - 1 \in Nat
  BY SizeFacts
<1>2. d \in Nat /\ m \in 0 .. Width - 1 /\ p - 1 = Width * d + m
  BY <1>1
<1> HIDE DEF d, m
<1>3. Column(p) = m + 1 /\ Row(p) = d + 1
  BY DEF Column, Row, d, m
<1> QED
  BY <1>1, <1>2, <1>3 DEF PixelAt

\* The pixels read before the one at the cursor.
LEMMA PlaceBefore ==
    ASSUME x \in 1 .. Width, y \in 1 .. Height, NEW p \in 1 .. Position
    PROVE  /\ Column(p) \in 1 .. Width /\ Row(p) \in 1 .. y
           /\ Row(p) = y => Column(p) <= x
           /\ Row(p) = y /\ p # Position => Column(p) <= x - 1
<1>1. /\ Width \in Nat /\ Width >= 1 /\ x \in Nat /\ x >= 1 /\ x <= Width /\ y \in Nat /\ y >= 1
      /\ Position = PixelAt(x, y) /\ Position \in Nat /\ p \in Nat /\ p >= 1 /\ p <= Position
  BY SizeFacts, RowOfPixels
<1> DEFINE k == Column(p)
           r == Row(p)
<1>2. k \in 1 .. Width /\ r \in Nat /\ r >= 1 /\ p = PixelAt(k, r)
  BY <1>1, PlaceOfPixel
<1> HIDE DEF k, r
<1>3. (r - 1) * Width + k <= (y - 1) * Width + x
  BY <1>1, <1>2 DEF PixelAt
<1>4. r <= y
  <2> SUFFICES ASSUME r >= y + 1 PROVE FALSE
    BY <1>1, <1>2
  <2>1. r - 1 - y \in Nat
    BY <1>1, <1>2
  <2>2. (r - 1 - y) * Width >= 0
    BY <1>1, <2>1
  <2>3. (r - 1) * Width = (r - 1 - y) * Width + (y - 1) * Width + Width
    BY <1>1, <1>2
  <2>4. (r - 1) * Width \in Int /\ (y - 1) * Width \in Int /\ (r - 1 - y) * Width \in Int
    BY <1>1, <1>2
  <2> QED
    BY <1>1, <1>2, <1>3, <2>2, <2>3, <2>4
<1>5. r = y => k <= x /\ (p # Position => k <= x - 1)
  <2> SUFFICES ASSUME r = y PROVE k <= x /\ (p # Position => k <= x - 1)
    OBVIOUS
  <2>1. (y - 1) * Width \in Nat
    BY <1>1
  <2>2. p = (y - 1) * Width + k /\ Position = (y - 1) * Width + x
    BY <1>1, <1>2 DEF PixelAt
  <2> QED
    BY <1>1, <1>2, <2>1, <2>2
<1> QED
  BY <1>1, <1>2, <1>4, <1>5 DEF k, r

-----------------------------------------------------------------------------
(***************************************************************************)
(* The regions that reach the border                                       *)
(***************************************************************************)
\* The border pixels that have been handled: those on the right edge when their row goes on, those
\* of the last row after the last pixel, from left to right.
Marked(p) ==
    \/ Row(p) = 1 \/ Column(p) = 1
    \/ Column(p) = Width /\ ~(pc = "link" /\ p = Len(label))
    \/ Row(p) = Height /\ (pc = "done" \/ (pc = "bottom" /\ Column(p) < x))

BorderInv ==
    /\ pc \in {"bottom", "done"} => y = Height
    /\ \A r \in Live : Root \in flags[r] <=> \E p \in 1 .. Len(label) : RegionOfPixel[p] = r /\ Marked(p)

\* A step that marks at most one more pixel, m, and its region.
LEMMA OneMarked ==
    ASSUME BorderInv, RegionsKept, pc' \in {"bottom", "done"} => y' = Height,
           NEW M \in SUBSET (1 .. Len(label)),
           \A p \in 1 .. Len(label) : Marked(p)' <=> Marked(p) \/ p \in M,
           \A r \in Live : Root \in flags'[r] <=> Root \in flags[r] \/ \E m \in M : r = RegionOfPixel[m]
    PROVE  BorderInv'
<1>1. /\ label' = label /\ RegionOfPixel' = RegionOfPixel /\ Live' = Live
  BY DEF RegionsKept
<1>2. \A r \in Live : Root \in flags'[r] <=> \E p \in 1 .. Len(label) : RegionOfPixel[p] = r /\ Marked(p)'
  BY DEF BorderInv
<1> QED
  BY <1>1, <1>2 DEF BorderInv

\* A pixel that gets its label is on the first row, at the left edge, or not handled yet.
LEMMA GrownMarks ==
    ASSUME IInv, pc # "link", pc \notin {"bottom", "done"}, pc' = "link", UNCHANGED <<x, y>>,
           Len(label) = Position - 1, Len(label') = Position
    PROVE  /\ \A p \in 1 .. Len(label) : Marked(p)' <=> Marked(p)
           /\ \A p : p = Position => (Marked(p)' <=> x = 1 \/ y = 1)
           /\ 1 .. Len(label') = (1 .. Len(label)) \cup {Position} /\ Position \notin 1 .. Len(label)
<1>1. x \in 1 .. Width /\ y \in 1 .. Height /\ y \in Nat /\ y >= 1
  BY SizeFacts DEF IInv, TypeOK
<1>2. Position = PixelAt(x, y) /\ Position \in Nat /\ Position >= 1
  BY <1>1, RowOfPixels
<1>3. Column(Position) = x /\ Row(Position) = y
  BY <1>1, <1>2, PixelInPlace
<1>4. /\ 1 .. Len(label') = (1 .. Len(label)) \cup {Position} /\ Position \notin 1 .. Len(label)
  BY <1>2
<1>5. \A p \in 1 .. Len(label) : Marked(p)' <=> Marked(p)
  BY <1>4 DEF Marked
<1>6. ASSUME NEW n, n = Position PROVE Marked(n)' <=> x = 1 \/ y = 1
  BY <1>3, <1>6 DEF Marked
<1> QED
  BY <1>4, <1>5, <1>6

LEMMA ReadMarks ==
    ASSUME IInv, PartsInv, BorderInv, NEW c \in Colours, ReadWithoutMerge(c)
    PROVE  BorderInv'
<1>1. PICK r : ReadPart(c, r)
  BY PartRead
<1>2. /\ pc = "read" /\ pc' = "link" /\ UNCHANGED <<x, y>>
      /\ Len(label) = Position - 1 /\ Len(label') = Position
      /\ \A p \in 1 .. Len(label) : RegionOfPixel'[p] = RegionOfPixel[p]
      /\ RegionOfPixel'[Position] = r
      /\ flags \in [Regions -> SUBSET Flags]
  BY <1>1 DEF ReadPart, NewPart, JoinedPart, RegionGrown, IInv, TypeOK
<1>3. PICK n : n = Position
  OBVIOUS
<1>4. /\ \A p \in 1 .. Len(label) : Marked(p)' <=> Marked(p)
      /\ Marked(n)' <=> x = 1 \/ y = 1
      /\ 1 .. Len(label') = (1 .. Len(label)) \cup {n} /\ n \notin 1 .. Len(label)
  BY <1>2, <1>3, GrownMarks
<1>5. \A p \in 1 .. Len(label) : RegionOfPixel[p] \in Live
  BY PixelRegions
<1>6. Live \subseteq Regions
  BY SizeFacts DEF IInv, TypeOK, Live, Regions
<1>7. \A t \in Live : Root \in flags[t] <=> \E p \in 1 .. Len(label) : RegionOfPixel[p] = t /\ Marked(p)
  BY DEF BorderInv
<1>8. CASE NewPart(c, r)
  <2>1. /\ r \notin Live /\ r \in Regions /\ Live' = Live \cup {r}
        /\ flags' = [flags EXCEPT ![r] = IF x = 1 \/ y = 1 THEN {Root} ELSE {}]
    BY <1>8 DEF NewPart
  <2>2. Root \in flags'[r] <=> x = 1 \/ y = 1
    BY <1>2, <2>1
  <2>3. \A t \in Live : t # r /\ flags'[t] = flags[t]
    BY <1>2, <1>6, <2>1
  <2>4. \A t \in Live' : Root \in flags'[t]
                          <=> \E p \in 1 .. Len(label') : RegionOfPixel'[p] = t /\ Marked(p)'
    BY <1>2, <1>3, <1>4, <1>5, <1>7, <2>1, <2>2, <2>3
  <2> QED
    BY <1>2, <2>4 DEF BorderInv
<1>9. CASE JoinedPart(c, r)
  <2>1. r \in Live /\ Live' = Live /\ flags' = flags
        /\ SameColour(c) # {} /\ \A m \in SameColour(c) : RegionOfPixel[m] = r
    BY <1>9 DEF JoinedPart
  <2>2. PICK m \in Beside(Position) : RegionOfPixel[m] = r
    BY <2>1 DEF SameColour
  <2>3. x \in 1 .. Width /\ y \in 1 .. Height /\ Width \in Nat /\ x \in Nat /\ y \in Nat
    BY SizeFacts DEF IInv, TypeOK
  <2>4. m \in 1 .. Len(label)
    <3>1. Resolved
      BY DEF ReadWithoutMerge, FirstPixel, TopLine, LeftEdge, ExtendWest, ExtendNorth, CentreNew,
             InCentre, ReadPixel
    <3> QED
      BY <1>2, <2>2, <3>1, RegionsBeside
  <2>5. x = 1 \/ y = 1 => Marked(m)
    <3>1. \/ x > 1 /\ m = PixelAt(x - 1, y)
          \/ y > 1 /\ m = PixelAt(x, y - 1)
      BY <2>2, <2>3, RowOfPixels
    <3>2. ASSUME x > 1, m = PixelAt(x - 1, y) PROVE Row(m) = y
      <4>1. x - 1 \in 1 .. Width /\ y >= 1
        BY <2>3, <3>2
      <4> QED
        BY <2>3, <3>2, <4>1, PixelInPlace
    <3>3. ASSUME y > 1, m = PixelAt(x, y - 1) PROVE Column(m) = x
      <4>1. y - 1 \in Nat /\ y - 1 >= 1
        BY <2>3, <3>3
      <4> QED
        BY <2>3, <3>3, <4>1, PixelInPlace
    <3> QED
      BY <3>1, <3>2, <3>3 DEF Marked
  <2>6. x = 1 \/ y = 1 => Root \in flags[r]
    BY <1>7, <2>1, <2>2, <2>4, <2>5
  <2>7. \A t \in Live' : Root \in flags'[t]
                          <=> \E p \in 1 .. Len(label') : RegionOfPixel'[p] = t /\ Marked(p)'
    BY <1>2, <1>3, <1>4, <1>7, <2>1, <2>6
  <2> QED
    BY <1>2, <2>7 DEF BorderInv
<1> QED
  BY <1>1, <1>8, <1>9 DEF ReadPart

LEMMA FreeMergedMarks ==
    ASSUME IInv, PartsInv, BorderInv, FreeMerged
    PROVE  BorderInv'
<1> DEFINE s == R1
           o == R2
<1>1. /\ Merging /\ s # o /\ s \in Live /\ o \in Live /\ Live' = Live \ {o}
      /\ x > 1 /\ y > 1 /\ UNCHANGED <<x, y>> /\ pc' = "link"
      /\ Len(label) = Position - 1 /\ Len(label') = Position
      /\ \A p \in 1 .. Len(label) :
            RegionOfPixel'[p] = IF RegionOfPixel[p] = o THEN s ELSE RegionOfPixel[p]
      /\ RegionOfPixel'[Position] = s
      /\ flags'[s] = flags[s] \cup flags[o]
      /\ \A t \in Regions \ {s, o} : flags'[t] = flags[t]
  BY PartMerged DEF MergedPart
<1> HIDE DEF s, o
<1>2. PICK n : n = Position
  OBVIOUS
<1>3. pc # "link" /\ pc \notin {"bottom", "done"}
  BY <1>1 DEF Merging
<1>4. /\ \A p \in 1 .. Len(label) : Marked(p)' <=> Marked(p)
      /\ Marked(n)' <=> x = 1 \/ y = 1
      /\ 1 .. Len(label') = (1 .. Len(label)) \cup {n} /\ n \notin 1 .. Len(label)
  BY <1>1, <1>2, <1>3, GrownMarks
<1>5. Live \subseteq Regions
  BY SizeFacts DEF IInv, TypeOK, Live, Regions
<1>6. \A t \in Live : Root \in flags[t] <=> \E p \in 1 .. Len(label) : RegionOfPixel[p] = t /\ Marked(p)
  BY DEF BorderInv
<1>7. ~Marked(n)'
  BY <1>1, <1>4
<1>8. Root \in flags'[s] <=> \E p \in 1 .. Len(label') : RegionOfPixel'[p] = s /\ Marked(p)'
  BY <1>1, <1>4, <1>6, <1>7
<1>9. \A t \in Live' : t # s => (Root \in flags'[t]
                          <=> \E p \in 1 .. Len(label') : RegionOfPixel'[p] = t /\ Marked(p)')
  BY <1>1, <1>2, <1>4, <1>5, <1>6, <1>7, SMTT(60)
<1> QED
  BY <1>1, <1>8, <1>9 DEF BorderInv

\* Steps that mark nothing.
LEMMA ListStepMarks ==
    ASSUME IInv, PartsInv, BorderInv, ListStep \/ UNCHANGED vars \/ FollowRedirect \/ \E c \in Colours : MergeRegions(c)
    PROVE  BorderInv'
<1>1. KeptStep
  BY DEF KeptStep
<1>2. Live \subseteq Regions
  BY SizeFacts DEF IInv, TypeOK, Live, Regions
<1>3. /\ UNCHANGED <<x, y, label>>
      /\ \A p \in {"link", "bottom", "done"} : pc' = p <=> pc = p
      /\ \A t \in Regions : Root \in flags'[t] <=> Root \in flags[t]
  <2>1. CASE ListStep
    <3>1. \A t \in Regions : Root \in flags'[t] <=> Root \in flags[t]
      BY <2>1, ListStepFlags DEF FlagsGrow, Root, Saturated, Fragmented
    <3> QED
      BY <2>1, <3>1, ListStepKeeps DEF ReferencesKept, inputVars, Merging
  <2>2. CASE UNCHANGED vars \/ FollowRedirect
    BY <2>2 DEF vars, regionVars, inputVars, FollowRedirect
  <2>3. ASSUME NEW c \in Colours, MergeRegions(c)
        PROVE  /\ UNCHANGED <<x, y, label>>
               /\ \A p \in {"link", "bottom", "done"} : pc' = p <=> pc = p
               /\ \A t \in Regions : Root \in flags'[t] <=> Root \in flags[t]
    BY <2>3 DEF MergeRegions, regionVars, InCentre, ReadPixel
  <2> QED
    BY <2>1, <2>2, <2>3
<1>4. \A p \in 1 .. Len(label) : Marked(p)' <=> Marked(p) \/ p \in {}
  BY <1>3 DEF Marked
<1>5. pc' \in {"bottom", "done"} => y' = Height
  BY <1>3 DEF BorderInv
<1>6. RegionsKept
  BY <1>1, KeptStepRegions
<1>7. \A r \in Live : Root \in flags'[r] <=> Root \in flags[r] \/ \E m \in {} : r = RegionOfPixel[m]
  BY <1>2, <1>3
<1>8. {} \in SUBSET (1 .. Len(label))
  OBVIOUS
<1> QED
  BY <1>4, <1>5, <1>6, <1>7, <1>8, OneMarked

\* The region of the pixel whose handling ends.
LEMMA RegionHere ==
    ASSUME IInv, PartsInv, pc = "link"
    PROVE  /\ Len(label) = Position /\ Position \in 1 .. Len(label) /\ RegionOfPixel[Position] = Here
           /\ Column(Position) = x /\ Row(Position) = y
           /\ x \in 1 .. Width /\ y \in 1 .. Height /\ Width \in Nat /\ y \in Nat
<1>1. x \in 1 .. Width /\ y \in 1 .. Height /\ Width \in Nat /\ y \in Nat /\ y >= 1
  BY SizeFacts DEF IInv, TypeOK
<1>2. Len(label) = Position /\ Len(currentRow) = x /\ x \in 1 .. Len(currentRow)
      /\ IsRoot(currentRow[x]) /\ currentRow[x] \in 1 .. refCount
  BY <1>1 DEF IInv, CountInv, RowsInv, RootsInv
<1>3. Position = PixelAt(x, y) /\ Position \in 1 .. Len(label)
  BY <1>1, <1>2, RowOfPixels
<1>4. RootOf(currentRow[x]) = RootOf(label[Position]) /\ RootOf(currentRow[x]) = currentRow[x]
  BY <1>2, <1>3, RootFacts DEF PartsInv, CellsInv
<1>5. RegionOfPixel[Position] = Here
  BY <1>3, <1>4, PixelRegions DEF Here
<1> QED
  BY <1>1, <1>2, <1>3, <1>5, PixelInPlace

LEMMA PixelDoneMarks ==
    ASSUME IInv, PartsInv, BorderInv, NextColumn \/ NextRow \/ LastPixel
    PROVE  BorderInv'
<1>1. KeptStep /\ PixelDone /\ pc = "link"
  BY DEF KeptStep, NextColumn, NextRow, LastPixel, PixelDone
<1>2. PICK n : n = Position
  OBVIOUS
<1>3. /\ Len(label) = n /\ n \in 1 .. Len(label) /\ RegionOfPixel[n] = Here
      /\ Column(n) = x /\ Row(n) = y
      /\ x \in 1 .. Width /\ y \in 1 .. Height /\ Width \in Nat /\ y \in Nat
  BY <1>1, <1>2, RegionHere
<1>4. flags' = RightEdge /\ flags \in [Regions -> SUBSET Flags]
  BY <1>1 DEF PixelDone, IInv, TypeOK
<1>5. Live \subseteq Regions
  BY SizeFacts DEF IInv, TypeOK, Live, Regions
<1>6. pc' \in {"bottom", "done"} => y' = Height
  BY DEF NextColumn, NextRow, LastPixel
<1>7. CASE NextColumn
  <2>1. x # Width /\ flags' = flags /\ pc' = "read" /\ label' = label
    BY <1>1, <1>3, <1>4, <1>7 DEF NextColumn, RightEdge, PixelDone, inputVars
  <2>2. \A p \in 1 .. Len(label) : Marked(p)' <=> Marked(p) \/ p \in {}
    BY <1>1, <1>3, <2>1 DEF Marked
  <2> QED
    BY <1>1, <1>6, <2>1, <2>2, KeptStepRegions, OneMarked
<1>8. CASE NextRow \/ LastPixel
  <2>1. x = Width /\ label' = label /\ x' = 1 /\ (pc' = "read" \/ pc' = "bottom")
    BY <1>1, <1>8 DEF NextRow, LastPixel, PixelDone, inputVars
  <2>2. ASSUME NEW p \in 1 .. Len(label) PROVE Marked(p)' <=> Marked(p) \/ p \in {n}
    <3>0. Len(label) \in Nat
      BY <1>1, SizeFacts DEF IInv, CountInv
    <3>1. Column(p) \in 1 .. Width
      BY <3>0, PlaceOfPixel
    <3>2. ~(Column(p) < 1)
      BY <1>3, <3>1
    <3> QED
      BY <1>1, <1>3, <2>1, <3>2 DEF Marked
  <2>3. ASSUME NEW t \in Live PROVE Root \in flags'[t] <=> Root \in flags[t] \/ t = RegionOfPixel[n]
    <3>1. CASE y > 1
      <4>1. PICK h : h = Here
        OBVIOUS
      <4>2. flags' = [flags EXCEPT ![h] = @ \cup {Root}]
        BY <1>4, <2>1, <3>1, <4>1 DEF RightEdge
      <4> QED
        BY <1>3, <1>4, <1>5, <4>1, <4>2
    <3>2. CASE y = 1
      <4>1. flags' = flags
        BY <1>4, <3>2 DEF RightEdge
      <4>2. Marked(n)
        BY <1>3, <3>2 DEF Marked
      <4> QED
        BY <1>3, <4>1, <4>2 DEF BorderInv
    <3> QED
      BY <1>3, <3>1, <3>2, SizeFacts
  <2> QED
    BY <1>1, <1>3, <1>6, <2>2, <2>3, KeptStepRegions, OneMarked, ZenonT(60)
<1> QED
  BY <1>7, <1>8

LEMMA BottomRowMarks ==
    ASSUME IInv, PartsInv, BorderInv, BottomRow
    PROVE  BorderInv'
<1>1. /\ KeptStep /\ pc = "bottom" /\ Resolved /\ UNCHANGED <<y, label, regionOf, refCount>>
      /\ redirect' = [redirect EXCEPT ![currentRow[x]] = result]
      /\ \/ x < Width /\ x' = x + 1 /\ pc' = "bottom"
         \/ x = Width /\ pc' = "done" /\ x' = x
  BY DEF KeptStep, BottomRow
<1>2. y = Height /\ x \in 1 .. Width /\ Width \in Nat /\ Height \in Nat /\ Height >= 1
  BY <1>1, SizeFacts DEF BorderInv, IInv, TypeOK
<1>3. PICK m : m = PixelAt(x, y)
  OBVIOUS
<1>4. m \in 1 .. Len(label) /\ Column(m) = x /\ Row(m) = Height
  <2>1. Len(currentRow) = Width
    BY <1>1 DEF IInv, RowsInv, Scanning, Merging
  <2>2. m \in 1 .. Len(label)
    BY <1>2, <1>3, <2>1 DEF PartsInv, CellsInv
  <2> QED
    BY <1>2, <1>3, <2>2, PixelInPlace
<1>5. RegionOfPixel[m] = regionOf[result]
  <2>1. RootOf(currentRow[x]) = result
    BY <1>1, BottomRoots
  <2>2. Len(currentRow) = Width
    BY <1>1 DEF IInv, RowsInv, Scanning, Merging
  <2>3. RootOf(currentRow[x]) = RootOf(label[m])
    BY <1>2, <1>3, <2>2 DEF PartsInv, CellsInv
  <2> QED
    BY <1>4, <2>1, <2>3, PixelRegions
<1>6. ASSUME NEW p \in 1 .. Len(label) PROVE Marked(p)' <=> Marked(p) \/ p \in {m}
  <2>1. Len(label) \in Nat
    BY <1>1, SizeFacts DEF IInv, CountInv
  <2>2. Column(p) \in 1 .. Width /\ p = PixelAt(Column(p), Row(p))
    BY <2>1, PlaceOfPixel
  <2>3. Row(p) = Height /\ Column(p) = x <=> p = m
    BY <1>2, <1>3, <1>4, <2>2
  <2>4. CASE x < Width /\ x' = x + 1 /\ pc' = "bottom"
    <3>1. Column(p) < x' <=> Column(p) < x \/ Column(p) = x
      BY <1>2, <2>2, <2>4
    <3> QED
      BY <1>1, <2>3, <2>4, <3>1 DEF Marked
  <2>5. CASE x = Width /\ pc' = "done" /\ x' = x
    <3>1. Column(p) < x \/ Column(p) = x
      BY <1>2, <2>2, <2>5
    <3> QED
      BY <1>1, <2>3, <2>5, <3>1 DEF Marked
  <2> QED
    BY <1>1, <2>4, <2>5
<1>7. \A t \in Live : Root \in flags'[t] <=> Root \in flags[t] \/ t = RegionOfPixel[m]
  <2>1. PICK h : h = regionOf[result]
    OBVIOUS
  <2>2. flags' = [flags EXCEPT ![h] = @ \cup {Root}]
    BY <2>1 DEF BottomRow
  <2>3. Live \subseteq Regions /\ flags \in [Regions -> SUBSET Flags]
    BY SizeFacts, SMTT(60) DEF IInv, TypeOK, Live, Regions
  <2> QED
    BY <1>5, <2>1, <2>2, <2>3
<1> QED
  BY <1>1, <1>2, <1>4, <1>6, <1>7, KeptStepRegions, OneMarked

LEMMA BorderStep ==
    ASSUME IInv, PartsInv, BorderInv, [Next]_vars
    PROVE  BorderInv'
<1>1. CASE KeptStep
  BY <1>1, ListStepMarks, PixelDoneMarks, BottomRowMarks DEF KeptStep
<1>2. CASE FreeMerged
  BY <1>2, FreeMergedMarks
<1>3. CASE StepSegmenter
  <2>1. pc' = "read" /\ regionCount' = 0
    BY <1>3 DEF StepSegmenter
  <2> QED
    BY <2>1 DEF BorderInv, Live
<1>4. ASSUME NEW c \in Colours, ReadWithoutMerge(c) PROVE BorderInv'
  BY <1>4, ReadMarks
<1> QED
  BY <1>1, <1>2, <1>3, <1>4, StepKinds

THEOREM BorderInvariant == Spec => []BorderInv
<1>1. Init => BorderInv
  BY DEF Init, BorderInv, Live
<1>2. IInv /\ PartsInv /\ BorderInv /\ [Next]_vars => BorderInv'
  BY BorderStep
<1> QED
  BY <1>1, <1>2, InductiveInvariant, PartsInvariant, PTL DEF Spec

-----------------------------------------------------------------------------
(***************************************************************************)
(* The bounding boxes                                                      *)
(***************************************************************************)
\* The pixels of a region, and those of the run that the last pixel belongs to: merge_regions and
\* build_regions set the right side of a box only when a run of its row ends.
PixelsIn(r) == {p \in 1 .. Len(label) : RegionOfPixel[p] = r}
OpenRun == {p \in 1 .. Len(label) : Row(p) = Row(Len(label)) /\ RegionOfPixel[p] = RegionOfPixel[Len(label)]}

\* b is the smallest box around the pixels ps, except for the right side of the pixels in open.
Covers(b, ps, open) ==
    /\ \A p \in ps : /\ b.left <= Column(p)
                     /\ b.top <= Row(p)
                     /\ Row(p) <= b.bottom
                     /\ p \in open \/ Column(p) <= b.right
    /\ \E p \in ps : Column(p) = b.left
    /\ \E p \in ps : Column(p) = b.right
    /\ \E p \in ps : Row(p) = b.top
    /\ \E p \in ps : Row(p) = b.bottom

BoxesInv == \A r \in Live : Root \in flags[r] \/ Covers(box[r], PixelsIn(r), OpenRun)

LEMMA KeptBoxes ==
    ASSUME IInv, PartsInv, BoxesInv, KeptStep
    PROVE  BoxesInv'
<1>1. RegionsKept
  BY KeptStepRegions
<1>2. label' = label /\ RegionOfPixel' = RegionOfPixel /\ Live' = Live
  BY <1>1 DEF RegionsKept
<1>3. box' = box
  BY ListStepFlags, RightEdgeFlags
     DEF KeptStep, vars, regionVars, FollowRedirect, MergeRegions, NextColumn, NextRow, LastPixel, BottomRow
<1>4. Live \subseteq Regions
  BY SizeFacts DEF IInv, TypeOK, Live, Regions
<1>5. \A r \in Live : flags[r] \subseteq flags'[r]
  BY <1>4, KeptStepFlags
<1>6. OpenRun' = OpenRun
  BY <1>2 DEF OpenRun
<1>7. \A r \in Live : PixelsIn(r)' = PixelsIn(r)
  BY <1>2 DEF PixelsIn
<1> QED
  BY <1>2, <1>3, <1>5, <1>6, <1>7 DEF BoxesInv

\* Where the pixels read so far are, and the numbers of their boxes.
LEMMA PixelPlaces ==
    ASSUME IInv
    PROVE  /\ Len(label) \in Nat
           /\ \A p \in 1 .. Len(label) : Column(p) \in Nat /\ Row(p) \in Nat /\ Column(p) \in 1 .. Width
           /\ \A r \in Regions : /\ box[r].left \in Nat /\ box[r].right \in Nat
                                 /\ box[r].top \in Nat /\ box[r].bottom \in Nat
<1>1. Len(label) \in Nat /\ label \in Seq(Refs)
  BY DEF IInv, TypeOK
<1>2. \A p \in 1 .. Len(label) : Column(p) \in 1 .. Width /\ Row(p) \in Nat
  BY <1>1, PlaceOfPixel
<1>3. \A r \in Regions : box[r] \in Boxes
  BY DEF IInv, TypeOK
<1> QED
  BY <1>1, <1>2, <1>3, SizeFacts DEF Boxes

\* The pixel to the left and the one above.
LEMMA PlacesBeside ==
    ASSUME IInv, PartsInv, (pc = "read" /\ Resolved) \/ Merging
    PROVE  /\ x \in 1 .. Width /\ y \in 1 .. Height /\ x \in Nat /\ y \in Nat
           /\ Len(label) = Position - 1 /\ Position \in Nat
           /\ Column(Position) = x /\ Row(Position) = y
           /\ x > 1 => /\ Position - 1 \in 1 .. Len(label)
                       /\ Column(Position - 1) = x - 1 /\ Row(Position - 1) = y
                       /\ RegionOfPixel[Position - 1] = regionOf[West]
           /\ y > 1 => /\ Position - Width \in 1 .. Len(label)
                       /\ Column(Position - Width) = x /\ Row(Position - Width) = y - 1
                       /\ RegionOfPixel[Position - Width] = regionOf[North]
<1>1. x \in 1 .. Width /\ y \in 1 .. Height /\ x \in Nat /\ y \in Nat /\ Width \in Nat
  BY SizeFacts DEF IInv, TypeOK
<1>2. /\ Position = PixelAt(x, y) /\ Position \in Nat
      /\ x > 1 => Position - 1 = PixelAt(x - 1, y)
      /\ y > 1 => Position - Width = PixelAt(x, y - 1)
  BY <1>1, RowOfPixels
<1>3. Column(Position) = x /\ Row(Position) = y
  BY <1>1, <1>2, PixelInPlace
<1>4. x > 1 => Column(Position - 1) = x - 1 /\ Row(Position - 1) = y
  <2> SUFFICES ASSUME x > 1 PROVE Column(Position - 1) = x - 1 /\ Row(Position - 1) = y
    OBVIOUS
  <2>1. x - 1 \in 1 .. Width /\ y >= 1
    BY <1>1
  <2> QED
    BY <1>1, <1>2, <2>1, PixelInPlace
<1>5. y > 1 => Column(Position - Width) = x /\ Row(Position - Width) = y - 1
  <2> SUFFICES ASSUME y > 1 PROVE Column(Position - Width) = x /\ Row(Position - Width) = y - 1
    OBVIOUS
  <2>1. y - 1 \in Nat /\ y - 1 >= 1
    BY <1>1
  <2> QED
    BY <1>1, <1>2, <2>1, PixelInPlace
<1>6. Len(label) = Position - 1
  BY DEF IInv, CountInv, Merging
<1>7. /\ Beside(Position) = (IF x > 1 THEN {Position - 1} ELSE {})
                                \cup (IF y > 1 THEN {Position - Width} ELSE {})
      /\ Beside(Position) \subseteq 1 .. Len(label)
      /\ x > 1 => RegionOfPixel[Position - 1] = regionOf[West]
      /\ y > 1 => RegionOfPixel[Position - Width] = regionOf[North]
  BY RegionsBeside
<1>8. x > 1 => Position - 1 \in 1 .. Len(label)
  BY <1>7
<1>9. y > 1 => Position - Width \in 1 .. Len(label)
  BY <1>7
<1> QED
  BY <1>1, <1>2, <1>3, <1>4, <1>5, <1>6, <1>7, <1>8, <1>9

\* When a run ends, the box of its region reaches as far to the right as the run does.
LEMMA WestRightBox ==
    ASSUME IInv, PartsInv, NEW h \in Regions, h = regionOf[West], NEW b, b = WestRight
    PROVE  /\ b[h].left = box[h].left /\ b[h].top = box[h].top /\ b[h].bottom = box[h].bottom
           /\ b[h].right = IF box[h].right < x - 1 THEN x - 1 ELSE box[h].right
           /\ \A t \in Regions : t # h => b[t] = box[t]
<1>1. box \in [Regions -> Boxes]
  BY DEF IInv, TypeOK
<1>2. box[h] \in Boxes
  BY <1>1
<1> QED
  BY <1>1, <1>2 DEF WestRight, Boxes

LEMMA NorthBottomBox ==
    ASSUME IInv, PartsInv, NEW g \in Regions, g = regionOf[North],
           NEW h \in Regions, h = regionOf[West], g # h,
           NEW w, w = WestRight, NEW b, b = NorthBottom
    PROVE  /\ b[g].left = box[g].left /\ b[g].top = box[g].top /\ b[g].right = box[g].right
           /\ b[g].bottom = y
           /\ \A t \in Regions : t # g => b[t] = w[t]
<1>1. box \in [Regions -> Boxes]
  BY DEF IInv, TypeOK
<1>2. DOMAIN w = Regions
  BY <1>1 DEF WestRight
<1>3. w[g] = box[g] /\ box[g] \in Boxes
  BY <1>1, WestRightBox
<1>4. b = [w EXCEPT ![g].bottom = y]
  BY DEF NorthBottom
<1>5. b[g] = [w[g] EXCEPT !.bottom = y]
  BY <1>2, <1>4
<1>6. \A t \in Regions : t # g => b[t] = w[t]
  BY <1>2, <1>4
<1>7. PICK v : v = w[g]
  OBVIOUS
<1>8. v \in [left : 0 .. Width, top : 0 .. Height, right : 0 .. Width, bottom : 0 .. Height]
  BY <1>3, <1>7 DEF Boxes
<1>9. b[g] = [v EXCEPT !.bottom = y]
  BY <1>5, <1>7
<1>10. b[g].left = v.left /\ b[g].top = v.top /\ b[g].right = v.right /\ b[g].bottom = y
  BY <1>8, <1>9
<1> QED
  BY <1>3, <1>6, <1>7, <1>10

\* On the first row and at the left edge the last run belongs to a region adjacent to the root.
LEMMA RunAtEdge ==
    ASSUME IInv, PartsInv, BorderInv, BoxesInv, pc = "read", Resolved, x = 1 \/ y = 1
    PROVE  \A t \in Live : Root \in flags[t] \/ Covers(box[t], PixelsIn(t), {})
<1> SUFFICES ASSUME NEW t \in Live, Root \notin flags[t] PROVE Covers(box[t], PixelsIn(t), {})
  OBVIOUS
<1>1. /\ x \in 1 .. Width /\ y \in 1 .. Height /\ Len(label) = Position - 1 /\ Position \in Nat
      /\ Width \in Nat /\ Width >= 1
  BY PlacesBeside, SizeFacts
<1>2. ASSUME NEW p \in 1 .. Len(label), RegionOfPixel[p] = t PROVE ~Marked(p)
  BY <1>2 DEF BorderInv
<1>3. Covers(box[t], PixelsIn(t), OpenRun)
  BY DEF BoxesInv
<1>4. ASSUME NEW p \in OpenRun PROVE RegionOfPixel[p] # t
  <2>1. p \in 1 .. Len(label) /\ RegionOfPixel[p] = RegionOfPixel[Len(label)]
    BY <1>4 DEF OpenRun
  <2> SUFFICES Marked(Len(label))
    BY <1>1, <1>2, <2>1
  <2>2. PICK m : m = Len(label)
    OBVIOUS
  <2>3. m \in 1 .. Position /\ m # Position /\ m \in Nat /\ m >= 1
    BY <1>1, <2>1, <2>2
  <2>4. Column(m) \in 1 .. Width /\ Row(m) \in 1 .. y
    BY <1>1, <2>3, PlaceBefore
  <2>5. CASE y = 1
    BY <2>2, <2>4, <2>5, SizeFacts DEF Marked
  <2>6. CASE y > 1 /\ x = 1
    <3>1. PixelAt(Width, y - 1) = m
      <4>1. (y - 1 - 1) * Width + Width = (y - 1) * Width
        BY <1>1, SizeFacts
      <4> QED
        BY <1>1, <2>2, <2>6, <4>1 DEF PixelAt, Position
    <3>2. Width \in 1 .. Width /\ y - 1 \in Nat /\ y - 1 >= 1
      BY <1>1, <2>6, SizeFacts
    <3>3. Column(m) = Width
      BY <3>1, <3>2, PixelInPlace
    <3> QED
      BY <2>2, <3>3 DEF Marked
  <2> QED
    BY <1>1, <2>5, <2>6, SizeFacts
<1>5. PixelsIn(t) \cap OpenRun = {}
  BY <1>4 DEF PixelsIn
<1> QED
  BY <1>3, <1>5 DEF Covers

\* The last run is that of the pixel to the left.
LEMMA RunOfWest ==
    ASSUME IInv, PartsInv, (pc = "read" /\ Resolved) \/ Merging, x > 1
    PROVE  \A p \in OpenRun : /\ p \in 1 .. Len(label) /\ RegionOfPixel[p] = regionOf[West]
                              /\ Row(p) = y /\ Column(p) \in Nat /\ Column(p) <= x - 1
<1>1. /\ x \in 1 .. Width /\ y \in 1 .. Height /\ Len(label) = Position - 1 /\ Position \in Nat
      /\ Row(Position - 1) = y /\ RegionOfPixel[Position - 1] = regionOf[West]
  BY PlacesBeside
<1> SUFFICES ASSUME NEW p \in OpenRun
             PROVE  /\ p \in 1 .. Len(label) /\ RegionOfPixel[p] = regionOf[West]
                    /\ Row(p) = y /\ Column(p) \in Nat /\ Column(p) <= x - 1
  OBVIOUS
<1>2. p \in 1 .. Len(label) /\ RegionOfPixel[p] = regionOf[West] /\ Row(p) = y
  BY <1>1 DEF OpenRun
<1>3. p \in 1 .. Position /\ p # Position
  BY <1>1, <1>2
<1> QED
  BY <1>1, <1>2, <1>3, PlaceBefore, SizeFacts

LEMMA RunClosed ==
    ASSUME IInv, PartsInv, BoxesInv, pc = "read", Resolved, x > 1, NEW b, b = WestRight
    PROVE  \A t \in Live : Root \in flags[t] \/ Covers(b[t], PixelsIn(t), {})
<1> SUFFICES ASSUME NEW t \in Live, Root \notin flags[t] PROVE Covers(b[t], PixelsIn(t), {})
  OBVIOUS
<1>1. /\ x \in Nat /\ y \in Nat /\ Len(label) = Position - 1 /\ Position - 1 \in 1 .. Len(label)
      /\ Column(Position - 1) = x - 1 /\ RegionOfPixel[Position - 1] = regionOf[West]
  BY PlacesBeside
<1>2. PICK h : h = regionOf[West]
  OBVIOUS
<1>3. h \in Regions /\ t \in Regions
  <2>1. Live \subseteq Regions
    BY SizeFacts DEF IInv, TypeOK, Live, Regions
  <2> QED
    BY <1>1, <1>2, <2>1, PixelRegions
<1>4. /\ b[h].left = box[h].left /\ b[h].top = box[h].top /\ b[h].bottom = box[h].bottom
      /\ b[h].right = IF box[h].right < x - 1 THEN x - 1 ELSE box[h].right
      /\ \A u \in Regions : u # h => b[u] = box[u]
  BY <1>2, <1>3, WestRightBox
<1>5. Covers(box[t], PixelsIn(t), OpenRun)
  BY DEF BoxesInv
<1>6. \A p \in OpenRun : RegionOfPixel[p] = h /\ Column(p) <= x - 1
  BY <1>2, RunOfWest
<1>7. CASE t # h
  <2>1. PixelsIn(t) \cap OpenRun = {}
    BY <1>6, <1>7 DEF PixelsIn
  <2> QED
    BY <1>3, <1>4, <1>5, <1>7, <2>1 DEF Covers
<1>8. CASE t = h
  <2>1. Position - 1 \in PixelsIn(t)
    BY <1>1, <1>2, <1>8 DEF PixelsIn
  <2>2. box[t].right \in Nat /\ \A p \in PixelsIn(t) : Column(p) \in Nat
    BY <1>3, PixelPlaces DEF PixelsIn
  <2>3. \A p \in PixelsIn(t) : Column(p) <= b[t].right
    <3> SUFFICES ASSUME NEW p \in PixelsIn(t) PROVE Column(p) <= b[t].right
      OBVIOUS
    <3>1. p \in OpenRun \/ Column(p) <= box[t].right
      BY <1>5 DEF Covers
    <3>2. Column(p) <= x - 1 \/ Column(p) <= box[t].right
      BY <1>6, <3>1
    <3> QED
      BY <1>1, <1>4, <1>8, <2>2, <3>2
  <2>4. \E p \in PixelsIn(t) : Column(p) = b[t].right
    <3>1. b[t].right = x - 1 \/ b[t].right = box[t].right
      BY <1>4, <1>8
    <3> QED
      BY <1>1, <1>5, <2>1, <3>1 DEF Covers
  <2> QED
    BY <1>4, <1>5, <1>8, <2>3, <2>4 DEF Covers
<1> QED
  BY <1>7, <1>8

-----------------------------------------------------------------------------
\* A set of pixels with a box gets one more pixel.
LEMMA OneMoreCovered ==
    ASSUME NEW b, NEW new, NEW ps, NEW open, NEW more, Covers(b, ps, open), open \subseteq more,
           NEW n, n \in more, new.left = b.left, new.top = b.top, new.right = b.right,
           b.left <= Column(n), b.top <= Row(n), Row(n) <= new.bottom,
           \A p \in ps : Row(p) <= new.bottom, \E p \in ps \cup {n} : Row(p) = new.bottom
    PROVE  Covers(new, ps \cup {n}, more)
BY DEF Covers

\* A step that gives the pixel at the cursor its label.
LEMMA GrownPixels ==
    ASSUME NEW r, RegionGrown(r), NEW n, n = Position, Len(label) \in Nat
    PROVE  /\ \A t : PixelsIn(t)' = IF t = r THEN PixelsIn(t) \cup {n} ELSE PixelsIn(t)
           /\ n \in OpenRun'
           /\ \A p \in 1 .. Len(label) : Row(p) = Row(n) /\ RegionOfPixel[p] = r => p \in OpenRun'
<1>1. /\ Len(label) = n - 1 /\ Len(label') = n /\ n \in Nat /\ n >= 1
      /\ \A p \in 1 .. Len(label) : RegionOfPixel'[p] = RegionOfPixel[p]
      /\ RegionOfPixel'[n] = r
  BY DEF RegionGrown
<1>2. 1 .. Len(label') = (1 .. Len(label)) \cup {n} /\ n \notin 1 .. Len(label) /\ n = Len(label')
  BY <1>1
<1>3. ASSUME NEW t PROVE PixelsIn(t)' = IF t = r THEN PixelsIn(t) \cup {n} ELSE PixelsIn(t)
  BY <1>1, <1>2 DEF PixelsIn
<1>4. n \in OpenRun'
  BY <1>1, <1>2 DEF OpenRun
<1>5. \A p \in 1 .. Len(label) : Row(p) = Row(n) /\ RegionOfPixel[p] = r => p \in OpenRun'
  BY <1>1, <1>2 DEF OpenRun
<1> QED
  BY <1>3, <1>4, <1>5

LEMMA ReadBoxes ==
    ASSUME IInv, PartsInv, BorderInv, BoxesInv, BorderInv', NEW c \in Colours, ReadWithoutMerge(c)
    PROVE  BoxesInv'
<1>1. PICK r : ReadPart(c, r)
  BY PartRead
<1>2. pc = "read" /\ Resolved /\ pc' = "link" /\ UNCHANGED <<x, y>> /\ RegionGrown(r)
  BY <1>1 DEF ReadPart, NewPart, JoinedPart, ReadWithoutMerge, FirstPixel, TopLine, LeftEdge,
              ExtendWest, ExtendNorth, CentreNew, InCentre, ReadPixel
<1>3. PICK n : n = Position
  OBVIOUS
<1>4. /\ x \in Nat /\ y \in Nat /\ x >= 1 /\ y >= 1
      /\ Len(label) = n - 1 /\ n \in Nat /\ Column(n) = x /\ Row(n) = y
      /\ x > 1 => /\ n - 1 \in 1 .. Len(label)
                  /\ Column(n - 1) = x - 1 /\ Row(n - 1) = y
                  /\ RegionOfPixel[n - 1] = regionOf[West]
      /\ y > 1 => /\ n - Width \in 1 .. Len(label)
                  /\ Column(n - Width) = x /\ Row(n - Width) = y - 1
                  /\ RegionOfPixel[n - Width] = regionOf[North]
  BY <1>2, <1>3, PlacesBeside
<1>5. /\ Len(label) \in Nat
      /\ \A p \in 1 .. Len(label) : Column(p) \in Nat /\ Row(p) \in Nat /\ Row(p) <= y
      /\ \A t \in Regions : /\ box[t].left \in Nat /\ box[t].right \in Nat
                            /\ box[t].top \in Nat /\ box[t].bottom \in Nat
  <2>1. \A p \in 1 .. Len(label) : p \in 1 .. Position
    BY <1>3, <1>4
  <2>2. \A p \in 1 .. Len(label) : Row(p) <= y
    BY <2>1, PlaceBefore DEF IInv, TypeOK
  <2> QED
    BY <2>2, PixelPlaces
<1>6. /\ \A t : PixelsIn(t)' = IF t = r THEN PixelsIn(t) \cup {n} ELSE PixelsIn(t)
      /\ n \in OpenRun'
      /\ \A p \in 1 .. Len(label) : Row(p) = y /\ RegionOfPixel[p] = r => p \in OpenRun'
  BY <1>2, <1>3, <1>4, <1>5, GrownPixels
<1>7. Live \subseteq Regions /\ flags \in [Regions -> SUBSET Flags] /\ box \in [Regions -> Boxes]
  BY SizeFacts, SMTT(60) DEF IInv, TypeOK, Live, Regions
<1>8. \A p \in 1 .. Len(label) : RegionOfPixel[p] \in Live /\ colour[RegionOfPixel[p]] = source[p]
  BY PixelRegions
<1>9. PICK b : b = IF x = 1 \/ y = 1 THEN box ELSE WestRight
  OBVIOUS
<1>10. \A t \in Live : Root \in flags[t] \/ Covers(b[t], PixelsIn(t), {})
  <2>1. CASE x = 1 \/ y = 1
    BY <1>2, <1>9, <2>1, RunAtEdge
  <2>2. CASE ~(x = 1 \/ y = 1)
    BY <1>2, <1>4, <1>9, <2>2, RunClosed
  <2> QED
    BY <2>1, <2>2
<1>11. ASSUME NEW t, NEW a, t # r, Covers(a, PixelsIn(t), {}) PROVE Covers(a, PixelsIn(t)', OpenRun')
  BY <1>6, <1>11 DEF Covers
<1>12. CASE NewPart(c, r)
  <2>1. /\ r \in Regions /\ r \notin Live /\ Live' = Live \cup {r}
        /\ flags' = [flags EXCEPT ![r] = IF x = 1 \/ y = 1 THEN {Root} ELSE {}]
        /\ box' = [b EXCEPT ![r] = [left |-> x, top |-> y, right |-> x, bottom |-> y]]
    BY <1>9, <1>12 DEF NewPart
  <2>2. DOMAIN b = Regions
    BY <1>7, <1>9 DEF WestRight
  <2>3. PixelsIn(r)' = {n}
    BY <1>6, <1>8, <2>1 DEF PixelsIn
  <2>4. box'[r] = [left |-> x, top |-> y, right |-> x, bottom |-> y]
    BY <2>1, <2>2
  <2>5. Covers(box'[r], PixelsIn(r)', OpenRun')
    BY <1>4, <1>6, <2>3, <2>4 DEF Covers
  <2>6. \A t \in Live : t # r /\ flags'[t] = flags[t] /\ box'[t] = b[t]
    BY <1>7, <2>1, <2>2
  <2> QED
    BY <1>10, <1>11, <2>1, <2>5, <2>6 DEF BoxesInv
<1>13. CASE JoinedPart(c, r)
  <2>1. /\ r \in Live /\ Live' = Live /\ flags' = flags /\ r \in Regions
        /\ box' = IF x > 1 /\ y > 1 /\ c # RegionColour(West) THEN NorthBottom ELSE box
        /\ SameColour(c) # {} /\ \A m \in SameColour(c) : RegionOfPixel[m] = r
    BY <1>7, <1>13 DEF JoinedPart
  <2>2. ASSUME \A t \in Live : t # r => (Root \in flags[t] \/ Covers(box'[t], PixelsIn(t), {})),
               Root \in flags[r] \/ Covers(box'[r], PixelsIn(r)', OpenRun')
        PROVE  BoxesInv'
    BY <1>11, <2>1, <2>2 DEF BoxesInv
  <2>3. CASE x = 1 \/ y = 1
    <3>1. Marked(n)'
      BY <1>2, <1>4, <2>3 DEF Marked
    <3>2. n \in 1 .. Len(label') /\ RegionOfPixel'[n] = r
      BY <1>2, <1>3, <1>4 DEF RegionGrown
    <3>3. Root \in flags[r]
      BY <2>1, <3>1, <3>2 DEF BorderInv
    <3>4. box' = b
      BY <1>4, <1>9, <2>1, <2>3
    <3> QED
      BY <1>10, <2>2, <3>3, <3>4
  <2>4. ASSUME x > 1, y > 1 PROVE BoxesInv'
    <3> DEFINE w == RegionOfPixel[n - 1]
               g == RegionOfPixel[n - Width]
    <3>1. w \in Regions /\ g \in Regions /\ w = regionOf[West] /\ g = regionOf[North]
          /\ n - 1 \in 1 .. Len(label) /\ n - Width \in 1 .. Len(label)
      BY <1>4, <1>7, <1>8, <2>4
    <3>2. RegionColour(West) = source[n - 1]
      BY <1>8, <3>1 DEF RegionColour
    <3>3. Beside(n) = {n - 1, n - Width}
      BY <1>2, <1>3, <2>4, RegionsBeside
    <3>4. b = WestRight
      BY <1>9, <2>4
    <3> HIDE DEF w, g
    <3>5. /\ b[w].left = box[w].left /\ b[w].top = box[w].top /\ b[w].bottom = box[w].bottom
          /\ \A u \in Regions : u # w => b[u] = box[u]
      BY <3>1, <3>4, WestRightBox
    <3>6. CASE c # RegionColour(West)
      <4>1. n - Width \in SameColour(c) /\ source[n - 1] # c
        BY <1>3, <2>1, <3>2, <3>3, <3>6 DEF SameColour
      <4>2. g = r /\ source[n - Width] = c
        BY <2>1, <4>1 DEF SameColour, g
      <4>3. w # r
        BY <1>8, <3>1, <4>1, <4>2 DEF w, g
      <4>4. PICK new : new = NorthBottom
        OBVIOUS
      <4>5. box' = new
        BY <2>1, <2>4, <3>6, <4>4
      <4>6. /\ new[g].left = box[g].left /\ new[g].top = box[g].top /\ new[g].right = box[g].right
            /\ new[g].bottom = y
            /\ \A u \in Regions : u # g => new[u] = b[u]
        BY <3>1, <3>4, <4>2, <4>3, <4>4, NorthBottomBox
      <4>7. \A t \in Live : t # r => (Root \in flags[t] \/ Covers(box'[t], PixelsIn(t), {}))
        BY <1>7, <1>10, <4>2, <4>5, <4>6
      <4>8. ASSUME Root \notin flags[r] PROVE Covers(box'[r], PixelsIn(r)', OpenRun')
        <5>1. Covers(box[r], PixelsIn(r), {})
          BY <1>10, <2>1, <3>5, <4>3, <4>8
        <5>2. n - Width \in PixelsIn(r)
          BY <3>1, <4>2 DEF PixelsIn, g
        <5>3. box[r].left <= Column(n) /\ box[r].top <= Row(n)
          <6>1. box[r].left <= x /\ box[r].top <= y - 1 /\ box[r].top \in Nat
            BY <1>4, <1>5, <2>1, <2>4, <5>1, <5>2 DEF Covers
          <6> QED
            BY <1>4, <6>1
        <5>4. \A p \in PixelsIn(r) : Row(p) <= y
          BY <1>5 DEF PixelsIn
        <5>5. /\ new[r].left = box[r].left /\ new[r].top = box[r].top /\ new[r].right = box[r].right
              /\ new[r].bottom = y /\ Row(n) = y /\ Row(n) <= new[r].bottom
              /\ \E p \in PixelsIn(r) \cup {n} : Row(p) = new[r].bottom
              /\ \A p \in PixelsIn(r) : Row(p) <= new[r].bottom
          BY <1>4, <4>2, <4>6, <5>4
        <5>6. Covers(new[r], PixelsIn(r) \cup {n}, OpenRun')
          BY <1>6, <5>1, <5>3, <5>5 DEF Covers
        <5> QED
          BY <1>6, <4>5, <5>6
      <4> QED
        BY <2>2, <4>7, <4>8
    <3>7. CASE c = RegionColour(West)
      <4>1. n - 1 \in SameColour(c)
        BY <1>3, <3>2, <3>3, <3>7 DEF SameColour
      <4>2. w = r /\ box' = box
        BY <2>1, <3>7, <4>1 DEF w
      <4>3. \A t \in Live : t # r => (Root \in flags[t] \/ Covers(box'[t], PixelsIn(t), {}))
        BY <1>7, <1>10, <3>5, <4>2
      <4>4. ASSUME Root \notin flags[r] PROVE Covers(box'[r], PixelsIn(r)', OpenRun')
        <5>1. Covers(box[r], PixelsIn(r), OpenRun)
          BY <2>1, <4>4 DEF BoxesInv
        <5>2. n - 1 \in PixelsIn(r)
          BY <3>1, <4>2 DEF PixelsIn, w
        <5>3. OpenRun \subseteq OpenRun'
          <6>1. \A p \in OpenRun : p \in 1 .. Len(label) /\ RegionOfPixel[p] = r /\ Row(p) = y
            BY <1>2, <2>4, <3>1, <4>2, RunOfWest
          <6> QED
            BY <1>6, <6>1
        <5>4. /\ box[r].left <= Column(n) /\ box[r].top <= Row(n) /\ Row(n) <= box[r].bottom
              /\ \A p \in PixelsIn(r) : Row(p) <= box[r].bottom
          <6>1. /\ box[r].left <= x - 1 /\ box[r].top <= y /\ y <= box[r].bottom /\ box[r].left \in Nat
                /\ \A p \in PixelsIn(r) : Row(p) <= box[r].bottom
            BY <1>4, <1>5, <2>1, <2>4, <5>1, <5>2 DEF Covers
          <6> QED
            BY <1>4, <6>1
        <5>5. \E p \in PixelsIn(r) \cup {n} : Row(p) = box[r].bottom
          BY <5>1 DEF Covers
        <5>6. Covers(box[r], PixelsIn(r) \cup {n}, OpenRun')
          BY <1>6, <5>1, <5>3, <5>4, <5>5, OneMoreCovered
        <5> QED
          BY <1>6, <4>2, <5>6
      <4> QED
        BY <2>2, <4>3, <4>4
    <3> QED
      BY <3>6, <3>7
  <2> QED
    BY <1>4, <2>3, <2>4
<1> QED
  BY <1>1, <1>12, <1>13 DEF ReadPart

\* A merged region's box is the smallest around the boxes of the two.
LEMMA UnionCovers ==
    ASSUME NEW b1, NEW b2, NEW ps1, NEW ps2, NEW open, NEW more, NEW n, NEW m \in ps2,
           \A b \in {b1, b2} : b.left \in Nat /\ b.right \in Nat /\ b.top \in Nat /\ b.bottom \in Nat,
           \A p \in ps1 \cup ps2 \cup {n} : Column(p) \in Nat /\ Row(p) \in Nat,
           Covers(b1, ps1, {}), Covers(b2, ps2, open), open \subseteq more, n \in more,
           Row(m) = Row(n), Column(m) <= Column(n)
    PROVE  Covers(Union(b1, b2), ps1 \cup ps2 \cup {n}, more)
<1> DEFINE u == Union(b1, b2)
           ps == ps1 \cup ps2 \cup {n}
<1>1. /\ u.left = Lower(b1.left, b2.left) /\ u.top = Lower(b1.top, b2.top)
      /\ u.right = Higher(b1.right, b2.right) /\ u.bottom = Higher(b1.bottom, b2.bottom)
  BY DEF Union
<1> HIDE DEF u
<1>2. ASSUME NEW j \in Nat, NEW k \in Nat
      PROVE  /\ Lower(j, k) \in {j, k} /\ Lower(j, k) <= j /\ Lower(j, k) <= k
             /\ Higher(j, k) \in {j, k} /\ Higher(j, k) >= j /\ Higher(j, k) >= k
  BY DEF Lower, Higher
<1>3. /\ u.left \in {b1.left, b2.left} /\ u.left <= b1.left /\ u.left <= b2.left
      /\ u.top \in {b1.top, b2.top} /\ u.top <= b1.top /\ u.top <= b2.top
      /\ u.right \in {b1.right, b2.right} /\ u.right >= b1.right /\ u.right >= b2.right
      /\ u.bottom \in {b1.bottom, b2.bottom} /\ u.bottom >= b1.bottom /\ u.bottom >= b2.bottom
  BY <1>1, <1>2
<1>4. \A p \in ps1 : /\ u.left <= Column(p) /\ u.top <= Row(p) /\ Row(p) <= u.bottom
                     /\ Column(p) <= u.right
  <2> SUFFICES ASSUME NEW p \in ps1
               PROVE  /\ u.left <= Column(p) /\ u.top <= Row(p) /\ Row(p) <= u.bottom
                      /\ Column(p) <= u.right
    OBVIOUS
  <2>1. /\ b1.left <= Column(p) /\ b1.top <= Row(p) /\ Row(p) <= b1.bottom /\ Column(p) <= b1.right
        /\ Column(p) \in Nat /\ Row(p) \in Nat
    BY DEF Covers
  <2> QED
    BY <1>3, <2>1
<1>5. \A p \in ps2 : /\ u.left <= Column(p) /\ u.top <= Row(p) /\ Row(p) <= u.bottom
                     /\ p \in more \/ Column(p) <= u.right
  <2> SUFFICES ASSUME NEW p \in ps2
               PROVE  /\ u.left <= Column(p) /\ u.top <= Row(p) /\ Row(p) <= u.bottom
                      /\ p \in more \/ Column(p) <= u.right
    OBVIOUS
  <2>1. /\ b2.left <= Column(p) /\ b2.top <= Row(p) /\ Row(p) <= b2.bottom
        /\ p \in more \/ Column(p) <= b2.right
        /\ Column(p) \in Nat /\ Row(p) \in Nat
    BY DEF Covers
  <2> QED
    BY <1>3, <2>1
<1>6. u.left <= Column(n) /\ u.top <= Row(n) /\ Row(n) <= u.bottom
  <2>1. /\ u.left <= Column(m) /\ u.top <= Row(m) /\ Row(m) <= u.bottom
        /\ Column(m) \in Nat /\ Column(n) \in Nat /\ u.left \in Nat
    BY <1>3, <1>5
  <2> QED
    BY <2>1
<1>7. /\ \E p \in ps : Column(p) = u.left
      /\ \E p \in ps : Column(p) = u.right
      /\ \E p \in ps : Row(p) = u.top
      /\ \E p \in ps : Row(p) = u.bottom
  BY <1>3 DEF Covers
<1>8. Covers(u, ps, more)
  BY <1>4, <1>5, <1>6, <1>7 DEF Covers
<1> QED
  BY <1>8 DEF u

LEMMA FreeMergedBoxes ==
    ASSUME IInv, PartsInv, BoxesInv, FreeMerged
    PROVE  BoxesInv'
<1>0. PICK s, o : s = R1 /\ o = R2
  OBVIOUS
<1>1. /\ Merging /\ s # o /\ s \in Live /\ o \in Live /\ Live' = Live \ {o}
      /\ x > 1 /\ y > 1 /\ Position' = Position
      /\ Len(label) = Position - 1 /\ Len(label') = Position
      /\ \A p \in 1 .. Len(label) :
            RegionOfPixel'[p] = IF RegionOfPixel[p] = o THEN s ELSE RegionOfPixel[p]
      /\ RegionOfPixel'[Position] = s
      /\ flags'[s] = flags[s] \cup flags[o] /\ box'[s] = Union(box[s], box[o])
      /\ \A t \in Regions \ {s, o} : flags'[t] = flags[t] /\ box'[t] = box[t]
      /\ o = regionOf[West]
  BY <1>0, PartMerged DEF MergedPart, R2
<1>2. PICK n : n = Position
  OBVIOUS
<1>3. /\ x \in Nat /\ y \in Nat /\ n \in Nat /\ Column(n) = x /\ Row(n) = y
      /\ n - 1 \in 1 .. Len(label) /\ Column(n - 1) = x - 1 /\ Row(n - 1) = y
      /\ RegionOfPixel[n - 1] = o
  BY <1>1, <1>2, PlacesBeside
<1>4. /\ Len(label) \in Nat
      /\ \A p \in 1 .. Len(label) : Column(p) \in Nat /\ Row(p) \in Nat
      /\ \A t \in Regions : /\ box[t].left \in Nat /\ box[t].right \in Nat
                            /\ box[t].top \in Nat /\ box[t].bottom \in Nat
  BY PixelPlaces
<1>5. Live \subseteq Regions
  BY SizeFacts DEF IInv, TypeOK, Live, Regions
<1>6. 1 .. Len(label') = (1 .. Len(label)) \cup {n} /\ n \notin 1 .. Len(label) /\ n = Len(label')
  BY <1>1, <1>2, <1>3
<1>7. \A p \in OpenRun : p \in 1 .. Len(label) /\ RegionOfPixel[p] = o /\ Row(p) = y
  BY <1>1, RunOfWest
<1>8. OpenRun \subseteq OpenRun' /\ n \in OpenRun'
  BY <1>1, <1>2, <1>3, <1>6, <1>7 DEF OpenRun
<1>9. PixelsIn(s)' = PixelsIn(s) \cup PixelsIn(o) \cup {n}
  BY <1>1, <1>2, <1>6 DEF PixelsIn
<1>10. \A t \in Live : t \notin {s, o} => PixelsIn(t)' = PixelsIn(t)
  BY <1>1, <1>2, <1>6 DEF PixelsIn
<1>11. \A t \in Live : t # o /\ Root \notin flags[t] => Covers(box[t], PixelsIn(t), {})
  <2> SUFFICES ASSUME NEW t \in Live, t # o, Root \notin flags[t] PROVE Covers(box[t], PixelsIn(t), {})
    OBVIOUS
  <2>1. Covers(box[t], PixelsIn(t), OpenRun)
    BY DEF BoxesInv
  <2>2. PixelsIn(t) \cap OpenRun = {}
    BY <1>7 DEF PixelsIn
  <2> QED
    BY <2>1, <2>2 DEF Covers
<1>12. ASSUME NEW t \in Live', t # s, Root \notin flags'[t] PROVE Covers(box'[t], PixelsIn(t)', OpenRun')
  <2>1. t \in Live /\ t \notin {s, o} /\ Root \notin flags[t] /\ box'[t] = box[t]
    BY <1>1, <1>5, <1>12
  <2>2. Covers(box[t], PixelsIn(t), {})
    BY <1>11, <2>1
  <2>3. Covers(box[t], PixelsIn(t), OpenRun')
    BY <2>2 DEF Covers
  <2> QED
    BY <1>10, <2>1, <2>3
<1>13. ASSUME Root \notin flags'[s] PROVE Covers(box'[s], PixelsIn(s)', OpenRun')
  <2>1. Covers(box[s], PixelsIn(s), {}) /\ Covers(box[o], PixelsIn(o), OpenRun)
    BY <1>1, <1>11, <1>13 DEF BoxesInv
  <2>2. n - 1 \in PixelsIn(o)
    BY <1>3 DEF PixelsIn
  <2>3. \A b \in {box[s], box[o]} : b.left \in Nat /\ b.right \in Nat /\ b.top \in Nat /\ b.bottom \in Nat
    BY <1>1, <1>4, <1>5
  <2>4. \A p \in PixelsIn(s) \cup PixelsIn(o) \cup {n} : Column(p) \in Nat /\ Row(p) \in Nat
    BY <1>3, <1>4 DEF PixelsIn
  <2>5. Row(n - 1) = Row(n) /\ Column(n - 1) <= Column(n)
    BY <1>3
  <2>6. Covers(Union(box[s], box[o]), PixelsIn(s) \cup PixelsIn(o) \cup {n}, OpenRun')
    BY <1>8, <2>1, <2>2, <2>3, <2>4, <2>5, UnionCovers
  <2> QED
    BY <1>1, <1>9, <2>6
<1> QED
  BY <1>12, <1>13 DEF BoxesInv

LEMMA BoxesStep ==
    ASSUME IInv, PartsInv, BorderInv, BoxesInv, [Next]_vars
    PROVE  BoxesInv'
<1>1. CASE KeptStep
  BY <1>1, KeptBoxes
<1>2. CASE FreeMerged
  BY <1>2, FreeMergedBoxes
<1>3. CASE StepSegmenter
  <2>1. regionCount' = 0
    BY <1>3 DEF StepSegmenter
  <2> QED
    BY <2>1 DEF BoxesInv, Live
<1>4. ASSUME NEW c \in Colours, ReadWithoutMerge(c) PROVE BoxesInv'
  BY <1>4, ReadBoxes, BorderStep
<1> QED
  BY <1>1, <1>2, <1>3, <1>4, StepKinds

THEOREM BoxesInvariant == Spec => []BoxesInv
<1>1. Init => BoxesInv
  BY DEF Init, BoxesInv, Live
<1>2. IInv /\ PartsInv /\ BorderInv /\ BoxesInv /\ [Next]_vars => BoxesInv'
  BY BoxesStep
<1> QED
  BY <1>1, <1>2, InductiveInvariant, PartsInvariant, BorderInvariant, PTL DEF Spec

\* At the end of the image exactly the regions that reach its border are adjacent to the root, and
\* the box of every other is the smallest around its pixels.
THEOREM FlagsAndBoxesAreExact == Spec => []FlagsAndBoxesExact
<1>1. ASSUME IInv, PartsInv, BorderInv PROVE RootFlagsExact
  <2> SUFFICES ASSUME pc = "done", NEW r \in Live
               PROVE  Root \in flags[r] <=> \E p \in Pixels : RegionOfPixel[p] = r /\ OnBorder(p)
    BY DEF RootFlagsExact
  <2>1. \A p \in Pixels : Marked(p) <=> OnBorder(p)
    BY DEF Marked, OnBorder
  <2> QED
    BY <1>1, <2>1 DEF BorderInv, Pixels
<1>2. ASSUME IInv, PartsInv, BorderInv, BoxesInv PROVE BoxesExact
  <2> SUFFICES ASSUME pc = "done", NEW r \in Live, Root \notin flags[r]
               PROVE  LET ps == PixelsIn(r) IN
                      /\ \A p \in ps : /\ Column(p) \in box[r].left .. box[r].right
                                       /\ Row(p) \in box[r].top .. box[r].bottom
                      /\ \E p \in ps : Column(p) = box[r].left
                      /\ \E p \in ps : Column(p) = box[r].right
                      /\ \E p \in ps : Row(p) = box[r].top
                      /\ \E p \in ps : Row(p) = box[r].bottom
    BY DEF BoxesExact, PixelsIn, Pixels
  <2>1. Covers(box[r], PixelsIn(r), OpenRun)
    BY <1>2 DEF BoxesInv
  <2>2. r \in Regions
    BY <1>2, SizeFacts DEF IInv, TypeOK, Live, Regions
  <2>3. /\ \A p \in PixelsIn(r) : Column(p) \in Nat /\ Row(p) \in Nat
        /\ box[r].left \in Nat /\ box[r].right \in Nat /\ box[r].top \in Nat /\ box[r].bottom \in Nat
    BY <1>2, <2>2, PixelPlaces DEF PixelsIn
  <2>4. \A p \in PixelsIn(r) : p \notin OpenRun
    <3> SUFFICES ASSUME NEW p \in PixelsIn(r), p \in OpenRun PROVE FALSE
      OBVIOUS
    <3>1. PICK n : n = Len(label)
      OBVIOUS
    <3>2. /\ n = Width * Height /\ Width \in Nat /\ Height \in Nat /\ Width >= 1 /\ Height >= 1
          /\ Width \in 1 .. Width
      BY <1>2, <3>1, SizeFacts DEF IInv, CountInv
    <3>3. n = PixelAt(Width, Height)
      <4>1. (Height - 1) * Width + Width = Width * Height
        BY <3>2
      <4> QED
        BY <3>2, <4>1 DEF PixelAt
    <3>4. Column(n) = Width
      BY <3>2, <3>3, PixelInPlace
    <3>5. Marked(n)
      BY <3>4 DEF Marked
    <3>6. p \in 1 .. n /\ RegionOfPixel[n] = r /\ n \in 1 .. n
      BY <3>1, <3>2 DEF PixelsIn, OpenRun
    <3> QED
      BY <1>2, <3>1, <3>5, <3>6 DEF BorderInv
  <2> QED
    BY <2>1, <2>3, <2>4 DEF Covers
<1> QED
  BY <1>1, <1>2, InductiveInvariant, PartsInvariant, BorderInvariant, BoxesInvariant, PTL
     DEF FlagsAndBoxesExact

-----------------------------------------------------------------------------
(***************************************************************************)
(* The lists and the image                                                 *)
(***************************************************************************)
\* During a merge the two regions count as one.
Rep(r) == IF Merging /\ r = R2 THEN R1 ELSE r

Near(p, m) == (m \in Beside(p) \/ p \in Beside(m)) /\ source[p] # source[m]
Touch(a, b) == \E p, m \in 1 .. Len(label) :
    /\ Near(p, m)
    /\ Rep(RegionOfPixel[p]) = a /\ Rep(RegionOfPixel[m]) = b

Linked(a, b) == \E s, t \in Live : t \in ElementsOf(adjacent[s]) /\ Rep(s) = a /\ Rep(t) = b
Waiting(a, b) == pc = "link" /\ a = Here /\ b \in ElementsOf(neighbours)
Full(a) == \E s \in Live : Rep(s) = a /\ (Saturated \in flags[s] \/ s \in ElementsOf(saturating))
Torn(a) == \E s \in Live : Rep(s) = a /\ Fragmented \in flags[s]
Told(a, b) ==
    \/ Linked(a, b) \/ Linked(b, a)
    \/ Waiting(a, b) \/ Waiting(b, a)
    \/ Full(a) /\ Torn(b)
    \/ Full(b) /\ Torn(a)

\* Regions that touch list each other, or are still to be linked, or one is full and the other knows.
LinksInv ==
    /\ \A a, b \in Regions : Linked(a, b) \/ Waiting(a, b) => Touch(a, b)
    /\ \A a, b \in Regions : Touch(a, b) => Told(a, b)
    /\ \A a \in Regions : Torn(a) => \E b \in Regions : Touch(a, b) /\ Full(b)

LEMMA TouchSymmetric == ASSUME NEW a, NEW b, Touch(a, b) PROVE Touch(b, a)
BY DEF Touch, Near

\* What the list loops do to the regions of a list.
LEMMA WithoutElements ==
    ASSUME NEW S, NEW list \in Seq(S), NEW r, Contains(list, r)
    PROVE  /\ ElementsOf(Without(list, r)) \subseteq ElementsOf(list)
           /\ ElementsOf(list) \subseteq ElementsOf(Without(list, r)) \cup {r}
<1> DEFINE new == Without(list, r)
<1>1. \A t : /\ new \in Seq(S) /\ Count(new, t) = Count(list, t) - (IF r = t THEN 1 ELSE 0)
  BY CountWithout
<1> HIDE DEF new
<1>2. \A t : Count(list, t) \in Nat /\ Count(new, t) \in Nat
  BY <1>1, CountType
<1>3. \A t : (t \in ElementsOf(list) <=> Count(list, t) > 0) /\ (t \in ElementsOf(new) <=> Count(new, t) > 0)
  BY <1>1, ElementsCounted
<1>4. ASSUME NEW t, t # r PROVE Count(new, t) = Count(list, t)
  <2>1. Count(new, t) = Count(list, t) - 0
    BY <1>1, <1>4
  <2> QED
    BY <1>2, <2>1
<1>5. Count(new, r) = Count(list, r) - 1
  BY <1>1
<1>6. \A t : t \in ElementsOf(new) => t \in ElementsOf(list)
  BY <1>2, <1>3, <1>4, <1>5
<1>7. \A t : t \in ElementsOf(list) => t \in ElementsOf(new) \/ t = r
  BY <1>3, <1>4
<1>8. ElementsOf(new) \subseteq ElementsOf(list) /\ ElementsOf(list) \subseteq ElementsOf(new) \cup {r}
  BY <1>6, <1>7
<1> QED
  BY <1>8 DEF new

LEMMA DropElements ==
    ASSUME NEW S, NEW list \in Seq(S), NEW k \in 1 .. Len(list)
    PROVE  /\ ElementsOf(DropEntry(list, k)) \subseteq ElementsOf(list)
           /\ ElementsOf(list) \subseteq ElementsOf(DropEntry(list, k)) \cup {list[k]}
<1> DEFINE new == DropEntry(list, k)
           r == list[k]
<1>1. \A t : /\ new \in Seq(S) /\ Count(new, t) = Count(list, t) - (IF r = t THEN 1 ELSE 0)
  BY CountDropEntry
<1> HIDE DEF new, r
<1>2. \A t : Count(list, t) \in Nat /\ Count(new, t) \in Nat
  BY <1>1, CountType
<1>3. \A t : (t \in ElementsOf(list) <=> Count(list, t) > 0) /\ (t \in ElementsOf(new) <=> Count(new, t) > 0)
  BY <1>1, ElementsCounted
<1>4. ASSUME NEW t, t # r PROVE Count(new, t) = Count(list, t)
  <2>1. Count(new, t) = Count(list, t) - 0
    BY <1>1, <1>4
  <2> QED
    BY <1>2, <2>1
<1>5. Count(new, r) = Count(list, r) - 1
  BY <1>1
<1>6. \A t : t \in ElementsOf(new) => t \in ElementsOf(list)
  BY <1>2, <1>3, <1>4, <1>5
<1>7. \A t : t \in ElementsOf(list) => t \in ElementsOf(new) \/ t = r
  BY <1>3, <1>4
<1>8. ElementsOf(new) \subseteq ElementsOf(list) /\ ElementsOf(list) \subseteq ElementsOf(new) \cup {r}
  BY <1>6, <1>7
<1> QED
  BY <1>8 DEF new, r

LEMMA AllAppended ==
    ASSUME NEW S, NEW list \in Seq(S), NEW e \in S
    PROVE  ElementsOf(Append(list, e)) = ElementsOf(list) \cup {e}
<1>1. /\ Len(Append(list, e)) = Len(list) + 1 /\ Len(list) \in Nat
      /\ \A k \in 1 .. Len(list) : Append(list, e)[k] = list[k]
      /\ Append(list, e)[Len(list) + 1] = e
  OBVIOUS
<1>2. /\ \A k \in 1 .. Len(list) : k \in 1 .. Len(Append(list, e))
      /\ Len(list) + 1 \in 1 .. Len(Append(list, e))
  BY <1>1
<1>3. ElementsOf(list) \cup {e} \subseteq ElementsOf(Append(list, e))
  BY <1>1, <1>2 DEF ElementsOf
<1> QED
  BY <1>3, AppendElements

LEMMA AllReplaced ==
    ASSUME NEW S, NEW list \in Seq(S), NEW r2, NEW r3 \in S, Contains(list, r2)
    PROVE  /\ ElementsOf(list) \subseteq ElementsOf(Replaced(list, r2, r3)) \cup {r2}
           /\ r3 \in ElementsOf(Replaced(list, r2, r3))
<1> DEFINE j == FirstIndex(list, r2)
           new == Replaced(list, r2, r3)
<1>1. j \in 1 .. Len(list) /\ list[j] = r2
  BY FirstIndexFound
<1>2. new = [list EXCEPT ![j] = r3]
  BY DEF Replaced
<1> HIDE DEF j, new
<1>3. Len(new) = Len(list) /\ new[j] = r3 /\ \A k \in 1 .. Len(list) : k # j => new[k] = list[k]
  BY <1>1, <1>2
<1>4. /\ ElementsOf(list) \subseteq ElementsOf(new) \cup {r2}
      /\ r3 \in ElementsOf(new)
  BY <1>1, <1>3 DEF ElementsOf
<1> QED
  BY <1>4 DEF new

\* Adjacency is listed on both sides.
LEMMA ListedBack ==
    ASSUME IInv, NEW s \in Live, NEW t \in ElementsOf(adjacent[s])
    PROVE  s \in Regions /\ t \in Regions /\ t \in Live /\ t # s /\ s \in ElementsOf(adjacent[t])
<1>1. s \in Regions
  BY SizeFacts DEF IInv, TypeOK, Live, Regions
<1>2. t \in Regions /\ t # s /\ t \in Live /\ Contains(adjacent[t], s)
  BY <1>1, ListedBothWays DEF IInv
<1> QED
  BY <1>1, <1>2 DEF Contains, ElementsOf

LEMMA LinkedSymmetric == ASSUME IInv, NEW a, NEW b, Linked(a, b) PROVE Linked(b, a)
BY ListedBack DEF Linked

\* A step that tears no list without saying so.
LEMMA LinksKept ==
    ASSUME LinksInv,
           \A a, b \in Regions : Touch(a, b)' <=> Touch(a, b),
           \A a, b \in Regions : Linked(a, b)' => Linked(a, b) \/ Waiting(a, b) \/ Waiting(b, a),
           \A a, b \in Regions : Waiting(a, b)' => Waiting(a, b),
           \A a \in Regions : Full(a) => Full(a)',
           \A a \in Regions : Torn(a) => Torn(a)',
           \A a \in Regions : Torn(a)' => Torn(a) \/ \E b \in Regions : Touch(a, b) /\ Full(b)',
           \A a, b \in Regions : Linked(a, b) \/ Waiting(a, b) => Told(a, b)'
    PROVE  LinksInv'
<1>1. \A a, b \in Regions : Linked(a, b)' \/ Waiting(a, b)' => Touch(a, b)'
  BY TouchSymmetric DEF LinksInv
<1>2. \A a, b \in Regions : Touch(a, b)' => Told(a, b)'
  <2> SUFFICES ASSUME NEW a \in Regions, NEW b \in Regions, Touch(a, b) PROVE Told(a, b)'
    OBVIOUS
  <2>1. Told(a, b)
    BY DEF LinksInv
  <2>2. Told(b, a)' => Told(a, b)'
    BY DEF Told
  <2> QED
    BY <2>1, <2>2 DEF Told
<1>3. \A a \in Regions : Torn(a)' => \E b \in Regions : Touch(a, b)' /\ Full(b)'
  BY DEF LinksInv
<1>4. Regions' = Regions
  BY DEF Regions
<1> QED
  BY <1>1, <1>2, <1>3 DEF LinksInv

-----------------------------------------------------------------------------
\* What the steps on lists leave alone.
ListFrame ==
    /\ Live' = Live
    /\ pc' = pc \/ (Merging /\ Merging')
    /\ \A r : Rep(r)' = Rep(r)
    /\ \A a, b : Touch(a, b)' <=> Touch(a, b)
    /\ Here' = Here

LEMMA ListStepFrame ==
    ASSUME IInv, PartsInv, ListStep
    PROVE  ListFrame
<1>1. ReferencesKept /\ RegionsKept
  BY ListStepKeeps, KeptStepRegions DEF KeptStep
<1>2. Live' = Live /\ R1' = R1 /\ R2' = R2 /\ Merging' = Merging
  BY <1>1, ReferencesKeptInv
<1>3. \A r : Rep(r)' = Rep(r)
  BY <1>2 DEF Rep
<1>4. source' = source /\ label' = label /\ RegionOfPixel' = RegionOfPixel
  BY <1>1 DEF ReferencesKept, inputVars, RegionsKept
<1>5. \A p, m : Near(p, m)' <=> Near(p, m)
  BY <1>4 DEF Near, Beside, Abstract!Neighbours
<1>6. \A a, b : Touch(a, b)' <=> Touch(a, b)
  BY <1>3, <1>4, <1>5 DEF Touch
<1>7. Here' = Here
  BY <1>1 DEF ReferencesKept, refVars, rowVars, Here
<1>8. pc' = pc \/ (Merging /\ Merging')
  BY <1>1 DEF ReferencesKept
<1> QED
  BY <1>2, <1>3, <1>6, <1>7, <1>8 DEF ListFrame

LEMMA ListTypes ==
    ASSUME IInv
    PROVE  /\ Live \subseteq Regions
           /\ adjacent \in [Regions -> Seq(Regions)] /\ flags \in [Regions -> SUBSET Flags]
           /\ saturating \in Seq(Regions) /\ neighbours \in Seq(Regions)
           /\ \A r \in Live : Rep(r) \in Regions
           /\ \A r \in Live : \A t \in ElementsOf(adjacent[r]) : t \in Live
<1>1. /\ Live \subseteq Regions
      /\ adjacent \in [Regions -> Seq(Regions)] /\ flags \in [Regions -> SUBSET Flags]
      /\ saturating \in Seq(Regions) /\ neighbours \in Seq(Regions)
  BY SizeFacts, SMTT(60) DEF IInv, TypeOK, Live, Regions
<1>2. \A r \in Live : Rep(r) \in Regions
  BY <1>1, MergedRegions DEF Rep
<1> QED
  BY <1>1, <1>2 DEF IInv, BidirectionalAdjacency

\* make_saturated takes a link away and marks the neighbour.
LEMMA DetachLinks ==
    ASSUME IInv, PartsInv, LinksInv, DetachNeighbour
    PROVE  LinksInv'
<1>1. PICK r, a : r = Head(saturating) /\ a = Head(adjacent[r])
  OBVIOUS
<1>2. /\ saturating # <<>> /\ adjacent[r] # <<>>
      /\ adjacent' = [adjacent EXCEPT ![a] = Without(@, r), ![r] = Tail(@)]
      /\ flags' = [flags EXCEPT ![a] = @ \cup {Fragmented}]
      /\ saturating' = saturating /\ neighbours' = neighbours /\ pc' = pc
  BY <1>1 DEF DetachNeighbour, callVars
<1>3. /\ Live \subseteq Regions
      /\ adjacent \in [Regions -> Seq(Regions)] /\ flags \in [Regions -> SUBSET Flags]
      /\ saturating \in Seq(Regions)
      /\ \A t \in Live : Rep(t) \in Regions
  BY ListTypes
<1>4. /\ Live' = Live /\ Here' = Here
      /\ \A t : Rep(t)' = Rep(t)
      /\ \A p, q : Touch(p, q)' <=> Touch(p, q)
  BY ListStepFrame DEF ListStep, ListFrame
<1>5. r \in Regions /\ r \in ElementsOf(saturating)
  BY <1>1, <1>2, <1>3 DEF ElementsOf
<1>6. a \in ElementsOf(adjacent[r])
  BY <1>1, <1>2, <1>3, <1>5 DEF ElementsOf
<1>7. /\ a \in Regions /\ a # r /\ a \in Live /\ Contains(adjacent[a], r)
  BY <1>5, <1>6, ListedBothWays DEF IInv
<1>8. r \in Live /\ r \in ElementsOf(adjacent[a])
  BY <1>7 DEF IInv, BidirectionalAdjacency, Contains, ElementsOf
<1>9. /\ adjacent'[a] = Without(adjacent[a], r) /\ adjacent'[r] = Tail(adjacent[r])
      /\ \A t \in Regions \ {a, r} : adjacent'[t] = adjacent[t]
  BY <1>2, <1>3, <1>5, <1>7
<1>10. /\ ElementsOf(adjacent'[a]) \subseteq ElementsOf(adjacent[a])
       /\ ElementsOf(adjacent[a]) \subseteq ElementsOf(adjacent'[a]) \cup {r}
  <2>1. adjacent[a] \in Seq(Regions)
    BY <1>3, <1>7
  <2> QED
    BY <1>7, <1>9, <2>1, WithoutElements
<1>11. /\ ElementsOf(adjacent'[r]) \subseteq ElementsOf(adjacent[r])
       /\ ElementsOf(adjacent[r]) \subseteq ElementsOf(adjacent'[r]) \cup {a}
  <2>1. PICK list, rest : list = adjacent[r] /\ rest = Tail(list)
    OBVIOUS
  <2>2. list \in Seq(Regions) /\ list # <<>> /\ a = Head(list) /\ adjacent'[r] = rest
    BY <1>1, <1>2, <1>3, <1>5, <1>9, <2>1
  <2>3. ElementsOf(list) = {Head(list)} \cup ElementsOf(rest)
    BY <2>1, <2>2, TailElements
  <2> QED
    BY <2>1, <2>2, <2>3
<1>12. \A s \in Live : /\ ElementsOf(adjacent'[s]) \subseteq ElementsOf(adjacent[s])
                       /\ \A t \in ElementsOf(adjacent[s]) :
                             \/ t \in ElementsOf(adjacent'[s])
                             \/ (s = a /\ t = r)
                             \/ (s = r /\ t = a)
  BY <1>3, <1>9, <1>10, <1>11
<1>13. \A t \in Live : (Saturated \in flags'[t] <=> Saturated \in flags[t])
                       /\ (Fragmented \in flags'[t] <=> Fragmented \in flags[t] \/ t = a)
  BY <1>2, <1>3, <1>7 DEF Saturated, Fragmented
<1>14. \A p : Full(p)' <=> Full(p)
  BY <1>2, <1>4, <1>13 DEF Full
<1>15. \A p : Torn(p)' <=> Torn(p) \/ p = Rep(a)
  BY <1>4, <1>7, <1>13 DEF Torn
<1>16. Full(Rep(r)) /\ Linked(Rep(a), Rep(r)) /\ Linked(Rep(r), Rep(a))
  BY <1>5, <1>6, <1>7, <1>8 DEF Full, Linked
<1>17. PICK ra, rr \in Regions : ra = Rep(a) /\ rr = Rep(r)
  BY <1>3, <1>7, <1>8
<1>18. \A p, q \in Regions : Linked(p, q)' => Linked(p, q)
  BY <1>4, <1>12 DEF Linked
<1>19. \A p, q \in Regions : Waiting(p, q)' <=> Waiting(p, q)
  BY <1>2, <1>4 DEF Waiting
<1>20. Touch(ra, rr)
  BY <1>16, <1>17 DEF LinksInv
<1>21. ASSUME NEW p \in Regions, NEW q \in Regions, Linked(p, q) PROVE Told(p, q)'
  <2>1. PICK s, t \in Live : t \in ElementsOf(adjacent[s]) /\ Rep(s) = p /\ Rep(t) = q
    BY <1>21 DEF Linked
  <2>2. CASE t \in ElementsOf(adjacent'[s])
    <3>1. Linked(p, q)'
      BY <1>4, <2>1, <2>2 DEF Linked
    <3> QED
      BY <3>1 DEF Told
  <2>3. CASE t \notin ElementsOf(adjacent'[s])
    <3>1. (p = ra /\ q = rr) \/ (p = rr /\ q = ra)
      BY <1>12, <1>17, <2>1, <2>3
    <3>2. Full(rr)' /\ Torn(ra)'
      BY <1>14, <1>15, <1>16, <1>17
    <3> QED
      BY <3>1, <3>2 DEF Told
  <2> QED
    BY <2>2, <2>3
<1>22. \A p, q \in Regions : Waiting(p, q) => Told(p, q)'
  BY <1>19 DEF Told
<1>23. \A p \in Regions : Torn(p)' => Torn(p) \/ \E q \in Regions : Touch(p, q) /\ Full(q)'
  BY <1>14, <1>15, <1>16, <1>17, <1>20
<1> QED
  BY <1>4, <1>14, <1>15, <1>18, <1>19, <1>21, <1>22, <1>23, LinksKept

LEMMA MarkLinks ==
    ASSUME IInv, PartsInv, LinksInv, MarkSaturated
    PROVE  LinksInv'
<1>1. PICK r : r = Head(saturating)
  OBVIOUS
<1>2. /\ saturating # <<>> /\ saturating' = Tail(saturating)
      /\ flags' = [flags EXCEPT ![r] = @ \cup {Saturated}]
      /\ adjacent' = adjacent /\ neighbours' = neighbours /\ pc' = pc
  BY <1>1 DEF MarkSaturated
<1>3. Live \subseteq Regions /\ flags \in [Regions -> SUBSET Flags] /\ saturating \in Seq(Regions)
  BY ListTypes
<1>4. /\ Live' = Live /\ Here' = Here
      /\ \A t : Rep(t)' = Rep(t)
      /\ \A p, q : Touch(p, q)' <=> Touch(p, q)
  BY ListStepFrame DEF ListStep, ListFrame
<1>5. ElementsOf(saturating) = {r} \cup ElementsOf(saturating')
  BY <1>1, <1>2, <1>3, TailElements
<1>6. \A t \in Live : (Saturated \in flags'[t] <=> Saturated \in flags[t] \/ t = r)
                      /\ (Fragmented \in flags'[t] <=> Fragmented \in flags[t])
  BY <1>2, <1>3 DEF Saturated, Fragmented
<1>7. \A p : Full(p) => Full(p)'
  BY <1>4, <1>5, <1>6 DEF Full
<1>8. \A p : Torn(p)' <=> Torn(p)
  BY <1>4, <1>6 DEF Torn
<1>9. \A p, q : (Linked(p, q)' <=> Linked(p, q)) /\ (Waiting(p, q)' <=> Waiting(p, q))
  BY <1>2, <1>4 DEF Linked, Waiting
<1>10. \A p, q \in Regions : Linked(p, q) \/ Waiting(p, q) => Told(p, q)'
  BY <1>9 DEF Told
<1> QED
  BY <1>4, <1>7, <1>8, <1>9, <1>10, LinksKept

-----------------------------------------------------------------------------
\* make_adjacent: what the three ways of handling a neighbour have in common.
LEMMA LinkingLinks ==
    ASSUME IInv, PartsInv, LinksInv, ListStep, Linking, NEW h, h = Here, NEW t, t = Touched
    PROVE  /\ h \in Regions /\ t \in Regions /\ h # t /\ h \in Live /\ t \in Live
           /\ Live' = Live /\ \A u : Rep(u) = u /\ Rep(u)' = u
           /\ \A p, q : Touch(p, q)' <=> Touch(p, q)
           /\ \A p, q : Waiting(p, q) <=> Waiting(p, q)' \/ (p = h /\ q = t)
           /\ Touch(h, t) /\ Touch(t, h)
<1>1. pc = "link" /\ pc' = "link" /\ neighbours # <<>> /\ neighbours' = Tail(neighbours)
  BY DEF Linking
<1>2. /\ h \in Regions /\ t \in Regions /\ h # t /\ h \in Live /\ t \in Live
  BY LinkedRegions
<1>3. /\ Live' = Live /\ Here' = Here
      /\ \A u : Rep(u)' = Rep(u)
      /\ \A p, q : Touch(p, q)' <=> Touch(p, q)
  BY ListStepFrame DEF ListFrame
<1>4. \A u : Rep(u) = u
  BY <1>1 DEF Rep, Merging
<1>5. ElementsOf(neighbours) = {t} \cup ElementsOf(neighbours')
  BY <1>1, ListTypes, TailElements DEF Touched
<1>6. \A p, q : Waiting(p, q) <=> Waiting(p, q)' \/ (p = h /\ q = t)
  BY <1>1, <1>3, <1>5 DEF Waiting
<1>7. Waiting(h, t)
  BY <1>6
<1>8. Touch(h, t)
  BY <1>2, <1>7 DEF LinksInv
<1> QED
  BY <1>2, <1>3, <1>4, <1>6, <1>8, TouchSymmetric

LEMMA NeighbourSaturatedLinks ==
    ASSUME IInv, PartsInv, LinksInv, NeighbourSaturated
    PROVE  LinksInv'
<1>1. PICK h, t : h = Here /\ t = Touched
  OBVIOUS
<1>2. /\ Linking /\ UNCHANGED <<adjacent, saturating>>
      /\ Saturated \in flags[h] \cup flags[t]
  BY <1>1 DEF NeighbourSaturated
<1>3. /\ h \in Regions /\ t \in Regions /\ h # t /\ h \in Live /\ t \in Live
      /\ Live' = Live /\ \A u : Rep(u) = u /\ Rep(u)' = u
      /\ \A p, q : Touch(p, q)' <=> Touch(p, q)
      /\ \A p, q : Waiting(p, q) <=> Waiting(p, q)' \/ (p = h /\ q = t)
      /\ Touch(h, t) /\ Touch(t, h)
  BY <1>1, <1>2, LinkingLinks DEF ListStep
<1>4. PICK d, e : /\ d = DetachedOne /\ {d, e} = {h, t} /\ Saturated \in flags[e]
  BY <1>1, <1>2 DEF DetachedOne
<1>5. flags' = [flags EXCEPT ![d] = @ \cup {Fragmented}]
  BY <1>4 DEF NeighbourSaturated
<1>6. /\ d \in Live /\ e \in Live /\ Touch(d, e) /\ d \in Regions /\ e \in Regions
      /\ (d = h /\ e = t) \/ (d = t /\ e = h)
  BY <1>3, <1>4
<1>7. Live \subseteq Regions /\ flags \in [Regions -> SUBSET Flags]
  BY ListTypes
<1>8. \A u \in Live : (Saturated \in flags'[u] <=> Saturated \in flags[u])
                      /\ (Fragmented \in flags'[u] <=> Fragmented \in flags[u] \/ u = d)
  BY <1>5, <1>6, <1>7 DEF Saturated, Fragmented
<1>9. \A p : Full(p)' <=> Full(p)
  BY <1>2, <1>3, <1>8 DEF Full
<1>10. \A p : Torn(p)' <=> Torn(p) \/ p = d
  BY <1>3, <1>6, <1>8 DEF Torn
<1>11. \A p, q : Linked(p, q)' <=> Linked(p, q)
  BY <1>2, <1>3 DEF Linked
<1>12. Full(e)
  BY <1>3, <1>4, <1>6 DEF Full
<1>13. Told(h, t)'
  BY <1>6, <1>9, <1>10, <1>12 DEF Told
<1>14. \A p, q \in Regions : Linked(p, q) \/ Waiting(p, q) => Told(p, q)'
  BY <1>3, <1>11, <1>13 DEF Told
<1>15. \A p \in Regions : Torn(p)' => Torn(p) \/ \E q \in Regions : Touch(p, q) /\ Full(q)'
  BY <1>6, <1>9, <1>10, <1>12
<1> QED
  BY <1>3, <1>9, <1>10, <1>11, <1>14, <1>15, LinksKept

LEMMA ListFullLinks ==
    ASSUME IInv, PartsInv, LinksInv, ListFull
    PROVE  LinksInv'
<1>1. PICK h, t : h = Here /\ t = Touched
  OBVIOUS
<1>2. /\ Linking /\ adjacent' = adjacent /\ saturating = <<>>
      /\ IsFull(h) \/ IsFull(t)
      /\ saturating' = (IF IsFull(h) THEN <<h>> ELSE <<>>) \o (IF IsFull(t) THEN <<t>> ELSE <<>>)
      /\ flags' = [flags EXCEPT ![h] = IF IsFull(t) THEN @ \cup {Fragmented} ELSE @,
                                ![t] = IF IsFull(h) THEN @ \cup {Fragmented} ELSE @]
  BY <1>1 DEF ListFull, Linking
<1>3. /\ h \in Regions /\ t \in Regions /\ h # t /\ h \in Live /\ t \in Live
      /\ Live' = Live /\ \A u : Rep(u) = u /\ Rep(u)' = u
      /\ \A p, q : Touch(p, q)' <=> Touch(p, q)
      /\ \A p, q : Waiting(p, q) <=> Waiting(p, q)' \/ (p = h /\ q = t)
      /\ Touch(h, t) /\ Touch(t, h)
  BY <1>1, <1>2, LinkingLinks DEF ListStep
<1>4. Live \subseteq Regions /\ flags \in [Regions -> SUBSET Flags]
  BY ListTypes
<1>5. \A u \in Live : (Saturated \in flags'[u] <=> Saturated \in flags[u])
                      /\ (Fragmented \in flags'[u] <=> \/ Fragmented \in flags[u]
                                                       \/ (u = h /\ IsFull(t))
                                                       \/ (u = t /\ IsFull(h)))
  <2>1. /\ flags'[h] = IF IsFull(t) THEN flags[h] \cup {Fragmented} ELSE flags[h]
        /\ flags'[t] = IF IsFull(h) THEN flags[t] \cup {Fragmented} ELSE flags[t]
        /\ \A u \in Regions \ {h, t} : flags'[u] = flags[u]
    BY <1>2, <1>3, <1>4
  <2> QED
    BY <1>3, <1>4, <2>1 DEF Saturated, Fragmented
<1>6. ElementsOf(saturating') = (IF IsFull(h) THEN {h} ELSE {}) \cup (IF IsFull(t) THEN {t} ELSE {})
  <2>1. CASE IsFull(h) /\ IsFull(t)
    <3>1. saturating' = <<h>> \o <<t>> /\ <<t>> \in Seq(Regions)
      BY <1>2, <1>3, <2>1
    <3>2. ElementsOf(<<h>> \o <<t>>) = {h} \cup ElementsOf(<<t>>)
      BY <1>3, <3>1, PushedElements
    <3> QED
      BY <2>1, <3>1, <3>2, ListOfOne
  <2>2. CASE IsFull(h) /\ ~IsFull(t)
    <3>1. saturating' = <<h>>
      BY <1>2, <2>2
    <3> QED
      BY <2>2, <3>1, ListOfOne
  <2>3. CASE ~IsFull(h) /\ IsFull(t)
    <3>1. saturating' = <<t>>
      BY <1>2, <2>3
    <3> QED
      BY <2>3, <3>1, ListOfOne
  <2> QED
    BY <1>2, <2>1, <2>2, <2>3
<1>7. ElementsOf(saturating) = {}
  BY <1>2, ListOfNone
<1>8. \A p : Full(p) => Full(p)'
  BY <1>3, <1>5, <1>7 DEF Full
<1>9. (IsFull(h) => Full(h)') /\ (IsFull(t) => Full(t)')
  BY <1>3, <1>6 DEF Full
<1>10. \A p : Torn(p)' <=> Torn(p) \/ (p = h /\ IsFull(t)) \/ (p = t /\ IsFull(h))
  BY <1>3, <1>5 DEF Torn
<1>11. \A p, q : Linked(p, q)' <=> Linked(p, q)
  BY <1>2, <1>3 DEF Linked
<1>12. Told(h, t)'
  BY <1>2, <1>9, <1>10 DEF Told
<1>13. \A p, q \in Regions : Linked(p, q) \/ Waiting(p, q) => Told(p, q)'
  BY <1>3, <1>11, <1>12 DEF Told
<1>14. \A p \in Regions : Torn(p)' => Torn(p) \/ \E q \in Regions : Touch(p, q) /\ Full(q)'
  BY <1>3, <1>9, <1>10
<1> QED
  BY <1>3, <1>8, <1>10, <1>11, <1>13, <1>14, LinksKept

LEMMA MakeAdjacentLinks ==
    ASSUME IInv, PartsInv, LinksInv, MakeAdjacent
    PROVE  LinksInv'
<1>1. PICK h, t : h = Here /\ t = Touched
  OBVIOUS
<1>2. /\ Linking /\ UNCHANGED <<flags, saturating>>
      /\ adjacent' = IF IsAdjacent(h, t) THEN adjacent
                     ELSE [adjacent EXCEPT ![h] = Append(@, t), ![t] = Append(@, h)]
  BY <1>1 DEF MakeAdjacent
<1>3. /\ h \in Regions /\ t \in Regions /\ h # t /\ h \in Live /\ t \in Live
      /\ Live' = Live /\ \A u : Rep(u) = u /\ Rep(u)' = u
      /\ \A p, q : Touch(p, q)' <=> Touch(p, q)
      /\ \A p, q : Waiting(p, q) <=> Waiting(p, q)' \/ (p = h /\ q = t)
      /\ Touch(h, t) /\ Touch(t, h)
  BY <1>1, <1>2, LinkingLinks DEF ListStep
<1>4. Live \subseteq Regions /\ adjacent \in [Regions -> Seq(Regions)]
  BY ListTypes
<1>5. \A p : (Full(p)' <=> Full(p)) /\ (Torn(p)' <=> Torn(p))
  BY <1>2, <1>3 DEF Full, Torn
<1>6. /\ \A p, q : Linked(p, q)' <=> \/ Linked(p, q)
                                     \/ p = h /\ q = t
                                     \/ p = t /\ q = h
  <2>1. \A p, q : Linked(p, q) <=> p \in Live /\ q \in Live /\ q \in ElementsOf(adjacent[p])
    BY <1>3 DEF Linked
  <2>2. \A p, q : Linked(p, q)' <=> p \in Live /\ q \in Live /\ q \in ElementsOf(adjacent'[p])
    BY <1>3 DEF Linked
  <2>3. CASE IsAdjacent(h, t)
    <3>1. Linked(h, t) /\ Linked(t, h)
      <4>1. h \in ElementsOf(adjacent[t]) \/ t \in ElementsOf(adjacent[h])
        BY <2>3 DEF IsAdjacent, Contains, ElementsOf
      <4>2. Linked(h, t) \/ Linked(t, h)
        BY <1>3, <2>1, <4>1
      <4> QED
        BY <4>2, LinkedSymmetric
    <3> QED
      BY <1>2, <2>1, <2>2, <2>3, <3>1
  <2>4. CASE ~IsAdjacent(h, t)
    <3>1. /\ adjacent'[h] = Append(adjacent[h], t) /\ adjacent'[t] = Append(adjacent[t], h)
          /\ \A u \in Regions \ {h, t} : adjacent'[u] = adjacent[u]
          /\ adjacent[h] \in Seq(Regions) /\ adjacent[t] \in Seq(Regions)
      BY <1>2, <1>3, <1>4, <2>4
    <3>2. /\ ElementsOf(adjacent'[h]) = ElementsOf(adjacent[h]) \cup {t}
          /\ ElementsOf(adjacent'[t]) = ElementsOf(adjacent[t]) \cup {h}
      BY <1>3, <3>1, AllAppended
    <3> QED
      BY <1>3, <1>4, <2>1, <2>2, <3>1, <3>2
  <2> QED
    BY <2>3, <2>4
<1>7. \A p, q \in Regions : Linked(p, q)' => Linked(p, q) \/ Waiting(p, q) \/ Waiting(q, p)
  BY <1>3, <1>6
<1>8. \A p, q \in Regions : Linked(p, q) \/ Waiting(p, q) => Told(p, q)'
  BY <1>3, <1>6 DEF Told
<1> QED
  BY <1>3, <1>5, <1>7, <1>8, LinksKept

-----------------------------------------------------------------------------
\* A step of a merge that moves or removes entries without separating the two regions from others.
LEMMA RelinkedLinks ==
    ASSUME IInv, PartsInv, LinksInv, ListStep, Merging, UNCHANGED flags,
           ElementsOf(saturating) \subseteq ElementsOf(saturating'),
           \A p, q \in Regions : Linked(p, q)' <=> Linked(p, q)
    PROVE  LinksInv'
<1>1. /\ Live' = Live
      /\ \A t : Rep(t)' = Rep(t)
      /\ \A p, q : Touch(p, q)' <=> Touch(p, q)
      /\ pc' = pc \/ (Merging /\ Merging')
  BY ListStepFrame DEF ListFrame
<1>2. \A p, q : ~Waiting(p, q) /\ ~Waiting(p, q)'
  BY <1>1 DEF Waiting, Merging
<1>3. \A p : Full(p) => Full(p)'
  BY <1>1 DEF Full
<1>4. \A p : Torn(p)' <=> Torn(p)
  BY <1>1 DEF Torn
<1>5. \A p, q \in Regions : Linked(p, q) \/ Waiting(p, q) => Told(p, q)'
  BY <1>2 DEF Told
<1> QED
  BY <1>1, <1>2, <1>3, <1>4, <1>5, LinksKept

\* The first loop of merge_regions drops a link that the survivor has as well.
LEMMA RemoveCommonLinks ==
    ASSUME IInv, PartsInv, LinksInv, RemoveCommon
    PROVE  LinksInv'
<1>1. PICK r, s, a : r = R2 /\ s = R1 /\ a = adjacent[r][i]
  OBVIOUS
<1>2. /\ pc = "common" /\ i <= Len(adjacent[r])
      /\ adjacent' = IF IsAdjacent(a, s)
                     THEN [adjacent EXCEPT ![a] = Without(@, r), ![r] = DropEntry(@, i)]
                     ELSE adjacent
      /\ UNCHANGED <<flags, saturating>>
  BY <1>1 DEF RemoveCommon, Unlinked
<1>3. Merging
  BY <1>2 DEF Merging
<1>4. /\ r \in Regions /\ s \in Regions /\ r # s /\ r \in Live /\ s \in Live /\ colour[r] = colour[s]
  BY <1>1, <1>3, MergedRegions
<1>5. Live \subseteq Regions /\ adjacent \in [Regions -> Seq(Regions)]
  BY ListTypes
<1>6. adjacent[r] \in Seq(Regions) /\ Len(adjacent[r]) \in Nat /\ i \in 1 .. Len(adjacent[r])
  BY <1>2, <1>4, <1>5, SizeFacts DEF IInv, TypeOK
<1>7. a \in ElementsOf(adjacent[r])
  BY <1>1, <1>6 DEF ElementsOf
<1>8. /\ a \in Regions /\ a # r /\ a # s /\ a \in Live /\ Contains(adjacent[a], r)
  BY <1>4, <1>7, ListedBothWays DEF IInv
<1>9. /\ Live' = Live
      /\ \A t : Rep(t)' = Rep(t) /\ Rep(t) = IF t = r THEN s ELSE t
  BY <1>1, <1>3, ListStepFrame DEF ListStep, ListFrame, Rep
<1>10. CASE ~IsAdjacent(a, s)
  <2>1. \A p, q \in Regions : Linked(p, q)' <=> Linked(p, q)
    BY <1>2, <1>9, <1>10 DEF Linked
  <2> QED
    BY <1>2, <1>3, <2>1, RelinkedLinks DEF ListStep
<1>11. CASE IsAdjacent(a, s)
  <2>1. /\ adjacent'[a] = Without(adjacent[a], r) /\ adjacent'[r] = DropEntry(adjacent[r], i)
        /\ \A t \in Regions \ {a, r} : adjacent'[t] = adjacent[t]
    BY <1>2, <1>4, <1>5, <1>8, <1>11
  <2>2. /\ ElementsOf(adjacent'[a]) \subseteq ElementsOf(adjacent[a])
        /\ ElementsOf(adjacent[a]) \subseteq ElementsOf(adjacent'[a]) \cup {r}
    <3>1. adjacent[a] \in Seq(Regions)
      BY <1>5, <1>8
    <3> QED
      BY <1>8, <2>1, <3>1, WithoutElements
  <2>3. /\ ElementsOf(adjacent'[r]) \subseteq ElementsOf(adjacent[r])
        /\ ElementsOf(adjacent[r]) \subseteq ElementsOf(adjacent'[r]) \cup {a}
    <3>1. PICK list : list = adjacent[r]
      OBVIOUS
    <3>2. /\ ElementsOf(DropEntry(list, i)) \subseteq ElementsOf(list)
          /\ ElementsOf(list) \subseteq ElementsOf(DropEntry(list, i)) \cup {list[i]}
      BY <1>6, <3>1, DropElements
    <3> QED
      BY <1>1, <2>1, <3>1, <3>2
  <2>4. s \in ElementsOf(adjacent[a]) /\ a \in ElementsOf(adjacent[s])
    <3>1. a \in ElementsOf(adjacent[s]) \/ s \in ElementsOf(adjacent[a])
      BY <1>11 DEF IsAdjacent, Contains, ElementsOf
    <3> QED
      BY <1>4, <1>8, <3>1, ListedBack
  <2>5. s \in ElementsOf(adjacent'[a]) /\ a \in ElementsOf(adjacent'[s])
    BY <1>4, <1>8, <2>1, <2>2, <2>4
  <2>6. Linked(a, s)' /\ Linked(s, a)'
    BY <1>4, <1>8, <1>9, <2>5 DEF Linked
  <2>7. \A u \in Live : /\ ElementsOf(adjacent'[u]) \subseteq ElementsOf(adjacent[u])
                        /\ \A t \in ElementsOf(adjacent[u]) :
                              \/ t \in ElementsOf(adjacent'[u])
                              \/ (u = a /\ t = r)
                              \/ (u = r /\ t = a)
    BY <1>5, <2>1, <2>2, <2>3
  <2>8. ASSUME NEW p, NEW q, Linked(p, q)' PROVE Linked(p, q)
    BY <1>9, <2>7, <2>8 DEF Linked
  <2>9. ASSUME NEW p, NEW q, Linked(p, q) PROVE Linked(p, q)'
    <3>1. PICK u, t \in Live : t \in ElementsOf(adjacent[u]) /\ Rep(u) = p /\ Rep(t) = q
      BY <2>9 DEF Linked
    <3>2. CASE t \in ElementsOf(adjacent'[u])
      BY <1>9, <3>1, <3>2 DEF Linked
    <3>3. CASE t \notin ElementsOf(adjacent'[u])
      <4>1. (p = a /\ q = s) \/ (p = s /\ q = a)
        BY <1>8, <1>9, <2>7, <3>1, <3>3
      <4> QED
        BY <2>6, <4>1
    <3> QED
      BY <3>2, <3>3
  <2> QED
    BY <1>2, <1>3, <2>8, <2>9, RelinkedLinks DEF ListStep
<1> QED
  BY <1>10, <1>11

\* Between the loops the two regions are saturated, or nothing happens to their links.
LEMMA CheckCapacityLinks ==
    ASSUME IInv, PartsInv, LinksInv, CheckCapacity
    PROVE  LinksInv'
<1>1. pc = "common" /\ UNCHANGED <<adjacent, flags>>
  BY DEF CheckCapacity, regionVars
<1>2. saturating = <<>>
  BY <1>1 DEF IInv, MergeInv
<1>3. ElementsOf(saturating) = {}
  BY <1>2, ListOfNone
<1>4. Merging
  BY <1>1 DEF Merging
<1>5. Live' = Live /\ \A t : Rep(t)' = Rep(t)
  BY ListStepFrame DEF ListStep, ListFrame
<1>6. \A p, q \in Regions : Linked(p, q)' <=> Linked(p, q)
  BY <1>1, <1>5 DEF Linked
<1> QED
  BY <1>1, <1>3, <1>4, <1>6, RelinkedLinks DEF ListStep

\* The second loop of merge_regions gives a link of the freed region to the survivor.
LEMMA TransferNeighbourLinks ==
    ASSUME IInv, PartsInv, LinksInv, TransferNeighbour
    PROVE  LinksInv'
<1>1. PICK r, s, a : r = R2 /\ s = R1 /\ a = Head(adjacent[r])
  OBVIOUS
<1>2. /\ pc = "transfer" /\ adjacent[r] # <<>>
      /\ adjacent' = [adjacent EXCEPT ![a] = Replaced(@, r, s), ![s] = Append(@, a), ![r] = Tail(@)]
      /\ UNCHANGED <<flags, saturating>>
  BY <1>1 DEF TransferNeighbour, callVars
<1>3. Merging
  BY <1>2 DEF Merging
<1>4. /\ r \in Regions /\ s \in Regions /\ r # s /\ r \in Live /\ s \in Live /\ colour[r] = colour[s]
  BY <1>1, <1>3, MergedRegions
<1>5. Live \subseteq Regions /\ adjacent \in [Regions -> Seq(Regions)]
  BY ListTypes
<1>6. adjacent[r] \in Seq(Regions) /\ adjacent[s] \in Seq(Regions)
  BY <1>4, <1>5
<1>7. ElementsOf(adjacent[r]) = {a} \cup ElementsOf(Tail(adjacent[r]))
  BY <1>1, <1>2, <1>6, TailElements
<1>8. /\ a \in Regions /\ a # r /\ a # s /\ a \in Live /\ Contains(adjacent[a], r)
  BY <1>4, <1>7, ListedBothWays DEF IInv
<1>9. /\ Live' = Live
      /\ \A t : Rep(t)' = Rep(t) /\ Rep(t) = IF t = r THEN s ELSE t
  BY <1>1, <1>3, ListStepFrame DEF ListStep, ListFrame, Rep
<1>10. /\ adjacent'[a] = Replaced(adjacent[a], r, s)
       /\ adjacent'[s] = Append(adjacent[s], a)
       /\ adjacent'[r] = Tail(adjacent[r])
       /\ \A t \in Regions \ {a, r, s} : adjacent'[t] = adjacent[t]
  BY <1>2, <1>4, <1>5, <1>8
<1>11. /\ ElementsOf(adjacent[a]) \subseteq ElementsOf(adjacent'[a]) \cup {r}
       /\ ElementsOf(adjacent'[a]) \subseteq ElementsOf(adjacent[a]) \cup {s}
       /\ s \in ElementsOf(adjacent'[a])
  <2>1. adjacent[a] \in Seq(Regions)
    BY <1>5, <1>8
  <2> QED
    BY <1>4, <1>8, <1>10, <2>1, AllReplaced, ReplacedElements
<1>12. ElementsOf(adjacent'[s]) = ElementsOf(adjacent[s]) \cup {a}
  BY <1>6, <1>8, <1>10, AllAppended
<1>13. r \in ElementsOf(adjacent[a])
  BY <1>8 DEF Contains, ElementsOf
<1>14. Linked(a, s) /\ Linked(s, a)
  BY <1>4, <1>7, <1>8, <1>9, <1>13 DEF Linked
<1>15. Linked(a, s)' /\ Linked(s, a)'
  BY <1>4, <1>8, <1>9, <1>11, <1>12 DEF Linked
<1>16. \A u \in Live : \A t :
          /\ t \in ElementsOf(adjacent[u]) => \/ t \in ElementsOf(adjacent'[u])
                                              \/ (u = a /\ t = r)
                                              \/ (u = r /\ t = a)
          /\ t \in ElementsOf(adjacent'[u]) => \/ t \in ElementsOf(adjacent[u])
                                               \/ (u = a /\ t = s)
                                               \/ (u = s /\ t = a)
  <2>1. ElementsOf(adjacent[r]) = {a} \cup ElementsOf(adjacent'[r])
    BY <1>7, <1>10
  <2> SUFFICES ASSUME NEW u \in Live, NEW t
               PROVE  /\ t \in ElementsOf(adjacent[u]) => \/ t \in ElementsOf(adjacent'[u])
                                                           \/ (u = a /\ t = r)
                                                           \/ (u = r /\ t = a)
                      /\ t \in ElementsOf(adjacent'[u]) => \/ t \in ElementsOf(adjacent[u])
                                                            \/ (u = a /\ t = s)
                                                            \/ (u = s /\ t = a)
    OBVIOUS
  <2>2. CASE u = a
    BY <1>11, <2>2
  <2>3. CASE u = r
    BY <2>1, <2>3
  <2>4. CASE u = s
    BY <1>12, <2>4
  <2>5. CASE u \notin {a, r, s}
    BY <1>5, <1>10, <2>5
  <2> QED
    BY <2>2, <2>3, <2>4, <2>5
<1>17. ASSUME NEW p, NEW q, Linked(p, q)' PROVE Linked(p, q)
  <2>1. PICK u, t \in Live : t \in ElementsOf(adjacent'[u]) /\ Rep(u) = p /\ Rep(t) = q
    BY <1>9, <1>17 DEF Linked
  <2>2. CASE t \in ElementsOf(adjacent[u])
    BY <2>1, <2>2 DEF Linked
  <2>3. CASE t \notin ElementsOf(adjacent[u])
    <3>1. (p = a /\ q = s) \/ (p = s /\ q = a)
      BY <1>8, <1>4, <1>9, <1>16, <2>1, <2>3
    <3> QED
      BY <1>14, <3>1
  <2> QED
    BY <2>2, <2>3
<1>18. ASSUME NEW p, NEW q, Linked(p, q) PROVE Linked(p, q)'
  <2>1. PICK u, t \in Live : t \in ElementsOf(adjacent[u]) /\ Rep(u) = p /\ Rep(t) = q
    BY <1>18 DEF Linked
  <2>2. CASE t \in ElementsOf(adjacent'[u])
    BY <1>9, <2>1, <2>2 DEF Linked
  <2>3. CASE t \notin ElementsOf(adjacent'[u])
    <3>1. (p = a /\ q = s) \/ (p = s /\ q = a)
      BY <1>8, <1>9, <1>16, <2>1, <2>3
    <3> QED
      BY <1>15, <3>1
  <2> QED
    BY <2>2, <2>3
<1> QED
  BY <1>2, <1>3, <1>17, <1>18, RelinkedLinks DEF ListStep

LEMMA ListStepLinks ==
    ASSUME IInv, PartsInv, LinksInv, ListStep
    PROVE  LinksInv'
BY DetachLinks, MarkLinks, NeighbourSaturatedLinks, ListFullLinks, MakeAdjacentLinks,
   RemoveCommonLinks, CheckCapacityLinks, TransferNeighbourLinks DEF ListStep

-----------------------------------------------------------------------------
\* Between merges a region stands for itself.
LEMMA NotMerging == ASSUME ~Merging PROVE \A r : Rep(r) = r
BY DEF Rep

\* A step that changes no region of a pixel, no list and neither of the two flags.
SameNotes ==
    /\ UNCHANGED <<adjacent, saturating>>
    /\ \A r \in Live : /\ Saturated \in flags'[r] <=> Saturated \in flags[r]
                       /\ Fragmented \in flags'[r] <=> Fragmented \in flags[r]

LEMMA StillLinks ==
    ASSUME IInv, PartsInv, LinksInv, RegionsKept, SameNotes, UNCHANGED source,
           \A r : Rep(r)' = Rep(r),
           \A a, b : Waiting(a, b)' <=> Waiting(a, b)
    PROVE  LinksInv'
<1>1. UNCHANGED <<label, RegionOfPixel, Live, source>>
  BY DEF RegionsKept
<1>2. \A p, m : Near(p, m)' <=> Near(p, m)
  BY <1>1 DEF Near, Beside, Abstract!Neighbours
<1>3. \A p, q : Touch(p, q)' <=> Touch(p, q)
  BY <1>1, <1>2 DEF Touch
<1>4. \A p, q : Linked(p, q)' <=> Linked(p, q)
  BY <1>1 DEF SameNotes, Linked
<1>5. \A p : (Full(p)' <=> Full(p)) /\ (Torn(p)' <=> Torn(p))
  BY <1>1 DEF SameNotes, Full, Torn
<1>6. \A p, q \in Regions : Linked(p, q) \/ Waiting(p, q) => Told(p, q)'
  BY <1>4 DEF Told
<1> QED
  BY <1>3, <1>4, <1>5, <1>6, LinksKept

LEMMA RootNotes ==
    ASSUME IInv, FlagsGrow({Root}), UNCHANGED <<adjacent, saturating>>
    PROVE  SameNotes
<1>1. Live \subseteq Regions
  BY ListTypes
<1>2. Root # Saturated /\ Root # Fragmented
  BY DEF Root, Saturated, Fragmented
<1> QED
  BY <1>1, <1>2 DEF FlagsGrow, SameNotes

\* The steps between two pixels.
LEMMA QuietLinks ==
    ASSUME IInv, PartsInv, LinksInv, KeptStep, ~ListStep, ~\E c \in Colours : MergeRegions(c)
    PROVE  LinksInv'
<1>1. RegionsKept
  BY KeptStepRegions
<1>2. CASE UNCHANGED vars
  <2>1. ReferencesKept
    BY <1>2 DEF ReferencesKept, vars, regionVars, refVars, rowVars, callVars, inputVars
  <2>2. \A r : Rep(r)' = Rep(r)
    BY <2>1, ReferencesKeptInv DEF Rep
  <2>3. Here' = Here /\ UNCHANGED <<pc, neighbours, adjacent, saturating, flags, source>>
    BY <1>2 DEF Here, vars, regionVars, refVars, rowVars, callVars, inputVars
  <2> QED
    BY <1>1, <2>2, <2>3, StillLinks DEF SameNotes, Waiting
<1>3. ASSUME ~Merging, ~Merging', UNCHANGED source, SameNotes,
             \A a, b : ~Waiting(a, b) /\ ~Waiting(a, b)'
      PROVE  LinksInv'
  <2>1. \A r : Rep(r)' = Rep(r)
    BY <1>3 DEF Rep
  <2> QED
    BY <1>1, <1>3, <2>1, StillLinks
<1>4. CASE FollowRedirect
  <2>1. /\ pc \in {"read", "bottom"} /\ pc' = pc
        /\ UNCHANGED <<source, adjacent, saturating, flags>>
    BY <1>4 DEF FollowRedirect, regionVars, callVars, inputVars
  <2> QED
    BY <1>3, <2>1 DEF Merging, Waiting, SameNotes
<1>5. CASE NextColumn \/ NextRow \/ LastPixel
  <2>1. /\ PixelDone /\ pc = "link" /\ neighbours = <<>> /\ pc' \in {"read", "bottom"}
        /\ UNCHANGED <<source, adjacent, saturating>>
    BY <1>5 DEF NextColumn, NextRow, LastPixel, PixelDone, callVars, inputVars
  <2>2. SameNotes
    BY <2>1, RightEdgeFlags, RootNotes
  <2> QED
    BY <1>3, <2>1, <2>2, ListOfNone DEF Merging, Waiting
<1>6. CASE BottomRow
  <2>1. PICK h : h = regionOf[result]
    OBVIOUS
  <2>2. /\ pc = "bottom" /\ pc' \in {"bottom", "done"} /\ UNCHANGED <<source, adjacent, saturating>>
        /\ flags' = [flags EXCEPT ![h] = @ \cup {Root}]
    BY <1>6, <2>1 DEF BottomRow, callVars
  <2>3. FlagsGrow({Root})
    BY <2>2 DEF IInv, TypeOK, FlagsGrow
  <2> QED
    BY <1>3, <2>2, <2>3, RootNotes DEF Merging, Waiting
<1> QED
  BY <1>2, <1>4, <1>5, <1>6 DEF KeptStep

-----------------------------------------------------------------------------
RepsAreRegions == \A r \in Live : Rep(r) \in Regions
LEMMA RegionReps == IInv => RepsAreRegions
BY ListTypes DEF RepsAreRegions

\* When a merge begins, two regions become one, and what was known of each is known of both.
LEMMA MergeRegionsLinks ==
    ASSUME IInv, PartsInv, LinksInv, NEW c \in Colours, MergeRegions(c)
    PROVE  LinksInv'
<1>1. /\ pc = "read" /\ ReadPixel(c) /\ UNCHANGED <<adjacent, flags>>
      /\ pc' \in {"mergeEnd", "common"}
  BY DEF MergeRegions, InCentre, ReadPixel, regionVars
<1>2. saturating = <<>> /\ \A p, q : ~Waiting(p, q) /\ ~Waiting(p, q)'
  BY <1>1 DEF Waiting, IInv, MergeInv
<1>3. RegionsKept
  BY KeptStepRegions DEF KeptStep
<1>4. UNCHANGED <<label, RegionOfPixel, Live>> /\ \A p \in 1 .. Len(label) : source'[p] = source[p]
  BY <1>1, <1>3, PixelRecorded DEF RegionsKept
<1>5. \A r : Rep(r) = r
  BY <1>1 DEF Rep, Merging
<1>6. \A r \in Live : Rep(r)' \in Regions
  <2>1. RepsAreRegions'
    BY MergeRegionsIInv, RegionReps, PTL
  <2> QED
    BY <1>4, <2>1 DEF RepsAreRegions
<1>7. \A p, m \in 1 .. Len(label) : Near(p, m)' <=> Near(p, m)
  BY <1>4 DEF Near, Beside, Abstract!Neighbours
<1>8. \A p \in 1 .. Len(label) : RegionOfPixel[p] \in Live
  BY PixelRegions
<1>9. \A a, b : Touch(a, b)' <=> \E p, q \in Live : Touch(p, q) /\ Rep(p)' = a /\ Rep(q)' = b
  BY <1>4, <1>5, <1>7, <1>8 DEF Touch
<1>10. \A a, b : Linked(a, b)' <=> \E p, q \in Live : Linked(p, q) /\ Rep(p)' = a /\ Rep(q)' = b
  BY <1>1, <1>4, <1>5 DEF Linked
<1>11. \A p : Full(p) => p \in Live /\ \A a : Rep(p)' = a => Full(a)'
  BY <1>1, <1>2, <1>4, <1>5, ListOfNone DEF Full
<1>12. \A a : Torn(a)' <=> \E p \in Live : Torn(p) /\ Rep(p)' = a
  BY <1>1, <1>4, <1>5 DEF Torn
<1>13. Live \subseteq Regions
  BY ListTypes
<1>14. \A a, b \in Regions : Linked(a, b)' \/ Waiting(a, b)' => Touch(a, b)'
  BY <1>2, <1>9, <1>10, <1>13 DEF LinksInv
<1>15. ASSUME NEW a \in Regions, NEW b \in Regions, Touch(a, b)' PROVE Told(a, b)'
  <2>1. PICK p, q \in Live : Touch(p, q) /\ Rep(p)' = a /\ Rep(q)' = b
    BY <1>9, <1>15
  <2>2. Told(p, q)
    BY <1>13, <2>1 DEF LinksInv
  <2>3. \/ Linked(p, q) \/ Linked(q, p)
        \/ Full(p) /\ Torn(q)
        \/ Full(q) /\ Torn(p)
    BY <1>2, <2>2 DEF Told
  <2>4. \/ Linked(a, b)' \/ Linked(b, a)'
        \/ Full(a)' /\ Torn(b)'
        \/ Full(b)' /\ Torn(a)'
    BY <1>10, <1>11, <1>12, <2>1, <2>3
  <2> QED
    BY <2>4 DEF Told
<1>16. ASSUME NEW a \in Regions, Torn(a)' PROVE \E b \in Regions : Touch(a, b)' /\ Full(b)'
  <2>1. PICK p \in Live : Torn(p) /\ Rep(p)' = a
    BY <1>12, <1>16
  <2>2. PICK q \in Regions : Touch(p, q) /\ Full(q)
    BY <1>13, <2>1 DEF LinksInv
  <2>3. PICK b \in Regions : b = Rep(q)'
    BY <1>6, <1>11, <2>2
  <2> QED
    BY <1>9, <1>11, <2>1, <2>2, <2>3
<1>17. Regions' = Regions
  BY DEF Regions
<1> QED
  BY <1>14, <1>15, <1>16, <1>17 DEF LinksInv

-----------------------------------------------------------------------------
\* When it ends, the survivor has what the two regions had, and the pixel adds nothing new.
LEMMA FreeMergedLinks ==
    ASSUME IInv, PartsInv, LinksInv, FreeMerged
    PROVE  LinksInv'
<1>1. PICK r, s : r = R2 /\ s = R1
  OBVIOUS
<1>2. /\ Merging /\ r # s /\ s \in Live /\ r \in Live /\ Live' = Live \ {r} /\ x > 1 /\ y > 1
      /\ Len(label) = Position - 1 /\ Len(label') = Position
      /\ \A p \in 1 .. Len(label) : RegionOfPixel'[p] = IF RegionOfPixel[p] = r THEN s ELSE RegionOfPixel[p]
      /\ pc' = "link" /\ UNCHANGED <<source, adjacent, neighbours, saturating>>
      /\ flags'[s] = flags[s] \cup flags[r]
      /\ \A t \in Regions \ {s, r} : flags'[t] = flags[t]
  BY <1>1, PartMerged DEF MergedPart
<1>3. Live \subseteq Regions /\ r \in Regions /\ s \in Regions
  BY <1>2, ListTypes
<1>4. \A t : Rep(t) = (IF t = r THEN s ELSE t) /\ Rep(t)' = t
  BY <1>1, <1>2 DEF Rep, Merging
<1>5. saturating = <<>> /\ neighbours = <<>> /\ adjacent[r] = <<>>
  <2>1. \/ pc = "transfer" /\ adjacent[r] = <<>>
        \/ pc = "mergeEnd" /\ saturating = <<>>
    BY <1>1 DEF FreeMerged
  <2>2. saturating = <<>> /\ neighbours = <<>>
    BY <2>1 DEF IInv, MergeInv, LinkInv
  <2>3. ElementsOf(saturating) = {}
    BY <2>2, ListOfNone
  <2> QED
    BY <1>1, <2>1, <2>2, <2>3 DEF IInv, MergeInv
<1>6. \A p, q : ~Waiting(p, q) /\ ~Waiting(p, q)'
  BY <1>2, <1>5, ListOfNone DEF Waiting, Merging
<1>7. \A t \in Live : \A u \in ElementsOf(adjacent[t]) : t # r /\ u # r
  BY <1>5, ListedBack, ListOfNone
<1>8. \A p, q : Linked(p, q)' <=> Linked(p, q)
  BY <1>2, <1>4, <1>7, SMTT(60) DEF Linked
<1>9. \A f, p : (\E t \in Live' : Rep(t)' = p /\ f \in flags'[t]) <=> (\E t \in Live : Rep(t) = p /\ f \in flags[t])
  BY <1>2, <1>3, <1>4
<1>10. \A p : (Full(p)' <=> Full(p)) /\ (Torn(p)' <=> Torn(p))
  <2>1. \A u : u \notin ElementsOf(saturating) /\ u \notin ElementsOf(saturating')
    BY <1>2, <1>5, ListOfNone
  <2>2. \A f, p : (\E t \in Live' : Rep(t)' = p /\ f \in flags'[t])
                   <=> (\E t \in Live : Rep(t) = p /\ f \in flags[t])
    BY <1>9
  <2>3. ASSUME NEW p PROVE Full(p)' <=> Full(p)
    <3>1. (\E t \in Live' : Rep(t)' = p /\ Saturated \in flags'[t])
             <=> (\E t \in Live : Rep(t) = p /\ Saturated \in flags[t])
      BY ONLY <2>2
    <3> QED
      BY ONLY <2>1, <3>1 DEF Full, Saturated
  <2>4. ASSUME NEW p PROVE Torn(p)' <=> Torn(p)
    BY ONLY <2>2 DEF Torn, Fragmented
  <2> QED
    BY ONLY <2>3, <2>4
<1>11. Position \in Nat /\ Position >= 1 /\ Len(label) \in Nat
  BY <1>2, RowOfPixels DEF IInv, TypeOK
<1>12. \A p, m \in 1 .. Len(label') : Near(p, m)' => p # Position /\ m # Position
  <2>1. /\ RegionOfPixel[Position - 1] = r /\ RegionOfPixel[Position - Width] = s
        /\ Beside(Position) = {Position - 1} \cup {Position - Width}
        /\ Beside(Position) \subseteq 1 .. Len(label)
    BY <1>1, <1>2, RegionsBeside DEF R1, R2
  <2>2. \A m \in Beside(Position) : source[m] = source[Position]
    <3>1. \A m \in Beside(Position) : source[m] = colour[RegionOfPixel[m]]
      BY <2>1, PixelRegions
    <3>2. colour[r] = colour[s] /\ source[Position] = colour[s]
      BY <1>1, <1>2, MergedRegions DEF PartsInv, LabelInv
    <3> QED
      BY <2>1, <3>1, <3>2
  <2>3. \A p \in 1 .. Len(label') : Position \notin Beside(p)
    BY <1>2, <1>11, BesideIsBefore
  <2>4. \A p, m : Near(p, m)' <=> Near(p, m)
    BY <1>2 DEF Near, Beside, Abstract!Neighbours
  <2> QED
    BY <2>2, <2>3, <2>4 DEF Near
<1>13. \A p : p \in 1 .. Len(label') <=> p \in 1 .. Len(label) \/ p = Position
  BY <1>2, <1>11
<1>14. \A p, q : Touch(p, q)' <=> Touch(p, q)
  <2>1. \A p, m : Near(p, m)' <=> Near(p, m)
    BY <1>2 DEF Near, Beside, Abstract!Neighbours
  <2>2. \A p \in 1 .. Len(label) : Rep(RegionOfPixel[p]) = RegionOfPixel'[p]
    BY <1>2, <1>4
  <2>3. \A a, b : Touch(a, b)' <=> \E p, m \in 1 .. Len(label') :
            Near(p, m)' /\ RegionOfPixel'[p] = a /\ RegionOfPixel'[m] = b
    BY <1>4 DEF Touch
  <2>4. \A a, b : Touch(a, b) <=> \E p, m \in 1 .. Len(label) :
            Near(p, m) /\ RegionOfPixel'[p] = a /\ RegionOfPixel'[m] = b
    BY <2>2 DEF Touch
  <2> QED
    BY <1>12, <1>13, <2>1, <2>3, <2>4
<1>15. \A p, q \in Regions : Linked(p, q) \/ Waiting(p, q) => Told(p, q)'
  BY <1>6, <1>8 DEF Told
<1> QED
  BY <1>6, <1>8, <1>10, <1>14, <1>15, LinksKept

-----------------------------------------------------------------------------
\* What a pixel adds that begins region r.
LEMMA NewPartLinks ==
    ASSUME IInv, PartsInv, LinksInv, Resolved, NEW c \in Colours, NEW r, ReadPart(c, r), NewPart(c, r)
    PROVE  LinksInv'
<1>1. /\ pc = "read" /\ pc' = "link" /\ UNCHANGED <<x, y, saturating, adjacent>> /\ Position' = Position
      /\ neighbours = <<>> /\ saturating = <<>>
      /\ source'[Position] = c /\ \A p \in 1 .. Len(label) : source'[p] = source[p]
      /\ r \in Regions /\ r \notin Live /\ Live' = Live \cup {r}
      /\ Len(label) = Position - 1 /\ Len(label') = Position
      /\ \A p \in 1 .. Len(label) : RegionOfPixel'[p] = RegionOfPixel[p]
      /\ RegionOfPixel'[Position] = r /\ SameColour(c) = {}
      /\ ElementsOf(neighbours') = {RegionOfPixel[m] : m \in Beside(Position)}
      /\ regionOf'[currentRow'[x]] = r
  BY DEF ReadPart, NewPart, RegionGrown
<1>2. Live \subseteq Regions /\ flags \in [Regions -> SUBSET Flags]
  BY ListTypes
<1>3. \A t : Rep(t) = t /\ Rep(t)' = t
  BY <1>1 DEF Rep, Merging
<1>4. /\ Saturated \notin flags'[r] /\ Fragmented \notin flags'[r]
      /\ \A t \in Live : flags'[t] = flags[t]
  BY <1>1, <1>2 DEF NewPart, Root, Saturated, Fragmented
<1>5. adjacent[r] = <<>>
  BY <1>1, UnusedRegion DEF IInv
<1>6. \A t \in Live : \A u \in ElementsOf(adjacent[t]) : u \in Live
  BY ListTypes
<1>7. \A p, q : Linked(p, q)' <=> Linked(p, q)
  BY <1>1, <1>3, <1>5, <1>6, ListOfNone DEF Linked
<1>8. \A p : (Full(p)' <=> Full(p)) /\ (Torn(p)' <=> Torn(p))
  BY <1>1, <1>3, <1>4, ListOfNone DEF Full, Torn
<1>9. Here' = r
  BY <1>1 DEF Here
<1>10. /\ \A p, q : ~Waiting(p, q)
       /\ \A p, q : Waiting(p, q)' <=> p = r /\ \E m \in Beside(Position) : RegionOfPixel[m] = q
  BY <1>1, <1>9, ListOfNone DEF Waiting
<1>11. Position \in Nat /\ Position >= 1 /\ Len(label) \in Nat
  BY <1>1, RowOfPixels DEF IInv, TypeOK
<1>12. \A p : p \in 1 .. Len(label') <=> p \in 1 .. Len(label) \/ p = Position
  BY <1>1, <1>11
<1>13. /\ Beside(Position) \subseteq 1 .. Len(label)
       /\ \A m \in Beside(Position) : source'[m] # c
       /\ \A p \in 1 .. Len(label') : Position \notin Beside(p)
  <2>1. Beside(Position) \subseteq 1 .. Len(label)
    BY <1>1, RegionsBeside
  <2>2. \A m \in Beside(Position) : source[m] # c
    BY <1>1 DEF SameColour
  <2> QED
    BY <1>1, <1>11, <2>1, <2>2, BesideIsBefore
<1>14. \A p, m \in 1 .. Len(label) : Near(p, m)' <=> Near(p, m)
  BY <1>1 DEF Near, Beside, Abstract!Neighbours
<1>15. \A p, m : p = Position /\ m \in Beside(Position) => Near(p, m)' /\ Near(m, p)'
  BY <1>1, <1>13 DEF Near, Beside, Abstract!Neighbours
<1>16. \A p, m \in 1 .. Len(label') : Near(p, m)' =>
          \/ p \in 1 .. Len(label) /\ m \in 1 .. Len(label)
          \/ p = Position /\ m \in Beside(Position)
          \/ m = Position /\ p \in Beside(Position)
  <2>1. \A p, m : Near(p, m)' => (m \in Beside(p) \/ p \in Beside(m)) /\ p # m
    BY <1>1 DEF Near, Beside, Abstract!Neighbours
  <2> QED
    BY <1>12, <1>13, <2>1
<1>17. \A a, b : Touch(a, b)' <=> \/ Touch(a, b)
                                  \/ a = r /\ \E m \in Beside(Position) : RegionOfPixel[m] = b
                                  \/ b = r /\ \E m \in Beside(Position) : RegionOfPixel[m] = a
  <2>1. \A a, b : Touch(a, b)' <=> \E p, m \in 1 .. Len(label') :
            Near(p, m)' /\ RegionOfPixel'[p] = a /\ RegionOfPixel'[m] = b
    BY <1>3 DEF Touch
  <2>2. \A a, b : Touch(a, b) <=> \E p, m \in 1 .. Len(label) :
            Near(p, m)' /\ RegionOfPixel'[p] = a /\ RegionOfPixel'[m] = b
    BY <1>1, <1>3, <1>14 DEF Touch
  <2>3. ASSUME NEW a, NEW b, Touch(a, b)'
        PROVE  \/ Touch(a, b)
               \/ a = r /\ \E m \in Beside(Position) : RegionOfPixel[m] = b
               \/ b = r /\ \E m \in Beside(Position) : RegionOfPixel[m] = a
    BY <1>1, <1>13, <1>16, <2>1, <2>2, <2>3
  <2>4. ASSUME NEW m \in Beside(Position)
        PROVE  /\ \A b : RegionOfPixel[m] = b => Touch(r, b)' /\ Touch(b, r)'
    <3>1. m \in 1 .. Len(label') /\ Position \in 1 .. Len(label')
      BY <1>12, <1>13
    <3>2. RegionOfPixel'[m] = RegionOfPixel[m]
      BY <1>1, <1>13
    <3> QED
      BY <1>1, <1>15, <2>1, <3>1, <3>2
  <2>5. \A a, b : Touch(a, b) => Touch(a, b)'
    BY <1>12, <2>1, <2>2
  <2> QED
    BY <2>3, <2>4, <2>5
<1>18. \A a, b \in Regions : Linked(a, b)' \/ Waiting(a, b)' => Touch(a, b)'
  BY <1>7, <1>10, <1>17 DEF LinksInv
<1>19. \A a, b \in Regions : Touch(a, b)' => Told(a, b)'
  <2>1. \A a, b \in Regions : Touch(a, b) => Told(a, b)'
    BY <1>7, <1>8, <1>10 DEF LinksInv, Told
  <2> QED
    BY <1>10, <1>17, <2>1 DEF Told
<1>20. \A a \in Regions : Torn(a)' => \E b \in Regions : Touch(a, b)' /\ Full(b)'
  BY <1>8, <1>17 DEF LinksInv
<1>21. Regions' = Regions
  BY DEF Regions
<1> QED
  BY <1>18, <1>19, <1>20, <1>21 DEF LinksInv

-----------------------------------------------------------------------------
\* Equal pixels beside each other have the same region.
LEMMA SameRegionBeside ==
    ASSUME IInv, PartsInv, ImageParts, NEW p \in 1 .. Len(label), NEW m \in Beside(p),
           m \in 1 .. Len(label), source[p] = source[m]
    PROVE  RegionOfPixel[p] = RegionOfPixel[m]
<1>1. /\ Len(Image) = Len(label) /\ Image[p] = source[p] /\ Image[m] = source[m]
  BY ImageFacts DEF PartsInv
<1>2. PICK b \in Parts : {p, m} \subseteq b
  BY <1>1 DEF ImageParts, ComponentsOf
<1>3. RootOfPixel[p] = RootOfPixel[m]
  BY <1>2 DEF Parts, Classes
<1> QED
  BY <1>3 DEF RegionOfPixel, Pixels

LEMMA TwoColours ==
    ASSUME NEW a \in Colours, NEW b \in Colours, NEW c \in Colours, a # b
    PROVE  c = a \/ c = b
BY ColoursAssumption

LEMMA BesidePlace ==
    ASSUME NEW k \in 1 .. Width, NEW r \in Nat, r >= 1
    PROVE  /\ PixelAt(k, r) \in Nat
           /\ k > 1 => PixelAt(k, r) - 1 \in Beside(PixelAt(k, r))
           /\ r > 1 => PixelAt(k, r) - Width \in Beside(PixelAt(k, r))
<1>1. Width \in Nat /\ Width >= 1 /\ k \in Nat
  BY SizeFacts
<1>2. PICK a \in Nat : a = (r - 1) * Width /\ (r > 1 => a >= Width)
  <2>1. (r - 1) * Width \in Nat /\ (r > 1 => (r - 1) * Width >= Width)
    <3>1. r - 1 \in Nat
      OBVIOUS
    <3>2. PICK d \in Nat : d = r - 1
      BY <3>1
    <3>3. d * Width \in Nat /\ (d >= 1 => d * Width >= Width)
      BY <1>1
    <3> QED
      BY <3>2, <3>3
  <2> QED
    BY <2>1
<1>3. PixelAt(k, r) = a + k
  BY <1>2 DEF PixelAt
<1>4. k > 1 => (a + k) % Width # 1
  <2> SUFFICES ASSUME k > 1 PROVE (a + k) % Width # 1
    OBVIOUS
  <2>1. CASE k < Width
    <3>1. ((r - 1) * Width + k) % Width = k
      BY <1>1, <2>1, Divided
    <3> QED
      BY <1>2, <3>1
  <2>2. CASE k = Width
    <3>1. (r * Width + 0) % Width = 0
      BY <1>1, Divided
    <3>2. r * Width + 0 = a + k
      BY <1>1, <1>2, <2>2
    <3> QED
      BY <3>1, <3>2
  <2> QED
    BY <1>1, <2>1, <2>2
<1>5. r > 1 => a + k > Width
  BY <1>1, <1>2
<1> QED
  BY <1>1, <1>2, <1>3, <1>4, <1>5 DEF Beside, Abstract!Neighbours

\* The pixel above that to the left is also to the left of that above.
LEMMA CornerPixel ==
    ASSUME x \in 1 .. Width, y \in 1 .. Height, x > 1, y > 1
    PROVE  /\ Position - 1 - Width \in Beside(Position - 1)
           /\ Position - 1 - Width \in Beside(Position - Width)
<1>1. /\ Width \in Nat /\ Position \in Nat
      /\ Position - 1 = PixelAt(x - 1, y) /\ Position - Width = PixelAt(x, y - 1)
  BY RowOfPixels, SizeFacts
<1>2. x - 1 \in 1 .. Width /\ y \in Nat /\ y - 1 \in Nat /\ y - 1 >= 1
  BY SizeFacts
<1>3. /\ (Position - 1) - Width \in Beside(Position - 1)
      /\ (Position - Width) - 1 \in Beside(Position - Width)
  BY <1>1, <1>2, BesidePlace
<1>4. (Position - Width) - 1 = Position - 1 - Width
  BY <1>1
<1> QED
  BY <1>3, <1>4

\* A pixel that joins a region touches no region that this region does not touch already: the pixel
\* at the corner between the two pixels beside it has the colour of one of them.
LEMMA CornerTouches ==
    ASSUME IInv, PartsInv, ImageParts, pc = "read", Resolved, NEW c \in Colours, NEW r,
           SameColour(c) # {}, \A m \in SameColour(c) : RegionOfPixel[m] = r,
           NEW m2 \in Beside(Position), source[m2] # c
    PROVE  Touch(r, RegionOfPixel[m2])
<1>1. PICK m1 \in Beside(Position) : source[m1] = c /\ RegionOfPixel[m1] = r
  BY DEF SameColour
<1>2. m1 # m2
  BY <1>1
<1>3. /\ Beside(Position) = (IF x > 1 THEN {Position - 1} ELSE {})
                              \cup (IF y > 1 THEN {Position - Width} ELSE {})
      /\ Beside(Position) \subseteq 1 .. Len(label)
  BY RegionsBeside
<1>4. /\ x > 1 /\ y > 1
      /\ \/ m1 = Position - 1 /\ m2 = Position - Width
         \/ m2 = Position - 1 /\ m1 = Position - Width
  BY <1>1, <1>2, <1>3
<1>5. PICK k : k = Position - 1 - Width
  OBVIOUS
<1>6. k \in Beside(m1) /\ k \in Beside(m2) /\ k \in 1 .. Len(label)
  <2>1. k \in Beside(Position - 1) /\ k \in Beside(Position - Width)
    BY <1>4, <1>5, CornerPixel DEF IInv, TypeOK
  <2>2. Position - 1 \in 1 .. Len(label)
    BY <1>3, <1>4
  <2>3. k \in 1 .. (Position - 1) - 1
    BY <2>1, <2>2, BesideIsBefore
  <2> QED
    BY <1>4, <2>1, <2>2, <2>3, SizeFacts DEF IInv, TypeOK
<1>7. m1 \in 1 .. Len(label) /\ m2 \in 1 .. Len(label)
  BY <1>1, <1>3
<1>8. source[k] = c \/ source[k] = source[m2]
  <2>1. source \in Seq(Colours) /\ Len(source) = Len(label)
    BY DEF IInv, TypeOK, PartsInv, LabelInv, Merging
  <2>2. source[k] \in Colours /\ source[m2] \in Colours /\ c \in Colours
    BY <1>6, <1>7, <2>1
  <2> QED
    BY <2>2, TwoColours
<1>9. \A t : Rep(t) = t
  BY DEF Rep, Merging
<1>10. CASE source[k] = c
  <2>1. RegionOfPixel[k] = r
    BY <1>1, <1>6, <1>7, <1>10, SameRegionBeside
  <2>2. Near(k, m2)
    BY <1>6, <1>10 DEF Near
  <2> QED
    BY <1>6, <1>7, <1>9, <2>1, <2>2 DEF Touch
<1>11. CASE source[k] = source[m2]
  <2>1. RegionOfPixel[k] = RegionOfPixel[m2]
    BY <1>6, <1>7, <1>11, SameRegionBeside
  <2>2. Near(m1, k)
    BY <1>1, <1>6, <1>11 DEF Near
  <2> QED
    BY <1>1, <1>6, <1>7, <1>9, <2>1, <2>2 DEF Touch
<1> QED
  BY <1>8, <1>10, <1>11

-----------------------------------------------------------------------------
LEMMA JoinedPartLinks ==
    ASSUME IInv, PartsInv, LinksInv, ImageParts, Resolved, NEW c \in Colours, NEW r,
           ReadPart(c, r), JoinedPart(c, r)
    PROVE  LinksInv'
<1>1. /\ pc = "read" /\ pc' = "link" /\ UNCHANGED <<x, y, saturating, adjacent, flags, neighbours>>
      /\ neighbours = <<>> /\ saturating = <<>>
      /\ source'[Position] = c /\ \A p \in 1 .. Len(label) : source'[p] = source[p]
      /\ r \in Live /\ Live' = Live
      /\ Len(label) = Position - 1 /\ Len(label') = Position
      /\ \A p \in 1 .. Len(label) : RegionOfPixel'[p] = RegionOfPixel[p]
      /\ RegionOfPixel'[Position] = r
      /\ SameColour(c) # {} /\ \A m \in SameColour(c) : RegionOfPixel[m] = r
  BY DEF ReadPart, JoinedPart, RegionGrown
<1>2. \A t : Rep(t) = t /\ Rep(t)' = t
  BY <1>1 DEF Rep, Merging
<1>3. \A p, q : Linked(p, q)' <=> Linked(p, q)
  BY <1>1, <1>2 DEF Linked
<1>4. \A p : (Full(p)' <=> Full(p)) /\ (Torn(p)' <=> Torn(p))
  BY <1>1, <1>2 DEF Full, Torn
<1>5. \A p, q : ~Waiting(p, q) /\ ~Waiting(p, q)'
  BY <1>1, ListOfNone DEF Waiting
<1>6. Position \in Nat /\ Position >= 1 /\ Len(label) \in Nat
  BY <1>1, RowOfPixels DEF IInv, TypeOK
<1>7. \A p : p \in 1 .. Len(label') <=> p \in 1 .. Len(label) \/ p = Position
  BY <1>1, <1>6
<1>8. /\ Beside(Position) \subseteq 1 .. Len(label)
      /\ \A p \in 1 .. Len(label') : Position \notin Beside(p)
  BY <1>1, <1>6, RegionsBeside, BesideIsBefore
<1>9. \A p, m \in 1 .. Len(label) : Near(p, m)' <=> Near(p, m)
  BY <1>1 DEF Near, Beside, Abstract!Neighbours
<1>10. \A p, m \in 1 .. Len(label') : Near(p, m)' =>
          \/ p \in 1 .. Len(label) /\ m \in 1 .. Len(label)
          \/ p = Position /\ m \in Beside(Position) /\ source[m] # c
          \/ m = Position /\ p \in Beside(Position) /\ source[p] # c
  <2>1. \A p, m : Near(p, m)' => (m \in Beside(p) \/ p \in Beside(m)) /\ source'[p] # source'[m]
    BY <1>1 DEF Near, Beside, Abstract!Neighbours
  <2> QED
    BY <1>1, <1>7, <1>8, <2>1
<1>11. \A m \in Beside(Position) : source[m] # c => Touch(r, RegionOfPixel[m]) /\ Touch(RegionOfPixel[m], r)
  BY <1>1, CornerTouches, TouchSymmetric
<1>12. \A a, b : Touch(a, b)' <=> Touch(a, b)
  <2>1. \A a, b : Touch(a, b)' <=> \E p, m \in 1 .. Len(label') :
            Near(p, m)' /\ RegionOfPixel'[p] = a /\ RegionOfPixel'[m] = b
    BY <1>2 DEF Touch
  <2>2. \A a, b : Touch(a, b) <=> \E p, m \in 1 .. Len(label) :
            Near(p, m)' /\ RegionOfPixel'[p] = a /\ RegionOfPixel'[m] = b
    BY <1>1, <1>2, <1>9 DEF Touch
  <2>3. ASSUME NEW a, NEW b, Touch(a, b)' PROVE Touch(a, b)
    BY <1>1, <1>8, <1>10, <1>11, <2>1, <2>2, <2>3
  <2> QED
    BY <1>7, <2>1, <2>2, <2>3
<1>13. \A p, q \in Regions : Linked(p, q) \/ Waiting(p, q) => Told(p, q)'
  BY <1>3, <1>5 DEF Told
<1> QED
  BY <1>3, <1>4, <1>5, <1>12, <1>13, LinksKept

LEMMA ReadLinks ==
    ASSUME IInv, PartsInv, LinksInv, ImageParts, NEW c \in Colours, ReadWithoutMerge(c)
    PROVE  LinksInv'
<1>1. PICK r : ReadPart(c, r)
  BY PartRead
<1>2. Resolved
  BY DEF ReadWithoutMerge, FirstPixel, TopLine, LeftEdge, ExtendWest, ExtendNorth, CentreNew, InCentre,
         ReadPixel
<1>3. NewPart(c, r) \/ JoinedPart(c, r)
  BY <1>1 DEF ReadPart
<1> QED
  BY <1>1, <1>2, <1>3, NewPartLinks, JoinedPartLinks

\* Before the first pixel there are no regions.
NoRegions == pc = "read" /\ label = <<>> /\ regionCount = 0

LEMMA EmptyLinks == NoRegions => LinksInv
<1> SUFFICES ASSUME NoRegions PROVE LinksInv
  OBVIOUS
<1>1. Live = {} /\ 1 .. Len(label) = {} /\ pc = "read"
  BY DEF NoRegions, Live
<1> QED
  BY <1>1 DEF LinksInv, Touch, Linked, Waiting, Full, Torn

LEMMA LinksStep ==
    ASSUME IInv, PartsInv, LinksInv, ImageParts, [Next]_vars
    PROVE  LinksInv'
<1>1. CASE KeptStep
  BY <1>1, ListStepLinks, MergeRegionsLinks, QuietLinks
<1>2. CASE StepSegmenter
  <2>1. NoRegions'
    BY <1>2 DEF StepSegmenter, NoRegions
  <2> QED
    BY <2>1, EmptyLinks, PTL
<1> QED
  BY <1>1, <1>2, FreeMergedLinks, ReadLinks, StepKinds

\* At every step of every merge and saturation, two regions touch in the image exactly when they
\* list each other, or are about to, or one is full and the other knows.
THEOREM LinksInvariant == Spec => []LinksInv
<1>1. Init => LinksInv
  BY EmptyLinks DEF Init, NoRegions
<1>2. IInv /\ PartsInv /\ LinksInv /\ ImageParts /\ [Next]_vars => LinksInv'
  BY LinksStep
<1> QED
  BY <1>1, <1>2, InductiveInvariant, PartsInvariant, ImagePartsAlways, PTL DEF Spec

\* Regions that touch have different colours.
LEMMA ColoursTouch ==
    ASSUME IInv, PartsInv, Settled, NEW a, NEW b, Touch(a, b)
    PROVE  a # b
<1>1. \A t : Rep(t) = t
  BY DEF Settled, Rep, Merging
<1>2. PICK p, m \in 1 .. Len(label) : Near(p, m) /\ RegionOfPixel[p] = a /\ RegionOfPixel[m] = b
  BY <1>1 DEF Touch
<1> QED
  BY <1>2, PixelRegions DEF Near

\* What the invariant says when no merge is under way.
LEMMA SettledLinks ==
    ASSUME IInv, PartsInv, LinksInv, Settled
    PROVE  /\ \A a, b \in Live : a # b => (Touch(a, b) <=> {a, b} \in TouchingRegions)
           /\ \A e \in TouchingRegions : \E a, b \in Live : e = {a, b} /\ Touch(a, b)
           /\ \A a, b : Linked(a, b) <=> a \in Live /\ b \in Live /\ b \in ElementsOf(adjacent[a])
           /\ \A a, b : ~Waiting(a, b)
           /\ \A a : Full(a) <=> a \in Live /\ Saturated \in flags[a]
           /\ \A a : Torn(a) <=> a \in Live /\ Fragmented \in flags[a]
<1>1. \A t : Rep(t) = t
  BY DEF Settled, Rep, Merging
<1>2. saturating = <<>> /\ \A a, b : ~Waiting(a, b)
  BY DEF Settled, IInv, MergeInv, Waiting
<1>3. \A a : /\ Full(a) <=> a \in Live /\ Saturated \in flags[a]
             /\ Torn(a) <=> a \in Live /\ Fragmented \in flags[a]
  BY <1>1, <1>2, ListOfNone DEF Full, Torn
<1>4. \A a, b : Linked(a, b) <=> a \in Live /\ b \in Live /\ b \in ElementsOf(adjacent[a])
  BY <1>1 DEF Linked
<1>5. \A p \in 1 .. Len(label) : RegionOfPixel[p] \in Live /\ Beside(p) \subseteq 1 .. Len(label)
  <2>1. Len(label) \in Nat
    BY DEF IInv, TypeOK
  <2> QED
    BY <2>1, PixelRegions, BesideIsBefore
<1>6. \A e : e \in TouchingRegions <=>
          \E p, m \in 1 .. Len(label) : /\ m \in Beside(p) /\ source[m] # source[p]
                                        /\ e = {RegionOfPixel[p], RegionOfPixel[m]}
  BY <1>5 DEF TouchingRegions, Pixels, Beside
<1>7. \A a, b : Touch(a, b) <=>
          \E p, m \in 1 .. Len(label) : /\ Near(p, m) /\ RegionOfPixel[p] = a /\ RegionOfPixel[m] = b
  BY <1>1 DEF Touch
<1>8. ASSUME NEW e \in TouchingRegions PROVE \E a, b \in Live : e = {a, b} /\ Touch(a, b)
  BY <1>5, <1>6, <1>7, <1>8 DEF Near
<1>9. ASSUME NEW a, NEW b, Touch(a, b) PROVE {a, b} \in TouchingRegions
  <2>1. PICK p, m \in 1 .. Len(label) : Near(p, m) /\ RegionOfPixel[p] = a /\ RegionOfPixel[m] = b
    BY <1>7, <1>9
  <2>2. CASE m \in Beside(p)
    BY <1>6, <2>1, <2>2 DEF Near
  <2>3. CASE p \in Beside(m)
    <3>1. {a, b} = {b, a}
      OBVIOUS
    <3> QED
      BY <1>6, <2>1, <2>3, <3>1 DEF Near
  <2> QED
    BY <2>1, <2>2, <2>3 DEF Near
<1>10. ASSUME NEW a, NEW b, {a, b} \in TouchingRegions, a # b PROVE Touch(a, b)
  <2>1. PICK p, q : {a, b} = {p, q} /\ Touch(p, q)
    BY <1>8, <1>10
  <2>2. (a = p /\ b = q) \/ (a = q /\ b = p)
    BY <1>10, <2>1
  <2> QED
    BY <2>1, <2>2, TouchSymmetric
<1> QED
  BY <1>2, <1>3, <1>4, <1>8, <1>9, <1>10

\* The lists fidtrackX.c reads are those of the image: two regions that touch list each other, unless
\* one was saturated and the other says so, and no others list each other.
THEOREM ListsAlwaysMatchImage == Spec => []ListsMatchImage
<1>1. IInv /\ PartsInv /\ LinksInv => ListsMatchImage
  <2> SUFFICES ASSUME IInv, PartsInv, LinksInv, Settled
               PROVE  /\ \A a \in Live : \A b \in ElementsOf(adjacent[a]) : {a, b} \in TouchingRegions
                      /\ \A e \in TouchingRegions : \A a, b \in e : a # b =>
                            \/ b \in ElementsOf(adjacent[a])
                            \/ Saturated \in flags[a] /\ Fragmented \in flags[b]
                            \/ Saturated \in flags[b] /\ Fragmented \in flags[a]
    BY DEF ListsMatchImage
  <2>1. Live \subseteq Regions
    BY ListTypes
  <2>2. ASSUME NEW a \in Live, NEW b \in ElementsOf(adjacent[a]) PROVE {a, b} \in TouchingRegions
    <3>1. b \in Live /\ b # a
      BY <2>2, ListedBack
    <3>2. Touch(a, b)
      BY <2>1, <2>2, <3>1, SettledLinks DEF LinksInv
    <3> QED
      BY <3>1, <3>2, SettledLinks
  <2>3. ASSUME NEW e \in TouchingRegions, NEW a \in e, NEW b \in e, a # b
        PROVE  \/ b \in ElementsOf(adjacent[a])
               \/ Saturated \in flags[a] /\ Fragmented \in flags[b]
               \/ Saturated \in flags[b] /\ Fragmented \in flags[a]
    <3>1. PICK p, q \in Live : e = {p, q} /\ Touch(p, q)
      BY <2>3, SettledLinks
    <3>2. /\ (a = p /\ b = q) \/ (a = q /\ b = p)
      BY <2>3, <3>1
    <3>3. Touch(a, b) /\ a \in Live /\ b \in Live
      BY <3>1, <3>2, TouchSymmetric
    <3>4. Told(a, b)
      BY <2>1, <3>3 DEF LinksInv
    <3>5. Linked(b, a) => Linked(a, b)
      BY LinkedSymmetric
    <3> QED
      BY <3>4, <3>5, SettledLinks DEF Told
  <2> QED
    BY <2>2, <2>3
<1> QED
  BY <1>1, InductiveInvariant, PartsInvariant, LinksInvariant, PTL

\* A saturated region has no list for good, and only the regions it touches are marked for it.
THEOREM SaturationIsExact == Spec => []SaturationExact
<1>1. IInv /\ PartsInv /\ LinksInv => SaturationExact
  <2> SUFFICES ASSUME IInv, PartsInv, LinksInv PROVE SaturatedDetached /\ FragmentedBySaturation
    BY DEF SaturationExact
  <2>1. Live \subseteq Regions
    BY ListTypes
  <2>2. ASSUME Settled, NEW a \in Live, Fragmented \in flags[a]
        PROVE  \E e \in TouchingRegions : a \in e /\ \E b \in e \ {a} : Saturated \in flags[b]
    <3>1. Torn(a)
      BY <2>2, SettledLinks
    <3>2. PICK b \in Regions : Touch(a, b) /\ Full(b)
      BY <2>1, <3>1 DEF LinksInv
    <3>3. b \in Live /\ Saturated \in flags[b]
      BY <2>2, <3>2, SettledLinks
    <3>4. a # b
      BY <2>2, <3>2, ColoursTouch
    <3>5. {a, b} \in TouchingRegions
      BY <2>2, <3>2, <3>3, <3>4, SettledLinks
    <3> QED
      BY <3>3, <3>4, <3>5
  <2> QED
    BY <2>2 DEF IInv, FragmentedBySaturation
<1> QED
  BY <1>1, InductiveInvariant, PartsInvariant, LinksInvariant, PTL

-----------------------------------------------------------------------------
(***************************************************************************)
(* The graph handed to the tracker                                         *)
(***************************************************************************)
\* The regions flagged as free are those in the list of freed regions.
FreeInv == \A r \in 1 .. regionCount : Free \in flags[r] <=> r \notin Live

LEMMA KeptStepFree ==
    ASSUME IInv, PartsInv, FreeInv, KeptStep
    PROVE  FreeInv'
<1>1. Live' = Live /\ regionCount' = regionCount
  <2>1. RegionsKept
    BY KeptStepRegions
  <2>2. ASSUME ReferencesKept PROVE regionCount' = regionCount
    BY <2>2 DEF ReferencesKept
  <2>3. regionCount' = regionCount
    BY <2>2, ListStepKeeps DEF KeptStep, vars, regionVars, FollowRedirect, MergeRegions, NextColumn,
       NextRow, LastPixel, PixelDone, BottomRow
  <2> QED
    BY <2>1, <2>3 DEF RegionsKept
<1>2. \A r \in Regions : Free \in flags'[r] <=> Free \in flags[r]
  <2>1. Free \notin {Saturated, Fragmented} /\ Free \notin {Root}
    BY DEF Free, Saturated, Fragmented, Root
  <2>2. CASE ListStep
    BY <2>1, <2>2, ListStepFlags DEF FlagsGrow
  <2>3. CASE UNCHANGED vars \/ FollowRedirect \/ \E c \in Colours : MergeRegions(c)
    BY <2>3 DEF vars, regionVars, FollowRedirect, MergeRegions
  <2>4. CASE NextColumn \/ NextRow \/ LastPixel
    BY <2>1, <2>4, RightEdgeFlags DEF NextColumn, NextRow, LastPixel, FlagsGrow
  <2>5. CASE BottomRow
    <3>1. PICK h : h = regionOf[result]
      OBVIOUS
    <3>2. flags' = [flags EXCEPT ![h] = @ \cup {Root}] /\ flags \in [Regions -> SUBSET Flags]
      BY <2>5, <3>1 DEF BottomRow, IInv, TypeOK
    <3> QED
      BY <2>1, <3>2
  <2> QED
    BY <2>2, <2>3, <2>4, <2>5 DEF KeptStep
<1>3. 1 .. regionCount \subseteq Regions
  BY SizeFacts DEF IInv, TypeOK, Regions
<1> QED
  BY <1>1, <1>2, <1>3 DEF FreeInv

LEMMA NewRegionFree ==
    ASSUME IInv, FreeInv, NEW c \in Colours, ReadPixel(c),
           NEW f, Free \notin f, NEW boxes, NEW touching, NewRegion(c, f, boxes, touching)
    PROVE  FreeInv'
<1> DEFINE r == IF freed = <<>> THEN regionCount + 1 ELSE Head(freed)
<1>1. /\ regionCount' = IF freed = <<>> THEN r ELSE regionCount
      /\ freed' = IF freed = <<>> THEN <<>> ELSE Tail(freed)
      /\ flags' = [flags EXCEPT ![r] = f]
  BY DEF NewRegion, Popped
<1>2. r \in Regions /\ r \notin Live /\ Live' = Live \cup {r}
  BY <1>1, RegionTaken
<1>3. /\ flags \in [Regions -> SUBSET Flags] /\ regionCount \in Nat
      /\ \A k \in 1 .. regionCount : k \in Regions
  BY SizeFacts DEF IInv, TypeOK, Regions
<1>4. \A k \in 1 .. regionCount' : k = r \/ k \in 1 .. regionCount
  BY <1>1, <1>3
<1> HIDE DEF r
<1>5. Free \notin flags'[r] /\ \A k \in 1 .. regionCount : k # r => flags'[k] = flags[k]
  BY <1>1, <1>2, <1>3
<1> QED
  BY <1>2, <1>4, <1>5 DEF FreeInv

LEMMA ReadFree ==
    ASSUME IInv, FreeInv, NEW c \in Colours, ReadWithoutMerge(c)
    PROVE  FreeInv'
<1>1. ReadPixel(c)
  BY DEF ReadWithoutMerge, FirstPixel, TopLine, LeftEdge, ExtendWest, ExtendNorth, CentreNew, InCentre
<1>2. \/ \E q : JoinRegion(q)
      \/ \E boxes, touching : NewRegion(c, {Root}, boxes, touching)
      \/ \E boxes, touching : NewRegion(c, {}, boxes, touching)
  BY DEF ReadWithoutMerge, FirstPixel, TopLine, LeftEdge, ExtendWest, ExtendNorth, CentreNew
<1>3. Free \notin {Root} /\ Free \notin {}
  BY DEF Free, Root
<1>4. ASSUME NEW q, JoinRegion(q) PROVE FreeInv'
  BY <1>4 DEF JoinRegion, FreeInv, Live
<1> QED
  BY <1>1, <1>2, <1>3, <1>4, NewRegionFree

LEMMA FreeMergedFree ==
    ASSUME IInv, PartsInv, FreeInv, FreeMerged
    PROVE  FreeInv'
<1> DEFINE s == R1
           o == R2
<1>1. /\ s # o /\ s \in Live /\ o \in Live /\ Live' = Live \ {o}
      /\ flags'[s] = flags[s] \cup flags[o]
      /\ \A t \in Regions \ {s, o} : flags'[t] = flags[t]
  BY PartMerged DEF MergedPart
<1>2. flags' = [flags EXCEPT ![s] = SurvivorFlags, ![o] = {Free}] /\ regionCount' = regionCount
  BY DEF FreeMerged
<1>3. /\ flags \in [Regions -> SUBSET Flags] /\ Live \subseteq Regions
      /\ \A k \in 1 .. regionCount : k \in Regions
      /\ Live \subseteq 1 .. regionCount
  BY SizeFacts, SMTT(60) DEF IInv, TypeOK, Regions, Live
<1> HIDE DEF s, o
<1>4. Free \in flags'[o]
  BY <1>1, <1>2, <1>3
<1>5. Free \notin flags'[s]
  BY <1>1, <1>3 DEF FreeInv
<1> QED
  BY <1>1, <1>2, <1>3, <1>4, <1>5 DEF FreeInv

\* All that is known of the regions at any step.
GraphInv == IInv /\ PartsInv /\ ImageParts /\ BorderInv /\ BoxesInv /\ LinksInv /\ FreeInv

LEMMA InitGraphInv == Init => GraphInv
<1> SUFFICES ASSUME Init PROVE GraphInv
  OBVIOUS
<1>1. IInv
  BY InitIInv
<1>2. PartsInv /\ ImageParts
  BY InitImageParts, EmptyParts DEF Init, NothingRead, NoParts
<1>3. BorderInv /\ BoxesInv /\ FreeInv
  BY DEF Init, BorderInv, BoxesInv, FreeInv, Live
<1>4. LinksInv
  BY EmptyLinks DEF Init, NoRegions
<1> QED
  BY <1>1, <1>2, <1>3, <1>4 DEF GraphInv

LEMMA NextGraphInv == GraphInv /\ [Next]_vars => GraphInv'
<1> SUFFICES ASSUME GraphInv, [Next]_vars PROVE GraphInv'
  OBVIOUS
<1>1. IInv /\ PartsInv /\ ImageParts /\ BorderInv /\ BoxesInv /\ LinksInv /\ FreeInv
  BY DEF GraphInv
<1>2. IInv' /\ PartsInv' /\ ImageParts'
  BY <1>1, NextIInv, PartsStep, NextImageParts
<1>3. BorderInv' /\ BoxesInv' /\ LinksInv'
  BY <1>1, BorderStep, BoxesStep, LinksStep
<1>4. FreeInv'
  <2>1. CASE StepSegmenter
    BY <2>1 DEF StepSegmenter, FreeInv
  <2> QED
    BY <1>1, <2>1, StepKinds, KeptStepFree, FreeMergedFree, ReadFree
<1> QED
  BY <1>2, <1>3, <1>4 DEF GraphInv

\* Following neighbours from any pixel leads to the border: a set of pixels that is closed under
\* neighbours has the first pixel of the image.
LEMMA ClosedPixels ==
    ASSUME NEW P, NEW n \in Nat, P \subseteq 1 .. n, P # {}, \A p \in P : Beside(p) \subseteq P
    PROVE  1 \in P
<1>1. PICK p \in P : \A q \in P : p <= q
  <2>1. P \subseteq Nat
    OBVIOUS
  <2> QED
    BY ONLY <2>1, P # {}, LeastElement
<1>2. p \in Nat /\ p >= 1
  BY <1>1
<1> DEFINE k == Column(p)
           r == Row(p)
<1>3. k \in 1 .. Width /\ r \in Nat /\ r >= 1 /\ p = PixelAt(k, r) /\ Width \in Nat /\ Width >= 1
  BY <1>2, PlaceOfPixel, SizeFacts
<1> HIDE DEF k, r
<1>4. ~(k > 1)
  <2>1. ASSUME k > 1 PROVE FALSE
    <3>1. p - 1 \in Beside(p)
      BY <1>3, <2>1, BesidePlace
    <3>2. p - 1 \in P
      BY <3>1
    <3> QED
      BY <1>1, <1>2, <3>2
  <2> QED
    BY <2>1
<1>5. ~(r > 1)
  <2>1. ASSUME r > 1 PROVE FALSE
    <3>1. p - Width \in Beside(p)
      BY <1>3, <2>1, BesidePlace
    <3>2. p - Width \in P
      BY <3>1
    <3> QED
      BY <1>1, <1>2, <1>3, <3>2
  <2> QED
    BY <2>1
<1>6. k = 1 /\ r = 1
  BY <1>3, <1>4, <1>5
<1>7. p = 1
  <2>1. PixelAt(1, 1) = 1
    BY <1>3 DEF PixelAt
  <2> QED
    BY <1>3, <1>6, <2>1
<1> QED
  BY <1>1, <1>7

\* The regions beyond a region that is neither saturated nor fragmented are all in its list.
LEMMA NeighboursListed ==
    ASSUME GraphInv, pc = "done", NEW A \in SUBSET Live,
           \A r \in A : ElementsOf(adjacent[r]) \subseteq A /\ flags[r] \cap {Saturated, Fragmented} = {},
           NEW p \in 1 .. Len(label), RegionOfPixel[p] \in A, NEW m \in Beside(p)
    PROVE  RegionOfPixel[m] \in A
<1>1. IInv /\ PartsInv /\ LinksInv /\ ImageParts /\ Settled
  BY DEF GraphInv, Settled
<1>2. Len(label) \in Nat /\ p \in Nat /\ p >= 1
  BY <1>1 DEF IInv, TypeOK
<1>3. m \in 1 .. Len(label)
  BY <1>2, BesideIsBefore
<1> DEFINE a == RegionOfPixel[p]
           b == RegionOfPixel[m]
<1>4. a \in Live /\ b \in Live /\ Live \subseteq Regions
  BY <1>1, <1>3, PixelRegions, ListTypes
<1>5. CASE source[p] = source[m]
  <2>1. b = a
    BY <1>1, <1>2, <1>3, <1>5, SameRegionBeside
  <2> QED
    BY <2>1
<1>6. CASE source[p] # source[m]
  <2>1. \A t : Rep(t) = t
    BY <1>1 DEF Settled, Rep, Merging
  <2>2. Touch(a, b)
    BY <1>3, <1>6, <2>1 DEF Touch, Near
  <2>3. Told(a, b)
    BY <1>1, <1>4, <2>2 DEF LinksInv
  <2>4. ~Full(a) /\ ~Torn(a)
    BY <1>1, SettledLinks
  <2>5. Linked(a, b)
    BY <1>1, <2>3, <2>4, SettledLinks, LinkedSymmetric DEF Told
  <2>6. b \in ElementsOf(adjacent[a])
    BY <1>1, <2>5, SettledLinks
  <2> QED
    BY <2>6
<1> QED
  BY <1>5, <1>6

\* No set of regions is cut off from the border of the image without a mark.
LEMMA NoneCutOff ==
    ASSUME GraphInv, pc = "done", NEW A \in (SUBSET Live) \ {{}},
           \A r \in A : ElementsOf(adjacent[r]) \subseteq A
    PROVE  \E r \in A : flags[r] \cap {Root, Saturated, Fragmented} # {}
<1> SUFFICES ASSUME \A r \in A : flags[r] \cap {Root, Saturated, Fragmented} = {}
             PROVE  FALSE
  OBVIOUS
<1>1. IInv /\ PartsInv /\ BorderInv /\ BoxesInv
  BY DEF GraphInv
<1> DEFINE P == {p \in 1 .. Len(label) : RegionOfPixel[p] \in A}
<1>2. Len(label) \in Nat
  BY <1>1 DEF IInv, TypeOK
<1>3. P # {}
  <2>1. PICK r \in A : TRUE
    OBVIOUS
  <2>2. Covers(box[r], PixelsIn(r), OpenRun)
    BY <1>1 DEF BoxesInv
  <2>3. \E p \in PixelsIn(r) : TRUE
    BY <2>2 DEF Covers
  <2> QED
    BY <2>3 DEF PixelsIn
<1>4. ASSUME NEW p \in P PROVE Beside(p) \subseteq P
  <2>1. ASSUME NEW m \in Beside(p) PROVE m \in P
    <3>1. m \in 1 .. Len(label)
      BY <1>2, BesideIsBefore
    <3>2. RegionOfPixel[p] \in A /\ p \in 1 .. Len(label)
      OBVIOUS
    <3>3. \A r \in A : /\ ElementsOf(adjacent[r]) \subseteq A
                       /\ flags[r] \cap {Saturated, Fragmented} = {}
      OBVIOUS
    <3>4. A \in SUBSET Live
      OBVIOUS
    <3>5. RegionOfPixel[m] \in A
      BY <3>2, <3>3, <3>4, <2>1, NeighboursListed
    <3> QED
      BY <3>1, <3>5
  <2> QED
    BY <2>1
<1>5. 1 \in P
  <2> HIDE DEF P
  <2>1. P \subseteq 1 .. Len(label)
    BY DEF P
  <2> QED
    BY <1>2, <1>3, <1>4, <2>1, ClosedPixels
<1>6. Marked(1)
  <2>1. Row(1) = 1
    BY SizeFacts DEF Row
  <2> QED
    BY <2>1 DEF Marked
<1>7. Root \in flags[RegionOfPixel[1]] /\ RegionOfPixel[1] \in A
  BY <1>1, <1>5, <1>6 DEF BorderInv
<1> QED
  BY <1>7

(***************************************************************************)
(* The tracker with the segmenter (Tracking): its constants and variables. *)
(***************************************************************************)
CONSTANTS RegionLimit, FuzzyRange, MaxCount, Trees, Images
VARIABLES phase, scanned, walker, traversed, childrenVisited, descendents, depth, candidates,
          fiducials, treeString, nextString, reportedTo

Frames == INSTANCE Tracking

LEMMA GraphHandedOver ==
    ASSUME GraphInv, pc = "done", RegionLimit = Width * Height
    PROVE  Frames!RegionGraph
<1>1. IInv /\ FreeInv
  BY DEF GraphInv
<1>2. Frames!Regions = Regions
  BY DEF Frames!Regions, Regions
<1>3. Frames!Used = Live
  <2>1. Live \subseteq 1 .. regionCount
    BY DEF Live
  <2> QED
    BY <1>1, <2>1 DEF FreeInv, Frames!Used, Frames!Free, Free
<1>4. /\ regionCount \in 0 .. RegionLimit
      /\ adjacent \in [Regions -> Seq(Regions)] /\ flags \in [Regions -> SUBSET Flags]
      /\ 1 .. regionCount \subseteq Regions
  BY <1>1, SizeFacts DEF IInv, TypeOK, Regions
<1>5. ASSUME NEW a \in Regions, NEW b \in ElementsOf(adjacent[a])
      PROVE  b \in Live /\ a \in ElementsOf(adjacent[b]) /\ colour[a] # colour[b]
  <2>1. b \in Live /\ colour[a] # colour[b]
    BY <1>1, <1>5 DEF IInv, BidirectionalAdjacency
  <2>2. Contains(adjacent[b], a)
    BY <1>1, <1>5, ListedBothWays DEF IInv
  <2> QED
    BY <2>1, <2>2 DEF Contains, ElementsOf
<1>6. \A r \in 1 .. regionCount : Saturated \in flags[r] => adjacent[r] = <<>>
  BY <1>1, <1>4 DEF IInv, SaturatedDetached
<1>7. ASSUME NEW A \in (SUBSET Live) \ {{}}, Frames!ClosedUnderAdjacency(A)
      PROVE  \E r \in A : flags[r] \cap {Root, Saturated, Fragmented} # {}
  <2>1. \A r \in A : ElementsOf(adjacent[r]) \subseteq A
    BY <1>7 DEF Frames!ClosedUnderAdjacency, Frames!ElementsOf, ElementsOf
  <2> QED
    BY <1>7, <2>1, NoneCutOff
<1>8. /\ Frames!Root = Root /\ Frames!Saturated = Saturated /\ Frames!Fragmented = Fragmented
      /\ Frames!Flags = Flags
  BY DEF Frames!Flags, Flags, Frames!Root, Root, Frames!Saturated, Saturated, Frames!Fragmented,
         Fragmented, Frames!Free, Free, Frames!Lost, Lost
<1>9. \A list : Frames!ElementsOf(list) = ElementsOf(list)
  BY DEF Frames!ElementsOf, ElementsOf
<1> QED
  BY <1>2, <1>3, <1>4, <1>5, <1>6, <1>7, <1>8, <1>9 DEF Frames!RegionGraph

\* The segmenter inside Tracking is the one of these proofs: with the module names left out its
\* definitions are the same, action by action.
LEMMA SameNext == Frames!Seg!Next => Next
<1>1. Frames!Seg!FollowRedirect => FollowRedirect
  BY SMTT(60) DEF Frames!Seg!FollowRedirect, FollowRedirect, Frames!Seg!regionVars, regionVars,
         Frames!Seg!refVars, refVars, Frames!Seg!callVars, callVars, Frames!Seg!inputVars,
         inputVars, Frames!Seg!IsRoot, IsRoot, Frames!Seg!Null, Null
<1>2. Frames!Seg!DetachNeighbour => DetachNeighbour
  BY DEF Frames!Seg!DetachNeighbour, DetachNeighbour, Frames!Seg!refVars, refVars,
         Frames!Seg!rowVars, rowVars, Frames!Seg!callVars, callVars, Frames!Seg!inputVars,
         inputVars, Frames!Seg!Fragmented, Fragmented, Frames!Seg!Contains, Contains,
         Frames!Seg!FirstIndex, FirstIndex, Frames!Seg!DropEntry, DropEntry, Frames!Seg!Without,
         Without
<1>3. Frames!Seg!MarkSaturated => MarkSaturated
  BY DEF Frames!Seg!MarkSaturated, MarkSaturated, Frames!Seg!refVars, refVars,
         Frames!Seg!rowVars, rowVars, Frames!Seg!inputVars, inputVars, Frames!Seg!Saturated,
         Saturated
<1>4. Frames!Seg!NeighbourSaturated => NeighbourSaturated
  BY SMTT(60) DEF Frames!Seg!NeighbourSaturated, NeighbourSaturated, Frames!Seg!refVars, refVars,
         Frames!Seg!rowVars, rowVars, Frames!Seg!inputVars, inputVars, Frames!Seg!IsAdjacent,
         IsAdjacent, Frames!Seg!Here, Here, Frames!Seg!Touched, Touched, Frames!Seg!Linking,
         Linking, Frames!Seg!DetachedOne, DetachedOne, Frames!Seg!Saturated, Saturated,
         Frames!Seg!Fragmented, Fragmented, Frames!Seg!Contains, Contains
<1>5. Frames!Seg!ListFull => ListFull
  BY DEF Frames!Seg!ListFull, ListFull, Frames!Seg!refVars, refVars, Frames!Seg!rowVars,
         rowVars, Frames!Seg!inputVars, inputVars, Frames!Seg!IsAdjacent, IsAdjacent,
         Frames!Seg!Here, Here, Frames!Seg!Touched, Touched, Frames!Seg!IsFull, IsFull,
         Frames!Seg!Linking, Linking, Frames!Seg!Saturated, Saturated, Frames!Seg!Fragmented,
         Fragmented, Frames!Seg!Contains, Contains
<1>6. Frames!Seg!MakeAdjacent => MakeAdjacent
  BY SMTT(60) DEF Frames!Seg!MakeAdjacent, MakeAdjacent, Frames!Seg!refVars, refVars, Frames!Seg!rowVars,
         rowVars, Frames!Seg!inputVars, inputVars, Frames!Seg!IsAdjacent, IsAdjacent,
         Frames!Seg!Here, Here, Frames!Seg!Touched, Touched, Frames!Seg!IsFull, IsFull,
         Frames!Seg!Linking, Linking, Frames!Seg!HasRoom, HasRoom, Frames!Seg!Saturated,
         Saturated, Frames!Seg!Contains, Contains
<1>7. Frames!Seg!RemoveCommon => RemoveCommon
  BY DEF Frames!Seg!RemoveCommon, RemoveCommon, Frames!Seg!refVars, refVars, Frames!Seg!rowVars,
         rowVars, Frames!Seg!inputVars, inputVars, Frames!Seg!West, West, Frames!Seg!North,
         North, Frames!Seg!IsAdjacent, IsAdjacent, Frames!Seg!R1, R1, Frames!Seg!R2, R2,
         Frames!Seg!Unlinked, Unlinked, Frames!Seg!NextIndex, NextIndex, Frames!Seg!Contains,
         Contains, Frames!Seg!FirstIndex, FirstIndex, Frames!Seg!DropEntry, DropEntry,
         Frames!Seg!Without, Without
<1>8. Frames!Seg!CheckCapacity => CheckCapacity
  BY ZenonT(60) DEF Frames!Seg!CheckCapacity, CheckCapacity, Frames!Seg!regionVars, regionVars,
         Frames!Seg!refVars, refVars, Frames!Seg!rowVars, rowVars, Frames!Seg!inputVars,
         inputVars, Frames!Seg!West, West, Frames!Seg!North, North, Frames!Seg!R1, R1,
         Frames!Seg!R2, R2, Frames!Seg!Fits, Fits
<1>9. Frames!Seg!TransferNeighbour => TransferNeighbour
  BY DEF Frames!Seg!TransferNeighbour, TransferNeighbour, Frames!Seg!refVars, refVars,
         Frames!Seg!rowVars, rowVars, Frames!Seg!callVars, callVars, Frames!Seg!inputVars,
         inputVars, Frames!Seg!West, West, Frames!Seg!North, North, Frames!Seg!R1, R1,
         Frames!Seg!R2, R2, Frames!Seg!Contains, Contains, Frames!Seg!FirstIndex, FirstIndex,
         Frames!Seg!Replaced, Replaced
<1>10. Frames!Seg!FreeMerged => FreeMerged
  BY DEF Frames!Seg!FreeMerged, FreeMerged, Frames!Seg!callVars, callVars, Frames!Seg!West,
         West, Frames!Seg!North, North, Frames!Seg!R1, R1, Frames!Seg!R2, R2, Frames!Seg!Lower,
         Lower, Frames!Seg!Higher, Higher, Frames!Seg!Union, Union, Frames!Seg!SurvivorFlags,
         SurvivorFlags, Frames!Seg!MergedCell, MergedCell, Frames!Seg!Free, Free,
         Frames!Seg!Null, Null
<1>11. Frames!Seg!NextColumn => NextColumn
  BY DEF Frames!Seg!NextColumn, NextColumn, Frames!Seg!refVars, refVars, Frames!Seg!callVars,
         callVars, Frames!Seg!inputVars, inputVars, Frames!Seg!Here, Here, Frames!Seg!RightEdge,
         RightEdge, Frames!Seg!PixelDone, PixelDone, Frames!Seg!Root, Root, Frames!Seg!Null,
         Null
<1>12. Frames!Seg!NextRow => NextRow
  BY DEF Frames!Seg!NextRow, NextRow, Frames!Seg!refVars, refVars, Frames!Seg!callVars,
         callVars, Frames!Seg!inputVars, inputVars, Frames!Seg!Here, Here, Frames!Seg!RightEdge,
         RightEdge, Frames!Seg!PixelDone, PixelDone, Frames!Seg!Root, Root
<1>13. Frames!Seg!LastPixel => LastPixel
  BY DEF Frames!Seg!LastPixel, LastPixel, Frames!Seg!refVars, refVars, Frames!Seg!callVars,
         callVars, Frames!Seg!inputVars, inputVars, Frames!Seg!Here, Here, Frames!Seg!RightEdge,
         RightEdge, Frames!Seg!PixelDone, PixelDone, Frames!Seg!Root, Root
<1>14. Frames!Seg!BottomRow => BottomRow
  BY DEF Frames!Seg!BottomRow, BottomRow, Frames!Seg!callVars, callVars, Frames!Seg!IsRoot,
         IsRoot, Frames!Seg!Resolved, Resolved, Frames!Seg!Root, Root, Frames!Seg!Null, Null
<1>15. Frames!Seg!StepSegmenter => StepSegmenter
  BY DEF Frames!Seg!StepSegmenter, StepSegmenter, Frames!Seg!NoColour, NoColour,
         Frames!Seg!Regions, Regions, Frames!Seg!Refs, Refs, Frames!Seg!EmptyBox, EmptyBox,
         Frames!Seg!Null, Null
<1>16. ASSUME NEW c \in Colours, Frames!Seg!FirstPixel(c) PROVE FirstPixel(c)
  BY <1>16 DEF Frames!Seg!FirstPixel, FirstPixel, Frames!Seg!IsRoot, IsRoot, Frames!Seg!Resolved,
         Resolved, Frames!Seg!Compressed, Compressed, Frames!Seg!ResolvedRow, ResolvedRow,
         Frames!Seg!Popped, Popped, Frames!Seg!NewRegion, NewRegion, Frames!Seg!ReadPixel,
         ReadPixel, Frames!Seg!Root, Root, Frames!Seg!Null, Null
<1>17. ASSUME NEW c \in Colours, Frames!Seg!TopLine(c) PROVE TopLine(c)
  BY <1>17 DEF Frames!Seg!TopLine, TopLine, Frames!Seg!callVars, callVars, Frames!Seg!IsRoot, IsRoot,
         Frames!Seg!Resolved, Resolved, Frames!Seg!Compressed, Compressed,
         Frames!Seg!ResolvedRow, ResolvedRow, Frames!Seg!West, West, Frames!Seg!RegionColour,
         RegionColour, Frames!Seg!Popped, Popped, Frames!Seg!NewRegion, NewRegion,
         Frames!Seg!JoinRegion, JoinRegion, Frames!Seg!ReadPixel, ReadPixel, Frames!Seg!Root,
         Root, Frames!Seg!Null, Null
<1>18. ASSUME NEW c \in Colours, Frames!Seg!LeftEdge(c) PROVE LeftEdge(c)
  BY <1>18 DEF Frames!Seg!LeftEdge, LeftEdge, Frames!Seg!callVars, callVars, Frames!Seg!IsRoot,
         IsRoot, Frames!Seg!Resolved, Resolved, Frames!Seg!Compressed, Compressed,
         Frames!Seg!ResolvedRow, ResolvedRow, Frames!Seg!North, North, Frames!Seg!RegionColour,
         RegionColour, Frames!Seg!Popped, Popped, Frames!Seg!NewRegion, NewRegion,
         Frames!Seg!JoinRegion, JoinRegion, Frames!Seg!ReadPixel, ReadPixel, Frames!Seg!Root,
         Root, Frames!Seg!Null, Null
<1>19. ASSUME NEW c \in Colours, Frames!Seg!ExtendWest(c) PROVE ExtendWest(c)
  BY <1>19 DEF Frames!Seg!ExtendWest, ExtendWest, Frames!Seg!callVars, callVars, Frames!Seg!IsRoot,
         IsRoot, Frames!Seg!Resolved, Resolved, Frames!Seg!Compressed, Compressed,
         Frames!Seg!ResolvedRow, ResolvedRow, Frames!Seg!West, West, Frames!Seg!North, North,
         Frames!Seg!RegionColour, RegionColour, Frames!Seg!JoinRegion, JoinRegion,
         Frames!Seg!ReadPixel, ReadPixel, Frames!Seg!InCentre, InCentre, Frames!Seg!MeetsNorth,
         MeetsNorth, Frames!Seg!Null, Null
<1>20. ASSUME NEW c \in Colours, Frames!Seg!ExtendNorth(c) PROVE ExtendNorth(c)
  BY <1>20 DEF Frames!Seg!ExtendNorth, ExtendNorth, Frames!Seg!callVars, callVars, Frames!Seg!IsRoot,
         IsRoot, Frames!Seg!Resolved, Resolved, Frames!Seg!Compressed, Compressed,
         Frames!Seg!ResolvedRow, ResolvedRow, Frames!Seg!West, West, Frames!Seg!North, North,
         Frames!Seg!RegionColour, RegionColour, Frames!Seg!JoinRegion, JoinRegion,
         Frames!Seg!ReadPixel, ReadPixel, Frames!Seg!InCentre, InCentre, Frames!Seg!WestRight,
         WestRight, Frames!Seg!NorthBottom, NorthBottom, Frames!Seg!Null, Null
<1>21. ASSUME NEW c \in Colours, Frames!Seg!CentreNew(c) PROVE CentreNew(c)
  BY <1>21 DEF Frames!Seg!CentreNew, CentreNew, Frames!Seg!IsRoot, IsRoot, Frames!Seg!Resolved,
         Resolved, Frames!Seg!Compressed, Compressed, Frames!Seg!ResolvedRow, ResolvedRow,
         Frames!Seg!West, West, Frames!Seg!North, North, Frames!Seg!RegionColour, RegionColour,
         Frames!Seg!Popped, Popped, Frames!Seg!NewRegion, NewRegion, Frames!Seg!ReadPixel,
         ReadPixel, Frames!Seg!InCentre, InCentre, Frames!Seg!WestRight, WestRight,
         Frames!Seg!TouchedByNew, TouchedByNew, Frames!Seg!Null, Null
<1>22. ASSUME NEW c \in Colours, Frames!Seg!MergeRegions(c) PROVE MergeRegions(c)
  BY <1>22 DEF Frames!Seg!MergeRegions, MergeRegions, Frames!Seg!regionVars, regionVars,
         Frames!Seg!IsRoot, IsRoot, Frames!Seg!Resolved, Resolved, Frames!Seg!Compressed,
         Compressed, Frames!Seg!ResolvedRow, ResolvedRow, Frames!Seg!West, West,
         Frames!Seg!North, North, Frames!Seg!RegionColour, RegionColour, Frames!Seg!ReadPixel,
         ReadPixel, Frames!Seg!InCentre, InCentre, Frames!Seg!MeetsNorth, MeetsNorth,
         Frames!Seg!R1, R1, Frames!Seg!R2, R2, Frames!Seg!Saturated, Saturated, Frames!Seg!Null,
         Null
<1> QED
  BY <1>1, <1>2, <1>3, <1>4, <1>5, <1>6, <1>7, <1>8, <1>9, <1>10, <1>11, <1>12, <1>13, <1>14,
     <1>15, <1>16, <1>17, <1>18, <1>19, <1>20, <1>21, <1>22 DEF Frames!Seg!Next, Next

\* The invariant holds as long as the tracker has not started.  The tracker only reads the graph, and
\* the next frame starts from the initial state of the segmenter.
SegmentingInv == phase = "idle" => GraphInv

LEMMA SegmentingStep == SegmentingInv /\ [Frames!TrackingNext]_(Frames!allVars) => SegmentingInv'
<1> SUFFICES ASSUME SegmentingInv, [Frames!TrackingNext]_(Frames!allVars) PROVE SegmentingInv'
  OBVIOUS
<1>1. CASE Frames!Segment
  <2>1. phase = "idle" /\ Frames!Seg!Next
    BY <1>1 DEF Frames!Segment
  <2>2. Next
    BY <2>1, SameNext
  <2> QED
    BY <2>1, <2>2, NextGraphInv DEF SegmentingInv
<1>2. CASE Frames!FindFiducials
  BY <1>2 DEF Frames!FindFiducials, SegmentingInv
<1>3. CASE Frames!Track
  <2>1. phase # "idle" /\ Frames!Next
    BY <1>3 DEF Frames!Track
  <2>2. phase' # "idle"
    BY <2>1 DEF Frames!Next, Frames!SkipRegion, Frames!StartAtLeaf, Frames!FindCandidate, Frames!Stop,
       Frames!EndAtTop, Frames!ReportToParent, Frames!ScanDone, Frames!IdentifyCandidate,
       Frames!PassOverLost, Frames!NextFiducial, Frames!Return
  <2> QED
    BY <2>2 DEF SegmentingInv
<1>4. CASE Frames!NextFrame
  <2>1. Frames!Seg!StepSegmenter
    BY <1>4 DEF Frames!NextFrame
  <2>2. Init'
    BY <2>1 DEF Frames!Seg!StepSegmenter, Init, Frames!Seg!Regions, Regions, Frames!Seg!Refs, Refs,
       Frames!Seg!NoColour, NoColour, Frames!Seg!EmptyBox, EmptyBox, Frames!Seg!Null, Null
  <2>3. GraphInv'
    BY <2>2, InitGraphInv, PTL
  <2> QED
    BY <2>3 DEF SegmentingInv
<1>5. CASE UNCHANGED Frames!allVars
  <2>1. UNCHANGED vars /\ phase' = phase
    BY <1>5 DEF Frames!allVars, Frames!segmenterOnly, Frames!vars, Frames!graphVars,
       Frames!trackerVars, vars, regionVars, refVars, rowVars, callVars, inputVars
  <2> QED
    BY <2>1, NextGraphInv DEF SegmentingInv
<1> QED
  BY <1>1, <1>2, <1>3, <1>4, <1>5 DEF Frames!TrackingNext

\* In every frame the segmenter hands over a graph as the tracker relies on, after any merges and
\* saturations: symmetric lists, and no part of the image cut off without a mark.
THEOREM TrackerGetsItsGraph ==
    ASSUME RegionLimit = Width * Height
    PROVE  Frames!TrackingSpec => []Frames!HandsOverGraph
<1>1. Frames!TrackingInit => SegmentingInv
  <2> SUFFICES ASSUME Frames!TrackingInit PROVE GraphInv
    BY DEF SegmentingInv
  <2>1. Frames!Seg!Init
    BY DEF Frames!TrackingInit
  <2>2. Init
    BY <2>1 DEF Frames!Seg!Init, Init, Frames!Seg!Regions, Regions, Frames!Seg!Refs, Refs,
       Frames!Seg!NoColour, NoColour, Frames!Seg!EmptyBox, EmptyBox, Frames!Seg!Null, Null
  <2> QED
    BY <2>2, InitGraphInv
<1>2. SegmentingInv => Frames!HandsOverGraph
  BY GraphHandedOver DEF SegmentingInv, Frames!HandsOverGraph
<1> QED
  BY <1>1, <1>2, SegmentingStep, PTL DEF Frames!TrackingSpec
=============================================================================

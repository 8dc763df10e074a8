-------------------------- MODULE FidtrackerProofs --------------------------
(***************************************************************************)
(* The walk of find_roots never breaks its assertions, on any graph that   *)
(* is as the tracker relies on.                                            *)
(*                                                                         *)
(* The argument: a region that has reported to its parent has heard from   *)
(* all of its other neighbours.  If any region had reported to a leaf that *)
(* the scan still has to start from, then that leaf, the regions that      *)
(* reported to it, the regions that reported to those, and so on, would be *)
(* cut off from the rest of the image without one of them being on the     *)
(* border or incomplete.                                                   *)
(*                                                                         *)
(* And the strings of the trees that are looked up fit into the buffers.   *)
(* What a region counts as its descendents is what the regions below it    *)
(* count, and those regions: so many cells.  Region by region, the cells   *)
(* of what is below it find room among its own, and there are no more      *)
(* regions in the tree of a candidate, nor bytes in its string, than it    *)
(* has descendents.                                                        *)
(***************************************************************************)
EXTENDS Tracking, FoldProofs, FiniteSetTheorems, FunctionTheorems, SequenceTheorems, TLAPS

\* The regions that have reported to p.
ToldTo(p) == {c \in Regions : reportedTo[c] = p}

Complete(r) == flags[r] \cap {Root, Saturated, Fragmented, Free} = {}

WalkTypeOK ==
    /\ scanned \in Nat \ {0}
    /\ traversed \subseteq Regions
    /\ childrenVisited \in [Regions -> Nat]
    /\ reportedTo \in [Regions -> Regions \cup {Null}]

\* children_visited_count counts what it says.
CountInv == \A p \in Regions : childrenVisited[p] = Cardinality(ToldTo(p))

\* A region reports once, to a neighbour, after all of its other neighbours reported to it.
ReportInv ==
    \A c \in Regions : reportedTo[c] # Null =>
        /\ c \in traversed
        /\ Complete(c)
        /\ reportedTo[c] \in ElementsOf(adjacent[c])
        /\ \A a \in ElementsOf(adjacent[c]) \ {reportedTo[c]} : reportedTo[a] = c

\* Leaves are entered by the scan only.
StartInv ==
    \A r \in traversed : IsStart(r) => r < scanned \/ (r = scanned /\ phase = "walk")

EnterInv ==
    phase = "walk" =>
        /\ walker \in Used \ traversed
        /\ IsStart(walker) => walker = scanned
        /\ ~IsStart(walker) =>
              /\ Saturated \notin flags[walker]
              /\ childrenVisited[walker] =
                    IF flags[walker] \cap {Root, Fragmented} = {} THEN Len(adjacent[walker]) - 1
                                                                  ELSE Len(adjacent[walker])

WalkInv == RegionGraph /\ WalkTypeOK /\ CountInv /\ ReportInv /\ StartInv /\ EnterInv

IInv ==
    /\ phase \in {"scan", "walk", "report", "done"}
    /\ phase \in {"scan", "walk"} => WalkInv

-----------------------------------------------------------------------------
(***************************************************************************)
(* Facts about one state                                                   *)
(***************************************************************************)

\* The regions of a list of n entries, one of them left out, are at most n - 1.
LEMMA EntriesBound ==
    ASSUME NEW U, NEW list \in Seq(U), NEW I \in SUBSET (1 .. Len(list))
    PROVE  /\ IsFiniteSet({list[k] : k \in I})
           /\ Cardinality({list[k] : k \in I}) <= Cardinality(I)
<1> DEFINE T == {list[k] : k \in I}
           f == [k \in I |-> list[k]]
<1>1. IsFiniteSet(I)
  <2>1. IsFiniteSet(1 .. Len(list))
    BY FS_Interval
  <2> QED
    BY <2>1, FS_Subset
<1>2. f \in Surjection(I, T)
  BY DEF Surjection
<1> HIDE DEF f
<1> QED
  BY <1>1, <1>2, FS_Surjection

\* No region reports to a leaf that the scan starts from.
LEMMA NoneToldLeaf ==
    ASSUME RegionGraph, WalkTypeOK, ReportInv,
           NEW r \in Used, IsStart(r)
    PROVE  ToldTo(r) = {}
<1>1. SUFFICES ASSUME NEW c \in Regions, reportedTo[c] = r
               PROVE  FALSE
  BY DEF ToldTo
<1> DEFINE Closed(T) == r \in T /\ \A q \in Regions : reportedTo[q] \in T => q \in T
           S == {q \in Regions : \A T \in SUBSET Regions : Closed(T) => q \in T}
<1>2. r \in Regions /\ Used \subseteq Regions
  BY TrackerAssumption DEF RegionGraph, Used, Regions
<1>3. r \in S /\ \A q \in Regions : reportedTo[q] \in S => q \in S
  BY <1>2
<1>4. ASSUME NEW q \in S
      PROVE  q = r \/ reportedTo[q] \in S
  <2> DEFINE T == {p \in S : p = r \/ reportedTo[p] \in S}
  <2>1. T \in SUBSET Regions
    OBVIOUS
  <2>2. Closed(T)
    BY <1>3
  <2> QED
    BY <2>1, <2>2
<1>5. S \subseteq Regions
  OBVIOUS
<1> HIDE DEF S
<1>6. Null \notin Regions
  BY DEF Null, Regions
<1>7. ASSUME NEW q \in S, q # r
      PROVE  /\ Complete(q)
             /\ reportedTo[q] \in ElementsOf(adjacent[q])
             /\ \A a \in ElementsOf(adjacent[q]) : a \in S
  <2>1. reportedTo[q] \in S /\ reportedTo[q] # Null
    BY <1>4, <1>5, <1>6, <1>7
  <2>2. /\ Complete(q)
        /\ reportedTo[q] \in ElementsOf(adjacent[q])
        /\ \A a \in ElementsOf(adjacent[q]) \ {reportedTo[q]} : reportedTo[a] = q
    BY <2>1, <1>5, <1>7 DEF ReportInv
  <2>3. ElementsOf(adjacent[q]) \subseteq Regions
    BY <1>2, <1>5, <1>7 DEF RegionGraph
  <2>4. ASSUME NEW a \in ElementsOf(adjacent[q])
        PROVE  a \in S
    BY <2>1, <2>2, <2>3, <1>3, <1>7
  <2> QED
    BY <2>2, <2>4
<1>8. c \in S /\ c # r
  <2>1. c \in S
    BY <1>1, <1>3
  <2>2. c \in ElementsOf(adjacent[r])  \/ c = r
    BY <1>1, <1>2, <1>6, <2>1, <1>7 DEF RegionGraph
  <2>3. r \notin ElementsOf(adjacent[r])
    BY <1>2 DEF RegionGraph
  <2>4. c # r
    BY <1>1, <1>2, <1>6, <2>3 DEF ReportInv
  <2> QED
    BY <2>1, <2>4
<1>9. \A a \in ElementsOf(adjacent[r]) : a = c
  <2>1. r \in ElementsOf(adjacent[c])
    BY <1>1, <1>7, <1>8
  <2>2. c \in ElementsOf(adjacent[r])
    BY <2>1, <1>1 DEF RegionGraph
  <2>3. adjacent[r] \in Seq(Regions) /\ Len(adjacent[r]) = 1
    BY <1>2 DEF RegionGraph, IsStart
  <2> QED
    BY <2>2, <2>3 DEF ElementsOf
<1>10. S \in (SUBSET Used) \ {{}} /\ ClosedUnderAdjacency(S)
  <2>1. ASSUME NEW q \in S
        PROVE  /\ q \in Used
               /\ ElementsOf(adjacent[q]) \subseteq S
    <3>1. CASE q = r
      BY <3>1, <1>8, <1>9
    <3>2. CASE q # r
      <4>1. reportedTo[q] \in ElementsOf(adjacent[q])
        BY <3>2, <1>7
      <4>2. reportedTo[q] \in Regions /\ q \in ElementsOf(adjacent[reportedTo[q]])
        BY <4>1, <1>2, <1>5 DEF RegionGraph
      <4>3. q \in Used
        BY <4>2 DEF RegionGraph
      <4> QED
        BY <4>3, <3>2, <1>7
    <3> QED
      BY <3>1, <3>2
  <2> QED
    BY <2>1, <1>3 DEF ClosedUnderAdjacency
<1>11. PICK q \in S : flags[q] \cap {Root, Saturated, Fragmented} # {}
  BY <1>10 DEF RegionGraph
<1> QED
  BY <1>7, <1>11 DEF Complete, IsStart

\* A region about to be entered has one neighbour at most that has not been entered; when it has
\* one, the region is complete and all of its other neighbours have reported to it.
LEMMA ReadyRegion ==
    ASSUME WalkInv, phase = "walk"
    PROVE  /\ walker \in Regions /\ walker \notin traversed /\ walker # Null
           /\ childrenVisited[walker] \in {Len(adjacent[walker]) - 1, Len(adjacent[walker])}
           /\ \A k \in Open(walker) :
                /\ Complete(walker)
                /\ \A j \in Entries(walker) \ {k} : reportedTo[adjacent[walker][j]] = walker
                /\ \A j \in Open(walker) : j = k
<1> DEFINE n == Len(adjacent[walker])
           X == ToldTo(walker)
<1>1. /\ walker \in Used /\ walker \in Regions /\ walker \notin traversed /\ walker # Null
      /\ adjacent[walker] \in Seq(Regions) /\ n \in Nat
  BY TrackerAssumption, SMTT(60) DEF WalkInv, EnterInv, RegionGraph, Used, Regions, Null
<1>2. childrenVisited[walker] = Cardinality(X)
  BY <1>1 DEF WalkInv, CountInv
<1>3. /\ childrenVisited[walker] \in {n - 1, n}
      /\ childrenVisited[walker] = n - 1 => Complete(walker)
  <2>1. CASE IsStart(walker)
    <3>1. X = {}
      BY <2>1, <1>1, NoneToldLeaf DEF WalkInv
    <3>2. Cardinality(X) = 0
      BY <3>1, FS_EmptySet
    <3> QED
      BY <3>2, <2>1, <1>2 DEF IsStart, Complete
  <2>2. CASE ~IsStart(walker)
    <3>1. /\ Saturated \notin flags[walker]
          /\ childrenVisited[walker] =
                IF flags[walker] \cap {Root, Fragmented} = {} THEN n - 1 ELSE n
      BY <2>2 DEF WalkInv, EnterInv
    <3>2. Free \notin flags[walker]
      BY <1>1 DEF Used
    <3>3. CASE flags[walker] \cap {Root, Fragmented} = {}
      BY <3>1, <3>2, <3>3 DEF Complete
    <3>4. CASE flags[walker] \cap {Root, Fragmented} # {}
      BY <3>1, <3>4, <1>1
    <3> QED
      BY <3>3, <3>4
  <2> QED
    BY <2>1, <2>2
<1>4. X \subseteq traversed /\ X \subseteq ElementsOf(adjacent[walker])
  <2>1. ASSUME NEW c \in X
        PROVE  c \in traversed /\ c \in ElementsOf(adjacent[walker])
    <3>1. c \in Regions /\ reportedTo[c] = walker
      BY DEF ToldTo
    <3>2. c \in traversed /\ walker \in ElementsOf(adjacent[c])
      BY <3>1, <1>1 DEF WalkInv, ReportInv
    <3> QED
      BY <3>1, <3>2 DEF WalkInv, RegionGraph
  <2> QED
    BY <2>1
<1>5. ASSUME NEW k \in Open(walker)
      PROVE  /\ Complete(walker)
             /\ \A j \in Entries(walker) \ {k} : adjacent[walker][j] \in X
  <2> DEFINE I == Entries(walker) \ {k}
             Y == {adjacent[walker][j] : j \in I}
  <2>1. k \in 1 .. n /\ adjacent[walker][k] \notin traversed
    BY DEF Open, Counted, Entries
  <2>2. IsFiniteSet(I) /\ Cardinality(I) = n - 1
    <3>1. IsFiniteSet(1 .. n) /\ Cardinality(1 .. n) = n
      BY <1>1, FS_Interval, SMTT(60)
    <3>2. I = (1 .. n) \ {k}
      BY DEF Entries
    <3>3. IsFiniteSet((1 .. n) \ {k}) /\ Cardinality((1 .. n) \ {k}) = n - 1
      BY <3>1, <2>1, FS_RemoveElement
    <3> HIDE DEF I
    <3> QED
      BY <3>2, <3>3
  <2>3. IsFiniteSet(Y) /\ Cardinality(Y) <= n - 1
    <3>1. I \in SUBSET (1 .. n)
      BY DEF Entries
    <3>2. IsFiniteSet(Y) /\ Cardinality(Y) <= Cardinality(I)
      BY <3>1, <1>1, EntriesBound
    <3> QED
      BY <3>2, <2>2
  <2>4. X \in SUBSET Y
    BY <1>4, <2>1 DEF ElementsOf, Entries
  <2> HIDE DEF X, Y
  <2>5. /\ Cardinality(X) <= Cardinality(Y)
        /\ Cardinality(Y) = Cardinality(X) => Y = X
        /\ Cardinality(Y) \in Nat
    BY <2>3, <2>4, FS_Subset, FS_CardinalityType
  <2>6. Cardinality(X) = n - 1 /\ X = Y
    BY <2>3, <2>5, <1>1, <1>2, <1>3
  <2> QED
    BY <2>6, <1>2, <1>3 DEF Y
<1>6. ASSUME NEW k \in Open(walker), NEW j \in Open(walker)
      PROVE  j = k
  BY <1>4, <1>5, <1>6 DEF Open, Counted, Entries
<1> QED
  BY <1>1, <1>3, <1>5, <1>6 DEF ToldTo

\* IInv implies the assertions.
LEMMA InvAssertions == IInv => Assertions
<1> SUFFICES ASSUME IInv PROVE Assertions
  OBVIOUS
<1>1. ASSUME phase = "walk"
      PROVE  /\ walker \notin traversed
             /\ childrenVisited[walker] \in {Len(adjacent[walker]) - 1, Len(adjacent[walker])}
             /\ \A j, k \in Open(walker) : j = k
             /\ \A a \in ElementsOf(adjacent[walker]) : walker \in ElementsOf(adjacent[a])
  <2>1. WalkInv
    BY <1>1 DEF IInv
  <2>2. walker \in Regions
    BY <2>1, <1>1, ReadyRegion
  <2>3. \A a \in ElementsOf(adjacent[walker]) : walker \in ElementsOf(adjacent[a])
    BY <2>1, <2>2 DEF WalkInv, RegionGraph
  <2> QED
    BY <2>1, <2>3, <1>1, ReadyRegion
<1>2. ASSUME phase = "scan", scanned <= regionCount, IsStart(scanned)
      PROVE  scanned \notin traversed /\ childrenVisited[scanned] = 0
  <2>1. WalkInv
    BY <1>2 DEF IInv
  <2>2. scanned \in Used /\ scanned \in Regions
    BY <2>1, <1>2, TrackerAssumption DEF WalkInv, WalkTypeOK, RegionGraph, Used, IsStart, Regions
  <2>3. ToldTo(scanned) = {}
    BY <2>1, <2>2, <1>2, NoneToldLeaf DEF WalkInv
  <2>4. childrenVisited[scanned] = 0
    BY <2>1, <2>2, <2>3, FS_EmptySet DEF WalkInv, CountInv
  <2>5. scanned \notin traversed
    BY <2>1, <1>2 DEF WalkInv, StartInv, WalkTypeOK
  <2> QED
    BY <2>4, <2>5
<1> QED
  BY <1>1, <1>2 DEF Assertions

-----------------------------------------------------------------------------
(***************************************************************************)
(* Induction                                                               *)
(***************************************************************************)

LEMMA InitInv == Init => IInv
<1> SUFFICES ASSUME Init PROVE IInv
  OBVIOUS
<1>1. WalkTypeOK
  BY DEF Init, Fresh, WalkTypeOK
<1>2. CountInv
  <2>1. ASSUME NEW p \in Regions
        PROVE  childrenVisited[p] = 0 /\ ToldTo(p) = {}
    BY DEF Init, Fresh, ToldTo, Regions, Null
  <2> QED
    BY <2>1, FS_EmptySet DEF CountInv
<1>3. ReportInv /\ StartInv /\ EnterInv
  BY DEF Init, Fresh, ReportInv, StartInv, EnterInv
<1> QED
  BY <1>1, <1>2, <1>3 DEF IInv, WalkInv, Init

\* Marking a region as lost changes nothing that the walk depends on.
LEMMA LostUnseen ==
    ASSUME RegionGraph, UNCHANGED <<regionCount, colour, adjacent>>,
           \/ flags' = flags
           \/ flags' = [flags EXCEPT ![walker] = @ \cup {Lost}]
    PROVE  /\ RegionGraph' /\ Used' = Used
           /\ \A r \in Regions : /\ IsStart(r)' = IsStart(r)
                                 /\ Complete(r)' = Complete(r)
                                 /\ \A f \in {Root, Saturated, Fragmented, Free} :
                                        f \in flags'[r] <=> f \in flags[r]
<1>1. \A r \in Regions : \A f \in {Root, Saturated, Fragmented, Free} :
          f \in flags'[r] <=> f \in flags[r]
  BY SMTT(60) DEF RegionGraph, Root, Saturated, Fragmented, Free, Lost
<1>2. flags' \in [Regions -> SUBSET Flags]
  BY DEF RegionGraph, Flags
<1>3. 1 .. regionCount \subseteq Regions
  BY TrackerAssumption DEF RegionGraph, Regions
<1>4. Used' = Used
  BY <1>1, <1>3 DEF Used
<1>5. \A r \in Regions : flags'[r] \cap {Root, Saturated, Fragmented}
                            = flags[r] \cap {Root, Saturated, Fragmented}
  BY <1>1
<1>6. \A A : ClosedUnderAdjacency(A)' <=> ClosedUnderAdjacency(A)
  BY DEF ClosedUnderAdjacency, ElementsOf
<1>7. \A A \in (SUBSET Used)' \ {{}} :
          ClosedUnderAdjacency(A)' => \E r \in A : flags'[r] \cap {Root, Saturated, Fragmented} # {}
  <2>1. ASSUME NEW A \in (SUBSET Used) \ {{}}, ClosedUnderAdjacency(A)
        PROVE  \E r \in A : flags'[r] \cap {Root, Saturated, Fragmented} # {}
    <3>1. PICK r \in A : flags[r] \cap {Root, Saturated, Fragmented} # {}
      BY <2>1 DEF RegionGraph
    <3>2. r \in Regions
      BY <1>3 DEF Used
    <3> QED
      BY <3>1, <3>2, <1>5
  <2> QED
    BY <2>1, <1>4, <1>6
<1>8. \A r \in (1 .. regionCount)' : Saturated \in flags'[r] => adjacent'[r] = <<>>
  BY <1>1, <1>3 DEF RegionGraph
<1>9. \A a \in Regions : \A q \in ElementsOf(adjacent'[a]) :
          q \in Used' /\ a \in ElementsOf(adjacent'[q]) /\ colour'[a] # colour'[q]
  BY <1>4 DEF RegionGraph
<1>10. RegionGraph'
  BY <1>2, <1>7, <1>8, <1>9 DEF RegionGraph, Regions
<1>11. ASSUME NEW r \in Regions
       PROVE  IsStart(r)' = IsStart(r) /\ Complete(r)' = Complete(r)
  BY <1>1 DEF IsStart, Complete
<1> QED
  BY <1>1, <1>4, <1>10, <1>11

\* The parent is one of the open entries.
LEMMA ParentOpen ==
    ASSUME WalkInv, phase = "walk", MayReport
    PROVE  \E k \in Open(walker) : Parent = adjacent[walker][k]
<1>1. Open(walker) # {} /\ Parent = adjacent[walker][Max(Open(walker))]
  BY DEF MayReport, Parent
<1>2. PICK k \in Open(walker) : \A j \in Open(walker) : j = k
  BY <1>1, ReadyRegion
<1>3. k \in Int
  BY DEF Open, Entries
<1>4. \E m \in Open(walker) : \A j \in Open(walker) : m >= j
  BY <1>2, <1>3
<1>5. Max(Open(walker)) \in Open(walker)
  BY <1>4 DEF Max
<1> QED
  BY <1>1, <1>5

\* What a walk step leaves as it was, apart from where it goes next.
LEMMA EnterKeeps ==
    ASSUME WalkInv, Enter,
           \/ flags' = flags
           \/ flags' = [flags EXCEPT ![walker] = @ \cup {Lost}],
           \/ UNCHANGED <<childrenVisited, reportedTo>>
           \/ /\ MayReport
              /\ childrenVisited' = [childrenVisited EXCEPT ![Parent] = @ + 1]
              /\ reportedTo' = [reportedTo EXCEPT ![walker] = Parent],
           scanned' \in {scanned, scanned + 1}
    PROVE  /\ RegionGraph' /\ WalkTypeOK' /\ CountInv' /\ ReportInv'
           /\ \A r \in traversed' : IsStart(r)' => r <= scanned
<1>1. /\ phase = "walk" /\ traversed' = traversed \cup {walker}
      /\ UNCHANGED <<regionCount, colour, adjacent>>
  BY DEF Enter
<1>2. /\ walker \in Regions /\ walker \notin traversed /\ walker # Null
      /\ \A k \in Open(walker) :
            /\ Complete(walker)
            /\ \A j \in Entries(walker) \ {k} : reportedTo[adjacent[walker][j]] = walker
  BY <1>1, ReadyRegion
<1>3. /\ RegionGraph' /\ Used' = Used
      /\ \A r \in Regions : IsStart(r)' = IsStart(r) /\ Complete(r)' = Complete(r)
  BY <1>1, LostUnseen DEF WalkInv
<1>4. \A r \in traversed' : r \in Regions /\ (IsStart(r)' => r <= scanned)
  <2>1. ASSUME NEW r \in traversed, IsStart(r)
        PROVE  r <= scanned
    BY <2>1 DEF WalkInv, StartInv, WalkTypeOK, Regions
  <2>2. IsStart(walker) => walker <= scanned
    BY <1>1 DEF WalkInv, EnterInv, WalkTypeOK
  <2> QED
    BY <2>1, <2>2, <1>1, <1>2, <1>3 DEF WalkInv, WalkTypeOK
<1>5. reportedTo[walker] = Null
  BY <1>2 DEF WalkInv, ReportInv
<1>6. CASE UNCHANGED <<childrenVisited, reportedTo>>
  <2>1. CountInv' /\ WalkTypeOK'
    BY <1>6, <1>4 DEF WalkInv, CountInv, WalkTypeOK, ToldTo, Regions
  <2>2. ReportInv'
    BY <1>6, <1>1, <1>3 DEF WalkInv, ReportInv
  <2> QED
    BY <2>1, <2>2, <1>3, <1>4
<1>7. CASE /\ MayReport
           /\ childrenVisited' = [childrenVisited EXCEPT ![Parent] = @ + 1]
           /\ reportedTo' = [reportedTo EXCEPT ![walker] = Parent]
  <2>1. PICK k \in Open(walker) : Parent = adjacent[walker][k]
    BY <1>1, <1>7, ParentOpen
  <2>2. /\ Parent \in Regions /\ Parent # walker /\ Parent # Null
        /\ Parent \in ElementsOf(adjacent[walker])
    <3>1. k \in 1 .. Len(adjacent[walker])
      BY <2>1 DEF Open, Entries
    <3>2. Parent \in ElementsOf(adjacent[walker])
      BY <2>1, <3>1 DEF ElementsOf
    <3>3. Parent \in Regions
      BY <2>1, <3>1, <1>2 DEF WalkInv, RegionGraph
    <3> QED
      BY <3>2, <3>3, <1>2 DEF WalkInv, RegionGraph, Regions, Null
  <2> DEFINE P == Parent
  <2> HIDE DEF P
  <2>3. /\ reportedTo' = [reportedTo EXCEPT ![walker] = P]
        /\ childrenVisited' = [childrenVisited EXCEPT ![P] = @ + 1]
        /\ P \in Regions /\ P # walker /\ P # Null /\ P \in ElementsOf(adjacent[walker])
    BY <1>7, <2>2 DEF P
  <2>4. WalkTypeOK'
    BY <2>3, <1>2, <1>4 DEF WalkInv, WalkTypeOK, Regions
  <2>5. CountInv'
    <3>1. SUFFICES ASSUME NEW p \in Regions
                   PROVE  childrenVisited'[p] = Cardinality(ToldTo(p)')
      BY DEF CountInv, Regions
    <3>2. IsFiniteSet(ToldTo(p))
      <4>1. IsFiniteSet(Regions)
        BY TrackerAssumption, FS_Interval DEF Regions
      <4> QED
        BY <4>1, FS_Subset DEF ToldTo
    <3>3. childrenVisited[p] = Cardinality(ToldTo(p)) /\ childrenVisited[p] \in Nat
      BY DEF WalkInv, CountInv, WalkTypeOK
    <3>4. CASE p = P
      <4>1. ToldTo(p)' = ToldTo(p) \cup {walker} /\ walker \notin ToldTo(p)
        BY <3>4, <2>3, <1>2, <1>5 DEF ToldTo, WalkInv, WalkTypeOK, Regions
      <4>2. Cardinality(ToldTo(p)') = Cardinality(ToldTo(p)) + 1
        BY <4>1, <3>2, FS_AddElement
      <4> QED
        BY <4>2, <3>3, <3>4, <2>3 DEF WalkInv, WalkTypeOK
    <3>5. CASE p # P
      <4>1. ToldTo(p)' = ToldTo(p)
        BY <3>5, <2>3, <1>2, <1>5 DEF ToldTo, WalkInv, WalkTypeOK, Regions, Null
      <4> QED
        BY <4>1, <3>3, <3>5, <2>3 DEF WalkInv, WalkTypeOK
    <3> QED
      BY <3>4, <3>5
  <2>6. ReportInv'
    <3>1. SUFFICES ASSUME NEW c \in Regions, reportedTo'[c] # Null
                   PROVE  /\ c \in traversed'
                          /\ Complete(c)'
                          /\ reportedTo'[c] \in ElementsOf(adjacent'[c])
                          /\ \A a \in ElementsOf(adjacent'[c]) \ {reportedTo'[c]} :
                                reportedTo'[a] = c
      BY DEF ReportInv, Regions
    <3>2. adjacent' = adjacent
      BY <1>1
    <3>3. \A a \in ElementsOf(adjacent[c]) : a \in Regions
      <4>1. adjacent[c] \in Seq(Regions)
        BY DEF WalkInv, RegionGraph
      <4> QED
        BY <4>1 DEF ElementsOf
    <3>4. CASE c = walker
      <4>1. reportedTo'[c] = P
        BY <3>4, <2>3 DEF WalkInv, WalkTypeOK
      <4>2. Complete(c)'
        BY <3>4, <1>2, <1>3, <2>1
      <4>3. ASSUME NEW a \in ElementsOf(adjacent[c]), a # P
            PROVE  reportedTo'[a] = c
        <5>1. PICK j \in Entries(walker) : a = adjacent[walker][j]
          BY <4>3, <3>4 DEF ElementsOf, Entries
        <5>2. j # k
          BY <5>1, <4>3, <2>1 DEF P
        <5>3. reportedTo[a] = walker
          BY <5>1, <5>2, <1>2, <2>1
        <5> QED
          BY <5>3, <3>3, <3>4, <4>3, <2>3, <1>2, <1>5 DEF WalkInv, WalkTypeOK
      <4> QED
        BY <4>1, <4>2, <4>3, <3>2, <3>4, <2>3, <1>1
    <3>5. CASE c # walker
      <4>1. reportedTo'[c] = reportedTo[c]
        BY <3>5, <2>3 DEF WalkInv, WalkTypeOK
      <4>2. /\ c \in traversed /\ Complete(c)
            /\ reportedTo[c] \in ElementsOf(adjacent[c])
            /\ \A a \in ElementsOf(adjacent[c]) \ {reportedTo[c]} : reportedTo[a] = c
        BY <4>1, <3>1 DEF WalkInv, ReportInv
      <4>3. ASSUME NEW a \in ElementsOf(adjacent[c]), a # reportedTo[c]
            PROVE  reportedTo'[a] = c
        <5>1. reportedTo[a] = c /\ a # walker
          BY <4>2, <4>3, <1>5, <3>1 DEF Regions, Null
        <5> QED
          BY <5>1, <2>3, <3>3, <4>3 DEF WalkInv, WalkTypeOK
      <4> QED
        BY <4>1, <4>2, <4>3, <3>2, <1>1, <1>3
    <3> QED
      BY <3>4, <3>5
  <2> QED
    BY <2>4, <2>5, <2>6, <1>3, <1>4
<1> QED
  BY <1>6, <1>7

\* A step of the walk, whether or not the region reports, that ends the walk.
LEMMA StopInv ==
    ASSUME WalkInv, Enter, Stop,
           \/ flags' = flags
           \/ flags' = [flags EXCEPT ![walker] = @ \cup {Lost}],
           \/ UNCHANGED <<childrenVisited, reportedTo>>
           \/ /\ MayReport
              /\ childrenVisited' = [childrenVisited EXCEPT ![Parent] = @ + 1]
              /\ reportedTo' = [reportedTo EXCEPT ![walker] = Parent]
    PROVE  IInv'
<1>1. phase' = "scan" /\ scanned' = scanned + 1
  BY DEF Stop
<1>2. /\ RegionGraph' /\ WalkTypeOK' /\ CountInv' /\ ReportInv'
      /\ \A r \in traversed' : IsStart(r)' => r <= scanned
  BY <1>1, EnterKeeps
<1>3. StartInv'
  <2>1. scanned \in Nat /\ traversed' \subseteq Nat
    BY <1>2 DEF WalkInv, WalkTypeOK, Regions
  <2> QED
    BY <2>1, <1>1, <1>2 DEF StartInv
<1>4. EnterInv'
  BY <1>1 DEF EnterInv
<1> QED
  BY <1>1, <1>2, <1>3, <1>4 DEF IInv, WalkInv

\* A step of the walk that climbs to the parent.
LEMMA ClimbInv ==
    ASSUME WalkInv, Enter, NoteCandidate, MayReport, Climbs,
           childrenVisited' = [childrenVisited EXCEPT ![Parent] = @ + 1],
           reportedTo' = [reportedTo EXCEPT ![walker] = Parent],
           walker' = Parent, UNCHANGED <<phase, scanned>>
    PROVE  IInv'
<1>1. /\ phase = "walk" /\ traversed' = traversed \cup {walker}
      /\ UNCHANGED <<regionCount, colour, adjacent>>
  BY DEF Enter
<1>2. \/ flags' = flags
      \/ flags' = [flags EXCEPT ![walker] = @ \cup {Lost}]
  BY DEF NoteCandidate
<1>3. /\ RegionGraph' /\ WalkTypeOK' /\ CountInv' /\ ReportInv'
      /\ \A r \in traversed' : IsStart(r)' => r <= scanned
  BY <1>2, EnterKeeps
<1>4. /\ Used' = Used
      /\ \A r \in Regions : /\ IsStart(r)' = IsStart(r)
                            /\ \A f \in {Root, Saturated, Fragmented, Free} :
                                  f \in flags'[r] <=> f \in flags[r]
  BY <1>1, <1>2, LostUnseen DEF WalkInv
<1>5. PICK k \in Open(walker) : Parent = adjacent[walker][k]
  BY <1>1, ParentOpen
<1>6. walker \in Regions
  BY <1>1, ReadyRegion
<1>7. PICK p \in Regions : p = Parent /\ p \in Used /\ p \notin traversed'
  <2>1. k \in 1 .. Len(adjacent[walker]) /\ Parent \notin traversed
    BY <1>5 DEF Open, Counted, Entries
  <2>2. Parent \in ElementsOf(adjacent[walker])
    BY <2>1, <1>5 DEF ElementsOf
  <2>3. Parent \in Regions
    BY <2>1, <1>5, <1>6 DEF WalkInv, RegionGraph
  <2>4. Parent \in Used /\ Parent # walker
    BY <2>2, <1>6 DEF WalkInv, RegionGraph
  <2> QED
    BY <2>1, <2>3, <2>4, <1>1
<1>8. /\ Saturated \notin flags[p]
      /\ childrenVisited'[p] = IF flags[p] \cap {Root, Fragmented} = {} THEN Len(adjacent[p]) - 1
                                                                       ELSE Len(adjacent[p])
      /\ childrenVisited'[p] > 0
  <2>1. childrenVisited[p] \in Nat
    BY DEF WalkInv, WalkTypeOK
  <2> QED
    BY <2>1, <1>7 DEF Climbs, ParentReady, WalkInv, WalkTypeOK
<1>9. ~IsStart(p)
  <2>1. SUFFICES ASSUME IsStart(p) PROVE FALSE
    OBVIOUS
  <2>2. Len(adjacent[p]) = 1 /\ flags[p] \cap {Root, Fragmented} = {}
    BY <2>1 DEF IsStart
  <2> QED
    BY <2>2, <1>8
<1>10. StartInv'
  <2>1. scanned \in Nat /\ traversed' \subseteq Nat
    BY <1>3 DEF WalkInv, WalkTypeOK, Regions
  <2> QED
    BY <2>1, <1>1, <1>3 DEF StartInv
<1>11. /\ walker' = p /\ p \in Used' /\ p \notin traversed' /\ ~IsStart(p)'
       /\ Saturated \notin flags'[p]
       /\ childrenVisited'[p] = IF flags'[p] \cap {Root, Fragmented} = {}
                                THEN Len(adjacent'[p]) - 1 ELSE Len(adjacent'[p])
  <2>1. flags'[p] \cap {Root, Fragmented} = flags[p] \cap {Root, Fragmented}
    BY <1>4
  <2>2. Saturated \notin flags'[p] /\ p \in Used'
    BY <1>4, <1>7, <1>8
  <2>3. ~IsStart(p)'
    BY <1>4, <1>9
  <2> QED
    BY <2>1, <2>2, <2>3, <1>1, <1>7, <1>8
<1>12. EnterInv'
  BY <1>11 DEF EnterInv, IsStart
<1> QED
  BY <1>1, <1>3, <1>10, <1>12 DEF IInv, WalkInv

LEMMA NextInv == IInv /\ [Next]_vars => IInv'
<1> SUFFICES ASSUME IInv, [Next]_vars PROVE IInv'
  OBVIOUS
<1>1. ASSUME phase \in {"scan", "walk"}
      PROVE  WalkInv
  BY <1>1 DEF IInv
<1>2. CASE SkipRegion
  <2>1. WalkInv /\ phase' = "scan" /\ scanned' = scanned + 1
        /\ UNCHANGED <<regionCount, colour, flags, adjacent, traversed, childrenVisited, reportedTo>>
    BY <1>1, <1>2 DEF SkipRegion, graphVars, walkVars
  <2>2. RegionGraph' /\ CountInv' /\ ReportInv'
    BY <2>1 DEF WalkInv, RegionGraph, Used, ClosedUnderAdjacency, ElementsOf, CountInv, ReportInv,
                ToldTo, Complete
  <2>3. WalkTypeOK'
    BY <2>1 DEF WalkInv, WalkTypeOK
  <2>4. StartInv'
    BY <2>1, <1>2 DEF SkipRegion, WalkInv, StartInv, WalkTypeOK, IsStart, Regions
  <2>5. EnterInv'
    BY <2>1 DEF EnterInv
  <2> QED
    BY <2>1, <2>2, <2>3, <2>4, <2>5 DEF IInv, WalkInv
<1>3. CASE StartAtLeaf
  <2>1. /\ WalkInv /\ phase' = "walk" /\ walker' = scanned
        /\ scanned <= regionCount /\ IsStart(scanned)
        /\ UNCHANGED <<graphVars, scanned, traversed, childrenVisited, reportedTo>>
    BY <1>1, <1>3 DEF StartAtLeaf, InScan
  <2>2. RegionGraph' /\ CountInv' /\ ReportInv'
    BY <2>1 DEF WalkInv, RegionGraph, Used, ClosedUnderAdjacency, ElementsOf, CountInv, ReportInv,
                ToldTo, Complete, graphVars
  <2>3. WalkTypeOK'
    BY <2>1 DEF WalkInv, WalkTypeOK
  <2>4. StartInv'
    BY <2>1, <1>3 DEF StartAtLeaf, WalkInv, StartInv, IsStart, graphVars
  <2>5. scanned \in Used
    BY <2>1 DEF WalkInv, WalkTypeOK, RegionGraph, Used, IsStart
  <2>6. scanned \notin traversed
    BY <2>1, <1>3 DEF StartAtLeaf, WalkInv, StartInv, WalkTypeOK
  <2>7. EnterInv'
    BY <2>1, <2>5, <2>6 DEF EnterInv, Used, IsStart, graphVars
  <2> QED
    BY <2>1, <2>2, <2>3, <2>4, <2>7 DEF IInv, WalkInv
<1>4. CASE FindCandidate
  <2>1. WalkInv /\ Enter /\ Stop /\ flags' = flags /\ UNCHANGED <<childrenVisited, reportedTo>>
    BY <1>1, <1>4 DEF FindCandidate, Enter
  <2> QED
    BY <2>1, StopInv
<1>5. CASE EndAtTop
  <2>1. /\ WalkInv /\ Enter /\ Stop /\ UNCHANGED <<childrenVisited, reportedTo>>
        /\ flags' = flags \/ flags' = [flags EXCEPT ![walker] = @ \cup {Lost}]
    BY <1>1, <1>5 DEF EndAtTop, Enter, NoteCandidate
  <2> QED
    BY <2>1, StopInv
<1>6. CASE ReportToParent
  <2>1. /\ WalkInv /\ Enter /\ NoteCandidate /\ MayReport
        /\ childrenVisited' = [childrenVisited EXCEPT ![Parent] = @ + 1]
        /\ reportedTo' = [reportedTo EXCEPT ![walker] = Parent]
        /\ flags' = flags \/ flags' = [flags EXCEPT ![walker] = @ \cup {Lost}]
    BY <1>1, <1>6 DEF ReportToParent, Enter, NoteCandidate
  <2>2. CASE Climbs /\ walker' = Parent /\ UNCHANGED <<phase, scanned>>
    BY <2>1, <2>2, ClimbInv
  <2>3. CASE ~Climbs /\ Stop
    BY <2>1, <2>3, StopInv
  <2> QED
    BY <1>6, <2>2, <2>3 DEF ReportToParent
<1>7. CASE ScanDone \/ IdentifyCandidate \/ PassOverLost \/ Return
  BY <1>7 DEF ScanDone, IdentifyCandidate, PassOverLost, NextFiducial, Return, IInv
<1>8. CASE UNCHANGED vars
  <2>1. UNCHANGED <<regionCount, colour, flags, adjacent, phase, scanned, walker, traversed,
                    childrenVisited, reportedTo>>
    BY <1>8 DEF vars, trackerVars, graphVars, walkVars
  <2>2. WalkInv => RegionGraph' /\ CountInv' /\ ReportInv'
    BY <2>1 DEF WalkInv, RegionGraph, Used, ClosedUnderAdjacency, ElementsOf, CountInv, ReportInv,
                ToldTo, Complete
  <2>3. WalkInv => WalkTypeOK' /\ StartInv' /\ EnterInv'
    BY <2>1 DEF WalkInv, WalkTypeOK, StartInv, EnterInv, IsStart, Used
  <2> QED
    BY <2>1, <2>2, <2>3 DEF IInv, WalkInv
<1> QED
  BY <1>2, <1>3, <1>4, <1>5, <1>6, <1>7, <1>8 DEF Next

\* On every graph as the segmenter leaves it, whatever its size, the walks of find_roots never break
\* the assertions of the code.
THEOREM WalkSound == Spec => []Assertions
<1>1. IInv => Assertions
  BY InvAssertions
<1> QED
  BY <1>1, InitInv, NextInv, PTL DEF Spec

-----------------------------------------------------------------------------
(***************************************************************************)
(* link_region appends a region to a doubly linked list that runs through  *)
(* the regions themselves: a region linked twice would tie the list into a *)
(* loop.  None is, because none is entered twice.                          *)
(***************************************************************************)
CandidatesOnce == \A j, k \in 1 .. Len(candidates) : candidates[j] = candidates[k] => j = k

ListInv ==
    /\ candidates \in Seq(Regions)
    /\ \A k \in 1 .. Len(candidates) : candidates[k] \in traversed
    /\ CandidatesOnce

LEMMA ListStep == IInv /\ ListInv /\ [Next]_vars => ListInv'
<1> SUFFICES ASSUME IInv, ListInv, [Next]_vars PROVE ListInv'
  OBVIOUS
<1>1. CASE UNCHANGED <<candidates, traversed>>
  BY <1>1 DEF ListInv, CandidatesOnce, Regions
<1>2. CASE /\ Enter
           /\ candidates' = candidates \/ candidates' = Append(candidates, walker)
  <2>1. walker \in Regions /\ walker \notin traversed /\ traversed' = traversed \cup {walker}
    BY <1>2, ReadyRegion DEF Enter, IInv
  <2>2. CASE candidates' = candidates
    BY <2>1, <2>2 DEF ListInv, CandidatesOnce, Regions
  <2>3. CASE candidates' = Append(candidates, walker)
    <3>1. /\ candidates' \in Seq(Regions) /\ Len(candidates') = Len(candidates) + 1
          /\ candidates'[Len(candidates) + 1] = walker
          /\ \A k \in 1 .. Len(candidates) : candidates'[k] = candidates[k]
      BY <2>1, <2>3 DEF ListInv
    <3>2. \A k \in 1 .. Len(candidates') : candidates'[k] \in traversed'
      BY <2>1, <3>1 DEF ListInv
    <3>3. CandidatesOnce'
      BY <2>1, <3>1 DEF ListInv, CandidatesOnce
    <3> QED
      BY <3>1, <3>2, <3>3 DEF ListInv, Regions
  <2> QED
    BY <1>2, <2>2, <2>3
<1>3. CASE FindCandidate
  BY <1>2, <1>3 DEF FindCandidate
<1>4. CASE EndAtTop
  BY <1>2, <1>4 DEF EndAtTop, NoteCandidate
<1>5. CASE ReportToParent
  BY <1>2, <1>5 DEF ReportToParent, NoteCandidate
<1>6. CASE SkipRegion \/ StartAtLeaf \/ ScanDone \/ Return
  BY <1>1, <1>6 DEF SkipRegion, StartAtLeaf, ScanDone, Return, walkVars
<1>7. CASE IdentifyCandidate \/ PassOverLost
  BY <1>1, <1>7 DEF IdentifyCandidate, PassOverLost, NextFiducial
<1>8. CASE UNCHANGED vars
  BY <1>1, <1>8 DEF vars, trackerVars, walkVars
<1> QED
  BY <1>3, <1>4, <1>5, <1>6, <1>7, <1>8 DEF Next

\* No region is linked into the list of candidates twice, whatever the graph.
THEOREM LinkedOnce == Spec => []CandidatesOnce
<1>1. Init => ListInv
  BY DEF Init, Fresh, ListInv, CandidatesOnce
<1>2. ListInv => CandidatesOnce
  BY DEF ListInv
<1> QED
  BY <1>1, <1>2, InitInv, NextInv, ListStep, PTL DEF Spec

-----------------------------------------------------------------------------
(***************************************************************************)
(* Frame after frame: every search starts afresh on what the segmenter     *)
(* hands over.  That this is a region graph is proved in SegmenterProofs.  *)
(***************************************************************************)
FrameInv ==
    /\ phase = "idle" => Fresh
    /\ phase # "idle" => IInv /\ ListInv

LEMMA FreshList == Fresh => ListInv
BY DEF Fresh, ListInv, CandidatesOnce

LEMMA FrameStep == FrameInv /\ HandsOverGraph /\ [TrackingNext]_allVars => FrameInv'
<1> SUFFICES ASSUME FrameInv, HandsOverGraph, [TrackingNext]_allVars PROVE FrameInv'
  OBVIOUS
<1>1. CASE Segment
  <2>1. phase = "idle" /\ UNCHANGED trackerVars
    BY <1>1 DEF Segment
  <2>2. phase' = "idle" /\ Fresh'
    BY <2>1 DEF FrameInv, Fresh, trackerVars, walkVars, resultVars, Regions
  <2> QED
    BY <2>2 DEF FrameInv
<1>2. CASE FindFiducials
  <2>1. /\ phase = "idle" /\ pc = "done" /\ phase' = "scan"
        /\ UNCHANGED <<graphVars, scanned, walkVars, resultVars>>
    BY <1>2 DEF FindFiducials
  <2>2. RegionGraph /\ Fresh
    BY <2>1 DEF HandsOverGraph, FrameInv
  <2>3. RegionGraph'
    BY <2>1, <2>2 DEF RegionGraph, Used, ClosedUnderAdjacency, ElementsOf, graphVars
  <2>4. Fresh'
    BY <2>1, <2>2 DEF Fresh, walkVars, resultVars, Regions
  <2>5. Init'
    BY <2>1, <2>3, <2>4 DEF Init
  <2>6. IInv' /\ ListInv'
    <3>1. Init' => IInv'
      BY InitInv, PTL
    <3>2. Fresh' => ListInv'
      BY FreshList, PTL
    <3> QED
      BY <2>4, <2>5, <3>1, <3>2
  <2> QED
    BY <2>1, <2>6 DEF FrameInv
<1>3. CASE Track
  <2>1. phase # "idle" /\ Next
    BY <1>3 DEF Track
  <2>2. IInv /\ ListInv
    BY <2>1 DEF FrameInv
  <2>3. IInv' /\ ListInv'
    BY <2>1, <2>2, NextInv, ListStep
  <2>4. phase' # "idle"
    BY <2>3 DEF IInv
  <2> QED
    BY <2>3, <2>4 DEF FrameInv
<1>4. CASE NextFrame
  <2>1. phase' = "idle" /\ Fresh'
    BY <1>4 DEF NextFrame, Fresh, Regions
  <2> QED
    BY <2>1 DEF FrameInv
<1>5. CASE UNCHANGED allVars
  <2>1. UNCHANGED vars
    BY <1>5 DEF allVars
  <2>2. phase' = phase
    BY <2>1 DEF vars, trackerVars
  <2>3. CASE phase = "idle"
    <3>1. Fresh'
      BY <2>1, <2>3 DEF FrameInv, Fresh, vars, trackerVars, walkVars, resultVars, Regions
    <3> QED
      BY <2>2, <2>3, <3>1 DEF FrameInv
  <2>4. CASE phase # "idle"
    <3>1. IInv' /\ ListInv'
      BY <2>1, <2>4, NextInv, ListStep DEF FrameInv
    <3> QED
      BY <2>2, <2>4, <3>1 DEF FrameInv
  <2> QED
    BY <2>3, <2>4
<1> QED
  BY <1>1, <1>2, <1>3, <1>4, <1>5 DEF TrackingNext

\* As long as the segmenter hands over region graphs, no walk of any frame breaks the assertions, and
\* no region is listed as a candidate twice.
THEOREM FramesSound == TrackingSpec /\ []HandsOverGraph => [](Assertions /\ CandidatesOnce)
<1>1. TrackingInit => FrameInv
  BY DEF TrackingInit, FrameInv
<1>2. FrameInv => Assertions /\ CandidatesOnce
  <2>1. CASE phase = "idle"
    BY <2>1 DEF FrameInv, Assertions, Fresh, CandidatesOnce
  <2>2. CASE phase # "idle"
    BY <2>2, InvAssertions DEF FrameInv, ListInv
  <2> QED
    BY <2>1, <2>2
<1> QED
  BY <1>1, <1>2, FrameStep, PTL DEF TrackingSpec

\* A sum as a number of cells: a column of h[k] cells for every k in S.
CellsOf(h, S) == {c \in S \X Nat : c[2] < h[c[1]]}
Weight(h, S) == Cardinality(CellsOf(h, S))

\* Finitely many columns have finitely many cells.
LEMMA CellsFinite ==
    ASSUME NEW S, IsFiniteSet(S), NEW h, \A k \in S : h[k] \in Nat
    PROVE  IsFiniteSet(CellsOf(h, S)) /\ Weight(h, S) \in Nat
<1> DEFINE T == {h[k] : k \in S}
           f == [k \in S |-> h[k]]
<1>1. IsFiniteSet(CellsOf(h, S))
  <2>1. CASE S = {}
    <3>1. CellsOf(h, S) = {}
      BY <2>1 DEF CellsOf
    <3> QED
      BY <3>1, FS_EmptySet
  <2>2. CASE S # {}
    <3>1. f \in Surjection(S, T)
      BY DEF Surjection
    <3>2. T \subseteq Nat /\ T # {} /\ \A k \in S : h[k] \in T
      BY <2>2
    <3> HIDE DEF f, T
    <3>3. IsFiniteSet(T)
      BY <3>1, FS_Surjection
    <3>4. Max(T) \in Nat /\ \A k \in S : Max(T) >= h[k]
      BY <3>2, <3>3, FiniteHasMax
    <3> DEFINE m == Max(T)
    <3>5. m \in Nat /\ \A k \in S : m >= h[k]
      BY <3>4
    <3> HIDE DEF m
    <3>6. IsFiniteSet(S \X (0 .. m))
      <4>1. IsFiniteSet(0 .. m)
        BY <3>5, FS_Interval
      <4> QED
        BY <4>1, FS_Product
    <3>7. CellsOf(h, S) \in SUBSET (S \X (0 .. m))
      BY <3>5 DEF CellsOf
    <3> QED
      BY <3>6, <3>7, FS_Subset
  <2> QED
    BY <2>1, <2>2
<1> QED
  BY <1>1, FS_CardinalityType DEF Weight

\* The empty sum.
LEMMA NoCells ==
    ASSUME NEW h
    PROVE  Weight(h, {}) = 0
<1>1. CellsOf(h, {}) = {}
  BY DEF CellsOf
<1> QED
  BY <1>1, FS_EmptySet DEF Weight

\* A column of a sum.
LEMMA CellsAdd ==
    ASSUME NEW S, IsFiniteSet(S), NEW h, \A k \in S : h[k] \in Nat, NEW o \in S
    PROVE  Weight(h, S) = Weight(h, S \ {o}) + h[o]
<1> DEFINE A == CellsOf(h, S \ {o})
           B == {o} \X (0 .. h[o] - 1)
<1>1. CellsOf(h, S) = A \cup B /\ A \cap B = {}
  BY DEF CellsOf
<1>2. IsFiniteSet(A) /\ Weight(h, S \ {o}) = Cardinality(A) /\ Cardinality(A) \in Nat
  <2>1. IsFiniteSet(S \ {o})
    BY FS_RemoveElement
  <2>2. \A k \in S \ {o} : h[k] \in Nat
    OBVIOUS
  <2> QED
    BY <2>1, <2>2, CellsFinite DEF Weight
<1>3. IsFiniteSet(B) /\ Cardinality(B) = h[o]
  <2>1. IsFiniteSet({o}) /\ Cardinality({o}) = 1
    BY FS_Singleton
  <2>2. IsFiniteSet(0 .. h[o] - 1) /\ Cardinality(0 .. h[o] - 1) = h[o]
    BY FS_Interval
  <2>3. IsFiniteSet(B) /\ Cardinality(B) = Cardinality({o}) * Cardinality(0 .. h[o] - 1)
    BY <2>1, <2>2, FS_Product
  <2> QED
    BY <2>1, <2>2, <2>3
<1> HIDE DEF A, B
<1>4. Cardinality(A \cup B) = Cardinality(A) + Cardinality(B) - Cardinality(A \cap B)
  BY <1>2, <1>3, FS_Union
<1>5. Cardinality(A \cap B) = 0
  BY <1>1, FS_EmptySet
<1> QED
  BY <1>1, <1>2, <1>3, <1>4, <1>5 DEF Weight

\* Columns that are put into different and no lower columns fit.
LEMMA CellsFit ==
    ASSUME NEW S, NEW T, IsFiniteSet(T), NEW h, NEW g,
           \A k \in S : h[k] \in Nat, \A k \in T : g[k] \in Nat,
           NEW p \in [S -> T], \A j, k \in S : p[j] = p[k] => j = k,
           \A k \in S : h[k] <= g[p[k]]
    PROVE  Weight(h, S) <= Weight(g, T)
<1> DEFINE F == [c \in CellsOf(h, S) |-> <<p[c[1]], c[2]>>]
<1>1. \A c \in CellsOf(h, S) : c \in S \X Nat /\ c[1] \in S /\ c[2] \in Nat /\ c[2] < h[c[1]]
  BY DEF CellsOf
<1>2. ASSUME NEW c \in CellsOf(h, S)
      PROVE  <<p[c[1]], c[2]>> \in CellsOf(g, T)
  <2>1. p[c[1]] \in T /\ c[2] < g[p[c[1]]]
    BY <1>1
  <2> QED
    BY <1>1, <2>1 DEF CellsOf
<1>3. F \in [CellsOf(h, S) -> CellsOf(g, T)]
  BY <1>2
<1>4. ASSUME NEW c \in CellsOf(h, S), NEW e \in CellsOf(h, S), F[c] = F[e]
      PROVE  c = e
  <2>1. p[c[1]] = p[e[1]] /\ c[2] = e[2]
    BY <1>4
  <2>2. c[1] = e[1]
    BY <1>1, <2>1
  <2> QED
    BY <1>1, <2>1, <2>2
<1> HIDE DEF F
<1>5. F \in Injection(CellsOf(h, S), CellsOf(g, T))
  BY <1>3, <1>4, Fun_IsInj
<1>6. IsFiniteSet(CellsOf(g, T))
  BY CellsFinite
<1> QED
  BY <1>5, <1>6, FS_Injection DEF Weight

\* A row more on all of the columns.
LEMMA RowAdds ==
    ASSUME NEW S, IsFiniteSet(S), NEW h, NEW g, \A k \in S : h[k] \in Nat /\ g[k] = h[k] + 1
    PROVE  Weight(g, S) = Weight(h, S) + Cardinality(S)
<1> DEFINE A == CellsOf(h, S)
           B == {<<k, h[k]>> : k \in S}
           f == [k \in S |-> <<k, h[k]>>]
<1>1. CellsOf(g, S) = A \cup B /\ A \cap B = {}
  <2>1. ASSUME NEW c
        PROVE  c \in CellsOf(g, S) <=> c \in A \cup B
    BY DEF CellsOf
  <2>2. ASSUME NEW c \in A, c \in B
        PROVE  FALSE
    BY <2>2 DEF CellsOf
  <2> QED
    BY <2>1, <2>2
<1>2. IsFiniteSet(A) /\ Cardinality(A) \in Nat
  BY CellsFinite DEF Weight
<1>3. IsFiniteSet(B) /\ Cardinality(B) = Cardinality(S)
  <2>1. f \in [S -> B] /\ \A j, k \in S : f[j] = f[k] => j = k
    OBVIOUS
  <2>2. \A c \in B : \E k \in S : f[k] = c
    OBVIOUS
  <2> HIDE DEF f, B
  <2>3. f \in Injection(S, B) /\ f \in Surjection(S, B)
    BY <2>1, <2>2, Fun_IsInj, Fun_IsSurj
  <2> QED
    BY <2>3, FS_Surjection
<1>4. Cardinality(S) \in Nat
  BY FS_CardinalityType
<1> HIDE DEF A, B
<1>5. Cardinality(A \cup B) = Cardinality(A) + Cardinality(B) - Cardinality(A \cap B)
  BY <1>2, <1>3, FS_Union
<1>6. Cardinality(A \cap B) = 0
  BY <1>1, FS_EmptySet
<1> QED
  BY <1>1, <1>2, <1>3, <1>4, <1>5, <1>6 DEF Weight, A

-----------------------------------------------------------------------------
(***************************************************************************)
(* Sorting a list and joining strings                                      *)
(***************************************************************************)

\* What the library's InsertAt puts where.
LEMMA InsertedAt ==
    ASSUME NEW U, NEW t \in Seq(U), NEW q \in U, NEW a \in 0 .. Len(t)
    PROVE  /\ Lists!InsertAt(t, a + 1, q) \in Seq(U)
           /\ Len(Lists!InsertAt(t, a + 1, q)) = Len(t) + 1
           /\ \A j \in 1 .. Len(t) + 1 :
                 Lists!InsertAt(t, a + 1, q)[j] =
                    IF j <= a THEN t[j] ELSE IF j = a + 1 THEN q ELSE t[j - 1]
<1> DEFINE n == Len(t)
           front == SubSeq(t, 1, a)
           back == SubSeq(t, a + 1, n)
           first == front \o <<q>>
           new == Lists!InsertAt(t, a + 1, q)
<1>1. n \in Nat /\ a \in Nat /\ a <= n /\ \A j \in 1 .. n : t[j] \in U
  BY LenProperties, ElementOfSeq
<1>2. new = first \o back
  <2>1. (a + 1) - 1 = a
    BY <1>1
  <2> QED
    BY <2>1 DEF Lists!InsertAt
<1> HIDE DEF n, new
<1>3. front \in Seq(U) /\ Len(front) = a /\ \A j \in 1 .. a : front[j] = t[j]
  <2>1. \A j \in 1 .. a : t[j] \in U
    BY <1>1
  <2>2. /\ front \in Seq(U) /\ Len(front) = (IF 1 <= a THEN a - 1 + 1 ELSE 0)
        /\ \A j \in 1 .. a - 1 + 1 : front[j] = t[1 + j - 1]
    BY <1>1, <2>1, SubSeqProperties
  <2> HIDE DEF front
  <2> QED
    BY <1>1, <2>2
<1>4. back \in Seq(U) /\ Len(back) = n - a /\ \A j \in 1 .. n - a : back[j] = t[a + j]
  <2>1. \A j \in a + 1 .. n : t[j] \in U
    BY <1>1
  <2>2. /\ back \in Seq(U) /\ Len(back) = (IF a + 1 <= n THEN n - (a + 1) + 1 ELSE 0)
        /\ \A j \in 1 .. n - (a + 1) + 1 : back[j] = t[a + 1 + j - 1]
    BY <1>1, <2>1, SubSeqProperties
  <2> HIDE DEF back
  <2> QED
    BY <1>1, <2>2
<1>5. <<q>> \in Seq(U) /\ Len(<<q>>) = 1 /\ <<q>>[1] = q
  OBVIOUS
<1> HIDE DEF front, back
<1>6. /\ first \in Seq(U) /\ Len(first) = a + 1
      /\ \A j \in 1 .. a + 1 : first[j] = IF j <= a THEN front[j] ELSE <<q>>[j - a]
  BY <1>3, <1>5, ConcatProperties
<1> HIDE DEF first
<1>7. /\ first \o back \in Seq(U) /\ Len(first \o back) = (a + 1) + (n - a)
      /\ \A j \in 1 .. (a + 1) + (n - a) :
            (first \o back)[j] = IF j <= a + 1 THEN first[j] ELSE back[j - (a + 1)]
  <2>1. /\ first \o back \in Seq(U) /\ Len(first \o back) = Len(first) + Len(back)
        /\ \A j \in 1 .. Len(first) + Len(back) :
              (first \o back)[j] = IF j <= Len(first) THEN first[j] ELSE back[j - Len(first)]
    BY <1>4, <1>6, ConcatProperties
  <2> QED
    BY ONLY <1>4, <1>6, <2>1
<1>8. ASSUME NEW j \in 1 .. n + 1
      PROVE  (first \o back)[j] = IF j <= a THEN t[j] ELSE IF j = a + 1 THEN q ELSE t[j - 1]
  <2>1. CASE j <= a
    BY <1>1, <1>3, <1>6, <1>7, <2>1
  <2>2. CASE j = a + 1
    BY <1>1, <1>5, <1>6, <1>7, <2>2
  <2>3. CASE j > a + 1
    <3>1. j - (a + 1) \in 1 .. n - a /\ a + (j - (a + 1)) = j - 1
      BY <1>1, <2>3
    <3>2. (first \o back)[j] = back[j - (a + 1)]
      BY <1>1, <1>7, <2>3
    <3> QED
      BY <1>1, <1>4, <2>3, <3>1, <3>2, SMTT(60)
  <2>4. j <= a \/ j = a + 1 \/ j > a + 1
    BY <1>1
  <2> QED
    BY ONLY <2>1, <2>2, <2>3, <2>4, Zenon
<1>9. /\ first \o back \in Seq(U) /\ Len(first \o back) = n + 1
  BY ONLY <1>1, <1>7
<1>10. /\ new \in Seq(U) /\ Len(new) = n + 1
       /\ \A j \in 1 .. n + 1 :
             new[j] = IF j <= a THEN t[j] ELSE IF j = a + 1 THEN q ELSE t[j - 1]
  BY ONLY <1>2, <1>8, <1>9, Zenon
<1> QED
  BY ONLY <1>10 DEF n, new

\* t is made of the first k entries of a list, in some order.
Arranged(t, list, k) ==
    /\ Len(t) = k
    /\ \E p \in [1 .. k -> 1 .. k] :
          /\ \A j, o \in 1 .. k : p[j] = p[o] => j = o
          /\ \A j \in 1 .. k : t[j] = list[p[j]]

\* One insertion of the sort keeps the entries.
LEMMA PutInOrderType ==
    ASSUME NEW U, NEW t \in Seq(U), NEW q \in U, NEW string
    PROVE  /\ PutInOrder(t, q, string) \in Seq(U)
           /\ \E a \in 0 .. Len(t) :
                 /\ Len(PutInOrder(t, q, string)) = Len(t) + 1
                 /\ \A j \in 1 .. Len(t) + 1 :
                       PutInOrder(t, q, string)[j] =
                          IF j <= a THEN t[j] ELSE IF j = a + 1 THEN q ELSE t[j - 1]
<1> DEFINE A == {k \in 1 .. Len(t) : ~Heavier(string[q], string[t[k]])}
           a == Cardinality(A)
<1>1. Len(t) \in Nat
  OBVIOUS
<1>2. a \in 0 .. Len(t)
  <2>1. IsFiniteSet(1 .. Len(t)) /\ Cardinality(1 .. Len(t)) = Len(t)
    BY <1>1, FS_Interval, SMTT(60)
  <2>2. A \in SUBSET (1 .. Len(t))
    OBVIOUS
  <2> HIDE DEF A
  <2>3. IsFiniteSet(A) /\ Cardinality(A) <= Cardinality(1 .. Len(t)) /\ Cardinality(A) \in Nat
    BY <2>1, <2>2, FS_Subset, FS_CardinalityType
  <2> QED
    BY <1>1, <2>1, <2>3
<1>3. PutInOrder(t, q, string) = Lists!InsertAt(t, a + 1, q)
  BY DEF PutInOrder
<1> HIDE DEF a
<1> DEFINE new == Lists!InsertAt(t, a + 1, q)
<1>4. /\ new \in Seq(U) /\ Len(new) = Len(t) + 1
      /\ \A j \in 1 .. Len(t) + 1 :
            new[j] = IF j <= a THEN t[j] ELSE IF j = a + 1 THEN q ELSE t[j - 1]
  BY <1>2, InsertedAt, SMTT(60)
<1> HIDE DEF new
<1>5. PutInOrder(t, q, string) = new
  BY <1>3 DEF new
<1> QED
  BY ONLY <1>2, <1>4, <1>5

\* One insertion of the sort: the first k entries, in another order.
LEMMA PutInOrderArranges ==
    ASSUME NEW U, NEW list \in Seq(U), NEW k \in 1 .. Len(list), NEW t \in Seq(U),
           Arranged(t, list, k - 1), NEW string
    PROVE  Arranged(PutInOrder(t, list[k], string), list, k)
<1> DEFINE q == list[k]
           new == PutInOrder(t, q, string)
<1>1. q \in U /\ k \in Nat /\ k >= 1
  BY ElementOfSeq
<1>2. PICK a \in 0 .. Len(t) :
         /\ Len(new) = Len(t) + 1
         /\ \A j \in 1 .. Len(t) + 1 :
               new[j] = IF j <= a THEN t[j] ELSE IF j = a + 1 THEN q ELSE t[j - 1]
  <2> HIDE DEF q
  <2>1. \A string_ : /\ PutInOrder(t, q, string_) \in Seq(U)
                     /\ \E a \in 0 .. Len(t) :
                          /\ Len(PutInOrder(t, q, string_)) = Len(t) + 1
                          /\ \A j \in 1 .. Len(t) + 1 :
                             PutInOrder(t, q, string_)[j] =
                               IF j <= a THEN t[j] ELSE IF j = a + 1 THEN q ELSE t[j - 1]
    BY ONLY <1>1, t \in Seq(U), PutInOrderType, SMTT(60)
  <2> QED
    BY ONLY <2>1, Zenon
<1>3. Len(t) = k - 1
  BY DEF Arranged
<1>4. PICK p \in [1 .. k - 1 -> 1 .. k - 1] :
         /\ \A j, o \in 1 .. k - 1 : p[j] = p[o] => j = o
         /\ \A j \in 1 .. k - 1 : t[j] = list[p[j]]
  BY DEF Arranged
<1> DEFINE P == [j \in 1 .. k |-> IF j <= a THEN p[j] ELSE IF j = a + 1 THEN k ELSE p[j - 1]]
<1> HIDE DEF new
<1>5. ASSUME NEW j \in 1 .. k
      PROVE  /\ j <= a => j \in 1 .. k - 1 /\ p[j] \in 1 .. k - 1
             /\ j > a + 1 => j - 1 \in 1 .. k - 1 /\ p[j - 1] \in 1 .. k - 1
             /\ P[j] \in 1 .. k
  <2>1. ASSUME j <= a PROVE j \in 1 .. k - 1 /\ p[j] \in 1 .. k - 1
    BY <1>1, <1>3, <1>4, <2>1, SMTT(60)
  <2>2. ASSUME j > a + 1 PROVE j - 1 \in 1 .. k - 1 /\ p[j - 1] \in 1 .. k - 1
    BY <1>1, <1>3, <1>4, <2>2, SMTT(60)
  <2>3. P[j] = IF j <= a THEN p[j] ELSE IF j = a + 1 THEN k ELSE p[j - 1]
    OBVIOUS
  <2> QED
    BY <1>1, <1>3, <2>1, <2>2, <2>3
<1>6. P \in [1 .. k -> 1 .. k]
  BY <1>5
<1>7. \A j \in 1 .. k : P[j] = IF j <= a THEN p[j] ELSE IF j = a + 1 THEN k ELSE p[j - 1]
  OBVIOUS
<1> HIDE DEF P
<1>8. ASSUME NEW j \in 1 .. k, NEW o \in 1 .. k, P[j] = P[o], j < o
      PROVE  FALSE
  <2>1. CASE j = a + 1
    <3>1. P[j] = k /\ P[o] \in 1 .. k - 1
      BY <1>3, <1>5, <1>7, <1>8, <2>1
    <3> QED
      BY <1>1, <1>8, <3>1
  <2>2. CASE o = a + 1
    <3>1. P[o] = k /\ P[j] \in 1 .. k - 1
      BY <1>3, <1>5, <1>7, <1>8, <2>2
    <3> QED
      BY <1>1, <1>8, <3>1
  <2>3. CASE j # a + 1 /\ o # a + 1
    <3>1. CASE o <= a
      BY <1>4, <1>5, <1>7, <1>8, <3>1
    <3>2. CASE j > a + 1
      BY <1>4, <1>5, <1>7, <1>8, <3>2
    <3>3. CASE j <= a /\ o > a + 1
      <4>1. P[j] = p[j] /\ P[o] = p[o - 1] /\ j \in 1 .. k - 1 /\ o - 1 \in 1 .. k - 1
        BY <1>3, <1>5, <1>7, <3>3, SMTT(60)
      <4>2. j = o - 1
        BY <1>4, <1>8, <4>1, ZenonT(60)
      <4> QED
        BY <1>3, <3>3, <4>2
    <3> QED
      BY <1>3, <1>8, <2>3, <3>1, <3>2, <3>3
  <2> QED
    BY <2>1, <2>2, <2>3
<1>9. \A j, o \in 1 .. k : P[j] = P[o] => j = o
  <2>1. \A j, o \in 1 .. k : j = o \/ j < o \/ o < j
    OBVIOUS
  <2> QED
    BY <1>8, <2>1
<1>10. ASSUME NEW j \in 1 .. k
       PROVE  new[j] = list[P[j]]
  <2>1. new[j] = IF j <= a THEN t[j] ELSE IF j = a + 1 THEN q ELSE t[j - 1]
    BY <1>2, <1>3
  <2>2. CASE j <= a
    BY <1>4, <1>5, <1>7, <2>1, <2>2
  <2>3. CASE j = a + 1
    BY <1>3, <1>7, <2>1, <2>3
  <2>4. CASE j > a + 1
    BY <1>3, <1>4, <1>5, <1>7, <2>1, <2>4
  <2> QED
    BY <1>3, <2>2, <2>3, <2>4
<1>11. Len(new) = k
  BY <1>1, <1>2, <1>3
<1> QED
  BY <1>6, <1>9, <1>10, <1>11 DEF Arranged, new

\* qsort of an adjacency list keeps its entries.
LEMMA LeftHeavyArranges ==
    ASSUME NEW U, NEW list \in Seq(U), NEW string
    PROVE  /\ LeftHeavy(list, string) \in Seq(U)
           /\ Arranged(LeftHeavy(list, string), list, Len(list))
<1> DEFINE V == Seq(U)
           n == Len(list)
           Step(k, v) == PutInOrder(v, list[k], string)
           Loop(h) == h = [s \in SUBSET (1 .. n) |->
                              IF s = {} THEN <<>> ELSE Step(Max(s), h[s \ {Max(s)}])]
           iter == CHOOSE h : Loop(h)
           f == [k \in 0 .. n |-> iter[1 .. k]]
           g == [k \in 1 .. n |-> [v \in V |-> Step(k, v)]]
<1>1. \A k \in 1 .. n, v \in V : Step(k, v) \in V
  <2>1. \A k \in 1 .. n : list[k] \in U
    BY ElementOfSeq
  <2> QED
    BY <2>1, PutInOrderType
<1>2. DOMAIN list = 1 .. n /\ n \in Nat
  BY LenProperties
<1>3. LeftHeavy(list, string) = iter[1 .. n]
  BY <1>2 DEF LeftHeavy, Lists!FoldLeft, Lists!MapThenFoldSet, Lists!Max, Max
<1>4. f[n] = iter[1 .. n]
  BY <1>2
<1>5. \A k \in 1 .. n, v \in V : Step(k, v) = PutInOrder(v, list[k], string)
  OBVIOUS
<1> HIDE DEF n, Step
<1>6. g \in [1 .. n -> [V -> V]]
  BY <1>1
<1>7. \A k \in 1 .. n, v \in V : g[k][v] = Step(k, v)
  OBVIOUS
<1>8. <<>> \in V
  BY EmptySeq
<1> HIDE DEF g, V
<1>9. Loop(iter)
  <2>1. PICK h : Folds(h, n, V, <<>>, g)
    BY <1>2, <1>6, <1>8, FoldExists
  <2>2. \A s \in SUBSET (1 .. n) : s # {} => h[s] = Step(Max(s), h[s \ {Max(s)}])
    BY <1>7, <2>1 DEF Folds
  <2>3. Loop(h)
    BY <2>1, <2>2 DEF Folds
  <2> HIDE DEF Loop
  <2> QED
    BY <2>3
<1> HIDE DEF iter
<1>10. Computes(f, n, V, <<>>, g)
  <2>1. iter[{}] = <<>>
    BY <1>9
  <2>2. ASSUME NEW k \in 1 .. n, iter[1 .. k - 1] \in V
        PROVE  iter[1 .. k] = g[k][iter[1 .. k - 1]]
    <3>1. /\ 1 .. k \in SUBSET (1 .. n) /\ 1 .. k # {}
          /\ Max(1 .. k) = k /\ (1 .. k) \ {k} = 1 .. k - 1
      BY <1>2, MaxOfFirstPlaces
    <3>2. iter[1 .. k] = Step(k, iter[1 .. k - 1])
      BY <1>9, <3>1
    <3> QED
      BY <1>7, <2>2, <3>2
  <2> QED
    BY <1>2, <1>6, <1>8, <2>1, <2>2, FoldComputes
<1> HIDE DEF f
<1>11. f \in [0 .. n -> V] /\ f[0] = <<>> /\ \A k \in 1 .. n : f[k] = Step(k, f[k - 1])
  <2>1. \A k \in 1 .. n : k - 1 \in 0 .. n
    BY <1>2
  <2> QED
    BY <1>7, <1>10, <2>1 DEF Computes
<1> DEFINE G == {k \in 0 .. n : Arranged(f[k], list, k)}
<1>12. 0 \in G
  <2>1. Len(f[0]) = 0
    BY <1>11
  <2> DEFINE p == [j \in 1 .. 0 |-> 1]
  <2>2. p \in [1 .. 0 -> 1 .. 0] /\ 1 .. 0 = {}
    OBVIOUS
  <2> HIDE DEF p
  <2>3. Arranged(f[0], list, 0)
    BY <2>1, <2>2 DEF Arranged
  <2> QED
    BY <1>2, <2>3
<1>13. ASSUME NEW k \in 1 .. n, k - 1 \in G PROVE k \in G
  <2>1. f[k - 1] \in V /\ Arranged(f[k - 1], list, k - 1)
    BY <1>2, <1>11, <1>13
  <2>2. f[k] = PutInOrder(f[k - 1], list[k], string)
    BY <1>5, <1>11, <2>1
  <2>3. Arranged(PutInOrder(f[k - 1], list[k], string), list, k)
    BY <2>1, PutInOrderArranges DEF V, n
  <2> QED
    BY <2>2, <2>3
<1>14. Arranged(f[n], list, n)
  <2>1. \A k \in 0 .. n : k \in G
    <3> HIDE DEF G
    <3> QED
      BY <1>2, <1>12, <1>13, Rounds
  <2>2. n \in 0 .. n
    BY <1>2
  <2> QED
    BY <2>1, <2>2
<1>15. f[n] \in V
  BY <1>2, <1>11
<1> QED
  BY <1>3, <1>4, <1>14, <1>15 DEF V, n

\* A rearranged list has the same entries.
LEMMA ArrangedSame ==
    ASSUME NEW U, NEW list \in Seq(U)
    PROVE  Arranged(list, list, Len(list))
<1> DEFINE n == Len(list)
           p == [j \in 1 .. n |-> j]
<1>1. p \in [1 .. n -> 1 .. n] /\ \A j \in 1 .. n : p[j] = j
  OBVIOUS
<1> HIDE DEF p, n
<1>2. \A j, o \in 1 .. n : p[j] = p[o] => j = o
  BY <1>1
<1>3. \A j \in 1 .. n : list[j] = list[p[j]]
  BY <1>1
<1>4. Len(list) = n
  BY DEF n
<1>5. Arranged(list, list, n)
  BY <1>1, <1>2, <1>3, <1>4 DEF Arranged
<1> QED
  BY <1>5 DEF n

\* Columns of no height do not count.
LEMMA EmptyColumns ==
    ASSUME NEW S, NEW T \in SUBSET S, NEW h, \A k \in S \ T : h[k] = 0
    PROVE  Weight(h, S) = Weight(h, T)
<1>1. CellsOf(h, S) = CellsOf(h, T)
  BY DEF CellsOf
<1> QED
  BY <1>1 DEF Weight

\* strcat of the strings of a list of regions
Joined(first, list, below) ==
    Lists!FoldLeft(LAMBDA joined, a : joined \o below[a], first, list)
Lengths(list, below) == [k \in 1 .. Len(list) |-> Len(below[list[k]])]

Joinable(E, list, below) ==
    /\ Len(list) \in Nat /\ DOMAIN list = 1 .. Len(list)
    /\ \A k \in 1 .. Len(list) : below[list[k]] \in Seq(E)
JoinsTo(E, first, list, below) ==
    /\ Joined(first, list, below) \in Seq(E)
    /\ Len(Joined(first, list, below))
          = Len(first) + Weight(Lengths(list, below), 1 .. Len(list))

\* A joined string is as long as its parts together.
LEMMA JoinedLength ==
    ASSUME NEW E, NEW first \in Seq(E), NEW list, NEW below, Joinable(E, list, below)
    PROVE  JoinsTo(E, first, list, below)
<1> DEFINE V == Seq(E)
           n == Len(list)
           h == Lengths(list, below)
           Step(k, v) == v \o below[list[k]]
           Loop(l) == l = [s \in SUBSET (1 .. n) |->
                              IF s = {} THEN first ELSE Step(Max(s), l[s \ {Max(s)}])]
           iter == CHOOSE l : Loop(l)
           f == [k \in 0 .. n |-> iter[1 .. k]]
           g == [k \in 1 .. n |-> [v \in V |-> Step(k, v)]]
<1>1. \A k \in 1 .. n, v \in V :
         /\ Step(k, v) \in V
         /\ Len(Step(k, v)) = Len(v) + h[k]
         /\ h[k] \in Nat
  <2>1. ASSUME NEW k \in 1 .. n, NEW v \in V
        PROVE  /\ v \o below[list[k]] \in V
               /\ Len(v \o below[list[k]]) = Len(v) + Len(below[list[k]])
               /\ Len(below[list[k]]) \in Nat
    BY ConcatProperties, LenProperties DEF Joinable
  <2> QED
    BY <2>1 DEF Lengths
<1>2. DOMAIN list = 1 .. n /\ n \in Nat
  BY DEF Joinable
<1>3. Joined(first, list, below) = iter[1 .. n]
  BY <1>2 DEF Joined, Lists!FoldLeft, Lists!MapThenFoldSet, Lists!Max, Max
<1>4. f[n] = iter[1 .. n]
  BY <1>2
<1> HIDE DEF n, Step, h
<1>6. g \in [1 .. n -> [V -> V]]
  BY <1>1
<1>7. \A k \in 1 .. n, v \in V : g[k][v] = Step(k, v)
  OBVIOUS
<1>8. first \in V /\ Len(first) \in Nat
  BY LenProperties
<1> HIDE DEF g, V
<1>9. Loop(iter)
  <2>1. PICK l : Folds(l, n, V, first, g)
    BY <1>2, <1>6, <1>8, FoldExists
  <2>2. \A s \in SUBSET (1 .. n) : s # {} => l[s] = Step(Max(s), l[s \ {Max(s)}])
    BY <1>7, <2>1 DEF Folds
  <2>3. Loop(l)
    BY <2>1, <2>2 DEF Folds
  <2> HIDE DEF Loop
  <2> QED
    BY <2>3
<1> HIDE DEF iter
<1>10. Computes(f, n, V, first, g)
  <2>1. iter[{}] = first
    BY <1>9
  <2>2. ASSUME NEW k \in 1 .. n, iter[1 .. k - 1] \in V
        PROVE  iter[1 .. k] = g[k][iter[1 .. k - 1]]
    <3>1. /\ 1 .. k \in SUBSET (1 .. n) /\ 1 .. k # {}
          /\ Max(1 .. k) = k /\ (1 .. k) \ {k} = 1 .. k - 1
      BY <1>2, MaxOfFirstPlaces
    <3>2. iter[1 .. k] = Step(k, iter[1 .. k - 1])
      BY <1>9, <3>1
    <3> QED
      BY <1>7, <2>2, <3>2
  <2> QED
    BY <1>2, <1>6, <1>8, <2>1, <2>2, FoldComputes, ZenonT(60)
<1> HIDE DEF f
<1>11. f \in [0 .. n -> V] /\ f[0] = first /\ \A k \in 1 .. n : f[k] = Step(k, f[k - 1])
  <2>1. \A k \in 1 .. n : k - 1 \in 0 .. n
    BY <1>2
  <2> QED
    BY <1>7, <1>10, <2>1 DEF Computes
<1> DEFINE G == {k \in 0 .. n : Len(f[k]) = Len(first) + Weight(h, 1 .. k)}
<1>12. 0 \in G
  <2>1. 1 .. 0 = {}
    OBVIOUS
  <2>2. Weight(h, 1 .. 0) = 0
    BY <2>1, NoCells
  <2> QED
    BY <1>2, <1>8, <1>11, <2>2
<1>13. ASSUME NEW k \in 1 .. n, k - 1 \in G PROVE k \in G
  <2>1. f[k - 1] \in V /\ Len(f[k - 1]) = Len(first) + Weight(h, 1 .. k - 1)
    BY <1>2, <1>11, <1>13
  <2>2. Len(f[k]) = Len(f[k - 1]) + h[k]
    BY <1>1, <1>11, <2>1
  <2>3. /\ IsFiniteSet(1 .. k) /\ k \in 1 .. k /\ (1 .. k) \ {k} = 1 .. k - 1
        /\ \A j \in 1 .. k : h[j] \in Nat
    <3>1. \A j \in 1 .. k : j \in 1 .. n
      BY <1>2
    <3>2. IsFiniteSet(1 .. k)
      BY FS_Interval
    <3>3. (1 .. k) \ {k} = 1 .. k - 1
      OBVIOUS
    <3> QED
      BY <1>1, <1>8, <3>1, <3>2, <3>3
  <2>4. Weight(h, 1 .. k) = Weight(h, 1 .. k - 1) + h[k]
    <3>1. Weight(h, 1 .. k) = Weight(h, (1 .. k) \ {k}) + h[k]
      BY <2>3, CellsAdd
    <3>2. (1 .. k) \ {k} = 1 .. k - 1
      BY <2>3
    <3> QED
      BY ONLY <3>1, <3>2, Zenon
  <2>5. IsFiniteSet(1 .. k - 1) /\ \A j \in 1 .. k - 1 : h[j] \in Nat
    <3>1. \A j \in 1 .. k - 1 : j \in 1 .. k
      OBVIOUS
    <3>2. IsFiniteSet(1 .. k - 1)
      BY FS_Interval
    <3> QED
      BY <2>3, <3>1, <3>2
  <2>6. Weight(h, 1 .. k - 1) \in Nat
    BY <2>5, CellsFinite
  <2>7. h[k] \in Nat
    BY <2>3
  <2>8. Len(f[k]) = Len(first) + Weight(h, 1 .. k)
    BY ONLY <1>8, <2>1, <2>2, <2>4, <2>6, <2>7
  <2> QED
    BY <2>8
<1>14. Len(f[n]) = Len(first) + Weight(h, 1 .. n)
  <2>1. \A k \in 0 .. n : k \in G
    <3> HIDE DEF G
    <3> QED
      BY <1>2, <1>12, <1>13, Rounds
  <2>2. n \in 0 .. n
    BY <1>2
  <2> QED
    BY <2>1, <2>2
<1>15. f[n] \in V
  BY <1>2, <1>11
<1> QED
  BY <1>3, <1>4, <1>14, <1>15 DEF V, n, h, JoinsTo

-----------------------------------------------------------------------------
(***************************************************************************)
(* What descendents counts: every entry of a region's list that leads to a *)
(* region below it has its own number of cells in the region's.            *)
(***************************************************************************)
SizesBelow(q) == [k \in Entries(q) |-> descendents[adjacent[q][k]] + 1]
EntriesBelow(q) == {k \in Counted(q) : descendents[adjacent[q][k]] < descendents[q]}

DescendentsInv ==
    /\ traversed \subseteq Regions
    /\ descendents \in [Regions -> Nat]
    /\ adjacent \in [Regions -> Seq(Regions)]
    /\ \A r \in Regions \ traversed : descendents[r] = Unvisited
    /\ \A q \in traversed : Weight(SizesBelow(q), EntriesBelow(q)) <= descendents[q]

\* The entries that are counted are finitely many, and what they count are numbers.
LEMMA EntriesType ==
    ASSUME traversed \subseteq Regions, descendents \in [Regions -> Nat],
           adjacent \in [Regions -> Seq(Regions)], NEW q \in Regions
    PROVE  /\ Len(adjacent[q]) \in Nat /\ Entries(q) = 1 .. Len(adjacent[q])
           /\ IsFiniteSet(Entries(q))
           /\ Counted(q) \subseteq Entries(q) /\ IsFiniteSet(Counted(q))
           /\ EntriesBelow(q) \subseteq Counted(q) /\ IsFiniteSet(EntriesBelow(q))
           /\ \A k \in Entries(q) :
                 /\ adjacent[q][k] \in Regions
                 /\ SizesBelow(q)[k] = descendents[adjacent[q][k]] + 1
                 /\ SizesBelow(q)[k] \in Nat
<1>1. adjacent[q] \in Seq(Regions)
  OBVIOUS
<1>2. Len(adjacent[q]) \in Nat /\ \A k \in 1 .. Len(adjacent[q]) : adjacent[q][k] \in Regions
  BY <1>1, LenProperties, ElementOfSeq
<1>3. IsFiniteSet(Entries(q))
  BY <1>2, FS_Interval DEF Entries
<1>4. Counted(q) \subseteq Entries(q) /\ EntriesBelow(q) \subseteq Counted(q)
  BY DEF Counted, EntriesBelow
<1>5. IsFiniteSet(Counted(q)) /\ IsFiniteSet(EntriesBelow(q))
  <2>1. Counted(q) \in SUBSET Entries(q) /\ EntriesBelow(q) \in SUBSET Entries(q)
    BY <1>4
  <2> QED
    BY <1>3, <2>1, FS_Subset
<1>6. \A k \in Entries(q) :
         /\ adjacent[q][k] \in Regions
         /\ SizesBelow(q)[k] = descendents[adjacent[q][k]] + 1
         /\ SizesBelow(q)[k] \in Nat
  BY <1>2 DEF SizesBelow, Entries
<1> QED
  BY <1>2, <1>3, <1>4, <1>5, <1>6 DEF Entries

\* Fewer and lower columns.
LEMMA CellsWithin ==
    ASSUME NEW T, IsFiniteSet(T), NEW S \in SUBSET T, NEW h, NEW g,
           \A k \in T : g[k] \in Nat, \A k \in S : h[k] \in Nat /\ h[k] <= g[k]
    PROVE  Weight(h, S) <= Weight(g, T)
<1> DEFINE p == [k \in S |-> k]
<1>1. p \in [S -> T] /\ \A k \in S : p[k] = k
  OBVIOUS
<1> HIDE DEF p
<1>2. \A j, k \in S : p[j] = p[k] => j = k
  BY <1>1
<1>3. \A k \in S : h[k] \in Nat /\ h[k] <= g[p[k]]
  BY <1>1
<1> QED
  BY <1>1, <1>2, <1>3, CellsFit

\* The sum that propagate_descendent_count_and_max_depth_upwards takes.
FirstOf(s) == CHOOSE k \in s : TRUE
Sums(sum, h, S) ==
    sum = [s \in SUBSET S |-> IF s = {} THEN 0 ELSE h[FirstOf(s)] + sum[s \ {FirstOf(s)}]]

\* The library's sum over a set is a number of cells.
LEMMA SumIsWeight ==
    ASSUME NEW S, IsFiniteSet(S), NEW h, \A k \in S : h[k] \in Nat, NEW sum, Sums(sum, h, S)
    PROVE  sum[S] = Weight(h, S)
<1> DEFINE n == Cardinality(S)
           B == {m \in 0 .. n : \A s \in SUBSET S : Cardinality(s) = m => sum[s] = Weight(h, s)}
<1>1. n \in Nat
  BY FS_CardinalityType
<1>2. \A s \in SUBSET S : IsFiniteSet(s) /\ \A k \in s : h[k] \in Nat
  BY FS_Subset
<1>3. 0 \in B
  <2>1. ASSUME NEW s \in SUBSET S, Cardinality(s) = 0
        PROVE  sum[s] = Weight(h, s)
    <3>1. s = {}
      BY <1>2, <2>1, FS_EmptySet
    <3>2. sum[{}] = 0
      BY DEF Sums
    <3>3. Weight(h, {}) = 0
      BY NoCells
    <3> QED
      BY <3>1, <3>2, <3>3
  <2>2. 0 \in 0 .. n
    BY <1>1
  <2> QED
    BY <2>1, <2>2
<1>4. ASSUME NEW m \in 1 .. n, m - 1 \in B PROVE m \in B
  <2>1. ASSUME NEW s \in SUBSET S, Cardinality(s) = m
        PROVE  sum[s] = Weight(h, s)
    <3>1. s # {}
      <4>1. m # 0
        OBVIOUS
      <4> QED
        BY <2>1, <4>1, FS_EmptySet
    <3>2. PICK o \in s : o = FirstOf(s)
      BY <3>1 DEF FirstOf
    <3>3. s \ {o} \in SUBSET S /\ Cardinality(s \ {o}) = m - 1
      BY <1>2, <2>1, FS_RemoveElement
    <3>4. sum[s \ {o}] = Weight(h, s \ {o})
      BY <1>4, <3>3
    <3>5. Weight(h, s) = Weight(h, s \ {o}) + h[o]
      BY <1>2, CellsAdd
    <3>6. sum[s] = h[o] + sum[s \ {o}]
      BY <3>1, <3>2 DEF Sums
    <3>7. h[o] \in Nat /\ Weight(h, s \ {o}) \in Nat
      BY <1>2, <3>3, CellsFinite
    <3> QED
      BY <3>4, <3>5, <3>6, <3>7
  <2> QED
    BY <2>1
<1>5. n \in B
  <2>1. \A m \in 0 .. n : m \in B
    <3> HIDE DEF B
    <3> QED
      BY <1>1, <1>3, <1>4, Rounds
  <2> HIDE DEF B
  <2> QED
    BY <1>1, <2>1
<1> QED
  BY <1>5

\* sum_child_descendents_count counts the cells of the regions below.
LEMMA DescendentCountIsWeight ==
    ASSUME traversed \subseteq Regions, descendents \in [Regions -> Nat],
           adjacent \in [Regions -> Seq(Regions)], walker \in Regions
    PROVE  /\ DescendentCount = Weight(SizesBelow(walker), Counted(walker))
           /\ DescendentCount \in Nat
<1> DEFINE S == Counted(walker)
           h == SizesBelow(walker)
           Loop(sum) == Sums(sum, h, S)
           weight == [s \in SUBSET S |-> Weight(h, s)]
           total == CHOOSE sum : Loop(sum)
<1>1. IsFiniteSet(S) /\ S \subseteq Entries(walker) /\ \A k \in S : h[k] \in Nat
  BY EntriesType
<1>2. \A s \in SUBSET S :
         s # {} => h[FirstOf(s)] = descendents[adjacent[walker][FirstOf(s)]] + 1
  <2>1. \A k \in S : h[k] = descendents[adjacent[walker][k]] + 1
    BY EntriesType
  <2>2. \A s \in SUBSET S : s # {} => FirstOf(s) \in S
    BY DEF FirstOf
  <2> HIDE DEF h, S
  <2> QED
    BY <2>1, <2>2
<1>3. DescendentCount = total[S]
  <2> DEFINE Sum(sum) == sum = [s \in SUBSET S |->
                 IF s = {} THEN 0
                 ELSE (descendents[adjacent[walker][FirstOf(s)]] + 1) + sum[s \ {FirstOf(s)}]]
  <2>1. DescendentCount = (CHOOSE sum : Sum(sum))[S]
    BY Zenon DEF DescendentCount, MapThenSumSet, MapThenFoldSet, FirstOf
  <2>2. ASSUME NEW sum PROVE Loop(sum) <=> Sum(sum)
    <3> HIDE DEF S, h
    <3> QED
      BY <1>2 DEF Sums
  <2> HIDE DEF Sum, Loop
  <2>3. (CHOOSE sum : Sum(sum)) = CHOOSE sum : Loop(sum)
    BY <2>2
  <2> QED
    BY <2>1, <2>3
<1> HIDE DEF h, S
<1>4. Loop(weight)
  <2>1. ASSUME NEW s \in SUBSET S, s # {}
        PROVE  weight[s] = h[FirstOf(s)] + weight[s \ {FirstOf(s)}]
    <3>1. PICK o \in s : o = FirstOf(s)
      BY <2>1 DEF FirstOf
    <3>2. IsFiniteSet(s) /\ \A k \in s : h[k] \in Nat
      BY <1>1, FS_Subset
    <3>3. Weight(h, s) = Weight(h, s \ {o}) + h[o]
      BY <3>2, CellsAdd
    <3>4. IsFiniteSet(s \ {o}) /\ \A k \in s \ {o} : h[k] \in Nat
      BY <3>2, FS_RemoveElement
    <3>5. Weight(h, s \ {o}) \in Nat /\ h[o] \in Nat
      BY <3>2, <3>4, CellsFinite
    <3>6. weight[s] = Weight(h, s) /\ weight[s \ {o}] = Weight(h, s \ {o})
      OBVIOUS
    <3> QED
      BY <3>1, <3>3, <3>5, <3>6
  <2>2. weight[{}] = 0
    BY NoCells
  <2>3. weight = [s \in SUBSET S |-> weight[s]]
    OBVIOUS
  <2> HIDE DEF weight
  <2> QED
    BY <2>1, <2>2, <2>3 DEF Sums
<1>5. Loop(total)
  <2> HIDE DEF Loop, weight
  <2> QED
    BY <1>4
<1>6. total[S] = Weight(h, S)
  <2> HIDE DEF total
  <2> QED
    BY <1>1, <1>5, SumIsWeight
<1>7. Weight(h, S) \in Nat
  BY <1>1, CellsFinite
<1> QED
  BY <1>3, <1>6, <1>7 DEF h, S

\* Entering a region: it has counted all of its neighbours entered before, and so has more
\* descendents than each of them.
LEMMA EnterCounts ==
    ASSUME WalkInv, DescendentsInv, Enter
    PROVE  /\ DescendentsInv'
           /\ walker \in Regions /\ walker \notin traversed
           /\ descendents'[walker] = DescendentCount /\ DescendentCount \in Nat
           /\ \A r \in Regions \ {walker} : descendents'[r] = descendents[r]
<1>1. /\ phase = "walk" /\ traversed' = traversed \cup {walker}
      /\ descendents' = [descendents EXCEPT ![walker] = DescendentCount]
      /\ adjacent' = adjacent
  BY DEF Enter
<1>2. walker \in Regions /\ walker \notin traversed
  BY <1>1, ReadyRegion
<1>3. /\ traversed \subseteq Regions /\ descendents \in [Regions -> Nat]
      /\ adjacent \in [Regions -> Seq(Regions)]
      /\ \A r \in Regions \ traversed : descendents[r] = Unvisited
      /\ \A q \in traversed : Weight(SizesBelow(q), EntriesBelow(q)) <= descendents[q]
  BY DEF DescendentsInv
<1>4. DescendentCount = Weight(SizesBelow(walker), Counted(walker)) /\ DescendentCount \in Nat
  BY <1>2, <1>3, DescendentCountIsWeight
<1> DEFINE D == DescendentCount
<1> HIDE DEF D
<1>5. /\ D \in Nat /\ descendents' = [descendents EXCEPT ![walker] = D]
      /\ D = Weight(SizesBelow(walker), Counted(walker))
  BY <1>1, <1>4 DEF D
<1>6. /\ descendents'[walker] = D
      /\ \A r \in Regions \ {walker} : descendents'[r] = descendents[r]
  BY <1>2, <1>3, <1>5
<1>7. /\ traversed' \subseteq Regions /\ descendents' \in [Regions -> Nat]
      /\ adjacent' \in [Regions -> Seq(Regions)]
  BY <1>1, <1>2, <1>3, <1>5
<1>8. \A r \in Regions \ traversed' : descendents'[r] = Unvisited
  BY <1>1, <1>3, <1>6
<1>9. ASSUME NEW q \in Regions
      PROVE  /\ Entries(q)' = Entries(q)
             /\ \A k \in Entries(q) :
                   /\ adjacent[q][k] \in Regions /\ adjacent[q][k] # q
                   /\ q \in ElementsOf(adjacent[adjacent[q][k]])
             /\ \A k : k \in EntriesBelow(q)' <=>
                          /\ k \in Entries(q)
                          /\ adjacent[q][k] \in traversed \cup {walker}
                          /\ descendents'[adjacent[q][k]] < descendents'[q]
  <2>1. Entries(q)' = Entries(q) /\ Entries(q) = 1 .. Len(adjacent[q])
    BY <1>1 DEF Entries
  <2>2. \A k \in Entries(q) : adjacent[q][k] \in ElementsOf(adjacent[q])
    BY <2>1 DEF ElementsOf
  <2>3. \A k \in Entries(q) :
           /\ adjacent[q][k] # q
           /\ q \in ElementsOf(adjacent[adjacent[q][k]])
    BY <2>2 DEF WalkInv, RegionGraph
  <2>4. \A k \in Entries(q) : adjacent[q][k] \in Regions
    BY <1>3, EntriesType
  <2>5. \A k : k \in EntriesBelow(q)' <=>
                  /\ k \in Entries(q)
                  /\ adjacent[q][k] \in traversed \cup {walker}
                  /\ descendents'[adjacent[q][k]] < descendents'[q]
    BY <1>1, <2>1 DEF EntriesBelow, Counted
  <2> QED
    BY <2>1, <2>3, <2>4, <2>5
<1>10. ASSUME NEW q \in Regions, NEW k \in Entries(q), adjacent[q][k] # walker
       PROVE  SizesBelow(q)'[k] = SizesBelow(q)[k] /\ SizesBelow(q)[k] \in Nat
  <2>1. adjacent[q][k] \in Regions /\ Entries(q)' = Entries(q)
    BY <1>9
  <2>2. SizesBelow(q)[k] = descendents[adjacent[q][k]] + 1 /\ SizesBelow(q)[k] \in Nat
    BY <1>3, EntriesType
  <2>3. SizesBelow(q)'[k] = descendents'[adjacent[q][k]] + 1
    BY <1>1, <2>1 DEF SizesBelow
  <2> QED
    BY <1>6, <1>10, <2>1, <2>2, <2>3
<1>11. ASSUME NEW q \in traversed
       PROVE  Weight(SizesBelow(q)', EntriesBelow(q)') <= descendents'[q]
  <2>1. q \in Regions /\ q # walker /\ descendents'[q] = descendents[q]
    BY <1>2, <1>3, <1>6
  <2>2. ASSUME NEW k \in EntriesBelow(q)'
        PROVE  k \in EntriesBelow(q) /\ k \in Entries(q) /\ adjacent[q][k] # walker
    <3>1. /\ k \in Entries(q) /\ adjacent[q][k] \in traversed \cup {walker}
          /\ adjacent[q][k] \in Regions
          /\ q \in ElementsOf(adjacent[adjacent[q][k]])
          /\ descendents'[adjacent[q][k]] < descendents[q]
      BY <1>9, <2>1, <2>2
    <3>2. adjacent[q][k] # walker
      <4>1. SUFFICES ASSUME adjacent[q][k] = walker PROVE FALSE
        OBVIOUS
      <4>2. q \in ElementsOf(adjacent[walker]) /\ D < descendents[q]
        BY <1>6, <3>1, <4>1
      <4>3. PICK j \in Counted(walker) : adjacent[walker][j] = q
        BY <4>2 DEF ElementsOf, Counted, Entries
      <4> DEFINE S == Counted(walker)
                 h == SizesBelow(walker)
      <4>4. /\ IsFiniteSet(S) /\ j \in S /\ \A o \in S : h[o] \in Nat
            /\ h[j] = descendents[q] + 1
        BY <1>2, <1>3, <4>3, EntriesType
      <4> HIDE DEF S, h
      <4>5. Weight(h, S) = Weight(h, S \ {j}) + h[j]
        BY <4>4, CellsAdd
      <4>6. Weight(h, S \ {j}) \in Nat
        <5>1. IsFiniteSet(S \ {j}) /\ \A o \in S \ {j} : h[o] \in Nat
          BY <4>4, FS_RemoveElement
        <5> QED
          BY <5>1, CellsFinite
      <4>7. D = Weight(h, S)
        BY <1>5 DEF h, S
      <4>8. descendents[q] \in Nat
        BY <1>3, <2>1
      <4> QED
        BY ONLY <1>5, <4>2, <4>4, <4>5, <4>6, <4>7, <4>8
    <3>3. descendents'[adjacent[q][k]] = descendents[adjacent[q][k]]
      BY <1>6, <3>1, <3>2
    <3> QED
      BY <3>1, <3>2, <3>3 DEF EntriesBelow, Counted
  <2> DEFINE S == EntriesBelow(q)'
             T == EntriesBelow(q)
             h == SizesBelow(q)'
             g == SizesBelow(q)
  <2>3. S \in SUBSET T /\ IsFiniteSet(T)
    <3>1. IsFiniteSet(T)
      BY <1>3, <2>1, EntriesType
    <3>2. \A k \in S : k \in T
      BY <2>2
    <3> HIDE DEF S, T
    <3> QED
      BY <3>1, <3>2
  <2>4. \A k \in T : g[k] \in Nat
    BY <1>3, <2>1, EntriesType
  <2>5. \A k \in S : h[k] = g[k]
    BY <1>10, <2>1, <2>2
  <2>6. Weight(g, T) <= descendents'[q] /\ descendents'[q] \in Nat
    BY <1>3, <2>1
  <2>7. IsFiniteSet(S)
    BY <2>3, FS_Subset
  <2> HIDE DEF S, T, h, g
  <2>8. Weight(h, S) <= Weight(g, T)
    BY <2>3, <2>4, <2>5, CellsWithin
  <2>9. Weight(h, S) \in Nat /\ Weight(g, T) \in Nat
    BY <2>3, <2>4, <2>5, <2>7, CellsFinite
  <2>10. Weight(h, S) <= descendents'[q]
    BY <2>6, <2>8, <2>9
  <2> QED
    BY <2>10 DEF S, h
<1>12. ASSUME NEW q \in Regions, q = walker
       PROVE  Weight(SizesBelow(q)', EntriesBelow(q)') <= descendents'[q]
  <2> DEFINE S == EntriesBelow(q)'
             T == Counted(q)
             h == SizesBelow(q)'
             g == SizesBelow(q)
  <2>1. IsFiniteSet(T) /\ T \subseteq Entries(q) /\ \A k \in T : g[k] \in Nat
    BY <1>3, EntriesType
  <2>2. ASSUME NEW k \in S PROVE k \in T /\ h[k] = g[k]
    <3>1. k \in Entries(q) /\ adjacent[q][k] \in traversed /\ adjacent[q][k] # walker
      BY <1>9, <1>12, <2>2
    <3> QED
      BY <1>10, <3>1 DEF Counted
  <2>3. D = Weight(g, T) /\ descendents'[q] = D
    BY <1>5, <1>6, <1>12
  <2> HIDE DEF S, T, h, g
  <2>4. S \in SUBSET T
    BY <2>2
  <2>5. Weight(h, S) <= Weight(g, T)
    BY <2>1, <2>2, <2>4, CellsWithin
  <2> QED
    BY <2>3, <2>5 DEF S, h
<1>13. \A q \in traversed' : Weight(SizesBelow(q)', EntriesBelow(q)') <= descendents'[q]
  BY <1>1, <1>2, <1>11, <1>12
<1>14. DescendentsInv'
  BY <1>7, <1>8, <1>13 DEF DescendentsInv, Regions
<1> QED
  BY <1>2, <1>6, <1>5, <1>14 DEF D

-----------------------------------------------------------------------------
(***************************************************************************)
(* The regions below a candidate                                           *)
(***************************************************************************)

\* There is room for as many things as there are cells.
LEMMA FitsInto ==
    ASSUME NEW C, IsFiniteSet(C), NEW n \in Nat, Cardinality(C) <= n
    PROVE  \E f \in [C -> 0 .. n - 1] : \A c, e \in C : f[c] = f[e] => c = e
<1> DEFINE m == Cardinality(C)
<1>1. m \in Nat /\ ExistsBijection(1 .. m, C)
  BY FS_CardinalityType
<1>2. ExistsBijection(C, 1 .. m)
  BY <1>1, Fun_ExistsBijSymmetric
<1>3. PICK h : h \in Bijection(C, 1 .. m)
  BY <1>2 DEF ExistsBijection
<1>4. h \in [C -> 1 .. m] /\ \A c, e \in C : h[c] = h[e] => c = e
  <2> HIDE DEF m
  <2> QED
    BY <1>3 DEF Bijection, Injection, IsInjective, Surjection
<1> HIDE DEF m
<1>5. m <= n
  BY DEF m
<1> DEFINE f == [c \in C |-> h[c] - 1]
<1>6. f \in [C -> 0 .. n - 1]
  BY <1>1, <1>4, <1>5
<1>7. ASSUME NEW c \in C, NEW e \in C, f[c] = f[e]
      PROVE  c = e
  BY <1>4, <1>7
<1> HIDE DEF f
<1> QED
  BY <1>6, <1>7

\* The regions at most n steps below r.
LEMMA LayersExist ==
    ASSUME DescendentsInv, NEW r \in Regions
    PROVE  /\ descendents[r] \in Nat
           /\ DOMAIN Layers(r) = 0 .. descendents[r]
           /\ Layers(r)[0] = {r}
           /\ \A d \in 1 .. descendents[r] :
                 Layers(r)[d] = UNION {Children(q) : q \in Layers(r)[d - 1]}
<1> DEFINE n == descendents[r]
           V == SUBSET Regions
           Step(v) == UNION {Children(q) : q \in v}
           g == [d \in 1 .. n |-> [v \in V |-> Step(v)]]
           Loop(f) == f = [d \in 0 .. n |-> IF d = 0 THEN {r} ELSE Step(f[d - 1])]
           layer == CHOOSE f : Loop(f)
<1>1. n \in Nat
  BY DEF DescendentsInv
<1>2. Layers(r) = layer
  BY Zenon DEF Layers
<1>3. \A v \in V : Step(v) \in V
  <2>1. \A q \in Regions : Children(q) \subseteq Regions
    BY DEF DescendentsInv, Children, ElementsOf
  <2> QED
    BY <2>1
<1> HIDE DEF n, Step
<1>4. g \in [1 .. n -> [V -> V]] /\ \A d \in 1 .. n, v \in V : g[d][v] = Step(v)
  BY <1>3
<1>5. {r} \in V
  OBVIOUS
<1> HIDE DEF g, V
<1>6. PICK f : Computes(f, n, V, {r}, g)
  BY <1>1, <1>4, <1>5, LoopExists
<1>7. Loop(f)
  <2>1. f \in [0 .. n -> V] /\ f[0] = {r} /\ \A d \in 1 .. n : f[d] = Step(f[d - 1])
    <3>1. \A d \in 1 .. n : d - 1 \in 0 .. n
      BY <1>1
    <3> QED
      BY <1>4, <1>6, <3>1 DEF Computes
  <2>2. \A d \in 0 .. n : d = 0 \/ d \in 1 .. n
    BY <1>1
  <2> QED
    BY <2>1, <2>2
<1>8. Loop(layer)
  <2> HIDE DEF Loop
  <2> QED
    BY <1>7
<1> HIDE DEF layer
<1>9. DOMAIN layer = 0 .. n /\ layer[0] = {r} /\ \A d \in 1 .. n : layer[d] = Step(layer[d - 1])
  <2>1. 0 \in 0 .. n /\ \A d \in 1 .. n : d \in 0 .. n /\ d # 0
    BY <1>1
  <2> QED
    BY <1>8, <2>1
<1> QED
  BY <1>1, <1>2, <1>9, Zenon DEF n, Step

\* The regions below r have been entered, each from above, and those below them are there too.
LEMMA SubtreeClosed ==
    ASSUME DescendentsInv, NEW r \in traversed, descendents[r] <= Unvisited
    PROVE  /\ r \in Subtree(r) /\ Subtree(r) \subseteq traversed
           /\ \A q \in Subtree(r) : /\ Children(q) \subseteq Subtree(r)
                                     /\ descendents[q] <= descendents[r]
           /\ \A q \in Subtree(r) \ {r} : \E p \in Subtree(r) : q \in Children(p)
<1> DEFINE n == descendents[r]
           layer == Layers(r)
           T == Subtree(r)
           G == {d \in 0 .. n : \A q \in layer[d] : q \in traversed /\ descendents[q] <= n - d}
<1>1. /\ r \in Regions /\ traversed \subseteq Regions /\ n \in Nat /\ n <= 32767
      /\ \A q \in Regions : descendents[q] \in Nat
      /\ \A q \in Regions \ traversed : descendents[q] = 32767
  BY DEF DescendentsInv, Unvisited
<1>2. /\ DOMAIN layer = 0 .. n /\ layer[0] = {r}
      /\ \A d \in 1 .. n : layer[d] = UNION {Children(q) : q \in layer[d - 1]}
  BY <1>1, LayersExist
<1>3. T = UNION {layer[d] : d \in 0 .. n}
  BY <1>2 DEF Subtree
<1>4. \A q \in Regions : \A a \in Children(q) : a \in Regions /\ descendents[a] < descendents[q]
  BY DEF DescendentsInv, Children, ElementsOf
<1> HIDE DEF layer, T, n
<1>5. 0 \in G
  BY <1>1, <1>2 DEF n
<1>6. ASSUME NEW d \in 1 .. n, d - 1 \in G PROVE d \in G
  <2>1. ASSUME NEW a \in layer[d]
        PROVE  a \in traversed /\ descendents[a] <= n - d
    <3>1. PICK q \in layer[d - 1] : a \in Children(q)
      <4>1. layer[d] = UNION {Children(q) : q \in layer[d - 1]}
        BY <1>2
      <4> QED
        BY ONLY <2>1, <4>1, Zenon
    <3>2. q \in Regions /\ descendents[q] <= n - (d - 1) /\ descendents[q] \in Nat
      BY <1>1, <1>6, <3>1
    <3>3. a \in Regions /\ descendents[a] < descendents[q] /\ descendents[a] \in Nat
      BY <1>1, <1>4, <3>1, <3>2
    <3>4. d \in Nat /\ d >= 1
      OBVIOUS
    <3>5. descendents[a] <= n - d
      BY <1>1, <3>2, <3>3, <3>4
    <3>6. descendents[a] # 32767
      BY <1>1, <3>3, <3>4, <3>5
    <3> QED
      BY <1>1, <3>3, <3>5, <3>6
  <2> QED
    BY <1>1, <2>1
<1>7. \A d \in 0 .. n : d \in G
  <2> HIDE DEF G
  <2> QED
    BY <1>1, <1>5, <1>6, Rounds
<1>8. r \in T
  BY <1>1, <1>2, <1>3
<1>9. T \subseteq traversed /\ \A q \in T : descendents[q] <= n
  <2>1. ASSUME NEW q \in T PROVE q \in traversed /\ descendents[q] <= n
    <3>1. PICK d \in 0 .. n : q \in layer[d]
      BY <1>3
    <3>2. q \in traversed /\ descendents[q] <= n - d /\ descendents[q] \in Nat
      BY <1>1, <1>7, <3>1
    <3> QED
      BY <1>1, <3>2
  <2> QED
    BY <2>1
<1>10. ASSUME NEW q \in T, NEW a \in Children(q)
       PROVE  a \in T
  <2>1. PICK d \in 0 .. n : q \in layer[d]
    BY <1>3
  <2>2. q \in Regions /\ descendents[q] <= n - d /\ descendents[q] \in Nat
    BY <1>1, <1>7, <2>1
  <2>3. descendents[a] \in Nat /\ descendents[a] < descendents[q]
    BY <1>1, <1>4, <2>2
  <2>4. d + 1 \in 1 .. n /\ (d + 1) - 1 = d
    BY <1>1, <2>2, <2>3
  <2>5. layer[d + 1] = UNION {Children(p) : p \in layer[d]}
    BY <1>2, <2>4
  <2>6. a \in layer[d + 1] /\ d + 1 \in 0 .. n
    BY <1>1, <2>1, <2>4, <2>5
  <2> QED
    BY <1>3, <2>6
<1>11. ASSUME NEW a \in T, a # r
       PROVE  \E p \in T : a \in Children(p)
  <2>1. PICK d \in 0 .. n : a \in layer[d]
    BY <1>3
  <2>2. d \in 1 .. n /\ d - 1 \in 0 .. n
    BY <1>1, <1>2, <1>11, <2>1
  <2>3. PICK p \in layer[d - 1] : a \in Children(p)
    BY <1>2, <2>1, <2>2
  <2>4. p \in T
    BY <1>3, <2>2
  <2> QED
    BY <2>3, <2>4
<1> QED
  BY <1>8, <1>9, <1>10, <1>11 DEF T, n

\* They are no more than the region has descendents, and itself: the cells of each fit into those of
\* the region above it.
LEMMA SubtreeSize ==
    ASSUME DescendentsInv, NEW r \in traversed, descendents[r] <= Unvisited
    PROVE  Cardinality(Subtree(r)) <= descendents[r] + 1
<1> DEFINE T == Subtree(r)
           S == T \ {r}
<1>1. /\ r \in T /\ T \subseteq traversed
      /\ \A q \in T : Children(q) \subseteq T
      /\ \A q \in S : \E p \in T : q \in Children(p)
  BY SubtreeClosed
<1> HIDE DEF T
<1>2. /\ T \subseteq Regions /\ traversed \subseteq Regions
      /\ \A q \in Regions : descendents[q] \in Nat
      /\ \A q \in T : Weight(SizesBelow(q), EntriesBelow(q)) <= descendents[q]
  BY <1>1 DEF DescendentsInv
<1>3. IsFiniteSet(T) /\ IsFiniteSet(S) /\ Cardinality(S) = Cardinality(T) - 1
      /\ Cardinality(T) \in Nat
  <2>1. IsFiniteSet(Regions)
    BY TrackerAssumption, FS_Interval DEF Regions
  <2>2. IsFiniteSet(T)
    BY <1>2, <2>1, FS_Subset
  <2> QED
    BY <1>1, <2>2, FS_RemoveElement, FS_CardinalityType
<1> DEFINE C(q) == CellsOf(SizesBelow(q), EntriesBelow(q))
           Fits(f, q) == /\ f \in [C(q) -> 0 .. descendents[q] - 1]
                         /\ \A c, e \in C(q) : f[c] = f[e] => c = e
<1>4. \A q \in T : \E f : Fits(f, q)
  <2>1. ASSUME NEW q \in T
        PROVE  IsFiniteSet(C(q)) /\ Cardinality(C(q)) <= descendents[q] /\ descendents[q] \in Nat
    <3>1. /\ EntriesBelow(q) \subseteq Entries(q) /\ IsFiniteSet(EntriesBelow(q))
          /\ \A k \in Entries(q) : SizesBelow(q)[k] \in Nat
      BY <1>2, EntriesType DEF DescendentsInv
    <3>2. IsFiniteSet(C(q))
      BY <3>1, CellsFinite
    <3> QED
      BY <1>2, <3>2 DEF Weight
  <2>2. ASSUME NEW q \in T
        PROVE  \E f \in [C(q) -> 0 .. descendents[q] - 1] : \A c, e \in C(q) : f[c] = f[e] => c = e
    <3>1. IsFiniteSet(C(q)) /\ Cardinality(C(q)) <= descendents[q] /\ descendents[q] \in Nat
      BY <2>1
    <3> HIDE DEF C
    <3> QED
      BY <3>1, FitsInto
  <2> HIDE DEF C
  <2> QED
    BY <2>2
<1>5. \A a \in S : \E q \in T : \E k \in EntriesBelow(q) : adjacent[q][k] = a
  <2>1. ASSUME NEW a \in S
        PROVE  \E q \in T : \E k \in EntriesBelow(q) : adjacent[q][k] = a
    <3>1. PICK q \in T : a \in Children(q)
      BY <1>1
    <3>2. a \in ElementsOf(adjacent[q]) /\ descendents[a] < descendents[q]
      BY <3>1 DEF Children
    <3>3. PICK k \in Entries(q) : adjacent[q][k] = a
      BY <3>2 DEF ElementsOf, Entries
    <3>4. a \in traversed
      BY <1>1
    <3>5. k \in EntriesBelow(q)
      BY <3>2, <3>3, <3>4 DEF EntriesBelow, Counted
    <3> QED
      BY <3>3, <3>5
  <2> QED
    BY <2>1
<1> DEFINE above == [a \in S |-> CHOOSE q \in T : \E k \in EntriesBelow(q) : adjacent[q][k] = a]
           entry == [a \in S |-> CHOOSE k \in EntriesBelow(above[a]) : adjacent[above[a]][k] = a]
           place == [q \in T |-> CHOOSE f : Fits(f, q)]
<1>6. \A a \in S : above[a] \in T /\ \E k \in EntriesBelow(above[a]) : adjacent[above[a]][k] = a
  BY <1>5
<1>7. \A a \in S : entry[a] \in EntriesBelow(above[a]) /\ adjacent[above[a]][entry[a]] = a
  <2> HIDE DEF above
  <2> QED
    BY <1>6
<1>8. \A q \in T : Fits(place[q], q)
  <2> HIDE DEF Fits
  <2> QED
    BY <1>4
<1> HIDE DEF above, entry, place
<1> DEFINE g == [a \in Regions |-> descendents[a] + 1]
           F == [c \in CellsOf(g, S) |->
                    <<above[c[1]], place[above[c[1]]][<<entry[c[1]], c[2]>>]>>]
<1>9. \A a \in Regions : g[a] = descendents[a] + 1 /\ g[a] \in Nat
  BY <1>2
<1> HIDE DEF g
<1>10. ASSUME NEW c \in CellsOf(g, S)
       PROVE  /\ c = <<c[1], c[2]>> /\ c[1] \in S /\ above[c[1]] \in T
              /\ <<entry[c[1]], c[2]>> \in C(above[c[1]])
              /\ place[above[c[1]]][<<entry[c[1]], c[2]>>] \in 0 .. descendents[above[c[1]]] - 1
  <2>1. c = <<c[1], c[2]>> /\ c[1] \in S /\ c[2] \in Nat /\ c[2] < g[c[1]]
    BY DEF CellsOf
  <2> DEFINE a == c[1]
             q == above[a]
             k == entry[a]
  <2>2. a \in S /\ a \in Regions /\ q \in T /\ k \in EntriesBelow(q) /\ adjacent[q][k] = a
    BY <1>2, <1>6, <1>7, <2>1
  <2>3. SizesBelow(q)[k] = g[a]
    <3>1. q \in Regions /\ k \in Entries(q)
      BY <1>2, <2>2 DEF EntriesBelow, Counted
    <3> QED
      BY <1>9, <2>2, <3>1 DEF SizesBelow
  <2>4. <<k, c[2]>> \in C(q)
    BY <2>1, <2>2, <2>3 DEF CellsOf
  <2>5. place[q] \in [C(q) -> 0 .. descendents[q] - 1]
    BY <1>8, <2>2
  <2> HIDE DEF C
  <2>6. place[q][<<k, c[2]>>] \in 0 .. descendents[q] - 1
    BY <2>4, <2>5
  <2> QED
    BY <2>1, <2>2, <2>4, <2>6
<1>11. F \in [CellsOf(g, S) -> CellsOf(descendents, T)]
  <2>1. ASSUME NEW c \in CellsOf(g, S)
        PROVE  <<above[c[1]], place[above[c[1]]][<<entry[c[1]], c[2]>>]>> \in CellsOf(descendents, T)
    <3>1. /\ above[c[1]] \in T /\ descendents[above[c[1]]] \in Nat
          /\ place[above[c[1]]][<<entry[c[1]], c[2]>>] \in 0 .. descendents[above[c[1]]] - 1
      BY <1>2, <1>10
    <3> QED
      BY <3>1 DEF CellsOf
  <2> QED
    BY <2>1
<1>12. ASSUME NEW c \in CellsOf(g, S), NEW e \in CellsOf(g, S), F[c] = F[e]
       PROVE  c = e
  <2>1. /\ above[c[1]] = above[e[1]]
        /\ place[above[c[1]]][<<entry[c[1]], c[2]>>] = place[above[e[1]]][<<entry[e[1]], e[2]>>]
    BY <1>12
  <2> DEFINE q == above[c[1]]
  <2>2. q \in T /\ <<entry[c[1]], c[2]>> \in C(q) /\ <<entry[e[1]], e[2]>> \in C(q)
    BY <1>10, <2>1
  <2>3. \A u, v \in C(q) : place[q][u] = place[q][v] => u = v
    BY <1>8, <2>2
  <2>4. <<entry[c[1]], c[2]>> = <<entry[e[1]], e[2]>>
    <3> HIDE DEF C
    <3> QED
      BY <2>1, <2>2, <2>3
  <2>5. entry[c[1]] = entry[e[1]] /\ c[2] = e[2]
    BY <2>4
  <2>6. c[1] = e[1]
    BY <1>7, <1>10, <2>1, <2>5
  <2> QED
    BY <1>10, <2>5, <2>6
<1> HIDE DEF F, C, Fits
<1>13. Weight(g, S) <= Weight(descendents, T)
  <2>1. F \in Injection(CellsOf(g, S), CellsOf(descendents, T))
    BY <1>11, <1>12, Fun_IsInj
  <2>2. IsFiniteSet(CellsOf(descendents, T))
    BY <1>2, <1>3, CellsFinite
  <2> QED
    BY <2>1, <2>2, FS_Injection DEF Weight
<1>14. Weight(g, S) = Weight(descendents, S) + Cardinality(S)
  <2>1. \A k \in S : descendents[k] \in Nat /\ g[k] = descendents[k] + 1
    BY <1>2, <1>9
  <2> HIDE DEF S
  <2> QED
    BY <1>3, <2>1, RowAdds
<1>15. Weight(descendents, T) = Weight(descendents, S) + descendents[r]
  BY <1>1, <1>2, <1>3, CellsAdd
<1>16. Weight(descendents, S) \in Nat /\ descendents[r] \in Nat
  BY <1>1, <1>2, <1>3, CellsFinite
<1> HIDE DEF S
<1>17. Cardinality(T) <= descendents[r] + 1
  BY <1>3, <1>13, <1>14, <1>15, <1>16
<1> QED
  BY <1>17 DEF T

-----------------------------------------------------------------------------
(***************************************************************************)
(* The strings of the regions below a candidate                            *)
(***************************************************************************)

\* The regions whose strings a region joins.
LEMMA ChildrenType ==
    ASSUME DescendentsInv, NEW q \in Regions
    PROVE  /\ Children(q) \subseteq ElementsOf(adjacent[q]) /\ Children(q) \subseteq Regions
           /\ \A a \in Children(q) : descendents[a] < descendents[q]
<1>1. \A k \in 1 .. Len(adjacent[q]) : adjacent[q][k] \in Regions
  BY EntriesType DEF DescendentsInv, Entries
<1>2. ElementsOf(adjacent[q]) \subseteq Regions
  BY <1>1 DEF ElementsOf
<1>3. /\ Children(q) \subseteq ElementsOf(adjacent[q])
      /\ \A a \in Children(q) : descendents[a] < descendents[q]
  BY DEF Children
<1> QED
  BY <1>2, <1>3

\* build_left_heavy_depth_string, once the list is sorted
LEMMA StringOfJoins ==
    ASSUME NEW q, NEW string, NEW d
    PROVE  StringOf(q, string, d) =
              Joined(<<d[q]>>, LeftHeavy(adjacent[q], StringsBelow(q, string)),
                     StringsBelow(q, string))
BY Zenon DEF StringOf, Joined

\* The string of a region is the depths of the regions below it, joined.
LEMMA StringOfFits ==
    ASSUME DescendentsInv, NEW q \in traversed, Children(q) \subseteq traversed,
           NEW E, NEW d, d[q] \in E, NEW string, \A a \in Children(q) : string[a] \in Seq(E)
    PROVE  /\ StringOf(q, string, d) \in Seq(E)
           /\ (\A a \in Children(q) : Len(string[a]) <= descendents[a] + 1)
                 => Len(StringOf(q, string, d)) <= descendents[q] + 1
<1> DEFINE n == Len(adjacent[q])
           below == StringsBelow(q, string)
           list == LeftHeavy(adjacent[q], below)
           h == Lengths(list, below)
<1>1. /\ q \in Regions /\ n \in Nat /\ adjacent[q] \in Seq(Regions) /\ Entries(q) = 1 .. n
      /\ \A k \in 1 .. n : adjacent[q][k] \in Regions
      /\ \A a \in Regions : descendents[a] \in Nat
      /\ Weight(SizesBelow(q), EntriesBelow(q)) <= descendents[q]
  <2>1. q \in Regions
    BY DEF DescendentsInv
  <2> QED
    BY <2>1, EntriesType DEF DescendentsInv
<1>2. StringOf(q, string, d) = Joined(<<d[q]>>, list, below)
  BY StringOfJoins
<1> HIDE DEF below
<1>3. list \in Seq(Regions) /\ Arranged(list, adjacent[q], n)
  BY <1>1, LeftHeavyArranges
<1> HIDE DEF list
<1>4. Len(list) = n
  BY <1>3 DEF Arranged
<1>5. PICK p \in [1 .. n -> 1 .. n] :
         /\ \A j, o \in 1 .. n : p[j] = p[o] => j = o
         /\ \A j \in 1 .. n : list[j] = adjacent[q][p[j]]
  BY <1>3 DEF Arranged
<1>6. \A k \in 1 .. n : list[k] \in ElementsOf(adjacent[q])
  BY <1>5 DEF ElementsOf
<1>7. \A k \in 1 .. n :
         below[list[k]] = IF list[k] \in Children(q) THEN string[list[k]] ELSE <<>>
  BY <1>6 DEF below, StringsBelow
<1>8. \A k \in 1 .. Len(list) : below[list[k]] \in Seq(E)
  BY <1>4, <1>7, EmptySeq
<1>9. <<d[q]>> \in Seq(E) /\ Len(<<d[q]>>) = 1
  OBVIOUS
<1>10. /\ Joined(<<d[q]>>, list, below) \in Seq(E)
       /\ Len(Joined(<<d[q]>>, list, below)) = 1 + Weight(h, 1 .. n)
  <2> DEFINE first == <<d[q]>>
  <2>1. first \in Seq(E) /\ Len(first) = 1
    BY <1>9
  <2> HIDE DEF first
  <2>2. /\ Joined(first, list, below) \in Seq(E)
        /\ Len(Joined(first, list, below)) = Len(first) + Weight(h, 1 .. Len(list))
    <3>1. Len(list) \in Nat /\ DOMAIN list = 1 .. Len(list)
      BY <1>3, LenProperties
    <3>2. Joinable(E, list, below)
      BY <1>8, <3>1 DEF Joinable
    <3>3. JoinsTo(E, first, list, below)
      BY <2>1, <3>2, JoinedLength
    <3> QED
      BY <3>3 DEF JoinsTo
  <2> QED
    BY <1>4, <2>1, <2>2 DEF first
<1>11. \A k \in 1 .. n : h[k] = Len(below[list[k]]) /\ h[k] \in Nat
  <2>1. \A k \in 1 .. n : Len(below[list[k]]) \in Nat
    BY <1>4, <1>8, LenProperties
  <2> QED
    BY <1>4, <2>1 DEF Lengths
<1> HIDE DEF h, n
<1>12. ASSUME \A a \in Children(q) : Len(string[a]) <= descendents[a] + 1
       PROVE  Weight(h, 1 .. n) <= descendents[q]
  <2> DEFINE S == {k \in 1 .. n : list[k] \in Children(q)}
             T == EntriesBelow(q)
             g == SizesBelow(q)
             P == [k \in S |-> p[k]]
  <2>1. \A k \in (1 .. n) \ S : h[k] = 0
    <3>1. Len(<<>>) = 0
      OBVIOUS
    <3> QED
      BY <1>7, <1>11, <3>1
  <2>2. IsFiniteSet(T) /\ T \subseteq Entries(q) /\ \A k \in T : g[k] \in Nat
    BY <1>1, EntriesType DEF DescendentsInv
  <2>3. ASSUME NEW k \in S
        PROVE  p[k] \in T /\ h[k] \in Nat /\ h[k] <= g[p[k]]
    <3>1. k \in 1 .. n /\ p[k] \in 1 .. n /\ list[k] = adjacent[q][p[k]] /\ list[k] \in Children(q)
      BY <1>5
    <3>2. /\ list[k] \in traversed /\ descendents[list[k]] < descendents[q]
          /\ Len(string[list[k]]) <= descendents[list[k]] + 1
      BY <1>1, <1>12, <3>1, ChildrenType
    <3>3. p[k] \in T
      BY <1>1, <3>1, <3>2 DEF EntriesBelow, Counted
    <3>4. h[k] = Len(string[list[k]]) /\ h[k] \in Nat
      BY <1>7, <1>11, <3>1
    <3>5. g[p[k]] = descendents[list[k]] + 1
      BY <1>1, <3>1 DEF SizesBelow
    <3> QED
      BY <3>2, <3>3, <3>4, <3>5
  <2>4. P \in [S -> T] /\ \A k \in S : P[k] = p[k] /\ k \in 1 .. n
    BY <2>3
  <2> HIDE DEF P
  <2>5. \A j, k \in S : P[j] = P[k] => j = k
    BY <1>5, <2>4
  <2>6. \A k \in S : h[k] \in Nat /\ h[k] <= g[P[k]]
    BY <2>3, <2>4
  <2>7. S \in SUBSET (1 .. n)
    OBVIOUS
  <2>8. Weight(g, T) <= descendents[q]
    BY <1>1
  <2>9. IsFiniteSet(S)
    BY <1>1, <2>7, FS_Interval, FS_Subset
  <2> HIDE DEF S, T, g
  <2>10. Weight(h, S) <= Weight(g, T)
    BY <2>2, <2>4, <2>5, <2>6, CellsFit
  <2>11. Weight(h, 1 .. n) = Weight(h, S)
    BY <2>1, <2>7, EmptyColumns
  <2>12. Weight(h, S) \in Nat /\ Weight(g, T) \in Nat /\ descendents[q] \in Nat
    BY <1>1, <2>2, <2>6, <2>9, CellsFinite
  <2>13. Weight(h, S) <= descendents[q]
    BY ONLY <2>8, <2>10, <2>12
  <2> QED
    BY ONLY <2>11, <2>13, Zenon
<1>13. Weight(h, 1 .. n) \in Nat
  <2>1. IsFiniteSet(1 .. n)
    BY <1>1, FS_Interval
  <2> QED
    BY <1>11, <2>1, CellsFinite
<1>14. descendents[q] \in Nat
  BY <1>1
<1> QED
  BY <1>2, <1>10, <1>12, <1>13, <1>14

\* The string of a region depends on those of the regions below it only.
LEMMA StringOfSame ==
    ASSUME NEW q, NEW string, NEW other, NEW d, \A a \in Children(q) : string[a] = other[a]
    PROVE  StringOf(q, string, d) = StringOf(q, other, d)
<1>1. StringsBelow(q, string) = StringsBelow(q, other)
  BY DEF StringsBelow
<1> QED
  BY <1>1, StringOfJoins, Zenon

\* The strings of the regions below a candidate are defined by the recursion.
LEMMA StringsExist ==
    ASSUME DescendentsInv, NEW r \in traversed, descendents[r] <= Unvisited, NEW d
    PROVE  DepthStrings(r, d) = [q \in Subtree(r) |-> StringOf(q, DepthStrings(r, d), d)]
<1> DEFINE T == Subtree(r)
           E == {d[q] : q \in T}
           V == [T -> Seq(E)]
           Loop(s) == s = [q \in T |-> StringOf(q, s, d)]
           n == descendents[r] + 1
           g == [m \in 1 .. n |-> [s \in V |-> [q \in T |-> StringOf(q, s, d)]]]
<1>1. DepthStrings(r, d) = CHOOSE s : Loop(s)
  BY Zenon DEF DepthStrings
<1>2. /\ T \subseteq traversed
      /\ \A q \in T : Children(q) \subseteq T /\ descendents[q] <= descendents[r]
  BY SubtreeClosed
<1> HIDE DEF T
<1>3. /\ T \subseteq Regions /\ \A q \in Regions : descendents[q] \in Nat
      /\ descendents[r] \in Nat /\ n \in Nat
  BY <1>2 DEF DescendentsInv
<1>4. ASSUME NEW s \in V, NEW q \in T
      PROVE  StringOf(q, s, d) \in Seq(E)
  <2>1. q \in traversed /\ Children(q) \subseteq traversed /\ d[q] \in E
    BY <1>2
  <2>2. \A a \in Children(q) : s[a] \in Seq(E)
    BY <1>2
  <2> HIDE DEF E
  <2> QED
    BY <2>1, <2>2, StringOfFits
<1>5. [q \in T |-> <<>>] \in V
  BY EmptySeq
<1>6. g \in [1 .. n -> [V -> V]]
  <2> HIDE DEF E
  <2> QED
    BY <1>4
<1>7. \A m \in 1 .. n, s \in V : g[m][s] = [q \in T |-> StringOf(q, s, d)]
  OBVIOUS
<1> HIDE DEF g, V, n
<1>8. PICK f : Computes(f, n, V, [q \in T |-> <<>>], g)
  BY <1>3, <1>5, <1>6, LoopExists
<1>9. \A m \in 0 .. n : f[m] \in V
  BY <1>8 DEF Computes
<1>10. \A m \in 1 .. n : /\ m - 1 \in 0 .. n
                         /\ f[m] = [q \in T |-> StringOf(q, f[m - 1], d)]
  <2>1. \A m \in 1 .. n : m - 1 \in 0 .. n
    BY <1>3
  <2> QED
    BY <1>7, <1>8, <2>1 DEF Computes
<1> DEFINE G == {m \in 0 .. n : \A q \in T : descendents[q] < m => f[m][q] = StringOf(q, f[m], d)}
<1>11. 0 \in G
  <2>1. \A q \in T : ~(descendents[q] < 0)
    BY <1>3
  <2> QED
    BY <1>3, <2>1
<1>12. ASSUME NEW m \in 1 .. n, m - 1 \in G PROVE m \in G
  <2>1. ASSUME NEW q \in T, descendents[q] < m
        PROVE  f[m][q] = StringOf(q, f[m], d)
    <3>1. \A a \in T : f[m][a] = StringOf(a, f[m - 1], d)
      BY <1>10
    <3>2. ASSUME NEW a \in Children(q) PROVE f[m - 1][a] = f[m][a]
      <4>1. a \in T /\ descendents[a] < descendents[q]
        BY <1>2, <1>3, ChildrenType
      <4>2. descendents[a] < m - 1
        BY <1>3, <2>1, <4>1
      <4>3. f[m - 1][a] = StringOf(a, f[m - 1], d)
        BY <1>12, <4>1, <4>2
      <4> QED
        BY <3>1, <4>1, <4>3
    <3>3. StringOf(q, f[m - 1], d) = StringOf(q, f[m], d)
      BY <3>2, StringOfSame
    <3> QED
      BY <3>1, <3>3
  <2>2. m \in 0 .. n
    OBVIOUS
  <2> QED
    BY <2>1, <2>2
<1>13. n \in G /\ n \in 1 .. n
  <2>1. \A m \in 0 .. n : m \in G
    <3> HIDE DEF G
    <3> QED
      BY <1>3, <1>11, <1>12, Rounds
  <2>2. n \in 0 .. n /\ n \in 1 .. n
    BY <1>3 DEF n
  <2> HIDE DEF G
  <2> QED
    BY <2>1, <2>2
<1>14. \A q \in T : f[n][q] = StringOf(q, f[n], d)
  <2>1. \A q \in T : descendents[q] < n
    BY <1>2, <1>3 DEF n
  <2> QED
    BY <1>13, <2>1
<1>15. Loop(f[n])
  <2>1. f[n] \in [T -> Seq(E)]
    BY <1>9, <1>13 DEF V
  <2>2. f[n] = [q \in T |-> f[n][q]]
    BY <2>1
  <2> QED
    BY <1>14, <2>2
<1>16. Loop(CHOOSE s : Loop(s))
  <2> HIDE DEF Loop
  <2> QED
    BY <1>15
<1> QED
  BY <1>1, <1>16 DEF T

\* No string is longer than the number of its region's descendents and itself.
LEMMA StringsShort ==
    ASSUME DescendentsInv, NEW r \in traversed, descendents[r] <= Unvisited, NEW d
    PROVE  \A q \in Subtree(r) : Len(DepthStrings(r, d)[q]) <= descendents[q] + 1
<1> DEFINE T == Subtree(r)
           E == {d[q] : q \in T}
           string == DepthStrings(r, d)
           n == descendents[r] + 1
<1>1. string = [q \in T |-> StringOf(q, string, d)]
  BY StringsExist
<1>2. /\ T \subseteq traversed
      /\ \A q \in T : Children(q) \subseteq T /\ descendents[q] <= descendents[r]
  BY SubtreeClosed
<1> HIDE DEF T, string
<1>3. /\ T \subseteq Regions /\ \A q \in Regions : descendents[q] \in Nat
      /\ descendents[r] \in Nat /\ n \in Nat
  BY <1>2 DEF DescendentsInv
<1>4. \A q \in T : string[q] = StringOf(q, string, d)
  BY <1>1
<1>5. \A q \in T : d[q] \in E
  OBVIOUS
<1> HIDE DEF E, n
<1> DEFINE Short(q) == string[q] \in Seq(E) /\ Len(string[q]) <= descendents[q] + 1
           G == {m \in 0 .. n : \A q \in T : descendents[q] < m => Short(q)}
<1>6. 0 \in G
  <2>1. \A q \in T : ~(descendents[q] < 0)
    BY <1>3
  <2> QED
    BY <1>3, <2>1
<1>7. ASSUME NEW m \in 1 .. n, m - 1 \in G PROVE m \in G
  <2>1. ASSUME NEW q \in T, descendents[q] < m
        PROVE  Short(q)
    <3>1. \A a \in Children(q) : a \in T /\ descendents[a] < m - 1
      <4>1. \A a \in Children(q) : a \in T /\ descendents[a] < descendents[q]
        BY <1>2, <1>3, ChildrenType
      <4> QED
        BY <1>3, <2>1, <4>1
    <3>2. \A a \in Children(q) : string[a] \in Seq(E) /\ Len(string[a]) <= descendents[a] + 1
      BY <1>7, <3>1
    <3>3. q \in traversed /\ Children(q) \subseteq traversed /\ d[q] \in E
      BY <1>2, <1>5
    <3>4. /\ StringOf(q, string, d) \in Seq(E)
          /\ Len(StringOf(q, string, d)) <= descendents[q] + 1
      BY <3>2, <3>3, StringOfFits
    <3> QED
      BY <1>4, <3>4
  <2>2. m \in 0 .. n
    OBVIOUS
  <2> QED
    BY <2>1, <2>2
<1>8. n \in G
  <2>1. \A m \in 0 .. n : m \in G
    <3> HIDE DEF G
    <3> QED
      BY <1>3, <1>6, <1>7, Rounds
  <2>2. n \in 0 .. n
    BY <1>3
  <2> HIDE DEF G
  <2> QED
    BY <2>1, <2>2
<1>9. \A q \in T : descendents[q] < n
  BY <1>2, <1>3 DEF n
<1> QED
  BY <1>8, <1>9 DEF T, string

-----------------------------------------------------------------------------
(***************************************************************************)
(* The buffers                                                             *)
(***************************************************************************)
Fiducial == [root : Regions, id : Ids, nodes : Nat]

\* A candidate with more descendents than the largest known tree was marked as lost when found.
FitInv ==
    /\ DescendentsInv
    /\ \A k \in 1 .. Len(candidates) :
          Lost \notin flags[candidates[k]] => descendents[candidates[k]] <= MaxTarget
    /\ fiducials \in Seq(Fiducial)
    /\ StringsFit

\* The longest of the known trees.
LEMMA MaxNodeCountType == MaxNodeCount \in Nat
<1> DEFINE n == Len(Trees)
           f == [k \in 1 .. n |-> Len(Trees[k].depths)]
<1>1. n \in Nat /\ n >= 1 /\ \A k \in 1 .. n : Len(Trees[k].depths) \in Nat
  <2>1. Trees \in Seq([colour : Colours, depths : Seq(Nat)]) /\ Trees # <<>>
    BY TreesAssumption
  <2>2. n \in Nat \ {0}
    BY <2>1, EmptySeq
  <2>3. \A k \in 1 .. n : Trees[k].depths \in Seq(Nat)
    <3>1. \A k \in 1 .. n : Trees[k] \in [colour : Colours, depths : Seq(Nat)]
      BY <2>1, ElementOfSeq
    <3> QED
      BY <3>1
  <2> QED
    BY <2>2, <2>3, LenProperties
<1>2. f \in Surjection(1 .. n, NodeCounts)
  <2>1. \A k \in 1 .. n : f[k] \in NodeCounts
    BY DEF NodeCounts
  <2>2. f \in [1 .. n -> NodeCounts]
    BY <2>1
  <2>3. \A c \in NodeCounts : \E k \in 1 .. n : f[k] = c
    BY DEF NodeCounts
  <2> HIDE DEF f
  <2> QED
    BY <2>2, <2>3, Zenon DEF Surjection
<1>3. NodeCounts \subseteq Nat /\ NodeCounts # {}
  <2>1. 1 \in 1 .. n
    BY <1>1
  <2>2. f[1] \in NodeCounts
    BY <2>1 DEF NodeCounts
  <2>3. NodeCounts \subseteq Nat
    <3> HIDE DEF n
    <3>1. NodeCounts = {Len(Trees[k].depths) : k \in 1 .. n}
      BY DEF NodeCounts, n
    <3> QED
      BY <1>1, <3>1
  <2> QED
    BY <2>2, <2>3
<1>4. IsFiniteSet(NodeCounts)
  <2>1. IsFiniteSet(1 .. n)
    BY <1>1, FS_Interval
  <2> HIDE DEF f
  <2> QED
    BY <1>2, <2>1, FS_Surjection
<1>5. Max(NodeCounts) \in NodeCounts
  BY <1>3, <1>4, FiniteHasMax
<1> QED
  BY <1>3, <1>5 DEF MaxNodeCount

\* The id that a tree is given.
LEMMA IdType == ASSUME NEW tree PROVE TreeStringToId(tree) \in Ids
<1> DEFINE M == {k \in 1 .. Len(Trees) : Trees[k] = tree}
<1>1. CASE M # {}
  <2>1. M \subseteq Nat
    OBVIOUS
  <2>2. Min(M) \in M
    <3> HIDE DEF M
    <3> QED
      BY <1>1, <2>1, MinIsMember
  <2> QED
    BY <1>1, <2>2 DEF TreeStringToId, Ids
<1>2. CASE M = {}
  BY <1>2 DEF TreeStringToId, Ids
<1> QED
  BY <1>1, <1>2

\* The counts do not depend on anything else.
LEMMA DescendentsSame ==
    ASSUME DescendentsInv, UNCHANGED <<traversed, descendents, adjacent>>
    PROVE  DescendentsInv'
<1>1. ASSUME NEW q
      PROVE  SizesBelow(q)' = SizesBelow(q) /\ EntriesBelow(q)' = EntriesBelow(q)
  BY DEF SizesBelow, EntriesBelow, Counted, Entries
<1>2. \A q \in traversed' : Weight(SizesBelow(q)', EntriesBelow(q)') <= descendents'[q]
  BY <1>1 DEF DescendentsInv
<1> QED
  BY <1>2 DEF DescendentsInv, Regions

\* The order of the entries makes no difference to what they count.
LEMMA DescendentsArranged ==
    ASSUME DescendentsInv, UNCHANGED <<traversed, descendents>>,
           adjacent' \in [Regions -> Seq(Regions)],
           \A q \in Regions : Arranged(adjacent'[q], adjacent[q], Len(adjacent[q]))
    PROVE  DescendentsInv'
<1>1. ASSUME NEW q \in traversed
      PROVE  Weight(SizesBelow(q)', EntriesBelow(q)') <= descendents'[q]
  <2> DEFINE n == Len(adjacent[q])
             S == EntriesBelow(q)'
             T == EntriesBelow(q)
             h == SizesBelow(q)'
             g == SizesBelow(q)
  <2>1. q \in Regions
    BY DEF DescendentsInv
  <2>2. Len(adjacent'[q]) = n /\ Entries(q) = 1 .. n /\ Entries(q)' = 1 .. n
    BY <2>1 DEF Arranged, Entries
  <2>3. PICK p \in [1 .. n -> 1 .. n] :
           /\ \A j, o \in 1 .. n : p[j] = p[o] => j = o
           /\ \A j \in 1 .. n : adjacent'[q][j] = adjacent[q][p[j]]
    BY <2>1 DEF Arranged
  <2>4. IsFiniteSet(T) /\ \A k \in T : g[k] \in Nat
    BY <2>1, EntriesType DEF DescendentsInv
  <2>5. ASSUME NEW k \in S
        PROVE  k \in 1 .. n /\ p[k] \in T /\ h[k] = g[p[k]]
    <3>1. /\ k \in 1 .. n /\ adjacent'[q][k] \in traversed
          /\ descendents[adjacent'[q][k]] < descendents[q]
          /\ h[k] = descendents[adjacent'[q][k]] + 1
      BY <2>2 DEF EntriesBelow, Counted, SizesBelow
    <3>2. p[k] \in 1 .. n /\ adjacent'[q][k] = adjacent[q][p[k]]
      BY <2>3, <3>1
    <3>3. p[k] \in T
      BY <2>2, <3>1, <3>2 DEF EntriesBelow, Counted
    <3>4. g[p[k]] = descendents[adjacent[q][p[k]]] + 1
      BY <2>2, <3>2 DEF SizesBelow
    <3> QED
      BY <3>1, <3>2, <3>3, <3>4
  <2> DEFINE P == [k \in S |-> p[k]]
  <2>6. P \in [S -> T] /\ \A k \in S : P[k] = p[k]
    BY <2>5
  <2>7. Weight(g, T) <= descendents'[q] /\ descendents'[q] \in Nat
    BY <2>1 DEF DescendentsInv
  <2> HIDE DEF S, T, h, g, P, n
  <2>8. \A j, k \in S : P[j] = P[k] => j = k
    BY <2>3, <2>5, <2>6
  <2>9. \A k \in S : h[k] \in Nat /\ h[k] <= g[P[k]]
    BY <2>4, <2>5, <2>6
  <2>10. Weight(h, S) <= Weight(g, T)
    BY <2>4, <2>6, <2>8, <2>9, CellsFit
  <2>11. P \in Injection(S, T)
    BY <2>6, <2>8, Fun_IsInj
  <2>12. IsFiniteSet(S)
    BY <2>4, <2>11, FS_Injection
  <2>13. Weight(h, S) \in Nat /\ Weight(g, T) \in Nat
    BY <2>4, <2>9, <2>12, CellsFinite
  <2>14. Weight(h, S) <= descendents'[q]
    BY <2>7, <2>10, <2>13
  <2> QED
    BY <2>14 DEF h, S
<1> QED
  BY <1>1 DEF DescendentsInv, Regions

\* initialize_fidtrackerX
LEMMA FitInit == Init => FitInv
<1> SUFFICES ASSUME Init PROVE FitInv
  OBVIOUS
<1>1. DescendentsInv
  BY DEF Init, Fresh, RegionGraph, DescendentsInv, Unvisited
<1>2. /\ candidates = <<>> /\ fiducials = <<>>
      /\ nextString = 0 /\ treeString.depths = <<>>
  BY DEF Init, Fresh, NoString
<1>3. fiducials \in Seq(Fiducial) /\ \A k \in 1 .. Len(candidates) : FALSE
  BY <1>2
<1>4. StringsFit
  BY <1>2, MaxNodeCountType DEF StringsFit
<1> QED
  BY <1>1, <1>3, <1>4 DEF FitInv

\* What a step leaves alone.
LEMMA FitUnchanged ==
    ASSUME FitInv,
           UNCHANGED <<traversed, descendents, adjacent, flags, candidates, resultVars>>
    PROVE  FitInv'
<1>1. DescendentsInv'
  BY DescendentsSame DEF FitInv
<1> QED
  BY <1>1 DEF FitInv, StringsFit, resultVars, Fiducial, Regions

\* A region entered becomes a candidate that is not lost only if it fits.
LEMMA FitEnter ==
    ASSUME WalkInv, ListInv, FitInv, Enter,
           \/ Found /\ candidates' = Append(candidates, walker) /\ flags' = flags
           \/ NoteCandidate
    PROVE  FitInv'
<1>1. /\ DescendentsInv'
      /\ walker \in Regions /\ walker \notin traversed
      /\ descendents'[walker] = DescendentCount /\ DescendentCount \in Nat
      /\ \A r \in Regions \ {walker} : descendents'[r] = descendents[r]
  BY EnterCounts DEF FitInv
<1>2. /\ flags \in [Regions -> SUBSET Flags]
      /\ flags' = flags \/ flags' = [flags EXCEPT ![walker] = @ \cup {Lost}]
  BY DEF WalkInv, RegionGraph, NoteCandidate
<1>3. \A r \in Regions \ {walker} : flags'[r] = flags[r]
  BY <1>2
<1>4. candidates \in Seq(Regions) /\ \A k \in 1 .. Len(candidates) : candidates[k] \in traversed
  BY DEF ListInv
<1>5. MaxTarget \in Int
  BY MaxNodeCountType DEF MaxTarget
<1>6. ASSUME candidates' = Append(candidates, walker), Lost \notin flags'[walker]
      PROVE  DescendentCount <= MaxTarget
  <2>1. CASE Found
    BY <1>1, <1>5, <2>1 DEF Found
  <2>2. CASE ~Found
    <3>1. NoteCandidate
      BY <2>2
    <3>2. InTarget \/ InRange
      <4>1. candidates # Append(candidates, walker)
        BY <1>1, <1>4, AppendProperties
      <4> QED
        BY <1>6, <3>1, <4>1 DEF NoteCandidate
    <3>3. InTarget
      BY <1>1, <1>2, <1>6, <3>1, <3>2 DEF NoteCandidate
    <3> QED
      BY <1>1, <1>5, <3>3 DEF InTarget
  <2> QED
    BY <2>1, <2>2
<1>7. candidates' = candidates \/ candidates' = Append(candidates, walker)
  BY DEF NoteCandidate
<1>8. ASSUME NEW k \in 1 .. Len(candidates'), Lost \notin flags'[candidates'[k]]
      PROVE  descendents'[candidates'[k]] <= MaxTarget
  <2>1. CASE k \in 1 .. Len(candidates) /\ candidates'[k] = candidates[k]
    <3>1. candidates[k] \in Regions \ {walker}
      BY <1>1, <1>4, <2>1
    <3> QED
      BY <1>1, <1>3, <1>8, <2>1, <3>1 DEF FitInv
  <2>2. CASE candidates' = Append(candidates, walker) /\ candidates'[k] = walker
    BY <1>1, <1>6, <1>8, <2>2
  <2>3. CASE candidates' = Append(candidates, walker)
    <3>1. /\ Len(candidates') = Len(candidates) + 1 /\ Len(candidates) \in Nat
          /\ candidates'[Len(candidates) + 1] = walker
          /\ \A j \in 1 .. Len(candidates) : candidates'[j] = candidates[j]
      BY <1>1, <1>4, <2>3, AppendProperties, LenProperties
    <3>2. k \in 1 .. Len(candidates) \/ k = Len(candidates) + 1
      BY <3>1
    <3> QED
      BY <2>1, <2>2, <2>3, <3>1, <3>2
  <2> QED
    BY <1>7, <2>1, <2>3
<1>9. UNCHANGED resultVars
  BY DEF Enter
<1> QED
  BY <1>1, <1>8, <1>9 DEF FitInv, StringsFit, resultVars, Fiducial, Regions

\* The next candidate
LEMMA FitNextFiducial ==
    ASSUME ListInv, FitInv, NextFiducial
    PROVE  Candidate \in traversed /\ Candidate \in Regions /\ descendents[Candidate] \in Nat
           /\ (Lost \notin flags[Candidate] => descendents[Candidate] <= MaxTarget)
<1>1. /\ Len(fiducials) \in Nat /\ Len(candidates) \in Nat
      /\ Len(fiducials) < Len(candidates)
  BY LenProperties DEF ListInv, FitInv, NextFiducial
<1>2. Len(fiducials) + 1 \in 1 .. Len(candidates)
  BY <1>1
<1> QED
  BY <1>2 DEF Candidate, ListInv, FitInv, DescendentsInv

\* A tree that is looked up has a string that fits.
LEMMA FitIdentify ==
    ASSUME ListInv, FitInv, MaxTarget <= Unvisited, IdentifyCandidate
    PROVE  FitInv'
<1> DEFINE r == Candidate
           d == Depths(r)
           string == DepthStrings(r, d)
           below == Subtree(r)
<1>1. /\ r \in traversed /\ r \in Regions /\ descendents[r] \in Nat /\ descendents[r] <= MaxTarget
  BY FitNextFiducial DEF IdentifyCandidate, NeedsString
<1>2. /\ UNCHANGED <<traversed, descendents, flags, candidates>>
      /\ treeString' = [colour |-> colour[r], depths |-> string[r]]
      /\ nextString' = Cardinality(below)
      /\ adjacent' = [q \in Regions |-> IF q \in below THEN Sorted(q, string) ELSE adjacent[q]]
      /\ fiducials' = Append(fiducials, [root |-> r, id |-> TreeStringToId(treeString'),
                                         nodes |-> descendents[r]])
  BY DEF IdentifyCandidate, NextFiducial
<1> HIDE DEF r, d, string, below
<1>3. MaxNodeCount \in Nat /\ MaxTarget = MaxNodeCount - 1 /\ Unvisited \in Nat
  BY MaxNodeCountType DEF MaxTarget, Unvisited
<1>4. descendents[r] <= Unvisited /\ descendents[r] + 1 <= MaxNodeCount
  BY <1>1, <1>3
<1>5. DescendentsInv
  BY DEF FitInv
<1>6. Cardinality(below) <= descendents[r] + 1 /\ Cardinality(below) \in Nat
  <2>1. Cardinality(below) <= descendents[r] + 1
    BY <1>1, <1>4, <1>5, SubtreeSize DEF below
  <2>2. below \subseteq Regions
    BY <1>1, <1>4, <1>5, SubtreeClosed DEF below, DescendentsInv
  <2>3. IsFiniteSet(Regions)
    BY TrackerAssumption, FS_Interval DEF Regions
  <2>4. IsFiniteSet(below)
    BY <2>2, <2>3, FS_Subset
  <2> QED
    BY <2>1, <2>4, FS_CardinalityType
<1>7. Len(string[r]) <= descendents[r] + 1
  <2>1. r \in below
    BY <1>1, <1>4, <1>5, SubtreeClosed DEF below
  <2> QED
    BY <1>1, <1>4, <1>5, <2>1, StringsShort DEF string, below
<1>8. StringsFit'
  BY <1>1, <1>2, <1>3, <1>4, <1>6, <1>7 DEF StringsFit
<1>9. /\ adjacent' \in [Regions -> Seq(Regions)]
      /\ \A q \in Regions : Arranged(adjacent'[q], adjacent[q], Len(adjacent[q]))
  <2>1. ASSUME NEW q \in Regions
        PROVE  /\ adjacent'[q] \in Seq(Regions)
               /\ Arranged(adjacent'[q], adjacent[q], Len(adjacent[q]))
    <3>1. adjacent[q] \in Seq(Regions)
      BY <1>5 DEF DescendentsInv
    <3>2. CASE q \in below
      <4>1. adjacent'[q] = LeftHeavy(adjacent[q], StringsBelow(q, string))
        BY <1>2, <3>2 DEF Sorted
      <4> QED
        BY <3>1, <4>1, LeftHeavyArranges
    <3>3. CASE q \notin below
      <4>1. adjacent'[q] = adjacent[q]
        BY <1>2, <3>3
      <4>2. Arranged(adjacent[q], adjacent[q], Len(adjacent[q]))
        BY <3>1, ArrangedSame
      <4> QED
        BY <3>1, <4>1, <4>2
    <3> QED
      BY <3>2, <3>3
  <2>2. adjacent' = [q \in Regions |-> adjacent'[q]]
    BY <1>2
  <2> QED
    BY <2>1, <2>2
<1>10. DescendentsInv'
  BY <1>2, <1>5, <1>9, DescendentsArranged
<1>11. fiducials' \in Seq(Fiducial)
  <2> DEFINE new == [root |-> r, id |-> TreeStringToId(treeString'), nodes |-> descendents[r]]
  <2>1. TreeStringToId(treeString') \in Ids
    BY IdType
  <2>2. new \in Fiducial
    BY <1>1, <2>1 DEF Fiducial
  <2>3. fiducials' = Append(fiducials, new) /\ fiducials \in Seq(Fiducial)
    BY <1>2 DEF FitInv
  <2> HIDE DEF new
  <2> QED
    BY <2>2, <2>3, AppendProperties
<1>12. \A k \in (1 .. Len(candidates))' :
          Lost \notin flags'[candidates'[k]] => descendents'[candidates'[k]] <= MaxTarget
  BY <1>2 DEF FitInv
<1> QED
  BY <1>8, <1>10, <1>11, <1>12 DEF FitInv, Fiducial, Regions, MaxTarget

\* A candidate that is lost or no match is passed over.
LEMMA FitPassOver ==
    ASSUME ListInv, FitInv, PassOverLost
    PROVE  FitInv'
<1>1. Candidate \in Regions /\ descendents[Candidate] \in Nat
  BY FitNextFiducial DEF PassOverLost
<1>2. /\ UNCHANGED <<traversed, descendents, adjacent, flags, candidates, treeString, nextString>>
      /\ fiducials' = Append(fiducials, [root |-> Candidate, id |-> InvalidId,
                                         nodes |-> descendents[Candidate]])
  BY DEF PassOverLost, NextFiducial
<1>3. DescendentsInv'
  BY <1>2, DescendentsSame DEF FitInv
<1>4. fiducials' \in Seq(Fiducial)
  <2> DEFINE new == [root |-> Candidate, id |-> InvalidId, nodes |-> descendents[Candidate]]
  <2>1. new \in Fiducial
    BY <1>1 DEF Fiducial, Ids
  <2>2. fiducials' = Append(fiducials, new) /\ fiducials \in Seq(Fiducial)
    BY <1>2 DEF FitInv
  <2> HIDE DEF new
  <2> QED
    BY <2>1, <2>2, AppendProperties
<1> QED
  BY <1>2, <1>3, <1>4 DEF FitInv, StringsFit, Fiducial, Regions

\* Every step of find_fiducialsX
LEMMA FitStep ==
    IInv /\ ListInv /\ FitInv /\ MaxTarget <= Unvisited /\ [Next]_vars => FitInv'
<1> SUFFICES ASSUME IInv, ListInv, FitInv, MaxTarget <= Unvisited, [Next]_vars PROVE FitInv'
  OBVIOUS
<1>1. ASSUME Enter PROVE WalkInv
  BY <1>1 DEF Enter, IInv
<1>2. CASE SkipRegion \/ StartAtLeaf \/ ScanDone \/ Return
  <2>1. UNCHANGED <<traversed, descendents, adjacent, flags, candidates, resultVars>>
    BY <1>2 DEF SkipRegion, StartAtLeaf, ScanDone, Return, graphVars, walkVars
  <2> QED
    BY <2>1, FitUnchanged
<1>3. CASE FindCandidate
  BY <1>1, <1>3, FitEnter DEF FindCandidate
<1>4. CASE EndAtTop
  BY <1>1, <1>4, FitEnter DEF EndAtTop
<1>5. CASE ReportToParent
  BY <1>1, <1>5, FitEnter DEF ReportToParent
<1>6. CASE IdentifyCandidate
  BY <1>6, FitIdentify
<1>7. CASE PassOverLost
  BY <1>7, FitPassOver
<1>8. CASE UNCHANGED vars
  <2>1. UNCHANGED <<traversed, descendents, adjacent, flags, candidates, resultVars>>
    BY <1>8 DEF vars, trackerVars, graphVars, walkVars
  <2> QED
    BY <2>1, FitUnchanged
<1> QED
  BY <1>2, <1>3, <1>4, <1>5, <1>6, <1>7, <1>8 DEF Next

\* On every region graph the buffers of initialize_fidtrackerX hold the strings of every tree that
\* is looked up, if no known fiducial has more nodes than a region not yet entered has descendents.
THEOREM BuffersSuffice == MaxTarget <= Unvisited => (Spec => []StringsFit)
<1> SUFFICES ASSUME MaxTarget <= Unvisited PROVE Spec => []StringsFit
  OBVIOUS
<1>1. FitInv => StringsFit
  BY DEF FitInv
<1>2. IInv /\ ListInv /\ FitInv /\ [Next]_vars => FitInv'
  BY FitStep
<1>3. Init => ListInv
  BY FreshList DEF Init
<1> QED
  BY <1>1, <1>2, <1>3, InitInv, NextInv, ListStep, FitInit, PTL DEF Spec

\* The same frame after frame.
FrameFits == phase # "idle" => FitInv

\* Every step of the tracker with the segmenter
LEMMA FrameFitsStep ==
    ASSUME FrameInv, FrameFits, HandsOverGraph, MaxTarget <= Unvisited, [TrackingNext]_allVars
    PROVE  FrameFits'
<1>1. CASE Segment \/ NextFrame
  BY <1>1 DEF Segment, NextFrame, FrameFits, trackerVars
<1>2. CASE FindFiducials
  <2>1. /\ phase = "idle" /\ pc = "done" /\ phase' = "scan"
        /\ UNCHANGED <<graphVars, scanned, walkVars, resultVars>>
    BY <1>2 DEF FindFiducials
  <2>2. RegionGraph /\ Fresh
    BY <2>1 DEF HandsOverGraph, FrameInv
  <2>3. RegionGraph'
    BY <2>1, <2>2 DEF RegionGraph, Used, ClosedUnderAdjacency, ElementsOf, graphVars
  <2>4. Fresh'
    BY <2>1, <2>2 DEF Fresh, walkVars, resultVars, Regions
  <2>5. Init'
    BY <2>1, <2>3, <2>4 DEF Init
  <2>6. Init' => FitInv'
    BY FitInit, PTL
  <2> QED
    BY <2>5, <2>6 DEF FrameFits
<1>3. CASE Track
  <2>1. phase # "idle" /\ Next
    BY <1>3 DEF Track
  <2>2. IInv /\ ListInv /\ FitInv
    BY <2>1 DEF FrameInv, FrameFits
  <2>3. FitInv'
    BY <2>1, <2>2, FitStep
  <2> QED
    BY <2>3 DEF FrameFits
<1>4. CASE UNCHANGED allVars
  <2>1. UNCHANGED vars /\ phase' = phase
    BY <1>4 DEF allVars, vars, trackerVars
  <2>2. ASSUME phase # "idle" PROVE FitInv'
    <3>1. IInv /\ ListInv /\ FitInv
      BY <2>2 DEF FrameInv, FrameFits
    <3> QED
      BY <2>1, <3>1, FitStep
  <2> QED
    BY <2>1, <2>2 DEF FrameFits
<1> QED
  BY <1>1, <1>2, <1>3, <1>4 DEF TrackingNext

\* Frame after frame, as long as the segmenter hands over region graphs, the buffers hold the
\* strings of every tree that is looked up.
THEOREM FramesFit ==
    MaxTarget <= Unvisited => (TrackingSpec /\ []HandsOverGraph => []StringsFit)
<1> SUFFICES ASSUME MaxTarget <= Unvisited PROVE TrackingSpec /\ []HandsOverGraph => []StringsFit
  OBVIOUS
<1>1. TrackingInit => FrameInv /\ FrameFits
  BY DEF TrackingInit, FrameInv, FrameFits
<1>2. FrameInv /\ FrameFits => StringsFit
  <2>1. CASE phase = "idle"
    BY <2>1, MaxNodeCountType DEF FrameInv, Fresh, StringsFit, NoString
  <2>2. CASE phase # "idle"
    BY <2>2 DEF FrameFits, FitInv
  <2> QED
    BY <2>1, <2>2
<1>3. FrameInv /\ FrameFits /\ HandsOverGraph /\ [TrackingNext]_allVars => FrameFits'
  BY FrameFitsStep
<1> QED
  BY <1>1, <1>2, <1>3, FrameStep, PTL DEF TrackingSpec
=============================================================================

------------------------------ MODULE Regions ------------------------------
(***************************************************************************)
(* A region as the segmenter leaves it and the fiducial tracker finds it   *)
(* (segment.h, segment.c): its flags, the null pointer, and the array      *)
(* adjacent_regions with the two loops that search and change it.  A list  *)
(* may hold a region more than once.                                       *)
(***************************************************************************)
EXTENDS Integers, Sequences, FiniteSets

Root == "ADJACENT_TO_ROOT"
Saturated == "SATURATED"
Fragmented == "FRAGMENTED"
Free == "FREE"
Lost == "LOST_SYMBOL"
Flags == {Root, Saturated, Fragmented, Free, Lost}

Null == 0

Contains(list, r) == \E k \in 1 .. Len(list) : list[k] = r
ElementsOf(list) == {list[k] : k \in 1 .. Len(list)}

Occurrences(list, r) == {k \in 1 .. Len(list) : list[k] = r}
Count(list, r) == Cardinality(Occurrences(list, r))

FirstIndex(list, r) ==
    CHOOSE k \in 1 .. Len(list) : list[k] = r /\ \A j \in 1 .. k - 1 : list[j] # r

\* The last entry takes the place of entry k.
DropEntry(list, k) ==
    [j \in 1 .. Len(list) - 1 |-> IF j = k THEN list[Len(list)] ELSE list[j]]

\* remove_adjacent_from( r1, r2 ) on the list of r1
Without(list, r) == IF Contains(list, r) THEN DropEntry(list, FirstIndex(list, r)) ELSE list

\* replace_adjacent( r1, r2, r3 ) on the list of r1
Replaced(list, r2, r3) ==
    IF Contains(list, r2) THEN [list EXCEPT ![FirstIndex(list, r2)] = r3] ELSE list
=============================================================================

---------------------------- MODULE PriorityQueue ----------------------------
(***************************************************************************)
(* WOscPriorityQueue: an array of items in the order in which they came.   *)
(* An item is a record with a tag; a queue is its array and its length.    *)
(***************************************************************************)
EXTENDS Naturals, FiniteSets

CONSTANTS NoItem, LargestTimeTag

NewQueue(capacity) == [list |-> [i \in 0 .. capacity - 1 |-> NoItem], itemsInList |-> 0]
Capacity(q) == Cardinality(DOMAIN q.list)
Items(q) == {q.list[i] : i \in 0 .. q.itemsInList - 1}

DoubleCapacity(q) ==
    [q EXCEPT !.list = [i \in 0 .. 2 * Capacity(q) - 1 |-> IF i < Capacity(q) THEN q.list[i] ELSE NoItem]]

InsertItem(q, item) ==
    LET room == IF q.itemsInList = Capacity(q) THEN DoubleCapacity(q) ELSE q
    IN  [list |-> [room.list EXCEPT ![q.itemsInList] = item], itemsInList |-> q.itemsInList + 1]

GetEarliestTimeTag(q) ==
    LET earlier == {item.tag : item \in Items(q)} \cup {LargestTimeTag}
    IN  CHOOSE tag \in earlier : \A other \in earlier : tag <= other

\* Of several items with the smallest tag, the first in the array.
LastEarliestIndex(q) ==
    CHOOSE i \in 0 .. q.itemsInList - 1 : \A k \in 0 .. q.itemsInList - 1 :
        q.list[i].tag < q.list[k].tag \/ (q.list[i].tag = q.list[k].tag /\ i >= k)
EarliestIndex(q) ==
    CHOOSE i \in 0 .. q.itemsInList - 1 : \A k \in 0 .. q.itemsInList - 1 :
        q.list[i].tag < q.list[k].tag \/ (q.list[i].tag = q.list[k].tag /\ i <= k)

EarliestItem(q) == q.list[EarliestIndex(q)]

\* The items behind it move up; the last element stays where it is as well.
RemoveEarliestItem(q) ==
    [list |-> [i \in DOMAIN q.list |->
                  IF i >= EarliestIndex(q) /\ i < q.itemsInList - 1 THEN q.list[i + 1] ELSE q.list[i]],
     itemsInList |-> q.itemsInList - 1]
=============================================================================

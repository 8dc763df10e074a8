----------------------------- MODULE TreeIdMap -----------------------------
(***************************************************************************)
(* The fiducials the tracker knows (treeidmap.cpp), each a root colour and *)
(* the depths of the nodes of its tree in left-heavy order.                *)
(***************************************************************************)
EXTENDS Integers, Sequences, FiniteSetsExt

CONSTANTS Colours, Trees

ASSUME TreesAssumption ==
    /\ Trees \in Seq([colour : Colours, depths : Seq(Nat)]) /\ Trees # <<>>
    /\ \A k \in 1 .. Len(Trees) : Trees[k].depths # <<>>

TreeDepth(tree) == Max({tree.depths[k] : k \in 1 .. Len(tree.depths)})

NodeCounts == {Len(Trees[k].depths) : k \in 1 .. Len(Trees)}
TreeDepths == {TreeDepth(Trees[k]) : k \in 1 .. Len(Trees)}

MinNodeCount == Min(NodeCounts)
MaxNodeCount == Max(NodeCounts)
MinDepth == Min(TreeDepths)
MaxDepth == Max(TreeDepths)

InvalidId == -1
Ids == {InvalidId} \cup {k - 1 : k \in 1 .. Len(Trees)}

\* A tree entered twice keeps the id it got first; the second entry uses up an id.
TreeStringToId(tree) ==
    IF \E k \in 1 .. Len(Trees) : Trees[k] = tree
    THEN Min({k \in 1 .. Len(Trees) : Trees[k] = tree}) - 1
    ELSE InvalidId
=============================================================================

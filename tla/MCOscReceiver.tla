--------------------------- MODULE MCOscReceiver ---------------------------
(***************************************************************************)
(* Packets of every kind: bundles that are due at once, later, and latest, *)
(* with good messages, and with one of each sort of item between two.      *)
(***************************************************************************)
EXTENDS OscReceiver

Matched == [kind |-> "matched", name |-> "a"]
Unmatched == [kind |-> "unmatched", name |-> "b"]
Inner == [kind |-> "bundle", tag |-> 1, items |-> <<Matched>>]
Item(kind) == [kind |-> kind]
MCItems == {Matched, Unmatched, Inner} \cup {Item(kind) : kind \in {"malformed", "hash", "void"}}
Bundle(tag, items) == [kind |-> "bundle", tag |-> tag, items |-> items]

MCPackets ==
    {[kind |-> "empty"], [kind |-> "corrupt"]}
    \cup {[kind |-> "message", items |-> <<item>>] : item \in {Matched, Item("malformed"), Item("hash")}}
    \cup {Bundle(1, <<Matched, item, Unmatched>>) :
              item \in {Item("void"), Item("malformed"), Item("hash"), Inner}}
    \cup {Bundle(tag, <<Matched>>) : tag \in {3, 4}}

\* For what the documentation promises.
MCGoodPackets == {Bundle(1, <<Matched, Unmatched>>), Bundle(3, <<Matched>>), Bundle(4, <<Matched>>)}
MCNestedPackets == {Bundle(1, <<Matched, Inner>>), Bundle(4, <<Matched>>)}
=============================================================================

--------------------------- MODULE OscReceiverProofs ---------------------------
(***************************************************************************)
(* The receiver keeps addresses and queue together, handles a packet in    *)
(* its order and takes what waits in the order of the tags, for every set  *)
(* of packets, every time and every capacity of the queue.                 *)
(***************************************************************************)
EXTENDS OscReceiver, SequenceTheorems, FoldProofs

-----------------------------------------------------------------------------
(***************************************************************************)
(* The array of the queue                                                  *)
(***************************************************************************)
QueueShape(q) ==
    /\ q = [list |-> q.list, itemsInList |-> q.itemsInList]
    /\ Capacity(q) \in Nat \ {0} /\ DOMAIN q.list = 0 .. Capacity(q) - 1
    /\ q.itemsInList \in 0 .. Capacity(q)

LEMMA NumberOfPlaces ==
    ASSUME NEW c \in Nat
    PROVE  Cardinality(0 .. c - 1) = c
<1>1. 0 \in Int /\ c - 1 \in Int
  OBVIOUS
<1>2. Cardinality(0 .. c - 1) = IF 0 > c - 1 THEN 0 ELSE c - 1 - 0 + 1
  BY <1>1, FS_Interval
<1> QED
  BY <1>2

LEMMA NewQueueShape == QueueShape(NewQueue(InitialCapacity)) /\ NewQueue(InitialCapacity).itemsInList = 0
<1>1. InitialCapacity \in Nat \ {0}
  BY ReceiverAssumption
<1>2. Capacity(NewQueue(InitialCapacity)) = InitialCapacity
  BY <1>1, NumberOfPlaces DEF Capacity, NewQueue
<1> QED
  BY <1>1, <1>2 DEF NewQueue, QueueShape

\* r is the queue q with one more item at its end.
Inserted(q, item, r) ==
    /\ QueueShape(r) /\ r.itemsInList = q.itemsInList + 1 /\ r.list[q.itemsInList] = item
    /\ \A i \in 0 .. q.itemsInList - 1 : r.list[i] = q.list[i]

LEMMA InsertProperties ==
    ASSUME NEW q, QueueShape(q), NEW item
    PROVE  Inserted(q, item, InsertItem(q, item))
<1> DEFINE c == Capacity(q)
           n == q.itemsInList
           room == IF n = c THEN DoubleCapacity(q) ELSE q
           d == IF n = c THEN 2 * c ELSE c
           r == InsertItem(q, item)
<1>1. c \in Nat \ {0} /\ n \in 0 .. c /\ DOMAIN q.list = 0 .. c - 1 /\ d \in Nat \ {0} /\ n \in 0 .. d - 1
  BY DEF QueueShape
<1>2. DOMAIN room.list = 0 .. d - 1 /\ \A i \in 0 .. n - 1 : room.list[i] = q.list[i]
  <2>1. CASE n = c
    <3>1. DoubleCapacity(q).list
            = [i \in 0 .. 2 * c - 1 |-> IF i < c THEN q.list[i] ELSE NoItem]
      BY DEF DoubleCapacity, QueueShape
    <3>2. \A i \in 0 .. n - 1 : i \in 0 .. 2 * c - 1 /\ i < c
      BY <1>1
    <3> QED
      BY <2>1, <3>1, <3>2
  <2>2. CASE n # c
    BY <1>1, <2>2
  <2> QED
    BY <2>1, <2>2
<1>3. r = [list |-> [room.list EXCEPT ![n] = item], itemsInList |-> n + 1]
  BY DEF InsertItem
<1> HIDE DEF room, d
<1>4. /\ DOMAIN r.list = 0 .. d - 1 /\ r.itemsInList = n + 1 /\ r.list[n] = item
      /\ \A i \in 0 .. n - 1 : r.list[i] = q.list[i]
  BY <1>1, <1>2, <1>3
<1>5. Capacity(r) = d
  BY <1>1, <1>4, NumberOfPlaces DEF Capacity
<1>6. QueueShape(r)
  BY <1>1, <1>3, <1>4, <1>5 DEF QueueShape
<1> QED
  BY <1>4, <1>6 DEF Inserted

\* r is the queue q without the item at place m.
Removed(q, m, r) ==
    /\ QueueShape(r) /\ r.itemsInList = q.itemsInList - 1
    /\ \A i \in 0 .. q.itemsInList - 2 : r.list[i] = IF i >= m THEN q.list[i + 1] ELSE q.list[i]

LEMMA RemoveProperties ==
    ASSUME NEW q, QueueShape(q), q.itemsInList > 0
    PROVE  Removed(q, EarliestIndex(q), RemoveEarliestItem(q))
<1> DEFINE c == Capacity(q)
           n == q.itemsInList
           m == EarliestIndex(q)
           r == RemoveEarliestItem(q)
<1>1. c \in Nat \ {0} /\ n \in 1 .. c /\ DOMAIN q.list = 0 .. c - 1
  BY DEF QueueShape
<1>2. r = [list |-> [i \in DOMAIN q.list |->
                        IF i >= m /\ i < n - 1 THEN q.list[i + 1] ELSE q.list[i]],
           itemsInList |-> n - 1]
  BY DEF RemoveEarliestItem
<1> HIDE DEF m
<1>3. /\ DOMAIN r.list = 0 .. c - 1 /\ r.itemsInList = n - 1
      /\ \A i \in 0 .. n - 2 : r.list[i] = IF i >= m THEN q.list[i + 1] ELSE q.list[i]
  BY <1>1, <1>2
<1>4. Capacity(r) = c
  BY <1>1, <1>3, NumberOfPlaces DEF Capacity
<1>5. QueueShape(r)
  BY <1>1, <1>2, <1>3, <1>4 DEF QueueShape
<1> QED
  BY <1>3, <1>5 DEF Removed, m

\* The first of the items with the smallest tag.
EarliestOf(q, i) ==
    /\ i \in 0 .. q.itemsInList - 1
    /\ \A k \in 0 .. q.itemsInList - 1 :
          q.list[i].tag < q.list[k].tag \/ (q.list[i].tag = q.list[k].tag /\ i <= k)

LEMMA EarliestExists ==
    ASSUME NEW q, q.itemsInList \in Nat \ {0},
           \A i \in 0 .. q.itemsInList - 1 : q.list[i].tag \in Nat
    PROVE  EarliestOf(q, EarliestIndex(q))
<1> DEFINE n == q.itemsInList
           T == {q.list[i].tag : i \in 0 .. n - 1}
<1>1. T \subseteq Nat /\ T # {}
  <2>1. 0 \in 0 .. n - 1
    OBVIOUS
  <2> QED
    BY <2>1
<1>2. PICK t \in T : \A u \in T : t <= u
  <2> HIDE DEF T
  <2> QED
    BY <1>1, LeastElement
<1> DEFINE I == {i \in 0 .. n - 1 : q.list[i].tag = t}
<1>3. I \subseteq Nat /\ I # {}
  BY <1>2
<1>4. PICK m \in I : \A i \in I : m <= i
  <2> HIDE DEF I
  <2> QED
    BY <1>3, LeastElement
<1>5. ASSUME NEW k \in 0 .. n - 1
      PROVE  q.list[m].tag < q.list[k].tag \/ (q.list[m].tag = q.list[k].tag /\ m <= k)
  <2>1. q.list[m].tag = t /\ t <= q.list[k].tag /\ t \in Nat /\ q.list[k].tag \in Nat
    BY <1>1, <1>2
  <2>2. CASE q.list[k].tag = t
    BY <1>4, <2>1, <2>2
  <2>3. CASE q.list[k].tag # t
    BY <2>1, <2>3
  <2> QED
    BY <2>2, <2>3
<1>6. m \in 0 .. n - 1
  OBVIOUS
<1>7. \E i \in 0 .. n - 1 : \A k \in 0 .. n - 1 :
         q.list[i].tag < q.list[k].tag \/ (q.list[i].tag = q.list[k].tag /\ i <= k)
  <2> HIDE DEF I, T
  <2> QED
    BY <1>5, <1>6
<1> HIDE DEF n
<1> QED
  BY <1>7, Zenon DEF EarliestIndex, EarliestOf, n

LEMMA EarliestTag ==
    ASSUME NEW q, NEW n, n = q.itemsInList,
           \A i \in 0 .. n - 1 : q.list[i].tag \in Nat
    PROVE  /\ \A i \in 0 .. n - 1 : GetEarliestTimeTag(q) <= q.list[i].tag
           /\ GetEarliestTimeTag(q) = LargestTimeTag
              \/ \E i \in 0 .. n - 1 : GetEarliestTimeTag(q) = q.list[i].tag
<1> DEFINE earlier == {item.tag : item \in Items(q)} \cup {LargestTimeTag}
           t == GetEarliestTimeTag(q)
<1>1. earlier = {q.list[i].tag : i \in 0 .. n - 1} \cup {LargestTimeTag}
  BY DEF Items
<1>2. t = CHOOSE tag \in earlier : \A other \in earlier : tag <= other
  BY DEF GetEarliestTimeTag
<1>3. earlier \subseteq Nat /\ earlier # {}
  BY <1>1, ReceiverAssumption DEF LargestTimeTag
<1> HIDE DEF t, earlier
<1>4. \E tag \in earlier : \A other \in earlier : tag <= other
  BY <1>3, LeastElement
<1>5. t \in earlier /\ \A other \in earlier : t <= other
  BY <1>2, <1>4, Zenon
<1> QED
  BY <1>1, <1>5 DEF t

-----------------------------------------------------------------------------
(***************************************************************************)
(* The invariant                                                           *)
(***************************************************************************)
Waits(q, n) == \E i \in 0 .. q.itemsInList - 1 : q.list[i].packet = n
Offcuts == {[kind |-> "corrupt"]}
QueueItems(last) == [tag : ImmediateTime .. LargestTimeTag, packet : 1 .. last, data : Offcuts]

\* The queue holds bundles among the first ones received, in their order and each once.
QueueSound(q, last) ==
    /\ QueueShape(q)
    /\ \A i \in 0 .. q.itemsInList - 1 : q.list[i] \in QueueItems(last)
    /\ \A i, k \in 0 .. q.itemsInList - 1 : i < k => q.list[i].packet < q.list[k].packet

Addresses == [users : Int, state : {"none", "alive", "deleted"}]
Busy(users) == [users |-> users, state |-> "alive"]

AddressSound(a, waits, works, packet) ==
    IF waits THEN a = Busy(1)
    ELSE IF works THEN a = Busy(0)
    ELSE a.state = "deleted" \/ packet.kind = "empty"

Entries == Seq(PacketItems \cup {Offending})

\* In the one call there is, k items of the packet are done with, and their messages are the entries.
HasDone(frames, packet, entries, handled, b, k, left) ==
    /\ packet.kind \in {"message", "bundle"}
    /\ frames = <<[bundle |-> b, items |-> left]>>
    /\ Len(left) = Len(packet.items) - k
    /\ \A j \in 1 .. Len(left) : left[j] = packet.items[k + j]
    /\ Len(entries) = IF handled THEN Cardinality({j \in Places(packet.items) : j <= k}) ELSE 0
    /\ \A i \in 1 .. Len(entries) : IsMessage(packet.items, i, entries[i])

Progress(frames, packet, entries, handled) ==
    \E b \in BOOLEAN, k \in Nat, left \in Seq(PacketItems) :
        k <= Len(packet.items) /\ HasDone(frames, packet, entries, handled, b, k, left)

TypeInv ==
    /\ now \in ImmediateTime + 1 .. MaxTime /\ addressSpace \in BOOLEAN
    /\ received \in Seq(Packets) /\ Len(received) <= MaxPackets
    /\ pc \in {"idle", "receive", "manage", "deleted", "crashed"}

QueueInv == QueueSound(queue, Len(received)) /\ taken \subseteq QueueItems(Len(received))

WorkInv ==
    /\ pc = "receive" <=> work # <<>>
    /\ current = Nobody <=> work = <<>>
    /\ work # <<>> =>
          /\ current \in 1 .. Len(received) /\ ~Waits(queue, current)
          /\ Progress(work, received[current], log[current], addressSpace)

AddressInv ==
    /\ address \in [Numbers -> Addresses]
    /\ \A n \in 1 .. Len(received) :
          AddressSound(address[n], Waits(queue, n), n = current, received[n])

LogInv ==
    /\ log \in [Numbers -> Entries]
    /\ \A n \in Numbers : n > Len(received) \/ Waits(queue, n) => log[n] = <<>>
    /\ \A n \in 1 .. Len(received) : InOrder(log[n], received[n])

ReceiverInv == TypeInv /\ QueueInv /\ WorkInv /\ AddressInv /\ LogInv

LEMMA InitReceiverInv == Init => ReceiverInv
<1> SUFFICES ASSUME Init PROVE ReceiverInv
  OBVIOUS
<1>1. Len(received) = 0 /\ received \in Seq(Packets) /\ work = <<>> /\ current = Nobody
  BY EmptySeq DEF Init
<1>2. TypeInv
  <2>1. now = 2 /\ MaxTime \in Nat /\ MaxTime >= 2 /\ MaxPackets \in Nat
    BY ReceiverAssumption DEF Init, ImmediateTime
  <2>2. now \in 2 .. MaxTime /\ Len(received) <= MaxPackets
    BY <1>1, <2>1
  <2>3. addressSpace \in BOOLEAN /\ pc = "idle"
    BY DEF Init
  <2> QED
    BY <1>1, <2>2, <2>3 DEF TypeInv, ImmediateTime
<1>3. QueueShape(queue) /\ queue.itemsInList = 0
  BY NewQueueShape DEF Init
<1>4. QueueInv
  BY <1>3 DEF QueueInv, QueueSound, Init
<1>5. WorkInv
  BY <1>1 DEF Init, WorkInv
<1>6. AddressInv
  BY <1>1 DEF Init, AddressInv, Addresses
<1>7. LogInv
  <2>1. <<>> \in Entries
    BY EmptySeq DEF Entries
  <2> QED
    BY <1>1, <2>1 DEF Init, LogInv
<1> QED
  BY <1>2, <1>4, <1>5, <1>6, <1>7 DEF ReceiverInv

-----------------------------------------------------------------------------
(***************************************************************************)
(* The items of a packet, one after the other                              *)
(***************************************************************************)
LEMMA OneMorePlace ==
    ASSUME NEW items, NEW k \in Nat, Len(items) \in Nat, k < Len(items)
    PROVE  LET upTo(i) == {j \in Places(items) : j <= i}
           IN  /\ Cardinality(upTo(k)) \in Nat
               /\ Cardinality(upTo(k + 1)) =
                     IF k + 1 \in Places(items) THEN Cardinality(upTo(k)) + 1 ELSE Cardinality(upTo(k))
<1> DEFINE upTo(i) == {j \in Places(items) : j <= i}
           S == upTo(k)
           x == k + 1
<1>1. Places(items) \subseteq 1 .. Len(items)
  BY DEF Places
<1>2. IsFiniteSet(S)
  <2>1. S \in SUBSET (1 .. Len(items))
    BY <1>1
  <2>2. IsFiniteSet(1 .. Len(items))
    BY FS_Interval
  <2> HIDE DEF S
  <2> QED
    BY <2>1, <2>2, FS_Subset
<1>3. upTo(k + 1) = IF x \in Places(items) THEN S \cup {x} ELSE S
  BY <1>1
<1>4. x \notin S
  OBVIOUS
<1> HIDE DEF S, x
<1>5. Cardinality(S) \in Nat /\ Cardinality(S \cup {x}) = Cardinality(S) + 1
  BY <1>2, <1>4, FS_AddElement, FS_CardinalityType
<1> QED
  BY <1>3, <1>5 DEF S, x

\* The call at work, and what becomes of it when an item is done with.
LEMMA TopOfWork ==
    ASSUME NEW f, work = <<f>>
    PROVE  Top = f /\ Below = <<>> /\ Len(work) = 1
           /\ TailFrames = <<[f EXCEPT !.items = Tail(@)]>>
<1>1. Len(work) = 1 /\ Top = f
  BY DEF Top
<1>2. Below = <<>>
  <2>1. SubSeq(work, 1, 0) = <<>>
    BY SubSeqEmpty
  <2> QED
    BY <1>1, <2>1 DEF Below
<1> QED
  BY <1>1, <1>2 DEF TailFrames

LEMMA ItemDone ==
    ASSUME NEW packet \in Packets, NEW entries \in Entries, NEW handled \in BOOLEAN,
           NEW b \in BOOLEAN, NEW k \in Nat, NEW left \in Seq(PacketItems), k <= Len(packet.items),
           NEW frames, HasDone(frames, packet, entries, handled, b, k, left), left # <<>>,
           NEW new, new = IF Head(left).kind # "void" /\ handled THEN Append(entries, Head(left))
                          ELSE entries
    PROVE  /\ new \in Entries
           /\ Progress(<<[bundle |-> b, items |-> Tail(left)]>>, packet, new, handled)
<1> DEFINE items == packet.items
           tail == Tail(left)
           upTo(i) == {j \in Places(items) : j <= i}
<1>1. items \in Seq(PacketItems) /\ Len(items) \in Nat
  <2>1. packet.kind \in {"message", "bundle"}
    BY DEF HasDone
  <2> QED
    BY <2>1, PacketsAssumption
<1>2. /\ Len(left) \in Nat \ {0} /\ Head(left) = left[1] /\ Head(left) \in PacketItems
      /\ tail \in Seq(PacketItems) /\ Len(tail) = Len(left) - 1
      /\ \A j \in 1 .. Len(tail) : tail[j] = left[j + 1]
  BY HeadTailProperties, EmptySeq
<1> HIDE DEF items, tail
<1>3. /\ Len(left) = Len(items) - k /\ \A j \in 1 .. Len(left) : left[j] = items[k + j]
      /\ Len(entries) = IF handled THEN Cardinality(upTo(k)) ELSE 0
      /\ \A i \in 1 .. Len(entries) : IsMessage(items, i, entries[i])
  BY DEF HasDone, items
<1>4. k < Len(items) /\ k + 1 \in Nat /\ k + 1 <= Len(items) /\ Len(tail) = Len(items) - (k + 1)
  BY <1>1, <1>2, <1>3
<1>5. Head(left) = items[k + 1] /\ (k + 1 \in Places(items) <=> Head(left).kind # "void")
  <2>1. left[1] = items[k + 1]
    BY <1>2, <1>3
  <2>2. k + 1 \in 1 .. Len(items)
    BY <1>4
  <2> QED
    BY <1>2, <2>1, <2>2 DEF Places
<1>6. \A j \in 1 .. Len(tail) : tail[j] = items[k + 1 + j]
  <2>1. ASSUME NEW j \in 1 .. Len(tail) PROVE tail[j] = items[k + 1 + j]
    <3>1. j + 1 \in 1 .. Len(left) /\ k + (j + 1) = k + 1 + j
      BY <1>2
    <3>2. left[j + 1] = items[k + (j + 1)]
      BY <1>3, <3>1
    <3> QED
      BY <1>2, <3>1, <3>2
  <2> QED
    BY <2>1
<1>7. /\ Cardinality(upTo(k)) \in Nat
      /\ Cardinality(upTo(k + 1)) =
            IF k + 1 \in Places(items) THEN Cardinality(upTo(k)) + 1 ELSE Cardinality(upTo(k))
  BY <1>1, <1>4, OneMorePlace
<1>8. /\ new \in Entries
      /\ Len(new) = IF handled THEN Cardinality(upTo(k + 1)) ELSE 0
      /\ \A i \in 1 .. Len(new) : IsMessage(items, i, new[i])
  <2>1. CASE Head(left).kind # "void" /\ handled
    <3> DEFINE e == Head(left)
               m == Cardinality(upTo(k + 1))
    <3>1. new = Append(entries, e)
      BY <2>1
    <3>2. e \in PacketItems \cup {Offending}
      BY <1>2
    <3>3. entries \in Seq(PacketItems \cup {Offending})
      BY DEF Entries
    <3> HIDE DEF e
    <3>4. /\ new \in Seq(PacketItems \cup {Offending}) /\ Len(new) = Len(entries) + 1
          /\ new[Len(entries) + 1] = e /\ \A i \in 1 .. Len(entries) : new[i] = entries[i]
      BY <3>1, <3>2, <3>3, AppendProperties
    <3>5. Len(entries) \in Nat
      BY <3>3
    <3>6. k + 1 \in Places(items) /\ e = items[k + 1]
      BY <1>5, <2>1 DEF e
    <3>7. Len(entries) + 1 = m
      BY <1>3, <1>7, <2>1, <3>6
    <3>8. IsMessage(items, m, e)
      BY <3>6 DEF IsMessage
    <3> HIDE DEF m
    <3>9. \A i \in 1 .. Len(new) : IsMessage(items, i, new[i])
      <4>1. \A i \in 1 .. Len(new) : i = m \/ i \in 1 .. Len(entries)
        BY <3>4, <3>5, <3>7
      <4> QED
        BY <1>3, <3>4, <3>7, <3>8, <4>1
    <3>10. Len(new) = m
      BY <3>4, <3>7
    <3> QED
      BY <2>1, <3>4, <3>9, <3>10 DEF Entries, m
  <2>2. CASE ~(Head(left).kind # "void" /\ handled)
    <3>1. new = entries
      BY <2>2
    <3>2. handled => Cardinality(upTo(k + 1)) = Cardinality(upTo(k))
      BY <1>5, <1>7, <2>2
    <3> HIDE DEF upTo
    <3> QED
      BY <1>3, <3>1, <3>2
  <2> QED
    BY <2>1, <2>2
<1>9. HasDone(<<[bundle |-> b, items |-> tail]>>, packet, new, handled, b, k + 1, tail)
  <2>1. packet.kind \in {"message", "bundle"}
    BY DEF HasDone
  <2> QED
    BY <1>4, <1>6, <1>8, <2>1 DEF HasDone, items
<1> QED
  BY <1>2, <1>4, <1>8, <1>9 DEF Progress, items, tail

LEMMA ProgressBegins ==
    ASSUME NEW packet \in Packets, packet.kind \in {"message", "bundle"}, NEW b \in BOOLEAN,
           NEW handled \in BOOLEAN
    PROVE  Progress(<<[bundle |-> b, items |-> packet.items]>>, packet, <<>>, handled)
<1> DEFINE left == packet.items
           none == {j \in Places(left) : j <= 0}
<1>1. left \in Seq(PacketItems) /\ Len(left) \in Nat
  BY PacketsAssumption
<1>2. Len(<<>>) = 0 /\ 1 .. Len(<<>>) = {}
  OBVIOUS
<1>3. Cardinality(none) = 0
  <2>1. none = {}
    BY DEF Places
  <2> QED
    BY <2>1, FS_EmptySet
<1>4. Len(left) = Len(left) - 0 /\ \A j \in 1 .. Len(left) : left[j] = left[0 + j]
  BY <1>1
<1> HIDE DEF none
<1>5. Len(<<>>) = IF handled THEN Cardinality(none) ELSE 0
  BY <1>2, <1>3
<1>6. \A i \in 1 .. Len(<<>>) : IsMessage(left, i, <<>>[i])
  BY <1>2
<1>7. HasDone(<<[bundle |-> b, items |-> left]>>, packet, <<>>, handled, b, 0, left)
  BY <1>4, <1>5, <1>6 DEF HasDone, none
<1>8. 0 \in Nat /\ 0 <= Len(left)
  BY <1>1
<1> QED
  BY <1>1, <1>7, <1>8 DEF Progress

\* What is done so far is in order, and so is a call of HandleOffendingPackets behind it.
LEMMA ProgressInOrder ==
    ASSUME NEW packet, NEW frames, NEW handled, NEW entries \in Entries,
           Progress(frames, packet, entries, handled)
    PROVE  /\ InOrder(entries, packet)
           /\ InOrder(Append(entries, Offending), packet)
<1>1. /\ HasItems(packet)
      /\ \A i \in 1 .. Len(entries) : IsMessage(packet.items, i, entries[i])
  BY DEF Progress, HasDone, HasItems
<1>2. InOrder(entries, packet)
  BY <1>1 DEF InOrder
<1> DEFINE new == Append(entries, Offending)
           l == Len(entries)
<1>3. entries \in Seq(PacketItems \cup {Offending}) /\ l \in Nat
  BY DEF Entries
<1>4. Offending \in PacketItems \cup {Offending}
  OBVIOUS
<1>5. Len(new) = l + 1 /\ new[l + 1] = Offending /\ \A i \in 1 .. l : new[i] = entries[i]
  BY <1>3, <1>4, AppendProperties
<1> HIDE DEF new, l
<1>6. \A i \in 1 .. Len(new) : (new[i] = Offending /\ i = Len(new)) \/ i \in 1 .. l
  BY <1>3, <1>5
<1>7. InOrder(new, packet)
  BY <1>1, <1>5, <1>6 DEF InOrder, l
<1> QED
  BY <1>2, <1>7 DEF new

-----------------------------------------------------------------------------
(***************************************************************************)
(* What waits, when a bundle is put into the queue or taken out            *)
(***************************************************************************)
LEMMA QueueItemType ==
    ASSUME NEW last, NEW item \in QueueItems(last)
    PROVE  /\ item.packet \in 1 .. last /\ item.tag \in Nat
           /\ item.tag \in ImmediateTime .. LargestTimeTag /\ item.data.kind = "corrupt"
BY ReceiverAssumption DEF QueueItems, Offcuts, ImmediateTime, LargestTimeTag

\* The items of r are those of q but the one at place m.
AllBut(q, m, r) ==
    /\ m \in 0 .. q.itemsInList - 1
    /\ \A i \in 0 .. r.itemsInList - 1 : \E k \in 0 .. q.itemsInList - 1 : k # m /\ r.list[i] = q.list[k]
    /\ \A k \in 0 .. q.itemsInList - 1 : k # m => \E i \in 0 .. r.itemsInList - 1 : r.list[i] = q.list[k]

TakenOut(q, last, m, r) ==
    /\ QueueSound(r, last) /\ AllBut(q, m, r) /\ EarliestOf(q, m) /\ q.list[m] \in QueueItems(last)
    /\ ~Waits(r, q.list[m].packet)
    /\ \A n : n # q.list[m].packet => (Waits(r, n) <=> Waits(q, n))

LEMMA TakingOut ==
    ASSUME NEW last \in Nat, NEW q, QueueSound(q, last), q.itemsInList > 0
    PROVE  TakenOut(q, last, EarliestIndex(q), RemoveEarliestItem(q))
<1> DEFINE m == EarliestIndex(q)
           r == RemoveEarliestItem(q)
           n == q.itemsInList
<1>1. /\ QueueShape(q) /\ n \in Nat \ {0}
      /\ \A i \in 0 .. n - 1 : q.list[i] \in QueueItems(last)
      /\ \A i, k \in 0 .. n - 1 : i < k => q.list[i].packet < q.list[k].packet
  BY DEF QueueSound, QueueShape
<1>2. EarliestOf(q, m)
  <2>1. \A i \in 0 .. n - 1 : q.list[i].tag \in Nat
    BY <1>1, QueueItemType
  <2> QED
    BY <1>1, <2>1, EarliestExists
<1>3. Removed(q, m, r)
  BY <1>1, RemoveProperties
<1> HIDE DEF m, r
<1>4. m \in 0 .. n - 1
  BY <1>2 DEF EarliestOf
<1> HIDE DEF n
<1>5. /\ QueueShape(r) /\ r.itemsInList = n - 1
      /\ \A i \in 0 .. n - 2 : r.list[i] = IF i >= m THEN q.list[i + 1] ELSE q.list[i]
  BY <1>3 DEF Removed, n
<1> DEFINE old(i) == IF i >= m THEN i + 1 ELSE i
<1>6. \A i \in 0 .. n - 2 : old(i) \in 0 .. n - 1 /\ old(i) # m /\ r.list[i] = q.list[old(i)]
  BY <1>1, <1>4, <1>5
<1>7. \A i, k \in 0 .. n - 2 : i < k => old(i) < old(k)
  BY <1>4
<1>8. 0 .. r.itemsInList - 1 = 0 .. n - 2
  BY <1>1, <1>5
<1>9. QueueSound(r, last)
  <2>1. \A i \in 0 .. n - 2 : r.list[i] \in QueueItems(last)
    <3> HIDE DEF old
    <3> QED
      BY <1>1, <1>6
  <2>2. \A i, k \in 0 .. n - 2 : i < k => r.list[i].packet < r.list[k].packet
    <3> HIDE DEF old
    <3> QED
      BY <1>1, <1>6, <1>7
  <2> QED
    BY <1>5, <1>8, <2>1, <2>2 DEF QueueSound
<1>10. AllBut(q, m, r)
  <2>1. ASSUME NEW i \in 0 .. r.itemsInList - 1 PROVE \E k \in 0 .. n - 1 : k # m /\ r.list[i] = q.list[k]
    <3> HIDE DEF old
    <3> QED
      BY <1>6, <1>8
  <2>2. ASSUME NEW k \in 0 .. n - 1, k # m PROVE \E i \in 0 .. r.itemsInList - 1 : r.list[i] = q.list[k]
    <3>1. CASE k < m
      <4>1. k \in 0 .. n - 2 /\ old(k) = k
        BY <1>1, <1>4, <3>1
      <4> QED
        BY <1>6, <1>8, <4>1
    <3>2. CASE k > m
      <4>1. k - 1 \in 0 .. n - 2 /\ old(k - 1) = k
        BY <1>1, <1>4, <3>2
      <4> QED
        BY <1>6, <1>8, <4>1
    <3> QED
      BY <1>1, <1>4, <2>2, <3>1, <3>2
  <2> QED
    BY <1>4, <2>1, <2>2 DEF AllBut, n
<1> HIDE DEF old
<1>11. \A k \in 0 .. n - 1 : k # m => q.list[k].packet # q.list[m].packet
  <2>1. \A k \in 0 .. n - 1 : q.list[k].packet \in Nat
    BY <1>1, QueueItemType
  <2>2. \A k \in 0 .. n - 1 : k < m \/ m < k \/ k = m
    BY <1>4
  <2>3. ASSUME NEW k \in 0 .. n - 1, k # m PROVE q.list[k].packet # q.list[m].packet
    <3>1. q.list[k].packet \in Nat /\ q.list[m].packet \in Nat
      BY <1>4, <2>1
    <3>2. q.list[k].packet < q.list[m].packet \/ q.list[m].packet < q.list[k].packet
      BY <1>1, <1>4, <2>2, <2>3
    <3> QED
      BY <3>1, <3>2
  <2> QED
    BY <2>3
<1>12. ~Waits(r, q.list[m].packet)
  BY <1>10, <1>11 DEF Waits, AllBut, n
<1>13. \A p : p # q.list[m].packet => (Waits(r, p) <=> Waits(q, p))
  BY <1>10 DEF Waits, AllBut
<1>14. q.list[m] \in QueueItems(last)
  BY <1>1, <1>4
<1> QED
  BY <1>2, <1>9, <1>10, <1>12, <1>13, <1>14 DEF TakenOut, m, r

PutIn(q, last, item, r) ==
    /\ QueueSound(r, last)
    /\ r.itemsInList = q.itemsInList + 1 /\ r.list[q.itemsInList] = item
    /\ \A i \in 0 .. q.itemsInList - 1 : r.list[i] = q.list[i]
    /\ \A n : Waits(r, n) <=> n = item.packet \/ Waits(q, n)

LEMMA PuttingIn ==
    ASSUME NEW last \in Nat, NEW q, QueueSound(q, last), NEW item \in QueueItems(last + 1),
           item.packet = last + 1
    PROVE  PutIn(q, last + 1, item, InsertItem(q, item))
<1> DEFINE n == q.itemsInList
           r == InsertItem(q, item)
<1>1. /\ QueueShape(q) /\ n \in Nat
      /\ \A i \in 0 .. n - 1 : q.list[i] \in QueueItems(last)
      /\ \A i, k \in 0 .. n - 1 : i < k => q.list[i].packet < q.list[k].packet
  BY DEF QueueSound, QueueShape
<1>2. Inserted(q, item, r)
  BY <1>1, InsertProperties
<1> HIDE DEF r
<1>3. /\ QueueShape(r) /\ r.itemsInList = n + 1 /\ r.list[n] = item
      /\ \A i \in 0 .. n - 1 : r.list[i] = q.list[i]
  BY <1>2 DEF Inserted
<1> HIDE DEF n
<1>4. \A i \in 0 .. n - 1 : q.list[i].packet \in 1 .. last /\ q.list[i] \in QueueItems(last + 1)
  <2>1. QueueItems(last) \subseteq QueueItems(last + 1)
    BY DEF QueueItems
  <2> QED
    BY <1>1, <2>1, QueueItemType
<1>5. \A i \in 0 .. r.itemsInList - 1 : i = n \/ i \in 0 .. n - 1
  BY <1>1, <1>3
<1>6. QueueSound(r, last + 1)
  <2>1. \A i \in 0 .. r.itemsInList - 1 : r.list[i] \in QueueItems(last + 1)
    BY <1>3, <1>4, <1>5
  <2>2. ASSUME NEW i \in 0 .. r.itemsInList - 1, NEW k \in 0 .. r.itemsInList - 1, i < k
        PROVE  r.list[i].packet < r.list[k].packet
    <3>1. i \in 0 .. n - 1
      BY <1>1, <1>3, <2>2
    <3>2. CASE k = n
      BY <1>3, <1>4, <3>1, <3>2
    <3>3. CASE k \in 0 .. n - 1
      BY <1>1, <1>3, <2>2, <3>1, <3>3
    <3> QED
      BY <1>5, <3>2, <3>3
  <2> QED
    BY <1>3, <2>1, <2>2 DEF QueueSound
<1>7. ASSUME NEW p PROVE Waits(r, p) <=> p = item.packet \/ Waits(q, p)
  <2>1. Waits(r, p) => p = item.packet \/ Waits(q, p)
    BY <1>3, <1>5 DEF Waits, n
  <2>2. p = item.packet => Waits(r, p)
    <3>1. n \in 0 .. r.itemsInList - 1
      BY <1>1, <1>3
    <3> QED
      BY <1>3, <3>1 DEF Waits
  <2>3. Waits(q, p) => Waits(r, p)
    <3>1. \A i \in 0 .. n - 1 : i \in 0 .. r.itemsInList - 1
      BY <1>1, <1>3
    <3> QED
      BY <1>3, <3>1 DEF Waits, n
  <2> QED
    BY <2>1, <2>2, <2>3
<1> QED
  BY <1>3, <1>6, <1>7 DEF PutIn, n, r

-----------------------------------------------------------------------------
(***************************************************************************)
(* What becomes of a packet                                                *)
(***************************************************************************)
LEMMA ReceivedPackets ==
    ASSUME TypeInv
    PROVE  /\ Len(received) \in Nat /\ Len(received) <= MaxPackets /\ 1 .. Len(received) \subseteq Numbers
           /\ \A n \in 1 .. Len(received) : received[n] \in Packets
           /\ Nobody \notin 1 .. Len(received)
<1>1. received \in Seq(Packets) /\ Len(received) \in Nat /\ Len(received) <= MaxPackets
  BY DEF TypeInv
<1>2. 1 .. Len(received) \subseteq Numbers
  BY <1>1, ReceiverAssumption DEF Numbers
<1> QED
  BY <1>1, <1>2, PacketsAssumption, ElementOfSeq

\* It is done with: its address deletes itself, and its number is not waiting or at work any more.
LEMMA PacketDone ==
    ASSUME ReceiverInv, NEW n \in 1 .. Len(received), work # <<>> => n = current,
           UNCHANGED <<now, received, addressSpace>>,
           NEW a \in Addresses, a.state = "deleted", address' = [address EXCEPT ![n] = a],
           NEW e \in Entries, InOrder(e, received[n]), log' = [log EXCEPT ![n] = e],
           work' = <<>>, current' = Nobody, pc' \in {"idle", "manage"},
           QueueSound(queue', Len(received)), taken' \subseteq QueueItems(Len(received)),
           ~Waits(queue', n),
           \A m \in 1 .. Len(received) : m # n => (Waits(queue', m) <=> Waits(queue, m))
    PROVE  ReceiverInv'
<1>1. TypeInv /\ TypeInv' /\ QueueInv'
  BY DEF ReceiverInv, TypeInv, QueueInv
<1>2. /\ Len(received) \in Nat /\ 1 .. Len(received) \subseteq Numbers
      /\ Nobody \notin 1 .. Len(received)
  BY <1>1, ReceivedPackets
<1>3. \A m \in 1 .. Len(received) : m # n => m # current
  BY <1>2 DEF ReceiverInv, WorkInv
<1>4. WorkInv'
  BY DEF WorkInv
<1>5. address \in [Numbers -> Addresses] /\ log \in [Numbers -> Entries]
  BY DEF ReceiverInv, AddressInv, LogInv
<1>6. AddressInv'
  <2>1. address' \in [Numbers -> Addresses] /\ address'[n] = a
    BY <1>2, <1>5
  <2>2. ASSUME NEW m \in 1 .. Len(received)
        PROVE  AddressSound(address'[m], Waits(queue', m), m = current', received[m])
    <3>1. CASE m = n
      BY <1>2, <2>1, <3>1 DEF AddressSound
    <3>2. CASE m # n
      <4>1. address'[m] = address[m] /\ m # current /\ m # current'
        BY <1>2, <1>3, <1>5, <3>2
      <4>2. AddressSound(address[m], Waits(queue, m), m = current, received[m])
        BY DEF ReceiverInv, AddressInv
      <4> QED
        BY <3>2, <4>1, <4>2 DEF AddressSound
    <3> QED
      BY <3>1, <3>2
  <2> QED
    BY <2>1, <2>2 DEF AddressInv
<1>7. LogInv'
  <2>1. log' \in [Numbers -> Entries] /\ log'[n] = e
    BY <1>2, <1>5
  <2>2. \A m \in Numbers : m # n => log'[m] = log[m]
    BY <1>5
  <2>3. ASSUME NEW m \in Numbers, m > Len(received) \/ Waits(queue', m) PROVE log'[m] = <<>>
    <3>1. m # n
      BY <1>2, <2>3
    <3>2. m > Len(received) \/ Waits(queue, m)
      <4>1. m \in 1 .. Len(received) \/ m > Len(received)
        BY <1>2 DEF Numbers
      <4> QED
        BY <2>3, <3>1, <4>1
    <3> QED
      BY <2>2, <3>1, <3>2 DEF ReceiverInv, LogInv
  <2>4. \A m \in 1 .. Len(received) : InOrder(log'[m], received[m])
    BY <1>2, <2>1, <2>2 DEF ReceiverInv, LogInv
  <2> QED
    BY <2>1, <2>3, <2>4 DEF LogInv
<1> QED
  BY <1>1, <1>4, <1>6, <1>7 DEF ReceiverInv

\* The call at work goes on.
LEMMA WorkGoesOn ==
    ASSUME ReceiverInv, work # <<>>, work' # <<>>,
           UNCHANGED <<now, received, queue, current, pc, address, taken, addressSpace>>,
           NEW e \in Entries, log' = [log EXCEPT ![current] = e],
           Progress(work', received[current], e, addressSpace)
    PROVE  ReceiverInv'
<1>1. TypeInv /\ TypeInv' /\ QueueInv' /\ AddressInv'
  BY DEF ReceiverInv, TypeInv, QueueInv, AddressInv
<1>2. current \in 1 .. Len(received) /\ current \in Numbers /\ ~Waits(queue, current)
  BY <1>1, ReceivedPackets DEF ReceiverInv, WorkInv
<1>3. log \in [Numbers -> Entries]
  BY DEF ReceiverInv, LogInv
<1>4. /\ log' \in [Numbers -> Entries] /\ log'[current] = e
      /\ \A m \in Numbers : m # current => log'[m] = log[m]
  BY <1>2, <1>3
<1>5. WorkInv'
  BY <1>2, <1>4 DEF ReceiverInv, WorkInv
<1>6. LogInv'
  <2>1. InOrder(e, received[current])
    BY ProgressInOrder
  <2>2. ASSUME NEW m \in Numbers, m > Len(received) \/ Waits(queue, m) PROVE log'[m] = <<>>
    <3>1. m # current
      BY <1>1, <1>2, <2>2, ReceivedPackets
    <3> QED
      BY <1>4, <2>2, <3>1 DEF ReceiverInv, LogInv
  <2>3. \A m \in 1 .. Len(received) : InOrder(log'[m], received[m])
    BY <1>1, <1>4, <2>1, ReceivedPackets DEF ReceiverInv, LogInv
  <2> QED
    BY <1>4, <2>2, <2>3 DEF LogInv
<1> QED
  BY <1>1, <1>5, <1>6 DEF ReceiverInv

\* A packet is received between two calls: it is done with at once, waits or is at work.
LEMMA PacketArrives ==
    ASSUME ReceiverInv, pc = "idle", Len(received) < MaxPackets,
           NEW packet \in Packets, received' = Append(received, packet),
           NEW n, n = Len(received) + 1, UNCHANGED <<now, taken, addressSpace>>,
           NEW a \in Addresses, address' = [address EXCEPT ![n] = a],
           AddressSound(a, Waits(queue', n), n = current', packet),
           NEW e \in Entries, log' = [log EXCEPT ![n] = e], InOrder(e, packet),
           Waits(queue', n) => e = <<>>,
           QueueSound(queue', n),
           \A m \in 1 .. Len(received) : Waits(queue', m) <=> Waits(queue, m),
           \/ work' = <<>> /\ current' = Nobody /\ pc' = "idle"
           \/ /\ work' # <<>> /\ current' = n /\ pc' = "receive"
              /\ ~Waits(queue', n) /\ Progress(work', packet, e, addressSpace)
    PROVE  ReceiverInv'
<1> DEFINE l == Len(received)
<1>1. TypeInv /\ work = <<>> /\ current = Nobody
  BY DEF ReceiverInv, WorkInv
<1>2. l \in Nat /\ 1 .. l \subseteq Numbers /\ Nobody \notin 1 .. l /\ Nobody \notin Numbers
  BY <1>1, ReceivedPackets, PacketsAssumption
<1>3. n \in Numbers /\ n = l + 1
  BY <1>2, ReceiverAssumption DEF Numbers
<1>4. /\ received' \in Seq(Packets) /\ Len(received') = n /\ received'[n] = packet
      /\ \A m \in 1 .. l : received'[m] = received[m]
  <2>1. received \in Seq(Packets)
    BY <1>1 DEF TypeInv
  <2> QED
    BY <2>1, AppendProperties
<1>5. \A m \in 1 .. n : m = n \/ (m \in 1 .. l /\ m # n)
  BY <1>2, <1>3
<1>6. address \in [Numbers -> Addresses] /\ log \in [Numbers -> Entries]
  BY DEF ReceiverInv, AddressInv, LogInv
<1>7. TypeInv'
  <2>1. n <= MaxPackets
    BY <1>2, <1>3, ReceiverAssumption
  <2> QED
    BY <1>1, <1>4, <2>1 DEF TypeInv
<1>8. QueueInv'
  <2>1. QueueItems(l) \subseteq QueueItems(n)
    BY <1>2, <1>3 DEF QueueItems
  <2> QED
    BY <1>4, <2>1 DEF ReceiverInv, QueueInv
<1>9. WorkInv'
  <2>1. CASE work' = <<>> /\ current' = Nobody /\ pc' = "idle"
    BY <2>1 DEF WorkInv
  <2>2. CASE /\ work' # <<>> /\ current' = n /\ pc' = "receive"
             /\ ~Waits(queue', n) /\ Progress(work', packet, e, addressSpace)
    <3>1. log'[n] = e /\ n \in 1 .. Len(received') /\ n # Nobody
      BY <1>2, <1>3, <1>4, <1>6
    <3> QED
      BY <1>4, <2>2, <3>1 DEF WorkInv
  <2> QED
    BY <2>1, <2>2
<1>10. AddressInv'
  <2>1. address' \in [Numbers -> Addresses] /\ address'[n] = a
    BY <1>3, <1>6
  <2>2. ASSUME NEW m \in 1 .. n
        PROVE  AddressSound(address'[m], Waits(queue', m), m = current', received'[m])
    <3>1. CASE m = n
      BY <1>4, <2>1, <3>1
    <3>2. CASE m \in 1 .. l /\ m # n
      <4>1. address'[m] = address[m] /\ m # current /\ m # current'
        BY <1>1, <1>2, <1>6, <3>2
      <4>2. AddressSound(address[m], Waits(queue, m), m = current, received[m])
        BY <3>2 DEF ReceiverInv, AddressInv
      <4> QED
        BY <1>4, <3>2, <4>1, <4>2 DEF AddressSound
    <3> QED
      BY <1>5, <3>1, <3>2
  <2> QED
    BY <1>4, <2>1, <2>2 DEF AddressInv
<1>11. LogInv'
  <2>1. log' \in [Numbers -> Entries] /\ log'[n] = e
    BY <1>3, <1>6
  <2>2. \A m \in Numbers : m # n => log'[m] = log[m]
    BY <1>6
  <2>3. ASSUME NEW m \in Numbers, m > n \/ Waits(queue', m) PROVE log'[m] = <<>>
    <3>1. CASE m = n
      BY <1>2, <1>3, <2>1, <2>3, <3>1
    <3>2. CASE m # n
      <4>1. m > l \/ m \in 1 .. l
        BY <1>2 DEF Numbers
      <4>2. m > l \/ Waits(queue, m)
        BY <1>2, <1>3, <2>3, <4>1
      <4> QED
        BY <2>2, <3>2, <4>2 DEF ReceiverInv, LogInv
    <3> QED
      BY <3>1, <3>2
  <2>4. ASSUME NEW m \in 1 .. n PROVE InOrder(log'[m], received'[m])
    <3>1. CASE m = n
      BY <1>4, <2>1, <3>1
    <3>2. CASE m \in 1 .. l /\ m # n
      BY <1>2, <1>4, <2>2, <3>2 DEF ReceiverInv, LogInv
    <3> QED
      BY <1>5, <3>1, <3>2
  <2> QED
    BY <1>4, <2>1, <2>3, <2>4 DEF LogInv
<1> QED
  BY <1>7, <1>8, <1>9, <1>10, <1>11 DEF ReceiverInv

-----------------------------------------------------------------------------
(***************************************************************************)
(* Addresses                                                               *)
(***************************************************************************)
LEMMA AddressSteps ==
    /\ NewAddress = Busy(0) /\ Busy(0) \in Addresses /\ Busy(1) \in Addresses
    /\ Kept(Busy(0)) = Busy(0) /\ Registered(Busy(0)) = Busy(1)
    /\ Released(Busy(0)) \in Addresses /\ Released(Busy(0)).state = "deleted"
    /\ Released(Busy(1)) \in Addresses /\ Released(Busy(1)).state = "deleted"
<1>1. NewAddress = Busy(0) /\ Busy(0) \in Addresses /\ Busy(1) \in Addresses
  BY DEF NewAddress, Busy, Addresses
<1>2. Kept(Busy(0)) = Busy(0)
  BY DEF Kept, Busy
<1>3. Registered(Busy(0)) = Busy(1)
  <2>1. Registered(Busy(0)) = [Busy(0) EXCEPT !.users = 1]
    BY DEF Registered, Busy
  <2> QED
    BY <2>1 DEF Busy
<1>4. Released(Busy(0)) = [users |-> -1, state |-> "deleted"]
  BY DEF Released, Busy
<1>5. Released(Busy(1)) = [users |-> 0, state |-> "deleted"]
  BY DEF Released, Busy
<1> QED
  BY <1>1, <1>2, <1>3, <1>4, <1>5 DEF Addresses

LEMMA OnlyOffending ==
    ASSUME NEW packet
    PROVE  /\ <<>> \in Entries /\ InOrder(<<>>, packet)
           /\ Append(<<>>, Offending) \in Entries /\ InOrder(Append(<<>>, Offending), packet)
<1>1. <<>> \in Entries /\ Len(<<>>) = 0
  BY EmptySeq DEF Entries
<1> DEFINE e == Append(<<>>, Offending)
<1>2. e = <<Offending>> /\ e \in Seq(PacketItems \cup {Offending}) /\ Len(e) = 1 /\ e[1] = Offending
  OBVIOUS
<1> HIDE DEF e
<1>3. InOrder(e, packet)
  BY <1>2 DEF InOrder
<1>4. InOrder(<<>>, packet)
  BY <1>1 DEF InOrder
<1> QED
  BY <1>1, <1>2, <1>3, <1>4 DEF e, Entries

\* The packet at work, or taken from the queue, is thrown out of its calls.
LEMMA PacketThrown ==
    ASSUME ReceiverInv, NEW n \in 1 .. Len(received), work # <<>> => n = current,
           NEW a, a \in {Busy(0), Busy(1)}, Throw(n, a),
           InOrder(Append(log[n], Offending), received[n]),
           UNCHANGED <<now, received, addressSpace>>,
           QueueSound(queue', Len(received)), taken' \subseteq QueueItems(Len(received)),
           ~Waits(queue', n),
           \A m \in 1 .. Len(received) : m # n => (Waits(queue', m) <=> Waits(queue, m))
    PROVE  ReceiverInv'
<1> DEFINE e == Append(log[n], Offending)
           r == Released(a)
<1>1. r \in Addresses /\ r.state = "deleted"
  BY AddressSteps
<1>2. n \in Numbers /\ log[n] \in Entries
  BY ReceivedPackets DEF ReceiverInv, LogInv
<1>3. e \in Entries
  BY <1>2 DEF Entries
<1>4. /\ log' = [log EXCEPT ![n] = e] /\ address' = [address EXCEPT ![n] = r]
      /\ work' = <<>> /\ current' = Nobody /\ pc' \in {"idle", "manage"}
  BY DEF Throw
<1> HIDE DEF e, r
<1>5. InOrder(e, received[n])
  BY DEF e
<1> QED
  BY <1>1, <1>3, <1>4, <1>5, PacketDone

-----------------------------------------------------------------------------
(***************************************************************************)
(* The steps                                                               *)
(***************************************************************************)
\* What is at work: one call, which has some items left.
AtWork(b, k, left) ==
    LET packet == received[current]
    IN  /\ packet \in Packets /\ log[current] \in Entries /\ addressSpace \in BOOLEAN
        /\ k <= Len(packet.items)
        /\ HasDone(work, packet, log[current], addressSpace, b, k, left)
        /\ current \in 1 .. Len(received) /\ ~Waits(queue, current)
        /\ address[current] = Busy(0)
        /\ Top.items = left /\ Top.bundle = b /\ Below = <<>>
        /\ TailFrames = <<[bundle |-> b, items |-> Tail(left)]>>
        /\ QueueSound(queue, Len(received)) /\ taken \subseteq QueueItems(Len(received))

LEMMA ItemsSet ==
    ASSUME NEW f, NEW b, NEW left, f = [bundle |-> b, items |-> left], NEW items
    PROVE  [f EXCEPT !.items = items] = [bundle |-> b, items |-> items]
OBVIOUS

LEMMA WorkExists ==
    ASSUME ReceiverInv, work # <<>>
    PROVE  \E b \in BOOLEAN, k \in Nat, left \in Seq(PacketItems) : AtWork(b, k, left)
<1>1. /\ TypeInv /\ current \in 1 .. Len(received) /\ ~Waits(queue, current)
      /\ Progress(work, received[current], log[current], addressSpace)
  BY DEF ReceiverInv, WorkInv
<1>2. /\ received[current] \in Packets /\ log[current] \in Entries /\ addressSpace \in BOOLEAN
      /\ address[current] = Busy(0)
      /\ QueueSound(queue, Len(received)) /\ taken \subseteq QueueItems(Len(received))
  <2>1. received[current] \in Packets /\ current \in Numbers /\ addressSpace \in BOOLEAN
    BY <1>1, ReceivedPackets DEF TypeInv
  <2>2. AddressSound(address[current], Waits(queue, current), current = current, received[current])
    BY <1>1 DEF ReceiverInv, AddressInv
  <2> QED
    BY <1>1, <2>1, <2>2 DEF ReceiverInv, LogInv, QueueInv, AddressSound
<1>3. PICK b \in BOOLEAN, k \in Nat, left \in Seq(PacketItems) :
         /\ k <= Len(received[current].items)
         /\ HasDone(work, received[current], log[current], addressSpace, b, k, left)
  BY <1>1 DEF Progress
<1> DEFINE f == [bundle |-> b, items |-> left]
<1>4. work = <<f>> /\ f.items = left /\ f.bundle = b
  BY <1>3 DEF HasDone
<1>5. [f EXCEPT !.items = Tail(@)] = [bundle |-> b, items |-> Tail(left)]
  <2> DEFINE tail == Tail(left)
  <2>1. Tail(f.items) = tail
    BY <1>4
  <2>2. f = [bundle |-> b, items |-> left]
    OBVIOUS
  <2> HIDE DEF f, tail
  <2>3. [f EXCEPT !.items = tail] = [bundle |-> b, items |-> tail]
    BY <2>2, ItemsSet
  <2>4. [f EXCEPT !.items = Tail(@)] = [f EXCEPT !.items = tail]
    BY <2>1
  <2> QED
    BY <2>3, <2>4 DEF tail
<1> HIDE DEF f
<1>6. /\ Top.items = left /\ Top.bundle = b /\ Below = <<>>
      /\ TailFrames = <<[bundle |-> b, items |-> Tail(left)]>>
  BY <1>4, <1>5, TopOfWork
<1>7. AtWork(b, k, left)
  BY <1>1, <1>2, <1>3, <1>6 DEF AtWork
<1> QED
  BY <1>7

LEMMA WorkEntries ==
    ASSUME NEW b \in BOOLEAN, NEW k \in Nat, NEW left \in Seq(PacketItems), AtWork(b, k, left)
    PROVE  /\ InOrder(log[current], received[current])
           /\ InOrder(Append(log[current], Offending), received[current])
<1>1. Progress(work, received[current], log[current], addressSpace) /\ log[current] \in Entries
  BY DEF AtWork, Progress
<1> QED
  BY <1>1, ProgressInOrder

LEMMA VoidItemStep == ReceiverInv /\ VoidItem => ReceiverInv'
<1> SUFFICES ASSUME ReceiverInv, VoidItem PROVE ReceiverInv'
  OBVIOUS
<1>1. work # <<>>
  BY DEF VoidItem
<1>2. PICK b \in BOOLEAN, k \in Nat, left \in Seq(PacketItems) : AtWork(b, k, left)
  BY <1>1, WorkExists
<1> DEFINE e == log[current]
<1>3. left # <<>> /\ Head(left).kind = "void"
  BY <1>2 DEF VoidItem, AtWork
<1>4. /\ work' = <<[bundle |-> b, items |-> Tail(left)]>>
      /\ UNCHANGED <<now, received, queue, current, pc, address, taken, addressSpace, log>>
  BY <1>2 DEF VoidItem, AtWork
<1>5. e \in Entries /\ Progress(work', received[current], e, addressSpace)
  <2>1. e = IF Head(left).kind # "void" /\ addressSpace THEN Append(e, Head(left)) ELSE e
    BY <1>3
  <2> QED
    BY <1>2, <1>3, <1>4, <2>1, ItemDone, ZenonT(60) DEF AtWork
<1>6. log' = [log EXCEPT ![current] = e]
  BY <1>4 DEF ReceiverInv, LogInv
<1>7. work' # <<>>
  BY <1>4
<1> HIDE DEF e
<1> QED
  BY <1>1, <1>4, <1>5, <1>6, <1>7, WorkGoesOn

LEMMA NestedBundleStep == ReceiverInv /\ NestedBundle => ReceiverInv' /\ UNCHANGED <<queue, taken>>
<1> SUFFICES ASSUME ReceiverInv, NestedBundle PROVE ReceiverInv' /\ UNCHANGED <<queue, taken>>
  OBVIOUS
<1>1. work # <<>>
  BY DEF NestedBundle
<1>2. PICK b \in BOOLEAN, k \in Nat, left \in Seq(PacketItems) : AtWork(b, k, left)
  BY <1>1, WorkExists
<1>3. ParseFails(Head(Top.items))
  BY DEF NestedBundle, LooksLikeBundle, ParseFails
<1>4. Throw(current, Busy(0)) /\ queue' = queue
  <2>1. Kept(address[current]) = Busy(0)
    BY <1>2, AddressSteps DEF AtWork
  <2>2. ProcessBundle(Head(Top.items), current, Busy(0), TailFrames, queue)
    BY <2>1 DEF NestedBundle
  <2> QED
    BY <1>3, <2>2 DEF ProcessBundle
<1>5. UNCHANGED <<now, received, taken, addressSpace>>
  BY DEF NestedBundle
<1>6. InOrder(Append(log[current], Offending), received[current])
  BY <1>2, WorkEntries
<1> QED
  BY <1>2, <1>4, <1>5, <1>6, PacketThrown DEF AtWork

LEMMA ProcessMessageStep == ReceiverInv /\ ProcessMessage => ReceiverInv'
<1> SUFFICES ASSUME ReceiverInv, ProcessMessage PROVE ReceiverInv'
  OBVIOUS
<1>1. work # <<>>
  BY DEF ProcessMessage
<1>2. PICK b \in BOOLEAN, k \in Nat, left \in Seq(PacketItems) : AtWork(b, k, left)
  BY <1>1, WorkExists
<1>3. left # <<>> /\ Head(left).kind # "void" /\ UNCHANGED <<now, received, queue, taken, addressSpace>>
  BY <1>2 DEF ProcessMessage, AtWork
<1>4. CASE Throw(current, address[current])
  <2>1. Throw(current, Busy(0))
    BY <1>2, <1>4 DEF AtWork
  <2>2. InOrder(Append(log[current], Offending), received[current])
    BY <1>2, WorkEntries
  <2> QED
    BY <1>2, <1>3, <2>1, <2>2, PacketThrown DEF AtWork
<1>5. CASE /\ log' = IF addressSpace THEN [log EXCEPT ![current] = Append(@, Head(Top.items))] ELSE log
           /\ address' = [address EXCEPT ![current] = IF addressSpace THEN Kept(@) ELSE @]
           /\ work' = TailFrames
           /\ UNCHANGED <<current, pc>>
  <2> DEFINE e == log[current]
             new == IF Head(left).kind # "void" /\ addressSpace THEN Append(e, Head(left)) ELSE e
  <2>1. work' = <<[bundle |-> b, items |-> Tail(left)]>> /\ work' # <<>>
    BY <1>2, <1>5 DEF AtWork
  <2>2. new \in Entries /\ Progress(work', received[current], new, addressSpace)
    <3>1. new = IF Head(left).kind # "void" /\ addressSpace THEN Append(e, Head(left)) ELSE e
      OBVIOUS
    <3>2. /\ received[current] \in Packets /\ e \in Entries /\ addressSpace \in BOOLEAN
          /\ k <= Len(received[current].items) /\ left # <<>>
          /\ HasDone(work, received[current], e, addressSpace, b, k, left)
      BY <1>2, <1>3 DEF AtWork
    <3> HIDE DEF new, e
    <3>3. /\ new \in Entries
          /\ Progress(<<[bundle |-> b, items |-> Tail(left)]>>, received[current], new, addressSpace)
      BY <3>1, <3>2, ItemDone, ZenonT(60)
    <3> QED
      BY <2>1, <3>3
  <2>3. log' = [log EXCEPT ![current] = new]
    <3>1. Top.items = left
      BY <1>2 DEF AtWork
    <3> QED
      BY <1>3, <1>5, <3>1 DEF ReceiverInv, LogInv
  <2>4. address' = address
    <3>1. Kept(address[current]) = address[current]
      BY <1>2, AddressSteps DEF AtWork
    <3>2. address' = [address EXCEPT ![current] = address[current]]
      BY <1>5, <3>1
    <3> QED
      BY <3>2 DEF ReceiverInv, AddressInv
  <2> HIDE DEF new
  <2> QED
    BY <1>1, <1>3, <1>5, <2>1, <2>2, <2>3, <2>4, WorkGoesOn
<1> QED
  BY <1>4, <1>5 DEF ProcessMessage

LEMMA CallReturnsStep == ReceiverInv /\ CallReturns => ReceiverInv'
<1> SUFFICES ASSUME ReceiverInv, CallReturns PROVE ReceiverInv'
  OBVIOUS
<1>1. work # <<>>
  BY DEF CallReturns
<1>2. PICK b \in BOOLEAN, k \in Nat, left \in Seq(PacketItems) : AtWork(b, k, left)
  BY <1>1, WorkExists
<1> DEFINE e == log[current]
           r == Released(Busy(0))
<1>3. r \in Addresses /\ r.state = "deleted"
  BY AddressSteps
<1>4. /\ address' = [address EXCEPT ![current] = r]
      /\ work' = <<>> /\ current' = Nobody /\ pc' = "idle"
      /\ UNCHANGED <<now, received, queue, taken, addressSpace, log>>
  <2>1. address[current] = Busy(0) /\ Below = <<>>
    BY <1>2 DEF AtWork
  <2>2. pc = "receive"
    BY <1>1 DEF ReceiverInv, WorkInv
  <2> QED
    BY <2>1, <2>2 DEF CallReturns
<1>5. log' = [log EXCEPT ![current] = e] /\ e \in Entries
  BY <1>2, <1>4 DEF ReceiverInv, LogInv, AtWork
<1>6. InOrder(e, received[current])
  BY <1>2, WorkEntries
<1> HIDE DEF e, r
<1> QED
  BY <1>2, <1>3, <1>4, <1>5, <1>6, PacketDone DEF AtWork

\* Only packets that have been received wait.
LEMMA LaterPackets ==
    ASSUME NEW last \in Nat, NEW q, QueueSound(q, last)
    PROVE  ~Waits(q, last + 1) /\ QueueSound(q, last + 1)
<1>1. QueueItems(last) \subseteq QueueItems(last + 1)
  BY DEF QueueItems
<1>2. \A i \in 0 .. q.itemsInList - 1 : q.list[i].packet \in 1 .. last
  BY QueueItemType DEF QueueSound
<1> QED
  BY <1>1, <1>2 DEF QueueSound, Waits

\* Between two calls, there is room for one more packet.
Ready(n, packet) ==
    /\ n = Len(received) + 1 /\ n \in Numbers /\ packet \in Packets
    /\ log[n] = <<>> /\ log \in [Numbers -> Entries]
    /\ work = <<>> /\ current = Nobody /\ n # Nobody /\ addressSpace \in BOOLEAN
    /\ ~Waits(queue, n) /\ QueueSound(queue, n) /\ QueueSound(queue, Len(received))
    /\ Len(received) \in Nat

LEMMA ReadyForPacket ==
    ASSUME ReceiverInv, NEW packet \in Packets, NetworkReceive(packet)
    PROVE  Ready(Len(received) + 1, packet)
<1>1. TypeInv /\ pc = "idle" /\ Len(received) < MaxPackets /\ QueueSound(queue, Len(received))
  BY DEF NetworkReceive, ReceiverInv, QueueInv
<1>2. Len(received) \in Nat /\ Len(received) + 1 \in Numbers /\ Len(received) + 1 > Len(received)
  BY <1>1, ReceivedPackets, ReceiverAssumption DEF Numbers
<1>3. work = <<>> /\ current = Nobody
  BY <1>1 DEF ReceiverInv, WorkInv
<1>4. log[Len(received) + 1] = <<>> /\ log \in [Numbers -> Entries]
  BY <1>2 DEF ReceiverInv, LogInv
<1> QED
  BY <1>1, <1>2, <1>3, <1>4, LaterPackets, PacketsAssumption DEF Ready, TypeInv

LEMMA NoEntryYet ==
    ASSUME NEW n, n \in Numbers, log \in [Numbers -> Entries], log[n] = <<>>
    PROVE  log = [log EXCEPT ![n] = <<>>]
OBVIOUS

LEMMA NetworkReceiveStep ==
    ASSUME ReceiverInv, NEW packet \in Packets, NetworkReceive(packet)
    PROVE  ReceiverInv'
<1> DEFINE n == Len(received) + 1
           item == [tag |-> packet.tag, packet |-> n, data |-> Cloned(packet)]
<1>1. /\ pc = "idle" /\ Len(received) < MaxPackets /\ received' = Append(received, packet)
      /\ UNCHANGED <<now, taken, addressSpace>>
  BY DEF NetworkReceive
<1>2. Ready(n, packet)
  BY ReadyForPacket
<1>3. /\ n = Len(received) + 1 /\ n # Nobody /\ work = <<>> /\ current = Nobody
      /\ ~Waits(queue, n) /\ QueueSound(queue, n) /\ log[n] = <<>> /\ log = [log EXCEPT ![n] = <<>>]
      /\ addressSpace \in BOOLEAN
  BY <1>2, NoEntryYet DEF Ready
<1>4. /\ <<>> \in Entries /\ InOrder(<<>>, packet)
      /\ Append(<<>>, Offending) \in Entries /\ InOrder(Append(<<>>, Offending), packet)
  BY OnlyOffending
<1> DEFINE off == Append(<<>>, Offending)
           gone == Released(Busy(0))
<1>5. /\ packet.kind = "message" =>
            Progress(<<[bundle |-> FALSE, items |-> packet.items]>>, packet, <<>>, addressSpace)
      /\ packet.kind = "bundle" =>
            Progress(<<[bundle |-> TRUE, items |-> packet.items]>>, packet, <<>>, addressSpace)
  BY <1>3, ProgressBegins
<1>6. gone \in Addresses /\ gone.state = "deleted"
  BY AddressSteps
<1>11. \/ /\ packet.kind = "empty" /\ address' = [address EXCEPT ![n] = NewAddress]
          /\ UNCHANGED <<queue, work, current, pc, log>>
       \/ /\ packet.kind = "message" /\ address' = [address EXCEPT ![n] = NewAddress]
          /\ work' = <<[bundle |-> FALSE, items |-> packet.items]>> /\ current' = n /\ pc' = "receive"
          /\ UNCHANGED <<queue, log>>
       \/ packet.kind \in {"bundle", "corrupt"} /\ ProcessBundle(packet, n, NewAddress, <<>>, queue)
  BY DEF NetworkReceive
<1> HIDE DEF n, off, gone
<1>7. CASE packet.kind = "empty" /\ address' = [address EXCEPT ![n] = NewAddress]
           /\ UNCHANGED <<queue, work, current, pc, log>>
  <2>1. address' = [address EXCEPT ![n] = Busy(0)] /\ log' = [log EXCEPT ![n] = <<>>]
    BY <1>3, <1>7, AddressSteps
  <2>2. AddressSound(Busy(0), Waits(queue', n), n = current', packet)
    BY <1>3, <1>7 DEF AddressSound
  <2> QED
    BY <1>1, <1>3, <1>4, <1>7, <2>1, <2>2, AddressSteps, PacketArrives
<1>8. ASSUME NEW b \in BOOLEAN, packet.kind \in {"message", "bundle"},
             address' = [address EXCEPT ![n] = NewAddress],
             work' = <<[bundle |-> b, items |-> packet.items]>>, current' = n, pc' = "receive",
             UNCHANGED <<queue, log>>
      PROVE  ReceiverInv'
  <2>1. address' = [address EXCEPT ![n] = Busy(0)] /\ log' = [log EXCEPT ![n] = <<>>]
    BY <1>3, <1>8, AddressSteps
  <2>2. AddressSound(Busy(0), Waits(queue', n), n = current', packet)
    BY <1>3, <1>8 DEF AddressSound
  <2>3. Progress(work', packet, <<>>, addressSpace) /\ work' # <<>>
    <3>1. Progress(<<[bundle |-> b, items |-> packet.items]>>, packet, <<>>, addressSpace)
      BY <1>3, <1>8, ProgressBegins
    <3> QED
      BY <1>8, <3>1
  <2> QED
    BY <1>1, <1>3, <1>4, <1>8, <2>1, <2>2, <2>3, AddressSteps, PacketArrives
<1>9. ASSUME packet.kind \in {"bundle", "corrupt"}, ProcessBundle(packet, n, NewAddress, <<>>, queue)
      PROVE  ReceiverInv'
  <2>1. CASE ParseFails(packet) /\ Throw(n, NewAddress) /\ queue' = queue
    <3>1. /\ address' = [address EXCEPT ![n] = gone] /\ log' = [log EXCEPT ![n] = off]
          /\ work' = <<>> /\ current' = Nobody /\ pc' = "idle"
      BY <1>1, <1>3, <2>1, AddressSteps DEF Throw, off, gone
    <3>2. AddressSound(gone, Waits(queue', n), n = current', packet)
      BY <1>3, <1>6, <2>1, <3>1 DEF AddressSound
    <3>3. off \in Entries /\ InOrder(off, packet)
      BY <1>4 DEF off
    <3> QED
      BY <1>1, <1>3, <1>6, <2>1, <3>1, <3>2, <3>3, PacketArrives
  <2>2. CASE /\ ~ParseFails(packet) /\ packet.tag <= now
             /\ work' = Append(<<>>, [bundle |-> TRUE, items |-> packet.items])
             /\ current' = n /\ pc' = IF pc = "idle" THEN "receive" ELSE pc
             /\ address' = [address EXCEPT ![n] = NewAddress]
             /\ queue' = queue /\ log' = log
    <3>1. packet.kind = "bundle" /\ pc' = "receive"
      BY <1>1, <2>2 DEF ParseFails
    <3>2. work' = <<[bundle |-> TRUE, items |-> packet.items]>>
      BY <2>2
    <3> QED
      BY <1>8, <2>2, <3>1, <3>2
  <2>3. CASE /\ ~ParseFails(packet) /\ packet.tag > now
             /\ queue' = InsertItem(queue, item)
             /\ address' = [address EXCEPT ![n] = Registered(NewAddress)]
             /\ work' = <<>> /\ UNCHANGED <<current, pc, log>>
    <3>1. item \in QueueItems(Len(received) + 1) /\ item.packet = Len(received) + 1
      <4>1. packet.tag \in ImmediateTime .. LargestTimeTag
        BY <2>3, PacketsAssumption DEF ParseFails
      <4>2. Cloned(packet) \in Offcuts
        BY DEF Cloned, Offcuts
      <4>3. n \in 1 .. Len(received) + 1
        BY <1>2, <1>3 DEF Ready
      <4> QED
        BY <1>3, <4>1, <4>2, <4>3 DEF QueueItems
    <3> HIDE DEF item
    <3>2. PutIn(queue, Len(received) + 1, item, queue')
      BY <1>2, <2>3, <3>1, PuttingIn DEF Ready
    <3>3. /\ QueueSound(queue', n) /\ Waits(queue', n)
          /\ \A m \in 1 .. Len(received) : Waits(queue', m) <=> Waits(queue, m)
      <4>1. \A m \in 1 .. Len(received) : m # n
        BY <1>2, <1>3 DEF Ready
      <4> QED
        BY <1>3, <3>1, <3>2, <4>1 DEF PutIn
    <3>4. address' = [address EXCEPT ![n] = Busy(1)] /\ log' = [log EXCEPT ![n] = <<>>]
      BY <1>3, <2>3, AddressSteps
    <3>5. AddressSound(Busy(1), Waits(queue', n), n = current', packet)
      BY <3>3 DEF AddressSound
    <3>6. work' = <<>> /\ current' = Nobody /\ pc' = "idle"
      BY <1>1, <1>3, <2>3
    <3> QED
      BY <1>1, <1>3, <1>4, <3>3, <3>4, <3>5, <3>6, AddressSteps, PacketArrives
  <2> QED
    BY <1>9, <2>1, <2>2, <2>3 DEF ProcessBundle
<1>10. CASE /\ packet.kind = "message" /\ address' = [address EXCEPT ![n] = NewAddress]
            /\ work' = <<[bundle |-> FALSE, items |-> packet.items]>> /\ current' = n /\ pc' = "receive"
            /\ UNCHANGED <<queue, log>>
  BY <1>8, <1>10
<1> QED
  BY <1>7, <1>9, <1>10, <1>11

\* What ManagePriorityQueue takes from the queue is thrown out at once.
ThrownOut(item) ==
    /\ item = queue.list[EarliestIndex(queue)] /\ queue' = RemoveEarliestItem(queue)
    /\ taken' = taken \cup {item} /\ queue.itemsInList > 0 /\ GetEarliestTimeTag(queue) < now
    /\ TakenOut(queue, Len(received), EarliestIndex(queue), queue')
    /\ item \in QueueItems(Len(received)) /\ Throw(item.packet, Busy(1))

LEMMA ManageTakesThrows ==
    ASSUME ReceiverInv, ManageTakes
    PROVE  ThrownOut(EarliestItem(queue))
<1> DEFINE item == EarliestItem(queue)
           n == item.packet
<1>1. TypeInv /\ QueueSound(queue, Len(received)) /\ Len(received) \in Nat
  BY ReceivedPackets DEF ReceiverInv, QueueInv
<1>2. queue.itemsInList > 0 /\ GetEarliestTimeTag(queue) < now
  BY DEF ManageTakes, SomethingIsReady
<1>3. TakenOut(queue, Len(received), EarliestIndex(queue), RemoveEarliestItem(queue))
  BY <1>1, <1>2, TakingOut
<1>4. item = queue.list[EarliestIndex(queue)] /\ item \in QueueItems(Len(received))
  BY <1>3 DEF EarliestItem, TakenOut
<1>5. /\ taken' = taken \cup {item}
      /\ ProcessBundle(item.data, item.packet, address[item.packet], <<>>, RemoveEarliestItem(queue))
  BY DEF ManageTakes
<1> HIDE DEF item
<1>6. n \in 1 .. Len(received) /\ ParseFails(item.data)
  BY <1>1, <1>4, QueueItemType DEF ParseFails
<1>7. address[n] = Busy(1)
  <2>1. Waits(queue, n)
    BY <1>3, <1>4 DEF Waits, TakenOut, EarliestOf
  <2> QED
    BY <1>6, <2>1 DEF ReceiverInv, AddressInv, AddressSound
<1>8. Throw(n, address[n]) /\ queue' = RemoveEarliestItem(queue)
  BY <1>5, <1>6 DEF ProcessBundle
<1>9. Throw(n, Busy(1))
  BY <1>7, <1>8
<1> QED
  BY <1>2, <1>3, <1>4, <1>5, <1>8, <1>9 DEF ThrownOut, item

LEMMA ManageTakesStep == ReceiverInv /\ ManageTakes => ReceiverInv'
<1> SUFFICES ASSUME ReceiverInv, ManageTakes PROVE ReceiverInv'
  OBVIOUS
<1> DEFINE item == EarliestItem(queue)
           n == item.packet
<1>1. ThrownOut(item)
  BY ManageTakesThrows
<1>2. work = <<>> /\ UNCHANGED <<now, received, addressSpace>> /\ taken \subseteq QueueItems(Len(received))
  BY DEF ManageTakes, ReceiverInv, QueueInv
<1>3. TypeInv /\ Len(received) \in Nat
  BY ReceivedPackets DEF ReceiverInv
<1> HIDE DEF item
<1>4. n \in 1 .. Len(received)
  BY <1>1, <1>3, QueueItemType DEF ThrownOut
<1>5. /\ QueueSound(queue', Len(received)) /\ ~Waits(queue', n) /\ Waits(queue, n)
      /\ \A m \in 1 .. Len(received) : m # n => (Waits(queue', m) <=> Waits(queue, m))
  <2>1. TakenOut(queue, Len(received), EarliestIndex(queue), queue') /\ n = queue.list[EarliestIndex(queue)].packet
    BY <1>1 DEF ThrownOut
  <2> QED
    BY <2>1 DEF TakenOut, Waits, EarliestOf
<1>6. InOrder(Append(log[n], Offending), received[n])
  <2>1. log[n] = <<>>
    BY <1>3, <1>4, <1>5, ReceivedPackets DEF ReceiverInv, LogInv
  <2> QED
    BY <2>1, OnlyOffending
<1>7. taken' \subseteq QueueItems(Len(received)) /\ Throw(n, Busy(1))
  BY <1>1, <1>2 DEF ThrownOut
<1> QED
  BY <1>2, <1>4, <1>5, <1>6, <1>7, PacketThrown

LEMMA DestroyStep == ReceiverInv /\ Destroy => ReceiverInv'
<1> SUFFICES ASSUME ReceiverInv, Destroy PROVE ReceiverInv'
  OBVIOUS
<1> DEFINE items(n) == {i \in 0 .. queue.itemsInList - 1 : queue.list[i].packet = n}
           left(n) == address[n].users - Cardinality(items(n))
           released(n) == [users |-> left(n), state |-> IF left(n) <= 0 THEN "deleted" ELSE address[n].state]
<1>1. /\ pc = "idle" /\ pc' = "deleted" /\ queue' = [queue EXCEPT !.itemsInList = 0]
      /\ address' = [n \in Numbers |-> IF items(n) = {} THEN address[n] ELSE released(n)]
      /\ UNCHANGED <<now, received, work, current, taken, addressSpace, log>>
  BY DEF Destroy
<1>2. /\ TypeInv /\ QueueSound(queue, Len(received)) /\ Len(received) \in Nat
      /\ address \in [Numbers -> Addresses] /\ work = <<>> /\ current = Nobody
      /\ Nobody \notin 1 .. Len(received) /\ 1 .. Len(received) \subseteq Numbers
  BY <1>1, ReceivedPackets DEF ReceiverInv, QueueInv, AddressInv, WorkInv
<1>3. TypeInv'
  BY <1>1 DEF ReceiverInv, TypeInv
<1>4. QueueInv' /\ \A n : ~Waits(queue', n)
  <2>1. queue'.list = queue.list /\ queue'.itemsInList = 0 /\ queue' = [list |-> queue.list, itemsInList |-> 0]
    BY <1>1, <1>2 DEF QueueSound, QueueShape
  <2>2. QueueShape(queue')
    BY <1>2, <2>1 DEF QueueSound, QueueShape, Capacity
  <2>3. 0 .. queue'.itemsInList - 1 = {}
    BY <2>1
  <2> QED
    BY <1>1, <2>2, <2>3 DEF QueueInv, QueueSound, Waits, ReceiverInv
<1>5. WorkInv'
  BY <1>1, <1>2 DEF WorkInv
<1>6. \A n : items(n) # {} <=> Waits(queue, n)
  BY DEF Waits
<1>7. ASSUME NEW n, items(n) # {} PROVE n \in 1 .. Len(received) /\ released(n) = [users |-> 0, state |-> "deleted"]
  <2>1. PICK i \in 0 .. queue.itemsInList - 1 : queue.list[i].packet = n
    BY <1>7
  <2>2. n \in 1 .. Len(received)
    BY <1>2, <2>1, QueueItemType DEF QueueSound
  <2>3. address[n] = Busy(1)
    BY <1>6, <1>7, <2>2 DEF ReceiverInv, AddressInv, AddressSound
  <2>4. items(n) = {i}
    <3>1. \A k \in 0 .. queue.itemsInList - 1 : k # i => k < i \/ i < k
      OBVIOUS
    <3>2. ASSUME NEW k \in 0 .. queue.itemsInList - 1, k # i PROVE queue.list[k].packet # n
      <4>1. queue.list[k].packet < n \/ n < queue.list[k].packet
        BY <1>2, <2>1, <3>1, <3>2 DEF QueueSound
      <4> QED
        BY <2>2, <4>1
    <3> QED
      BY <2>1, <3>2
  <2>5. Cardinality(items(n)) = 1
    BY <2>4, FS_Singleton
  <2> HIDE DEF items
  <2>6. left(n) = 0
    BY <2>3, <2>5 DEF Busy
  <2> HIDE DEF left
  <2> QED
    BY <2>2, <2>6
<1> HIDE DEF items, released
<1>8. AddressInv'
  <2>1. address' \in [Numbers -> Addresses]
    BY <1>1, <1>2, <1>7 DEF Addresses
  <2>2. ASSUME NEW n \in 1 .. Len(received)
        PROVE  AddressSound(address'[n], FALSE, FALSE, received[n])
    <3>1. CASE items(n) # {}
      BY <1>1, <1>2, <1>7, <3>1 DEF AddressSound
    <3>2. CASE items(n) = {}
      <4>1. address'[n] = address[n] /\ ~Waits(queue, n) /\ n # current
        BY <1>1, <1>2, <1>6, <3>2
      <4> QED
        BY <4>1 DEF ReceiverInv, AddressInv, AddressSound
    <3> QED
      BY <3>1, <3>2
  <2>3. \A n \in 1 .. Len(received) : n # current'
    BY <1>1, <1>2
  <2>4. ASSUME NEW n \in 1 .. Len(received)
        PROVE  AddressSound(address'[n], Waits(queue', n), n = current', received'[n])
    BY <1>1, <1>4, <2>2, <2>3 DEF AddressSound
  <2> QED
    BY <1>1, <2>1, <2>4 DEF AddressInv
<1>9. LogInv'
  BY <1>1, <1>4 DEF ReceiverInv, LogInv
<1> QED
  BY <1>3, <1>4, <1>5, <1>8, <1>9 DEF ReceiverInv

LEMMA NextReceiverInv == ReceiverInv /\ [Next]_vars => ReceiverInv'
<1> SUFFICES ASSUME ReceiverInv, [Next]_vars PROVE ReceiverInv'
  OBVIOUS
<1>1. ASSUME ManageBegins \/ ManageEnds \/ Tick \/ UNCHANGED vars \/ \E root \in Roots : SetAddressSpace(root)
      PROVE  ReceiverInv'
  <2>1. UNCHANGED <<received, queue, work, current, address, taken, log>>
    BY <1>1 DEF ManageBegins, ManageEnds, Tick, SetAddressSpace, vars
  <2>2. TypeInv'
    <3>1. CASE Tick
      <4>1. now' \in ImmediateTime + 1 .. MaxTime
        BY <3>1, ReceiverAssumption DEF Tick, ReceiverInv, TypeInv, ImmediateTime
      <4> QED
        BY <3>1, <4>1 DEF Tick, ReceiverInv, TypeInv
    <3>2. CASE ManageBegins \/ ManageEnds \/ UNCHANGED vars
      BY <3>2 DEF ManageBegins, ManageEnds, vars, ReceiverInv, TypeInv
    <3>3. CASE \E root \in Roots : SetAddressSpace(root)
      BY <3>3 DEF SetAddressSpace, ReceiverInv, TypeInv
    <3> QED
      BY <1>1, <3>1, <3>2, <3>3
  <2>3. WorkInv'
    <3>1. CASE work = <<>>
      <4>1. pc' # "receive" /\ current = Nobody
        BY <1>1, <3>1 DEF ManageBegins, ManageEnds, Tick, SetAddressSpace, vars, ReceiverInv, WorkInv
      <4> QED
        BY <2>1, <3>1, <4>1 DEF WorkInv
    <3>2. CASE work # <<>>
      <4>1. pc = "receive"
        BY <3>2 DEF ReceiverInv, WorkInv
      <4>2. pc' = pc /\ addressSpace' = addressSpace
        BY <1>1, <3>2, <4>1 DEF ManageBegins, ManageEnds, Tick, SetAddressSpace, vars
      <4> QED
        BY <2>1, <4>2 DEF ReceiverInv, WorkInv
    <3> QED
      BY <3>1, <3>2
  <2>4. QueueInv' /\ AddressInv' /\ LogInv'
    BY <2>1 DEF ReceiverInv, QueueInv, AddressInv, LogInv
  <2> QED
    BY <2>2, <2>3, <2>4 DEF ReceiverInv
<1>2. CASE UNCHANGED vars
  BY <1>1, <1>2
<1>3. CASE Next
  BY <1>1, <1>3, NetworkReceiveStep, VoidItemStep, NestedBundleStep, ProcessMessageStep, CallReturnsStep,
     ManageTakesStep, DestroyStep DEF Next, Steps, Ended
<1> QED
  BY <1>2, <1>3

\* The strengthening: one call of ProcessBundle at most, and its packet, the packets that wait and
\* those that are done with have the addresses and the entries that go with it.
THEOREM ReceiverInvariant == Spec => []ReceiverInv
BY InitReceiverInv, NextReceiverInv, PTL DEF Spec

-----------------------------------------------------------------------------
(***************************************************************************)
(* Addresses, order                                                        *)
(***************************************************************************)
LEMMA ReceiverTypeOK == ReceiverInv => TypeOK
<1> SUFFICES ASSUME ReceiverInv PROVE TypeOK
  OBVIOUS
<1>1. TypeInv /\ QueueSound(queue, Len(received))
  BY DEF ReceiverInv, QueueInv
<1>2. queue.itemsInList \in 0 .. Capacity(queue)
  BY <1>1 DEF QueueSound, QueueShape
<1>3. \A i \in 0 .. queue.itemsInList - 1 : queue.list[i].packet \in 1 .. Len(received)
  BY <1>1, ReceivedPackets, QueueItemType DEF QueueSound
<1>4. current \in Numbers \cup {Nobody} /\ (current = Nobody <=> work = <<>>)
  BY <1>1, ReceivedPackets DEF ReceiverInv, WorkInv
<1>5. \A n \in Numbers : address[n].state \in {"none", "alive", "deleted"}
  BY DEF ReceiverInv, AddressInv, Addresses
<1> QED
  BY <1>1, <1>2, <1>3, <1>4, <1>5 DEF TypeOK, TypeInv

LEMMA ReceiverAddresses == ReceiverInv => AddressesInv
<1> SUFFICES ASSUME ReceiverInv PROVE AddressesInv
  OBVIOUS
<1>1. NoUseAfterDeletion
  BY DEF NoUseAfterDeletion, ReceiverInv, AddressInv, Addresses
<1>2. AddressesFollowQueue
  <2> SUFFICES ASSUME pc \in {"idle", "deleted"}, NEW n \in 1 .. Len(received)
               PROVE  IF n \in Queued THEN address[n] = [users |-> 1, state |-> "alive"]
                      ELSE address[n].state = "deleted" \/ received[n].kind = "empty"
    BY DEF AddressesFollowQueue
  <2>1. n \in Queued <=> Waits(queue, n)
    BY DEF Queued, Waits
  <2>2. n # current
    BY ReceivedPackets DEF ReceiverInv, WorkInv
  <2>3. AddressSound(address[n], Waits(queue, n), n = current, received[n])
    BY DEF ReceiverInv, AddressInv
  <2> QED
    BY <2>1, <2>2, <2>3 DEF AddressSound, Busy
<1>3. QueueKeepsOrder
  BY DEF QueueKeepsOrder, ReceiverInv, QueueInv, QueueSound
<1> QED
  BY <1>1, <1>2, <1>3, ReceiverTypeOK DEF AddressesInv

\* Whatever the packets, the exceptions and the times: no address is used after it has deleted
\* itself, and between two calls exactly the packets in the queue have one.
THEOREM AddressesAreKept == Spec => []AddressesInv
BY ReceiverInvariant, ReceiverAddresses, PTL

\* A packet is handled in the order of its messages, without gaps, up to what cannot be handled.
THEOREM PacketsInOrder == Spec => []HandledInOrder
<1>1. ReceiverInv => HandledInOrder
  BY DEF ReceiverInv, LogInv, HandledInOrder
<1> QED
  BY <1>1, ReceiverInvariant, PTL

-----------------------------------------------------------------------------
(***************************************************************************)
(* What waits is taken in the order of the tags                            *)
(***************************************************************************)
WaitingIn(q) == {<<q.list[i].packet, q.list[i].tag>> : i \in 0 .. q.itemsInList - 1}
TakenIn(items) == {<<item.packet, item.tag>> : item \in items}

LEMMA InitDelay == Init => DelayedBundles!Init
<1> SUFFICES ASSUME Init PROVE DelayedBundles!Init
  OBVIOUS
<1>1. queue.itemsInList = 0 /\ taken = {} /\ now \in Nat
  BY NewQueueShape DEF Init, ImmediateTime
<1>2. WaitingIn(queue) = {} /\ TakenIn(taken) = {}
  BY <1>1 DEF WaitingIn, TakenIn
<1> QED
  BY <1>1, <1>2 DEF DelayedBundles!Init, WaitingIn, TakenIn

LEMMA TakingIsTake == ReceiverInv /\ ManageTakes => DelayedBundles!Next
<1> SUFFICES ASSUME ReceiverInv, ManageTakes PROVE DelayedBundles!Next
  OBVIOUS
<1> DEFINE item == EarliestItem(queue)
           m == EarliestIndex(queue)
           b == <<item.packet, item.tag>>
           l == Len(received)
           n == queue.itemsInList
<1>1. TypeInv /\ QueueSound(queue, l) /\ l \in Nat /\ 1 .. l \subseteq Numbers
  BY ReceivedPackets DEF ReceiverInv, QueueInv
<1>2. ThrownOut(item)
  BY ManageTakesThrows
<1>3. /\ item = queue.list[m] /\ taken' = taken \cup {item} /\ GetEarliestTimeTag(queue) < now
      /\ EarliestOf(queue, m) /\ AllBut(queue, m, queue') /\ item \in QueueItems(l)
      /\ ~Waits(queue', item.packet)
  BY <1>2 DEF ThrownOut, TakenOut
<1>4. now' = now
  BY DEF ManageTakes
<1> HIDE DEF item, m, l
<1>5. item.packet \in 1 .. l /\ item.tag \in Nat /\ item.tag \in ImmediateTime .. LargestTimeTag
  BY <1>1, <1>3, QueueItemType
<1>6. b \in Numbers \X (ImmediateTime .. MaxTime + 1)
  BY <1>1, <1>5 DEF LargestTimeTag
<1>7. m \in 0 .. n - 1
  BY <1>3 DEF EarliestOf
<1>8. \A i \in 0 .. n - 1 : queue.list[i].tag \in Nat /\ queue.list[i].packet \in 1 .. l
  BY <1>1, QueueItemType DEF QueueSound
<1>9. b \in WaitingIn(queue)
  BY <1>3, <1>7 DEF WaitingIn
<1>10. item.tag < now
  <2>1. n = queue.itemsInList /\ \A i \in 0 .. n - 1 : queue.list[i].tag \in Nat
    BY <1>8
  <2> HIDE DEF n
  <2>2. GetEarliestTimeTag(queue) = LargestTimeTag
        \/ \E i \in 0 .. n - 1 : GetEarliestTimeTag(queue) = queue.list[i].tag
    BY <2>1, EarliestTag
  <2>3. now \in Nat /\ now < LargestTimeTag
    BY <1>1, ReceiverAssumption DEF TypeInv, ImmediateTime, LargestTimeTag
  <2>4. GetEarliestTimeTag(queue) # LargestTimeTag
    BY <1>3, <2>3, ReceiverAssumption DEF LargestTimeTag
  <2>5. PICK i \in 0 .. n - 1 : GetEarliestTimeTag(queue) = queue.list[i].tag
    BY <2>2, <2>4
  <2>6. item.tag <= queue.list[i].tag /\ queue.list[i].tag \in Nat
    <3>1. queue.list[m].tag < queue.list[i].tag \/ queue.list[m].tag = queue.list[i].tag
      BY <1>3, <2>5 DEF EarliestOf, n
    <3> QED
      BY <1>3, <1>5, <2>1, <3>1
  <2> QED
    BY <1>3, <1>5, <2>3, <2>5, <2>6
<1>11. ASSUME NEW other \in WaitingIn(queue) \ {b}
       PROVE  b[2] < other[2] \/ (b[2] = other[2] /\ b[1] < other[1])
  <2>1. PICK k \in 0 .. n - 1 : other = <<queue.list[k].packet, queue.list[k].tag>>
    BY DEF WaitingIn
  <2>2. k # m
    BY <1>3, <1>11, <2>1
  <2>3. item.tag < queue.list[k].tag \/ (item.tag = queue.list[k].tag /\ m < k)
    BY <1>3, <1>7, <2>2 DEF EarliestOf
  <2>4. m < k => item.packet < queue.list[k].packet
    BY <1>1, <1>3, <1>7 DEF QueueSound
  <2> QED
    BY <2>1, <2>3, <2>4
<1>12. WaitingIn(queue') = WaitingIn(queue) \ {b}
  <2>1. ASSUME NEW other \in WaitingIn(queue') PROVE other \in WaitingIn(queue) \ {b}
    <3>1. PICK i \in 0 .. queue'.itemsInList - 1 : other = <<queue'.list[i].packet, queue'.list[i].tag>>
      BY DEF WaitingIn
    <3>2. PICK k \in 0 .. n - 1 : queue'.list[i] = queue.list[k]
      BY <1>3 DEF AllBut
    <3>3. other \in WaitingIn(queue)
      BY <3>1, <3>2 DEF WaitingIn
    <3>4. queue'.list[i].packet # item.packet
      BY <1>3 DEF Waits
    <3> QED
      BY <3>1, <3>3, <3>4
  <2>2. ASSUME NEW other \in WaitingIn(queue) \ {b} PROVE other \in WaitingIn(queue')
    <3>1. PICK k \in 0 .. n - 1 : other = <<queue.list[k].packet, queue.list[k].tag>>
      BY DEF WaitingIn
    <3>2. k # m
      BY <1>3, <2>2, <3>1
    <3>3. PICK i \in 0 .. queue'.itemsInList - 1 : queue'.list[i] = queue.list[k]
      BY <1>3, <3>2 DEF AllBut
    <3> QED
      BY <3>1, <3>3 DEF WaitingIn
  <2> QED
    BY <2>1, <2>2
<1>13. TakenIn(taken') = TakenIn(taken) \cup {b}
  BY <1>3 DEF TakenIn
<1> HIDE DEF b
<1>14. PICK c : c = b
  OBVIOUS
<1>15. DelayedBundles!Take(c)
  <2>1. c[2] < now
    BY <1>10, <1>14 DEF b
  <2> QED
    BY <1>4, <1>9, <1>11, <1>12, <1>13, <1>14, <2>1
       DEF DelayedBundles!Take, DelayedBundles!Before, WaitingIn, TakenIn
<1>16. c \in Numbers \X (ImmediateTime .. MaxTime + 1)
  BY <1>6, <1>14
<1> QED
  BY <1>15, <1>16 DEF DelayedBundles!Next

\* A packet that is received puts itself into the queue, or leaves the queue as it is.
LEMMA ReceivingMayQueue ==
    ASSUME ReceiverInv, NEW packet \in Packets, NetworkReceive(packet)
    PROVE  \/ queue' = queue
           \/ \E item \in QueueItems(Len(received) + 1) :
                 /\ item.packet = Len(received) + 1 /\ item.tag > now
                 /\ PutIn(queue, Len(received) + 1, item, queue')
<1> DEFINE n == Len(received) + 1
           item == [tag |-> packet.tag, packet |-> n, data |-> Cloned(packet)]
<1>1. Ready(n, packet)
  BY ReadyForPacket
<1>2. queue' = queue \/ ProcessBundle(packet, n, NewAddress, <<>>, queue)
  BY DEF NetworkReceive
<1>3. queue' = queue \/ (~ParseFails(packet) /\ packet.tag > now /\ queue' = InsertItem(queue, item))
  BY <1>2 DEF ProcessBundle
<1>4. ASSUME ~ParseFails(packet), packet.tag > now, queue' = InsertItem(queue, item)
      PROVE  /\ item \in QueueItems(n) /\ item.packet = n /\ item.tag > now
             /\ PutIn(queue, n, item, queue')
  <2>1. packet.tag \in ImmediateTime .. LargestTimeTag
    BY <1>1, <1>4, PacketsAssumption DEF ParseFails, Ready
  <2>2. Cloned(packet) \in Offcuts
    BY DEF Cloned, Offcuts
  <2>3. n \in 1 .. n
    BY <1>1 DEF Ready
  <2>4. item \in QueueItems(n) /\ item.packet = n /\ item.tag > now
    BY <1>4, <2>1, <2>2, <2>3 DEF QueueItems
  <2> HIDE DEF item
  <2> QED
    BY <1>1, <1>4, <2>4, PuttingIn DEF Ready
<1> HIDE DEF item
<1> QED
  BY <1>3, <1>4

LEMMA ReceivingIsArrive ==
    ASSUME ReceiverInv, NEW packet \in Packets, NetworkReceive(packet), queue' # queue
    PROVE  DelayedBundles!Next
<1> DEFINE l == Len(received)
           n == queue.itemsInList
<1>1. PICK item \in QueueItems(l + 1) :
         item.packet = l + 1 /\ item.tag > now /\ PutIn(queue, l + 1, item, queue')
  BY ReceivingMayQueue
<1> DEFINE b == <<item.packet, item.tag>>
<1>2. TypeInv /\ QueueSound(queue, l) /\ taken \subseteq QueueItems(l) /\ l \in Nat /\ l + 1 \in Numbers
  BY ReadyForPacket DEF ReceiverInv, QueueInv, Ready
<1>3. UNCHANGED <<now, taken>>
  BY DEF NetworkReceive
<1> HIDE DEF l
<1>4. item.tag \in ImmediateTime .. LargestTimeTag
  BY <1>2, QueueItemType
<1>5. b \in Numbers \X (ImmediateTime .. MaxTime + 1)
  BY <1>1, <1>2, <1>4 DEF LargestTimeTag
<1>6. \A other \in WaitingIn(queue) \cup TakenIn(taken) : other[1] < b[1]
  <2>1. ASSUME NEW other \in WaitingIn(queue) PROVE other[1] \in 1 .. l
    <3>1. PICK i \in 0 .. n - 1 : other = <<queue.list[i].packet, queue.list[i].tag>>
      BY DEF WaitingIn
    <3>2. queue.list[i].packet \in 1 .. l
      BY <1>2, QueueItemType DEF QueueSound
    <3> QED
      BY <3>1, <3>2
  <2>2. ASSUME NEW other \in TakenIn(taken) PROVE other[1] \in 1 .. l
    <3>1. PICK old \in taken : other = <<old.packet, old.tag>>
      BY DEF TakenIn
    <3>2. old.packet \in 1 .. l
      BY <1>2, QueueItemType
    <3> QED
      BY <3>1, <3>2
  <2>3. b[1] = l + 1
    BY <1>1
  <2> QED
    BY <1>2, <2>1, <2>2, <2>3
<1>7. WaitingIn(queue') = WaitingIn(queue) \cup {b}
  <2>1. /\ n \in Nat /\ queue'.itemsInList = n + 1 /\ queue'.list[n] = item
        /\ \A i \in 0 .. n - 1 : queue'.list[i] = queue.list[i]
    BY <1>1, <1>2 DEF PutIn, QueueSound, QueueShape
  <2> HIDE DEF n
  <2>2. \A i : i \in 0 .. queue'.itemsInList - 1 <=> i = n \/ i \in 0 .. n - 1
    BY <2>1
  <2>3. ASSUME NEW other \in WaitingIn(queue') PROVE other \in WaitingIn(queue) \cup {b}
    <3>1. PICK i \in 0 .. queue'.itemsInList - 1 : other = <<queue'.list[i].packet, queue'.list[i].tag>>
      BY DEF WaitingIn
    <3> QED
      BY <2>1, <2>2, <3>1 DEF WaitingIn, n
  <2>4. ASSUME NEW other \in WaitingIn(queue) PROVE other \in WaitingIn(queue')
    <3>1. PICK i \in 0 .. n - 1 : other = <<queue.list[i].packet, queue.list[i].tag>>
      BY DEF WaitingIn, n
    <3>2. i \in 0 .. queue'.itemsInList - 1 /\ other = <<queue'.list[i].packet, queue'.list[i].tag>>
      BY <2>1, <2>2, <3>1
    <3> QED
      BY <3>2 DEF WaitingIn
  <2>5. b \in WaitingIn(queue')
    <3>1. n \in 0 .. queue'.itemsInList - 1 /\ b = <<queue'.list[n].packet, queue'.list[n].tag>>
      BY <2>1, <2>2
    <3> QED
      BY <3>1 DEF WaitingIn
  <2> QED
    BY <2>3, <2>4, <2>5
<1>8. now < b[2]
  <2>1. now \in Nat /\ item.tag \in Nat
    BY <1>2, <1>4, ReceiverAssumption, QueueItemType DEF TypeInv, ImmediateTime
  <2> QED
    BY <1>1, <2>1
<1> HIDE DEF b
<1>9. DelayedBundles!Arrive(b)
  BY <1>3, <1>6, <1>7, <1>8 DEF DelayedBundles!Arrive, WaitingIn, TakenIn
<1> QED
  BY <1>5, <1>9 DEF DelayedBundles!Next

LEMMA ReceiverStepIsDelay == ReceiverInv /\ [Next]_vars => [DelayedBundles!Next]_(DelayedBundles!vars)
<1> SUFFICES ASSUME ReceiverInv, [Next]_vars PROVE [DelayedBundles!Next]_(DelayedBundles!vars)
  OBVIOUS
<1>1. ASSUME UNCHANGED <<queue, taken, now>> PROVE UNCHANGED DelayedBundles!vars
  BY <1>1 DEF DelayedBundles!vars
<1>2. CASE \E packet \in Packets : NetworkReceive(packet)
  <2>1. PICK packet \in Packets : NetworkReceive(packet)
    BY <1>2
  <2>2. CASE queue' = queue
    BY <1>1, <2>1, <2>2 DEF NetworkReceive
  <2>3. CASE queue' # queue
    BY <2>1, <2>3, ReceivingIsArrive
  <2> QED
    BY <2>2, <2>3
<1>3. CASE VoidItem \/ ProcessMessage \/ CallReturns \/ ManageBegins \/ ManageEnds \/ UNCHANGED vars
           \/ \E root \in Roots : SetAddressSpace(root)
  BY <1>1, <1>3 DEF VoidItem, ProcessMessage, Throw, CallReturns, ManageBegins, ManageEnds, SetAddressSpace, vars
<1>4. CASE NestedBundle
  BY <1>1, <1>4, NestedBundleStep DEF NestedBundle
<1>5. CASE ManageTakes
  BY <1>5, TakingIsTake
<1>6. CASE Destroy
  <2>1. queue'.itemsInList = 0 /\ UNCHANGED <<taken, now>>
    BY <1>6 DEF Destroy, ReceiverInv, QueueInv, QueueSound, QueueShape
  <2>2. WaitingIn(queue') = {}
    BY <2>1 DEF WaitingIn
  <2>3. DelayedBundles!Drop
    BY <2>1, <2>2 DEF DelayedBundles!Drop, WaitingIn
  <2> QED
    BY <2>3 DEF DelayedBundles!Next
<1>7. CASE Tick
  <2>1. DelayedBundles!Tick
    BY <1>7 DEF Tick, DelayedBundles!Tick
  <2> QED
    BY <2>1 DEF DelayedBundles!Next
<1> QED
  BY <1>2, <1>3, <1>4, <1>5, <1>6, <1>7 DEF Next, Steps, Ended

\* The receiver with its array implements the queue it promises: a bundle that comes before its
\* time waits, and is taken after it, in the order of the tags and of the arrivals.
THEOREM ReceiverImplementsDelayQueue == Spec => TakesEarliestFirst
BY ReceiverInvariant, InitDelay, ReceiverStepIsDelay, PTL DEF Spec, TakesEarliestFirst, DelayedBundles!Spec
=============================================================================

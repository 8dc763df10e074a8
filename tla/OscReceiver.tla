----------------------------- MODULE OscReceiver -----------------------------
(***************************************************************************)
(* WOscReceiver with its priority queue: the network calls NetworkReceive  *)
(* with a packet and a return address, the application calls               *)
(* ManagePriorityQueue from time to time; both run ProcessBundle, which    *)
(* handles an item of a bundle per step.  The clock may tick between any   *)
(* two steps.  The return address of a packet counts the queue items that  *)
(* refer to it and deletes itself when the count falls to zero.            *)
(*                                                                         *)
(* A packet is a record: "empty" (no bytes), "message" with one item,      *)
(* "bundle" with a tag and items, or "corrupt", which begins like a bundle *)
(* and is none.  An item is a "matched" or "unmatched" message, a          *)
(* "malformed" one that WOscMessage rejects, one whose second byte is '#'  *)
(* ("hash"), "void" (of length zero), or a "bundle".                       *)
(***************************************************************************)
EXTENDS Naturals, Sequences, FiniteSets

CONSTANTS
    PacketItems,        \* what packets consist of
    Packets,            \* the packets the network may deliver
    MaxPackets,         \* how many it delivers
    InitialCapacity, MaxTime,
    Roots,              \* what the application passes to SetAddressSpace
    NoItem, Nobody

\* A capacity of zero cannot be doubled; the constructor leaves that to the caller.
ASSUME ReceiverAssumption ==
    /\ MaxPackets \in Nat /\ MaxTime \in Nat \ {0, 1}
    /\ InitialCapacity \in Nat \ {0}
    /\ Roots \subseteq {"root", "child", "null"}

ImmediateTime == 1
LargestTimeTag == MaxTime + 1
Numbers == 1 .. MaxPackets

ASSUME PacketsAssumption ==
    /\ \A item \in PacketItems : item.kind \in {"matched", "unmatched", "malformed", "hash", "void", "bundle"}
    /\ Packets \subseteq [kind : {"empty", "corrupt"}] \cup [kind : {"message"}, items : Seq(PacketItems)]
           \cup [kind : {"bundle"}, tag : ImmediateTime .. LargestTimeTag, items : Seq(PacketItems)]
    /\ Nobody \notin Numbers

INSTANCE PriorityQueue

VARIABLES
    now,            \* the system time
    received,       \* the packets received so far: a sequence; a packet is named by its place
    queue,
    work,           \* the calls of ProcessBundle, or of ProcessMessage: the items left in each
    current,        \* the packet they work on
    pc,             \* "idle", "receive", "manage" (in ManagePriorityQueue), "deleted", "crashed"
    address,        \* the return addresses
    taken,          \* queue items that have been taken out; they are not deleted
    addressSpace,   \* whether there is a root container
    log             \* of every packet the messages handed to a method or to
                    \* HandleNonmatchedMessages, and Offending for a call of HandleOffendingPackets

vars == <<now, received, queue, work, current, pc, address, taken, addressSpace, log>>

Offending == [kind |-> "offending"]

Init ==
    /\ now = ImmediateTime + 1 /\ received = <<>>
    /\ queue = NewQueue(InitialCapacity)
    /\ work = <<>> /\ current = Nobody /\ pc = "idle"
    /\ address = [n \in Numbers |-> [users |-> 0, state |-> "none"]]
    /\ taken = {} /\ addressSpace = FALSE
    /\ log = [n \in Numbers |-> <<>>]

(***************************************************************************)
(* WOscNetReturn: what AddParent and RemoveParent make of an address       *)
(***************************************************************************)
NewAddress == [users |-> 0, state |-> "alive"]

Kept(a) == IF a.state = "alive" THEN a ELSE [a EXCEPT !.state = "misused"]
Unregistered(a) == a
Registered(a) ==
    IF a.state = "alive" THEN [a EXCEPT !.users = a.users + 1] ELSE [a EXCEPT !.state = "misused"]
Released(a) ==
    IF a.state # "alive" THEN [a EXCEPT !.state = "misused"]
    ELSE [users |-> a.users - 1, state |-> IF a.users - 1 <= 0 THEN "deleted" ELSE "alive"]

(***************************************************************************)
(* WOscBundleParser::Clone copies the length of the bundle from where its  *)
(* items begin: the copy does not begin with the tag of a bundle           *)
(***************************************************************************)
Cloned(bundle) == [kind |-> "corrupt"]

(***************************************************************************)
(* An exception, caught in NetworkReceive or in ManagePriorityQueue, ends  *)
(* all calls of ProcessBundle; n is the packet and a its address           *)
(***************************************************************************)
ThrowAndGoOn(n, a) ==
    /\ log' = [log EXCEPT ![n] = Append(@, Offending)]
    /\ address' = [address EXCEPT ![n] = a]
    /\ work' = [work EXCEPT ![Len(work)].items = Tail(@)]
    /\ UNCHANGED <<pc, current, queue>>

Throw(n, a) ==
    /\ log' = [log EXCEPT ![n] = Append(@, Offending)]
    /\ address' = [address EXCEPT ![n] = Released(a)]
    /\ work' = <<>> /\ current' = Nobody
    /\ pc' = IF pc = "manage" THEN "manage" ELSE "idle"

\* WOscBundleParser::Parse: too short, without tag or items, or with lengths that do not add up.
ParseFails(bundle) == bundle.kind # "bundle"

\* ProcessBundle, up to its loop; frames are the calls it is made from.  A bundle that is not due
\* is put into the queue q, with a copy of its data.
ProcessBundle(bundle, n, a, frames, q) ==
    \/ /\ ParseFails(bundle)
       /\ Throw(n, a) /\ queue' = q
    \/ /\ ~ParseFails(bundle) /\ bundle.tag <= now
       /\ work' = Append(frames, [bundle |-> TRUE, items |-> bundle.items])
       /\ current' = n /\ pc' = IF pc = "idle" THEN "receive" ELSE pc
       /\ address' = [address EXCEPT ![n] = a]
       /\ queue' = q /\ log' = log
    \/ /\ ~ParseFails(bundle) /\ bundle.tag > now
       /\ queue' = InsertItem(q, [tag |-> bundle.tag, packet |-> n, data |-> Cloned(bundle)])
       /\ address' = [address EXCEPT ![n] = Registered(a)]
       /\ work' = frames /\ UNCHANGED <<current, pc, log>>

(***************************************************************************)
(* NetworkReceive                                                          *)
(***************************************************************************)
NetworkReceive(packet) ==
    /\ pc = "idle" /\ Len(received) < MaxPackets
    /\ received' = Append(received, packet)
    /\ UNCHANGED <<now, taken, addressSpace>>
    /\ LET n == Len(received) + 1
       IN  \/ /\ packet.kind = "empty"
              /\ address' = [address EXCEPT ![n] = NewAddress]
              /\ UNCHANGED <<queue, work, current, pc, log>>
           \/ /\ packet.kind = "message"
              /\ address' = [address EXCEPT ![n] = NewAddress]
              /\ work' = <<[bundle |-> FALSE, items |-> packet.items]>> /\ current' = n /\ pc' = "receive"
              /\ UNCHANGED <<queue, log>>
           \/ /\ packet.kind \in {"bundle", "corrupt"}
              /\ ProcessBundle(packet, n, NewAddress, <<>>, queue)

(***************************************************************************)
(* The loop of ProcessBundle                                               *)
(***************************************************************************)
Top == work[Len(work)]
Below == SubSeq(work, 1, Len(work) - 1)
TailFrames == Append(Below, [Top EXCEPT !.items = Tail(@)])

\* buffer[1] == '#'
LooksLikeBundle(item) == item.kind = "hash"

VoidItem ==
    /\ work # <<>> /\ Top.items # <<>> /\ Head(Top.items).kind = "void"
    /\ work' = TailFrames
    /\ UNCHANGED <<now, received, queue, current, pc, address, taken, addressSpace, log>>

NestedBundle ==
    /\ work # <<>> /\ Top.items # <<>> /\ Head(Top.items).kind # "void"
    /\ Top.bundle /\ LooksLikeBundle(Head(Top.items))
    /\ ProcessBundle(Head(Top.items), current, Kept(address[current]), TailFrames, queue)
    /\ UNCHANGED <<now, received, taken, addressSpace>>

\* ProcessMessage: what does not begin with a slash is no message.
ProcessMessage ==
    /\ work # <<>> /\ Top.items # <<>> /\ Head(Top.items).kind # "void"
    /\ ~(Top.bundle /\ LooksLikeBundle(Head(Top.items)))
    /\ \/ /\ Head(Top.items).kind \in {"malformed", "bundle"}
          /\ Throw(current, address[current])
       \/ /\ Head(Top.items).kind \in {"matched", "unmatched", "hash"}
          /\ log' = IF addressSpace THEN [log EXCEPT ![current] = Append(@, Head(Top.items))] ELSE log
          /\ address' = [address EXCEPT ![current] = IF addressSpace THEN Kept(@) ELSE @]
          /\ work' = TailFrames
          /\ UNCHANGED <<current, pc>>
    /\ UNCHANGED <<now, received, queue, taken, addressSpace>>

\* At the end, ProcessBundle releases the address; for a message NetworkReceive does.
CallReturns ==
    /\ work # <<>> /\ Top.items = <<>>
    /\ address' = [address EXCEPT ![current] = Released(@)]
    /\ work' = Below
    /\ current' = IF Below = <<>> THEN Nobody ELSE current
    /\ pc' = IF Below = <<>> /\ pc = "receive" THEN "idle" ELSE pc
    /\ UNCHANGED <<now, received, queue, taken, addressSpace, log>>

(***************************************************************************)
(* ManagePriorityQueue: the variable that would delete the item is not the *)
(* one that holds it                                                       *)
(***************************************************************************)
ManageBegins ==
    /\ pc = "idle" /\ pc' = "manage"
    /\ UNCHANGED <<now, received, queue, work, current, address, taken, addressSpace, log>>

SeveralAreReady == GetEarliestTimeTag(queue) < now /\ queue.itemsInList > 1
SomethingIsReady == GetEarliestTimeTag(queue) < now /\ queue.itemsInList > 0

ManageTakes ==
    /\ pc = "manage" /\ work = <<>> /\ SomethingIsReady
    /\ taken' = taken \cup {EarliestItem(queue)}
    /\ LET item == EarliestItem(queue)
       IN  ProcessBundle(item.data, item.packet, address[item.packet], <<>>, RemoveEarliestItem(queue))
    /\ UNCHANGED <<now, received, addressSpace>>

ManageEnds ==
    /\ pc = "manage" /\ work = <<>> /\ ~SomethingIsReady
    /\ pc' = "idle"
    /\ UNCHANGED <<now, received, queue, work, current, address, taken, addressSpace, log>>

(***************************************************************************)
(* The application sets the address space, which is a root container, and  *)
(* in the end deletes the receiver with what is still in its queue         *)
(***************************************************************************)
SetAddressSpace(root) ==
    /\ pc = "idle"
    /\ pc' = IF root = "null" THEN "crashed" ELSE pc
    /\ addressSpace' = (addressSpace \/ root = "root")
    /\ UNCHANGED <<now, received, queue, work, current, address, taken, log>>

Destroy ==
    /\ pc = "idle" /\ pc' = "deleted"
    /\ queue' = [queue EXCEPT !.itemsInList = 0]
    /\ address' = [n \in Numbers |->
                      LET items == {i \in 0 .. queue.itemsInList - 1 : queue.list[i].packet = n}
                          left == address[n].users - Cardinality(items)
                      IN  IF items = {} THEN address[n]
                          ELSE [users |-> left, state |-> IF left <= 0 THEN "deleted" ELSE address[n].state]]
    /\ UNCHANGED <<now, received, work, current, taken, addressSpace, log>>

Tick ==
    /\ now < MaxTime /\ pc \notin {"deleted", "crashed"}
    /\ now' = now + 1
    /\ UNCHANGED <<received, queue, work, current, pc, address, taken, addressSpace, log>>

Ended == pc \in {"deleted", "crashed"} /\ UNCHANGED vars

Steps == VoidItem \/ NestedBundle \/ ProcessMessage \/ CallReturns \/ ManageTakes \/ ManageEnds

Next ==
    \/ \E packet \in Packets : NetworkReceive(packet)
    \/ Steps
    \/ ManageBegins
    \/ \E root \in Roots : SetAddressSpace(root)
    \/ Destroy
    \/ Tick
    \/ Ended

\* A call, once begun, goes on; the application calls ManagePriorityQueue "perodically".
Spec == Init /\ [][Next]_vars /\ WF_vars(Steps) /\ SF_vars(ManageBegins)

(***************************************************************************)
(* Properties                                                              *)
(***************************************************************************)
Queued == {queue.list[i].packet : i \in 0 .. queue.itemsInList - 1}
HasItems(packet) == packet.kind \in {"message", "bundle"}
Places(items) == {k \in 1 .. Len(items) : items[k].kind # "void"}
IsOffending(n) == \E i \in 1 .. Len(log[n]) : log[n][i] = Offending

\* The message is the i-th one among the items.
IsMessage(items, i, message) ==
    \E k \in Places(items) : items[k] = message /\ Cardinality({j \in Places(items) : j <= k}) = i

\* The entries are the first messages of the packet, and Offending behind them if at all.
InOrder(entries, packet) ==
    \A i \in 1 .. Len(entries) :
        \/ entries[i] = Offending /\ i = Len(entries)
        \/ HasItems(packet) /\ IsMessage(packet.items, i, entries[i])

TypeOK ==
    /\ now \in ImmediateTime + 1 .. MaxTime
    /\ received \in Seq(Packets) /\ Len(received) <= MaxPackets
    /\ queue.itemsInList \in 0 .. Capacity(queue)
    /\ \A i \in 0 .. queue.itemsInList - 1 : queue.list[i].packet \in 1 .. Len(received)
    /\ current \in Numbers \cup {Nobody} /\ (current = Nobody <=> work = <<>>)
    /\ pc \in {"idle", "receive", "manage", "deleted", "crashed"}
    /\ \A n \in Numbers : address[n].state \in {"none", "alive", "deleted", "misused"}
    /\ addressSpace \in BOOLEAN

\* A return address that has deleted itself is never used again, however a packet ends: handled,
\* thrown out in the middle, or after a time in the queue.
NoUseAfterDeletion == \A n \in Numbers : address[n].state # "misused"

\* Between two calls the queue items are the users of the return addresses, one each: a packet that
\* waits has its address, one that is done with has not.  (A packet without bytes keeps it.)
AddressesFollowQueue ==
    pc \in {"idle", "deleted"} =>
        \A n \in 1 .. Len(received) :
            IF n \in Queued THEN address[n] = [users |-> 1, state |-> "alive"]
            ELSE address[n].state = "deleted" \/ received[n].kind = "empty"

\* A packet is handled in the order of its messages and without gaps, up to the first it cannot
\* handle: nothing of a packet is handled after HandleOffendingPackets was called for it.
HandledInOrder == \A n \in 1 .. Len(received) : InOrder(log[n], received[n])

\* The array, grown as it may be, holds the waiting bundles in the order in which they came.
QueueKeepsOrder ==
    \A i, k \in 0 .. queue.itemsInList - 1 : i < k => queue.list[i].packet < queue.list[k].packet

\* What keeps addresses and queue together, whatever the order of arrivals, exceptions and takes.
AddressesInv == TypeOK /\ NoUseAfterDeletion /\ AddressesFollowQueue /\ QueueKeepsOrder

\* With its array, the receiver takes the waiting bundles as DelayQueue says.
DelayedBundles == INSTANCE DelayQueue WITH
    Bundle <- Numbers \X (ImmediateTime .. MaxTime + 1),
    waiting <- {<<queue.list[i].packet, queue.list[i].tag>> : i \in 0 .. queue.itemsInList - 1},
    taken <- {<<item.packet, item.tag>> : item \in taken},
    time <- now

TakesEarliestFirst == DelayedBundles!Spec

\* With ManagePriorityQueue called again and again, a bundle whose time has passed does not stay in
\* the queue, whatever comes in the meantime.
Due == {queue.list[i].packet : i \in {k \in 0 .. queue.itemsInList - 1 : queue.list[k].tag < now}}
DueIsTaken == \A n \in Numbers : n \in Due ~> n \notin Queued

\* "If there are any ready-to-process-elements, they are removed from the priority-queue and
\* processed.", WOscReceiver.cpp:284-286
ReadyIsProcessed ==
    \A item \in taken :
        LET items == received[item.packet].items
        IN  (\A k \in Places(items) : items[k].kind \in {"matched", "unmatched"})
                => ~IsOffending(item.packet)

\* "internal bundles are passed to to processBundle(WOscBundle* bundle) again (recursion)",
\* WOscReceiver.cpp:189-190
InnerBundlesProcessed ==
    \A n \in 1 .. Len(received) :
        (/\ HasItems(received[n])
         /\ \A k \in Places(received[n].items) : received[n].items[k].kind \in {"matched", "bundle"})
            => ~IsOffending(n)

\* "All address-object-references passed to networkReceive of WOscReceiver (and inherited classes)
\* will be managed and deleted internally.", WOscNetReturn.h:50-51
AddressesDeleted ==
    pc = "idle" => \A n \in Numbers : address[n].state = "alive" => n \in Queued

\* "When removed, the user (caller) has to care about the deletion of that element",
\* WOscPriorityQueue.cpp:180-181
ItemsDeleted == taken = {}

\* "If currently no address-space should be available, pass NULL. This disables the invokation of
\* messages.", WOscReceiver.cpp:99-100
NoAddressSpaceAllowed == pc # "crashed"
=============================================================================

---------------------------- MODULE OscContainer ----------------------------
(***************************************************************************)
(* The OSC address space: a tree of containers with methods as leaves      *)
(* (WOscContainer.cpp, WOscMethod.cpp), in which a container or a method   *)
(* may be entered again under another name, as an alias.  A container owns *)
(* its entries that are no aliases and deletes them when it is deleted,    *)
(* after it has removed the aliases of them from the whole tree.           *)
(*                                                                         *)
(* A name is a model value without slashes.  A pattern is the set of the   *)
(* names that it matches; an address is a sequence of patterns.            *)
(***************************************************************************)
EXTENDS Naturals, FiniteSets, SequencesExt

CONSTANTS
    Containers, Methods, Root, Names,
    MaxAliases

ASSUME TreeAssumption ==
    /\ Root \in Containers /\ Containers \cap Methods = {}
    /\ MaxAliases \in Nat

VARIABLE tree
vars == <<tree>>

\* object is "none", "live" or "deleted"; broken is "no", or what went wrong first: what comes
\* after that is not followed.
Init ==
    tree = [object |-> [e \in Containers \cup Methods |-> "none"],
            parent |-> [e \in Containers \cup Methods |-> Root],
            containers |-> [c \in Containers |-> <<>>],
            methods |-> [c \in Containers |-> <<>>],
            broken |-> "no"]

Entry(node, name, isAlias) == [node |-> node, name |-> name, alias |-> isAlias]
Broken(t, how) == [t EXCEPT !.broken = how]
Live(t, e) == t.object[e] = "live"

(***************************************************************************)
(* Construction                                                            *)
(***************************************************************************)

AddContainer(t, parent, entry) == [t EXCEPT !.containers[parent] = Append(@, entry)]

AddMethod(t, parent, entry) == [t EXCEPT !.methods[parent] = Append(@, entry)]

NewRoot ==
    /\ tree.object[Root] = "none"
    /\ tree' = [tree EXCEPT !.object[Root] = "live"]

NewContainer(c, parent, name) ==
    /\ c # Root /\ tree.object[c] = "none" /\ Live(tree, parent)
    /\ tree' = AddContainer([tree EXCEPT !.object[c] = "live", !.parent[c] = parent],
                            parent, Entry(c, name, FALSE))

NewMethod(m, parent, name) ==
    /\ tree.object[m] = "none" /\ Live(tree, parent)
    /\ tree' = AddMethod([tree EXCEPT !.object[m] = "live", !.parent[m] = parent],
                         parent, Entry(m, name, FALSE))

AliasesIn(entries) == Cardinality({i \in DOMAIN entries : entries[i].alias})
MayAddAlias ==
    MapThenSumSet(LAMBDA c : AliasesIn(tree.containers[c]) + AliasesIn(tree.methods[c]), Containers)
        < MaxAliases

\* The root has no alias, and no container has one directly in itself.
AddContainerAlias(c, parent, name) ==
    /\ Live(tree, c) /\ Live(tree, parent) /\ c # Root /\ parent # c
    /\ MayAddAlias
    /\ tree' = AddContainer(tree, parent, Entry(c, name, TRUE))

AddMethodAlias(m, parent, name) ==
    /\ Live(tree, m) /\ Live(tree, parent)
    /\ MayAddAlias
    /\ tree' = AddMethod(tree, parent, Entry(m, name, TRUE))

(***************************************************************************)
(* RecursivelyRemoveAliases: the lists are searched from the last entry to *)
(* the first.  For a container the search goes into its own containers;    *)
(* for a method also into aliased ones, on the way that is recorded.       *)
(***************************************************************************)
RECURSIVE WithoutAliasesOfContainer(_, _, _)
WithoutAliasesOfContainer(t, c, target) ==
    LET Step(i, s) ==
            LET entry == s.containers[c][i] IN
            IF s.broken # "no" THEN s
            ELSE IF ~entry.alias THEN WithoutAliasesOfContainer(s, entry.node, target)
            ELSE IF entry.node = target THEN [s EXCEPT !.containers[c] = RemoveAt(@, i)]
            ELSE s
    IN  IF ~Live(t, c) THEN Broken(t, "deleted")
        ELSE FoldRight(Step, [i \in 1 .. Len(t.containers[c]) |-> i], t)

OwnMethodsWithoutAliases(t, c, target) ==
    [t EXCEPT !.methods[c] = SelectSeq(@, LAMBDA entry : ~(entry.alias /\ entry.node = target))]

RECURSIVE WithoutAliasesOfMethod(_, _, _, _)
WithoutAliasesOfMethod(t, c, target, way) ==
    LET Step(i, s) ==
            IF s.broken # "no" THEN s
            ELSE WithoutAliasesOfMethod(s, s.containers[c][i].node, target, way \cup {c})
    IN  IF c \in way THEN Broken(t, "endless")
        ELSE IF ~Live(t, c) THEN Broken(t, "deleted")
        ELSE FoldRight(Step, [i \in 1 .. Len(t.containers[c]) |-> i],
                       OwnMethodsWithoutAliases(t, c, target))

(***************************************************************************)
(* The destructor                                                          *)
(***************************************************************************)
RECURSIVE FindRoot(_, _)
FindRoot(t, c) == IF c = Root THEN c ELSE FindRoot(t, t.parent[c])

OwnedButFirst(entries) ==
    LET Owned == SelectSeq(entries, LAMBDA entry : ~entry.alias)
    IN  [i \in 1 .. Len(Owned) - 1 |-> Owned[i + 1].node]

OwnedIn(entries) ==
    LET Owned == SelectSeq(entries, LAMBDA entry : ~entry.alias)
    IN  [i \in DOMAIN Owned |-> Owned[i].node]

ContainerAliasesRemoved(t, c) ==
    FoldLeft(LAMBDA s, d : IF s.broken # "no" THEN s
                           ELSE WithoutAliasesOfContainer(s, FindRoot(s, c), d),
             t, OwnedIn(t.containers[c]))

MethodAliasesRemoved(t, c) ==
    FoldLeft(LAMBDA s, m : IF s.broken # "no" THEN s
                           ELSE WithoutAliasesOfMethod(s, FindRoot(s, c), m, {}),
             t, OwnedIn(t.methods[c]))

MethodsDeleted(t, c) ==
    LET Owned == ToSet(OwnedIn(t.methods[c])) IN
    IF t.broken # "no" THEN t
    ELSE IF \E m \in Owned : ~Live(t, m) THEN Broken(t, "deleted")
    ELSE [t EXCEPT !.object = [e \in DOMAIN @ |-> IF e \in Owned THEN "deleted" ELSE @[e]]]

\* Containers are deleted from the last to the first, by index, while their destructors may
\* remove aliases from the same list.
RECURSIVE Destroyed(_, _)
Destroyed(t, c) ==
    LET Step(i, s) ==
            IF s.broken # "no" THEN s
            ELSE IF i > Len(s.containers[c]) THEN Broken(s, "deleted")
            ELSE IF s.containers[c][i].alias THEN s
            ELSE Destroyed(s, s.containers[c][i].node)
        children == ContainerAliasesRemoved(t, c)
        deleted == FoldRight(Step, [i \in 1 .. Len(children.containers[c]) |-> i], children)
        childless == [deleted EXCEPT !.containers[c] = <<>>]
        methodless == MethodsDeleted(MethodAliasesRemoved(childless, c), c)
    IN  IF t.broken # "no" THEN t
        ELSE IF ~Live(t, c) THEN Broken(t, "deleted")
        ELSE IF deleted.broken # "no" THEN deleted
        ELSE IF methodless.broken # "no" THEN methodless
        ELSE [methodless EXCEPT !.methods[c] = <<>>, !.object[c] = "deleted"]

RemoveAll ==
    /\ Live(tree, Root)
    /\ tree' = Destroyed(tree, Root)

(***************************************************************************)
(* Removal of an entry: the last one of that name.  The destructor of a    *)
(* container may take aliases out of the same list before the entry is     *)
(* erased at its index.                                                    *)
(***************************************************************************)
LastNamed(entries, name) ==
    CHOOSE i \in DOMAIN entries :
        entries[i].name = name /\ \A j \in i + 1 .. Len(entries) : entries[j].name # name
HasNamed(entries, name) == \E i \in DOMAIN entries : entries[i].name = name

RemoveContainer(c, name) ==
    /\ Live(tree, c) /\ HasNamed(tree.containers[c], name)
    /\ LET i == LastNamed(tree.containers[c], name)
           entry == tree.containers[c][i]
           t == IF entry.alias THEN tree ELSE Destroyed(tree, entry.node)
       IN  tree' = IF t.broken # "no" THEN t
                   ELSE IF i > Len(t.containers[c]) \/ t.containers[c][i] # entry
                        THEN Broken(t, "erase")
                   ELSE [t EXCEPT !.containers[c] = RemoveAt(@, i)]

RemoveMethod(c, name) ==
    /\ Live(tree, c) /\ HasNamed(tree.methods[c], name)
    /\ LET i == LastNamed(tree.methods[c], name)
           entry == tree.methods[c][i]
       IN  tree' = IF entry.alias THEN [tree EXCEPT !.methods[c] = RemoveAt(@, i)]
                   ELSE [tree EXCEPT !.methods[c] = RemoveAt(@, i), !.object[entry.node] = "deleted"]

(***************************************************************************)
(* DispatchMessage: the callback list, or Undefined if the search enters   *)
(* or finds what has been deleted                                          *)
(***************************************************************************)
Undefined == [defined |-> FALSE, list |-> <<>>]
Callbacks(list) == [defined |-> TRUE, list |-> list]
Joined(a, b) == IF a.defined /\ b.defined THEN Callbacks(a.list \o b.list) ELSE Undefined

EntryMatchesFirst(pattern, entries, i) ==
    entries[i].name \in pattern /\ \A j \in i + 1 .. Len(entries) : entries[j].name \notin pattern
EntryMatches(pattern, entries, i) == entries[i].name \in pattern

RECURSIVE DispatchSubMessage(_, _, _)
DispatchSubMessage(t, c, pattern) ==
    LET entries == IF Len(pattern) = 1 THEN t.methods[c] ELSE t.containers[c]
        Of(node) ==
            IF ~Live(t, node) THEN Undefined
            ELSE IF Len(pattern) = 1 THEN Callbacks(<<node>>)
            ELSE DispatchSubMessage(t, node, Tail(pattern))
        Step(list, i) ==
            IF EntryMatches(pattern[1], entries, i) THEN Joined(list, Of(entries[i].node)) ELSE list
    IN  FoldLeft(Step, Callbacks(<<>>), Reverse([i \in 1 .. Len(entries) |-> i]))

Addresses == UNION {[1 .. n -> (SUBSET Names) \ {{}}] : n \in 1 .. 3}

Dispatch(address) ==
    /\ Live(tree, Root)
    /\ ~DispatchSubMessage(tree, Root, address).defined
    /\ tree' = Broken(tree, "dispatch")

(***************************************************************************)
(* Names and addresses, from the root                                      *)
(***************************************************************************)
NameIn(entries, node) ==
    LET Main == {i \in DOMAIN entries : entries[i].node = node /\ ~entries[i].alias}
    IN  entries[CHOOSE i \in Main : \A j \in Main : j <= i].name

RECURSIVE ContainerAddress(_, _)
ContainerAddress(t, c) ==
    IF c = Root THEN <<>>
    ELSE Append(ContainerAddress(t, t.parent[c]), NameIn(t.containers[t.parent[c]], c))

MethodAddress(t, m) ==
    Append(ContainerAddress(t, t.parent[m]), NameIn(t.methods[t.parent[m]], m))

RECURSIVE GetMethodList(_, _)
GetMethodList(t, c) ==
    LET AddressOf(entry) ==
            IF entry.alias THEN Append(ContainerAddress(t, c), entry.name)
            ELSE MethodAddress(t, entry.node)
        Of(entry) == IF entry.alias THEN <<>> ELSE GetMethodList(t, entry.node)
        methods == Reverse(t.methods[c])
        containers == Reverse(t.containers[c])
    IN  [i \in DOMAIN methods |-> AddressOf(methods[i])]
            \o FlattenSeq([i \in DOMAIN containers |-> Of(containers[i])])

\* FindContainer compares the name of an inner node with the next segment of the address and the
\* slash behind it, which is in no name.
NameEqualsUpToSlash(name, segment) == FALSE

NoContainer == "NULL"
RECURSIVE FindContainer(_, _, _)
FindContainer(t, c, address) ==
    LET entries == t.containers[c]
        Leaves == {i \in DOMAIN entries : entries[i].name = address[1]}
        Inner == {i \in DOMAIN entries :
                    /\ NameEqualsUpToSlash(entries[i].name, address[1])
                    /\ FindContainer(t, entries[i].node, Tail(address)) # NoContainer}
    IN  IF address = <<>> THEN c
        ELSE IF Len(address) = 1 THEN
            IF Leaves = {} THEN NoContainer
            ELSE entries[CHOOSE i \in Leaves : \A j \in Leaves : j <= i].node
        ELSE IF Inner = {} THEN NoContainer
        ELSE FindContainer(t, entries[CHOOSE i \in Inner : \A j \in Inner : j <= i].node, Tail(address))

-----------------------------------------------------------------------------
Next ==
    /\ tree.broken = "no"
    /\ \/ NewRoot \/ RemoveAll
       \/ \E c, parent \in Containers, name \in Names :
            NewContainer(c, parent, name) \/ AddContainerAlias(c, parent, name)
       \/ \E m \in Methods, parent \in Containers, name \in Names :
            NewMethod(m, parent, name) \/ AddMethodAlias(m, parent, name)
       \/ \E c \in Containers, name \in Names : RemoveContainer(c, name) \/ RemoveMethod(c, name)
       \/ \E address \in Addresses : Dispatch(address)

Spec == Init /\ [][Next]_vars

-----------------------------------------------------------------------------
Entries == [node : Containers \cup Methods, name : Names, alias : BOOLEAN]
LiveContainers == {c \in Containers : Live(tree, c)}
LiveMethods == {m \in Methods : Live(tree, m)}
Defined == tree.broken = "no"

TypeOK ==
    /\ tree.object \in [Containers \cup Methods -> {"none", "live", "deleted"}]
    /\ tree.parent \in [Containers \cup Methods -> Containers]
    /\ \A c \in Containers :
        /\ \A i \in DOMAIN tree.containers[c] : tree.containers[c][i] \in Entries
        /\ \A i \in DOMAIN tree.methods[c] : tree.methods[c][i] \in Entries
    /\ tree.broken \in {"no", "deleted", "endless", "erase", "dispatch"}

\* Every container but the root, and every method, is entered exactly once as its own, by its
\* parent, which exists: whatever is removed is removed with all that is below it, and the
\* destruction of the root leaves nothing behind ("Deletes - when starting from root - all
\* children (containers and methods) recursivly", WOscContainer.cpp:125).
OneParent ==
    Defined =>
        /\ \A c \in LiveContainers \ {Root} :
            /\ Live(tree, tree.parent[c])
            /\ Cardinality({<<p, i>> \in LiveContainers \X (1 .. Cardinality(Containers) + MaxAliases) :
                    /\ i \in DOMAIN tree.containers[p]
                    /\ tree.containers[p][i].node = c /\ ~tree.containers[p][i].alias}) = 1
        /\ \A m \in LiveMethods :
            /\ Live(tree, tree.parent[m])
            /\ Cardinality({<<p, i>> \in LiveContainers \X (1 .. Cardinality(Methods) + MaxAliases) :
                    /\ i \in DOMAIN tree.methods[p]
                    /\ tree.methods[p][i].node = m /\ ~tree.methods[p][i].alias}) = 1

\* The ways through the tree on which every entry matches its part of an address.
Ways(address) ==
    LET Steps(way, entries, names) ==
            {<<entries[i].node, Append(way[2], i)>> : i \in {k \in DOMAIN entries : entries[k].name \in names}}
        Further(ways, names) == UNION {Steps(way, tree.containers[way[1]], names) : way \in ways}
        Inner == FoldLeft(Further, {<<Root, <<>>>>}, Front(address))
    IN  UNION {Steps(way, tree.methods[way[1]], Last(address)) : way \in Inner}

\* A message invokes every method once for every way that its address pattern matches, by names
\* and by aliases, and no other method, unless a way leads to what was deleted.
DispatchIsComplete ==
    Defined /\ Live(tree, Root) =>
        \A address \in Addresses :
            LET callbacks == DispatchSubMessage(tree, Root, address)
                ways == Ways(address)
            IN  callbacks.defined =>
                    /\ Len(callbacks.list) = Cardinality(ways)
                    /\ \A m \in Methods :
                        Cardinality({i \in DOMAIN callbacks.list : callbacks.list[i] = m})
                            = Cardinality({way \in ways : way[1] = m})

Exactly(names) == [i \in DOMAIN names |-> {names[i]}]

\* "The address-space contains only addresses with valid leaves (OSC-methods)"
\* (WOscMethod.cpp:179): a message to an address that is listed reaches a method, or the method
\* has been deleted; and the addresses of all methods are listed and reach them.
AddressSpaceIsValid ==
    Defined /\ Live(tree, Root) =>
        LET list == GetMethodList(tree, Root) IN
        /\ \A i \in DOMAIN list :
            LET callbacks == DispatchSubMessage(tree, Root, Exactly(list[i]))
            IN  callbacks.defined => callbacks.list # <<>>
        /\ \A m \in LiveMethods :
            LET callbacks == DispatchSubMessage(tree, Root, Exactly(MethodAddress(tree, m)))
            IN  /\ MethodAddress(tree, m) \in ToSet(list)
                /\ callbacks.defined => m \in ToSet(callbacks.list)

\* A container is erased from its parent's list at the index at which it was found, after its
\* destructor has removed aliases from all lists, that one too: the entry at the index is still
\* the one that was found, since aliases of what is below a container are entered after it.
ErasesWhatItFound == tree.broken # "erase"

\* WOscContainer.cpp:162 says of RemoveAll "Public function for deletion of a whole
\* container-/method-tree": it does not enter a container that it has deleted before.
DestructionIsDefined == tree.broken # "deleted"

\* WOscContainer.cpp:184 says that an alias is refused "When the parent pointer is this container
\* itself" (ERR_RECURSIVE_ALIAS): no search follows the aliases in a circle.
SearchesEnd == tree.broken # "endless"

\* WOscContainer.cpp:304 says of RemoveContainer "Removes child container or container alias by
\* name", and the destructor removes the aliases of what it deletes (line 135): no entry that is
\* left refers to something that is deleted.
AliasesAreAlive ==
    Defined =>
        \A c \in LiveContainers :
            /\ \A i \in DOMAIN tree.containers[c] : Live(tree, tree.containers[c][i].node)
            /\ \A i \in DOMAIN tree.methods[c] : Live(tree, tree.methods[c][i].node)

\* WOscContainer.cpp:257 says "Tries to find a certain container by its OSC-address": a search for
\* the address of a container finds a container.
FindsByAddress ==
    Defined => \A c \in LiveContainers :
        FindContainer(tree, Root, ContainerAddress(tree, c)) # NoContainer

=============================================================================

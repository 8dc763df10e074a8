------------------------------ MODULE OscBundle ------------------------------
(***************************************************************************)
(* Objects of WOscBundle (WOscBundle.cpp) and the parser of the receiver   *)
(* (WOscBundleParser, WOscBundle.h).  A bundle refers to messages and to   *)
(* other bundles, which it owns until they are taken out again.  Its binary *)
(* representation, and theirs, is generated anew for every GetBuffer and   *)
(* not read by anything else: it is an operator here.                      *)
(***************************************************************************)
EXTENDS OscString, FiniteSets, SequencesExt

CONSTANTS
    Bundles, Messages,
    TimeTags,
    MaxWords            \* bound on the size of a message, in words

ElementsAssumption ==
    IsFiniteSet(Bundles) /\ IsFiniteSet(Messages) /\ Bundles \cap Messages = {}

Elements == Bundles \cup Messages
BundleTag == <<35, 98, 117, 110, 100, 108, 101, 0>>
HeaderSize == 16
SizeSize == 4

VARIABLES
    object,             \* "none", "live" or "deleted"
    held,               \* the elements that the application has to keep track of
    messages, bundles,  \* the elements of every bundle, in the order of its two arrays
    timeTag,
    words,              \* the size of every message
    twice               \* elements that were deleted when they had been deleted before

vars == <<object, held, messages, bundles, timeTag, words, twice>>

Init ==
    /\ object = [e \in Elements |-> "none"] /\ held = {}
    /\ messages = [b \in Bundles |-> <<>>] /\ bundles = [b \in Bundles |-> <<>>]
    /\ timeTag = [b \in Bundles |-> 1]
    /\ words = [m \in Messages |-> 0] /\ twice = {}

(***************************************************************************)
(* The representation                                                      *)
(***************************************************************************)
\* GetBufferLen
GetBufferLen(b) ==
    LET Of[c \in Bundles] ==
            HeaderSize
                + FoldLeft(LAMBDA n, m : n + SizeSize + 4 * words[m], 0, messages[c])
                + FoldLeft(LAMBDA n, d : n + SizeSize + Of[d], 0, bundles[c])
    IN  Of[b]

\* The buffer of a message, which tells whose it is.
MessageBytes(m) == FlattenSeq([i \in 1 .. words[m] |-> <<47, 97, words[m], 0>>])

WithSize(data) == Word(Len(data)) \o data

WriteToCharArray(tag) == Word(0) \o Word(tag)

\* GenerateBufferFromElements: first the messages, then the bundles.
Representation(tag) == BundleTag \o WriteToCharArray(tag)

GeneratedBundlesFirst(b) ==
    LET Of[c \in Bundles] ==
            Representation(timeTag[c])
                \o FlattenSeq([i \in DOMAIN bundles[c] |-> WithSize(Of[bundles[c][i]])])
                \o FlattenSeq([i \in DOMAIN messages[c] |-> WithSize(MessageBytes(messages[c][i]))])
    IN  Of[b]

Generated(b) ==
    LET Of[c \in Bundles] ==
            Representation(timeTag[c])
                \o FlattenSeq([i \in DOMAIN messages[c] |-> WithSize(MessageBytes(messages[c][i]))])
                \o FlattenSeq([i \in DOMAIN bundles[c] |-> WithSize(Of[bundles[c][i]])])
    IN  Of[b]

Within(b) ==
    LET Of[c \in Bundles] == {c} \cup ToSet(messages[c]) \cup UNION {Of[d] : d \in ToSet(bundles[c])}
    IN  Of[b]

(***************************************************************************)
(* Operations of the application                                           *)
(***************************************************************************)
NewMessage(m) ==
    /\ object[m] = "none"
    /\ object' = [object EXCEPT ![m] = "live"] /\ held' = held \cup {m}
    /\ words' = [words EXCEPT ![m] = 1]
    /\ UNCHANGED <<messages, bundles, timeTag, twice>>

NewBundle(b, tag) ==
    /\ object[b] = "none"
    /\ object' = [object EXCEPT ![b] = "live"] /\ held' = held \cup {b}
    /\ timeTag' = [timeTag EXCEPT ![b] = tag]
    /\ UNCHANGED <<messages, bundles, words, twice>>

\* The application adds an argument to a message, in a bundle or not.
AddArgument(m) ==
    /\ object[m] = "live" /\ words[m] < MaxWords
    /\ words' = [words EXCEPT ![m] = @ + 1]
    /\ UNCHANGED <<object, held, messages, bundles, timeTag, twice>>

\* What is added is the application's own; a bundle does not become a part of itself.
AddMessage(b, m) ==
    /\ object[b] = "live" /\ m \in held
    /\ messages' = [messages EXCEPT ![b] = Append(@, m)]
    /\ held' = held \ {m}
    /\ UNCHANGED <<object, bundles, timeTag, words, twice>>

AddBundle(b, c) ==
    /\ object[b] = "live" /\ c \in held /\ b \notin Within(c)
    /\ bundles' = [bundles EXCEPT ![b] = Append(@, c)]
    /\ held' = held \ {c}
    /\ UNCHANGED <<object, messages, timeTag, words, twice>>

\* RemoveMessage and RemoveBundle; an array that becomes empty is kept.
WithoutLast(elements, i) == Front(elements)
Without(elements, i) == RemoveAt(elements, i)

GetMessage(b, i) ==
    /\ object[b] = "live" /\ i \in DOMAIN messages[b]
    /\ held' = held \cup {messages[b][i]}
    /\ messages' = [messages EXCEPT ![b] = Without(@, i)]
    /\ UNCHANGED <<object, bundles, timeTag, words, twice>>

GetBundle(b, i) ==
    /\ object[b] = "live" /\ i \in DOMAIN bundles[b]
    /\ held' = held \cup {bundles[b][i]}
    /\ bundles' = [bundles EXCEPT ![b] = Without(@, i)]
    /\ UNCHANGED <<object, messages, timeTag, words, twice>>

\* The destructors of everything a bundle refers to.
Deleted(elements) ==
    /\ object' = [e \in Elements |-> IF e \in elements THEN "deleted" ELSE object[e]]
    /\ twice' = twice \cup {e \in elements : object[e] = "deleted"}

Reset(b) ==
    /\ object[b] = "live"
    /\ Deleted(Within(b) \ {b})
    /\ messages' = [messages EXCEPT ![b] = <<>>] /\ bundles' = [bundles EXCEPT ![b] = <<>>]
    /\ UNCHANGED <<held, timeTag, words>>

\* The application deletes a bundle or a message of its own.
Delete(e) ==
    /\ e \in held
    /\ held' = held \ {e}
    /\ Deleted(IF e \in Bundles THEN Within(e) ELSE {e})
    /\ UNCHANGED <<messages, bundles, timeTag, words>>

Next ==
    \/ \E m \in Messages : NewMessage(m) \/ AddArgument(m)
    \/ \E b \in Bundles :
        \/ \E tag \in TimeTags : NewBundle(b, tag)
        \/ \E m \in Messages : AddMessage(b, m)
        \/ \E c \in Bundles : AddBundle(b, c)
        \/ \E i \in 1 .. Cardinality(Elements) : GetMessage(b, i) \/ GetBundle(b, i)
        \/ Reset(b)
    \/ \E e \in Elements : Delete(e)

Spec == Init /\ [][Next]_vars

(***************************************************************************)
(* WOscBundleParser                                                        *)
(***************************************************************************)
\* The items of a packet, as GetNextItem returns them; the last one names the end.
ItemsOf(data) ==
    LET From[offset \in Nat] ==
            IF offset + SizeSize < Len(data) - HeaderSize THEN
                LET length == ToInt(data, HeaderSize + offset + 1)
                    first == HeaderSize + offset + SizeSize + 1
                IN  <<SubSeq(data, first, first + length - 1)>> \o From[offset + length + SizeSize]
            ELSE <<offset>>
    IN  From[0]

\* Parse: empty bundles are refused, and so is a layout that does not end with the packet.
Parses(data) ==
    /\ Len(data) > HeaderSize
    /\ SubSeq(data, 1, 8) = BundleTag
    /\ Last(ItemsOf(data)) = Len(data) - HeaderSize

GetTimeTag(data) == ToInt(data, 13)

-----------------------------------------------------------------------------
LiveBundles == {b \in Bundles : object[b] = "live"}

TypeOK ==
    /\ object \in [Elements -> {"none", "live", "deleted"}] /\ held \subseteq Elements
    /\ messages \in [Bundles -> Seq(Messages)] /\ bundles \in [Bundles -> Seq(Bundles)]
    /\ timeTag \in [Bundles -> TimeTags] /\ words \in [Messages -> 0 .. MaxWords]
    /\ twice \subseteq Elements

Places(e) ==
    {<<b, i>> \in LiveBundles \X (1 .. Cardinality(Elements)) :
        \/ i \in DOMAIN messages[b] /\ messages[b][i] = e
        \/ i \in DOMAIN bundles[b] /\ bundles[b][i] = e}

\* Every message and every bundle that exists is either the application's or at one place in one
\* bundle that exists, however elements were added, taken out, and bundles reset and deleted:
\* "Messages which were removed with this interface will not deleted by the bundles destructor.
\* The caller must keep track of them" (WOscBundle.cpp:269), and the destructor "Cleans up all
\* messages and bundles which have not been removed" (line 67).  So nothing leaks, no bundle
\* refers to what is deleted, and nothing is deleted twice.
OneOwner ==
    /\ twice = {}
    /\ \A e \in Elements :
        IF object[e] = "live" THEN (e \in held) # (Cardinality(Places(e)) = 1)
                                   /\ Cardinality(Places(e)) <= 1
        ELSE e \notin held /\ Places(e) = {}

\* The length that is computed first, and with which the buffer is allocated, is the length of
\* what is then written into it, for bundles in bundles too; the application sends GetBuffer()
\* with GetBufferLen().
LengthsAgree == \A b \in LiveBundles : Len(Generated(b)) = GetBufferLen(b)

\* What a receiver parses is what was added: the time tag, and as items the messages in the order
\* in which they stand in the bundle and then the representations of the inner bundles, unless
\* the bundle is empty, which the parser refuses.
ParserReadsElements ==
    \A b \in LiveBundles :
        LET data == Generated(b) IN
            IF messages[b] \o bundles[b] = <<>> THEN ~Parses(data)
            ELSE /\ Parses(data)
                 /\ GetTimeTag(data) = timeTag[b]
                 /\ Front(ItemsOf(data)) =
                        [i \in DOMAIN messages[b] |-> MessageBytes(messages[b][i])]
                            \o [i \in DOMAIN bundles[b] |-> Generated(bundles[b][i])]

=============================================================================

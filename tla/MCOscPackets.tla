---------------------------- MODULE MCOscPackets ----------------------------
(***************************************************************************)
(* What OSC packets are made of: objects of WOscString, of WOscMessage, of *)
(* WOscBundle, or of WOscTimeTag.  No class keeps state of another one, so *)
(* every behaviour is about the objects of one class.                      *)
(***************************************************************************)
EXTENDS OscString, FiniteSets, SequencesExt

CONSTANTS
    Classes,                                                    \* the classes that are modelled
    Objects, Texts, Characters, MaxLength,                      \* of OscStrings
    Messages, Addresses, Floats, Ints, Strings, Blobs, Foreign, MaxArguments,   \* of OscMessage
    Bundles, BundledMessages, TimeTags, MaxWords,               \* of OscBundle
    WordSize, LongMax, From1900To1970, MaxSeconds             \* of TimeTag

VARIABLES
    class,
    content, freed, texts,
    message, merged, undefined, expected,
    object, held, messages, bundles, timeTag, words, twice,
    seconds, tag, last, crashed

stringState == <<content, freed, texts>>
messageState == <<message, merged, undefined, expected>>
bundleState == <<object, held, messages, bundles, timeTag, words, twice>>
timeState == <<seconds, tag, last, crashed>>

StringObjects == INSTANCE OscStrings WITH undefined <- freed, expected <- texts
MessageObjects == INSTANCE OscMessage
BundleObjects == INSTANCE OscBundle WITH Messages <- BundledMessages
TimeTagObject == INSTANCE TimeTag

ASSUME ClassAssumptions == BundleObjects!ElementsAssumption /\ TimeTagObject!WordAssumption

-----------------------------------------------------------------------------
\* Two strings grow past the first four bytes.
MCTexts == {<<>>, <<97>>, <<97, 98, 97>>, <<98, 97, 98, 97>>}
MCCharacters == {0, 97}

\* Three arguments of two messages: the type tag of a message with all of them grows into a
\* second word.  The strings and the blobs include empty ones and some that fill a word.
MCAddresses == {<<47, 97, 98, 99>>}
MCFloats == {1069547520}
MCInts == {-2}
MCStrings == {<<>>, <<98, 98, 98, 98>>}
MCBlobs == {<<>>, <<0, 105, 0, 0, 7>>}

\* A packet without a type tag; one whose second argument, a time tag, is of a type that the
\* constructor does not know; and one whose type tag is the empty string.
MCForeign == {
    [buffer |-> OscString(<<47, 97>>), address |-> <<47, 97>>, arguments |-> <<>>],
    [buffer |-> OscString(<<47, 97>>) \o OscString(<<44, 105, 116, 105>>) \o Word(3) \o Word(0)
                    \o Word(1) \o Word(4),
     address |-> <<47, 97>>, arguments |-> <<[kind |-> "int", value |-> 3]>>],
    [buffer |-> OscString(<<47>>) \o OscString(<<>>), address |-> <<47>>, arguments |-> <<>>]}

TwoWords == WordSize * WordSize - 1

\* No value of a behaviour names an object but as the key of its state.
ObjectSymmetry == Permutations(Messages) \cup Permutations(BundledMessages) \cup Permutations(Bundles)

-----------------------------------------------------------------------------
Init ==
    /\ class \in Classes
    /\ StringObjects!Init /\ MessageObjects!Init /\ BundleObjects!Init /\ TimeTagObject!Init

Next ==
    \/ class = "string" /\ StringObjects!Next /\ UNCHANGED <<class, messageState, bundleState, timeState>>
    \/ class = "message" /\ MessageObjects!Next /\ UNCHANGED <<class, stringState, bundleState, timeState>>
    \/ class = "bundle" /\ BundleObjects!Next /\ UNCHANGED <<class, stringState, messageState, timeState>>
    \/ class = "time tag" /\ TimeTagObject!Next /\ UNCHANGED <<class, stringState, messageState, bundleState>>

Spec == Init /\ [][Next]_<<class, stringState, messageState, bundleState, timeState>>

\* What is written can be read.  Strings are padded with zeros up to the next multiple of four
\* (TextAndPadding); the representation of a message parses to a message that is equal in every
\* member (BufferRoundTrip, with the exceptions of ContentsKept) and whose parts have sizes that
\* are multiples of four; that of a bundle has the length that is sent and parses to what was
\* added (ParserReadsElements).
RepresentationsParse ==
    CASE class = "string" -> StringObjects!TypeOK /\ StringObjects!TextAndPadding
      [] class = "message" -> MessageObjects!BufferRoundTrip /\ MessageObjects!SizesAreMultiplesOfFour
      [] class = "bundle" -> BundleObjects!LengthsAgree /\ BundleObjects!ParserReadsElements
      [] class = "time tag" -> TRUE

\* What was put into an object stays in it, and in it alone, whatever is added, copied, taken out
\* and destroyed: the arguments of a message in their order (WOscMessage.cpp:484), the elements of
\* a bundle (WOscBundle.cpp:269), seconds and fractions of a time (WOscTimeTag.h:64).  Nothing is
\* said of a message that was assigned to itself (WOscMessage.cpp:249) or that got a blob behind
\* its array (:622).
ContentsKept ==
    CASE class = "string" -> TRUE
      [] class = "message" -> MessageObjects!TypeOK /\ MessageObjects!ArgumentsInOrder
      [] class = "bundle" -> BundleObjects!TypeOK /\ BundleObjects!OneOwner
      [] class = "time tag" -> TimeTagObject!TypeOK /\ TimeTagObject!FractionsCarry
=============================================================================

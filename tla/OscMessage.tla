----------------------------- MODULE OscMessage -----------------------------
(***************************************************************************)
(* Objects of WOscMessage (WOscMessage.cpp): an address, a type tag, an    *)
(* array per type of argument and the binary representation, which every   *)
(* operation generates anew.  A float is its bit pattern.  Parsing is the  *)
(* constructor from binary data.  What was added to an object, in order,   *)
(* is kept aside.                                                          *)
(***************************************************************************)
EXTENDS OscString, SequencesExt

CONSTANTS
    Messages,
    Addresses,          \* texts that begin with a slash
    Floats, Ints, Strings, Blobs,       \* the arguments the application adds
    Foreign,            \* packets of other programs, with what they say
    MaxArguments        \* bound on the arguments of all objects together

Comma == 44
TagOf == [float |-> 102, int |-> 105, string |-> 115, blob |-> 98]
Kinds == DOMAIN TagOf
EmptyTypeTag == OscString(<<Comma>>)

VARIABLES
    message,            \* the objects
    merged,             \* <<m, n>> if the last operation was m += n, otherwise <<>>
    undefined,          \* "no", or what has been accessed outside of its bounds or copied onto itself
    expected            \* the address and the arguments every object should have

vars == <<message, merged, undefined, expected>>

Nothing == [exists |-> FALSE]

Init ==
    /\ message = [m \in Messages |-> Nothing]
    /\ merged = <<>> /\ undefined = "no"
    /\ expected = [m \in Messages |-> Nothing]

(***************************************************************************)
(* GenerateBufferFromMembers                                               *)
(***************************************************************************)
\* The arguments that a type tag names: up to the first character that is none of the tags.
ArgumentTags(typeTag) ==
    LET Tags == {TagOf[kind] : kind \in Kinds}
        text == Text(typeTag)
        Known == {n \in 0 .. Len(text) : \A i \in 1 .. n : text[i] \in Tags \cup {Comma}}
        known == CHOOSE n \in Known : \A k \in Known : k <= n
    IN  SelectSeq(SubSeq(text, 1, known), LAMBDA tag : tag # Comma)

KindOf(tag) == CHOOSE kind \in Kinds : TagOf[kind] = tag

\* The arguments in the order of the type tag: idx_i, idx_f, idx_s and idx_b count each type.
Argument(msg, tags, k) ==
    LET Same == {i \in 1 .. k : tags[i] = tags[k]}
        kind == KindOf(tags[k])
    IN  [kind |-> kind, value |-> msg.arguments[kind][Cardinality(Same)]]

Encoded(argument) ==
    IF argument.kind \in {"float", "int"} THEN Word(argument.value) ELSE argument.value

Generated(msg) ==
    LET tags == ArgumentTags(msg.typeTag)
        data == [k \in 1 .. Len(tags) |-> Encoded(Argument(msg, tags, k))]
    IN  [msg EXCEPT !.buffer = msg.address \o msg.typeTag \o FlattenSeq(data)]

(***************************************************************************)
(* Constructors and the functions Add                                      *)
(***************************************************************************)
Empty(address) ==
    [exists |-> TRUE, address |-> address, typeTag |-> EmptyTypeTag,
     arguments |-> [kind \in Kinds |-> <<>>], blobsFit |-> TRUE, buffer |-> <<>>]

WOscMessage(text) == Generated(Empty(OscString(text)))

\* Add(WOscBlob*) allocates the new array of blobs with as many elements as there are strings,
\* unless there is no array yet.
BlobsFitIn(msg) ==
    LET blobs == Len(msg.arguments.blob) IN blobs = 0 \/ blobs + 1 <= Len(msg.arguments.string)

WithArgument(msg, kind, value) ==
    [msg EXCEPT !.typeTag = Concatenation(@, OscString(<<TagOf[kind]>>)),
                !.arguments[kind] = @ \o <<value>>,
                !.blobsFit = @ /\ (kind = "blob" => BlobsFitIn(msg))]

\* The value of an argument at a place in a packet, and its size there.
ValueAt(kind, buffer, pos) ==
    CASE kind = "string" -> OscString(SubSeq(buffer, pos, pos + StrLen(buffer, pos) - 1))
      [] kind = "blob" -> OscBlobAt(buffer, pos)
      [] OTHER -> ToInt(buffer, pos)

SizeOf(kind, value) == IF kind \in {"string", "blob"} THEN Len(value) ELSE 4

\* The constructor from binary data; pos is the offset of the next argument.
Parsed(buffer) ==
    LET address == OscString(SubSeq(buffer, 1, StrLen(buffer, 1)))
        tagPos == Len(address) + 1
        typeTag == OscString(SubSeq(buffer, tagPos, tagPos + StrLen(buffer, tagPos) - 1))
        Step(state, tag) ==
            LET kind == KindOf(tag)
                value == ValueAt(kind, buffer, state.pos)
            IN  [msg |-> WithArgument(state.msg, kind, value),
                 pos |-> state.pos + SizeOf(kind, value)]
        start == [msg |-> Empty(address), pos |-> tagPos + Len(typeTag)]
    IN  IF Len(buffer) < tagPos THEN Generated(Empty(address))
        ELSE Generated(FoldLeft(Step, start, ArgumentTags(typeTag)).msg)

(***************************************************************************)
(* Operations                                                              *)
(***************************************************************************)
Total == FoldSet(LAMBDA m, n : n + IF expected[m].exists THEN Len(expected[m].arguments) ELSE 0,
                 0, Messages)

ExpectedOf(address, arguments) ==
    [exists |-> TRUE, address |-> address, arguments |-> arguments]

\* Writing behind the array of blobs is undefined, and so is what follows.
Becomes(m, msg, arguments) ==
    /\ message' = [message EXCEPT ![m] = msg]
    /\ expected' = [expected EXCEPT ![m] = arguments]
    /\ undefined' = IF msg.exists /\ ~msg.blobsFit THEN "blobs" ELSE "no"
    /\ merged' = <<>>

Construct(m, text) ==
    /\ ~message[m].exists
    /\ Becomes(m, WOscMessage(text), ExpectedOf(text, <<>>))

\* A value is passed as the application has it; the message keeps its encoding.
EncodedValue(kind, value) ==
    CASE kind = "string" -> OscString(value) [] kind = "blob" -> OscBlob(value) [] OTHER -> value

Add(m, kind, value) ==
    /\ message[m].exists /\ Total < MaxArguments
    /\ Becomes(m, Generated(WithArgument(message[m], kind, EncodedValue(kind, value))),
               [expected[m] EXCEPT !.arguments = Append(@, [kind |-> kind, value |-> value])])

\* n receives what m sends.
Transmit(m, n) ==
    /\ message[m].exists /\ ~message[n].exists
    /\ Total + Len(expected[m].arguments) <= MaxArguments
    /\ Becomes(n, Parsed(message[m].buffer), expected[m])

Receive(m, packet) ==
    /\ ~message[m].exists
    /\ Total + Len(packet.arguments) <= MaxArguments
    /\ Becomes(m, Parsed(packet.buffer), ExpectedOf(packet.address, packet.arguments))

\* Copy, which the copy constructors and operator= call.
Copy(msg) == msg
Assign(m, n) ==
    /\ m # n /\ message[n].exists
    /\ Total + Len(expected[n].arguments) <= MaxArguments
    /\ Becomes(m, Copy(message[n]), expected[n])

\* m = m: Copy has no check for it.  The strings free what they then copy from, and the arrays,
\* the blobs and the representation are copied from the new memory onto itself.
AssignSelf(m) ==
    /\ message[m].exists
    /\ undefined' = "self" /\ merged' = <<>>
    /\ UNCHANGED <<message, expected>>

\* operator+=: there is nothing but a comment in it.
Merge(m, n) ==
    /\ message[m].exists /\ message[n].exists
    /\ merged' = <<m, n>>
    /\ UNCHANGED <<message, undefined, expected>>

\* operator+: the sum is an object of its own.
Sum(m, n, sum) ==
    /\ message[m].exists /\ message[n].exists /\ ~message[sum].exists
    /\ Total + Len(expected[m].arguments) <= MaxArguments
    /\ Becomes(sum, Copy(message[m]), expected[m])

Destroy(m) ==
    /\ message[m].exists
    /\ Becomes(m, Nothing, Nothing)

\* GetFloat, GetInt, GetString and GetBlob; idx counts from zero.
Throws(m, kind, idx) == idx > Len(message[m].arguments[kind])
Get(m, kind, idx) ==
    /\ message[m].exists
    /\ ~Throws(m, kind, idx)
    /\ undefined' = IF idx < Len(message[m].arguments[kind]) THEN "no" ELSE "index"
    /\ UNCHANGED <<message, merged, expected>>

Values(kind) ==
    CASE kind = "float" -> Floats [] kind = "int" -> Ints
      [] kind = "string" -> Strings [] kind = "blob" -> Blobs

Next ==
    /\ undefined = "no"
    /\ \E m \in Messages :
        \/ \E text \in Addresses : Construct(m, text)
        \/ \E kind \in Kinds : \E value \in Values(kind) : Add(m, kind, value)
        \/ \E packet \in Foreign : Receive(m, packet)
        \/ \E n \in Messages : Transmit(m, n) \/ Assign(m, n) \/ Merge(m, n)
        \/ \E n, sum \in Messages : Sum(m, n, sum)
        \/ AssignSelf(m) \/ Destroy(m)
        \/ \E kind \in Kinds, idx \in 0 .. MaxArguments : Get(m, kind, idx)

Spec == Init /\ [][Next]_vars

-----------------------------------------------------------------------------
Living == {m \in Messages : message[m].exists}

TypeOK ==
    /\ \A m \in Living :
        /\ message[m].buffer \in Seq(Bytes)
        /\ Text(message[m].address) \in Seq(Bytes) /\ message[m].typeTag[1] = Comma
        /\ \A kind \in Kinds : \A i \in DOMAIN message[m].arguments[kind] :
            message[m].arguments[kind][i] \in IF kind \in {"string", "blob"} THEN Seq(Bytes) ELSE Int
    /\ \A m \in Messages : expected[m].exists = message[m].exists
    /\ merged \in {<<>>} \cup (Messages \X Messages)
    /\ undefined \in {"no", "blobs", "index", "self"}

Plain(argument) ==
    [argument EXCEPT !.value =
        CASE argument.kind = "string" -> Text(@) [] argument.kind = "blob" -> Data(@) [] OTHER -> @]

ArgumentsOf(msg) ==
    LET tags == ArgumentTags(msg.typeTag) IN [k \in 1 .. Len(tags) |-> Plain(Argument(msg, tags, k))]

\* "Because the typetags are appended to the end of the typetag, the order of the arguments can be
\* reconstructed always" (WOscMessage.cpp:484): whatever was added, sent, received and copied, the
\* type tag and the arrays of the four types together give back the address and the arguments of
\* every message in the order in which they were added, also after the message it was copied from
\* has changed; until a message is assigned to itself or a blob is written behind the array.
ArgumentsInOrder ==
    undefined \notin {"blobs", "self"} =>
        \A m \in Living :
            /\ Text(message[m].address) = expected[m].address
            /\ ArgumentsOf(message[m]) = expected[m].arguments

\* The binary representation is always the one of the current arguments: the receiver who parses
\* it gets a message that is equal in every member, and whose own representation is the same.
BufferRoundTrip ==
    undefined \notin {"blobs", "self"} => \A m \in Living : Parsed(message[m].buffer) = message[m]

\* Every argument of a message begins at a multiple of four ("Sizes in OSC are always a multiple
\* of 4", WOscMessage.cpp:374), and so does what follows it in a bundle.
SizesAreMultiplesOfFour ==
    \A m \in Living :
        /\ \A s \in {message[m].address, message[m].typeTag, message[m].buffer} : Len(s) % 4 = 0
        /\ \A kind \in {"string", "blob"} : \A i \in DOMAIN message[m].arguments[kind] :
            Len(message[m].arguments[kind][i]) % 4 = 0

\* WOscMessage.h:50 says "Osc arguments can be added by using the add function": adding a blob
\* stays inside of the array that was allocated for the blobs.
BlobsStayInArray == undefined # "blobs"

\* WOscMessage.cpp:691 calls the access to an argument "an safe interface", and line 700 says that
\* it throws if the index "is bigger than the number": no index that it lets through is behind
\* the last argument.
IndexIsSafe == undefined # "index"

\* WOscMessage.cpp:240 says of operator= that it "Overwrites the content of a WOscMessage-object by
\* copying data from another, allready existing object": nothing is lost by an assignment.
AssignmentCopies == undefined # "self"

\* WOscMessage.cpp:254 says of operator+= "Merges the arguments of two messages": the left message
\* has its own arguments and then those of the right one.
MergesArguments ==
    [][\A m, n \in Messages :
        merged' = <<m, n>> =>
            ArgumentsOf(message'[m]) = ArgumentsOf(message[m]) \o ArgumentsOf(message[n])]_vars

=============================================================================

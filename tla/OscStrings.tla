----------------------------- MODULE OscStrings -----------------------------
(***************************************************************************)
(* Objects of WOscString on which the operators of the class work          *)
(* (WOscString.cpp).  The text that an object should hold is kept aside.   *)
(***************************************************************************)
EXTENDS OscString

CONSTANTS
    Objects,
    Texts,          \* the C strings that are passed to the operators
    Characters,     \* the characters that are: '\0' is one of them
    MaxLength       \* bound on the length of a text

VARIABLES
    content,        \* the buffer of every object
    undefined,      \* the objects whose buffer was read after it was freed
    expected        \* the text every object should hold

vars == <<content, undefined, expected>>

Holds(o, buffer, text) ==
    /\ Len(text) <= MaxLength
    /\ content' = [content EXCEPT ![o] = buffer]
    /\ expected' = [expected EXCEPT ![o] = text]
    /\ UNCHANGED undefined

Init ==
    /\ content = [o \in Objects |-> OscString(<<>>)]
    /\ undefined = {}
    /\ expected = [o \in Objects |-> <<>>]

AssignText(o, text) == Holds(o, OscString(text), text)

\* What C makes of a character: '\0' is the empty text.
CString(char) == IF char = 0 THEN <<>> ELSE <<char>>

\* operator=(char): the buffer is freed and its pointer cleared, so that += assigns.
AssignChar(o, char) == Holds(o, OscString(CString(char)), CString(char))

\* The copy constructor and operator=: the buffer is freed, and the right-hand one copied.
Copied(buffer) == buffer
Assign(o, p) == o # p /\ Holds(o, Copied(content[p]), expected[p])

\* The right-hand side is the object itself: what is copied is the new array, onto itself.
AssignSelf(o) ==
    /\ undefined' = undefined \cup {o}
    /\ UNCHANGED <<content, expected>>

AppendString(o, p) == Holds(o, Concatenation(content[o], content[p]), expected[o] \o expected[p])

AppendText(o, text) ==
    Holds(o, Concatenation(content[o], OscString(text)), expected[o] \o text)

AppendChar(o, char) ==
    Holds(o, Concatenation(content[o], OscString(CString(char))), expected[o] \o CString(char))

\* o = p + q: operator+ appends both to an empty string.
Plus(s, t) == Concatenation(Concatenation(OscString(<<>>), s), t)
AssignSum(o, p, q) == Holds(o, Copied(Plus(content[p], content[q])), expected[p] \o expected[q])

Next ==
    /\ undefined = {}
    /\ \E o \in Objects :
        \/ \E text \in Texts : AssignText(o, text) \/ AppendText(o, text)
        \/ \E char \in Characters : AssignChar(o, char) \/ AppendChar(o, char)
        \/ \E p \in Objects : Assign(o, p) \/ AppendString(o, p)
        \/ \E p, q \in Objects : AssignSum(o, p, q)
        \/ AssignSelf(o)

Spec == Init /\ [][Next]_vars

-----------------------------------------------------------------------------
TypeOK ==
    /\ content \in [Objects -> Seq(Bytes)]
    /\ undefined \subseteq Objects
    /\ expected \in [Objects -> Seq(Bytes \ {0})]

\* Whatever operators made an object, its buffer is the canonical one of the text it should hold:
\* the characters, at least one terminator, and zeros up to the next multiple of four and no
\* further, so that what is appended later continues the text and two objects with the same text
\* have the same size (operator+= computes the size from the texts, not from the buffers).
TextAndPadding ==
    \A o \in Objects \ undefined :
        /\ Len(content[o]) % 4 = 0
        /\ Len(content[o]) - Len(expected[o]) \in 1 .. 4
        /\ \A i \in DOMAIN content[o] :
            content[o][i] = IF i <= Len(expected[o]) THEN expected[o][i] ELSE 0

\* WOscString.cpp:125 says of operator= "Copies the right-hand object-reference into the left-hand
\* object": no assignment reads a buffer that it has freed before.
AssignmentCopies == undefined = {}

=============================================================================

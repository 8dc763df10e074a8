----------------------------- MODULE Components -----------------------------
(***************************************************************************)
(* What a segmenter promises, with no data structure in it: after every    *)
(* pixel it knows the partition of the pixels read so far into connected   *)
(* parts of one colour, two pixels being neighbours when they share an     *)
(* edge.  The pixels are numbered 1, 2, ... row after row.                 *)
(***************************************************************************)
EXTENDS Integers, Sequences, FiniteSets

CONSTANTS Colours, Width, Height

VARIABLES image, parts

Neighbours(p) ==
    (IF p % Width # 1 /\ Width > 1 THEN {p - 1} ELSE {}) \cup (IF p > Width THEN {p - Width} ELSE {})

Init == image = <<>> /\ parts = {}

\* The next pixel joins, and thereby unites, the parts of its colour that it touches.
AddPixel(c) ==
    LET p == Len(image) + 1
        joined == {b \in parts : \E n \in Neighbours(p) \cap b : image[n] = c}
    IN  /\ p <= Width * Height
        /\ image' = Append(image, c)
        /\ parts' = (parts \ joined) \cup {{p} \cup UNION joined}

NewImage ==
    /\ Len(image) = Width * Height
    /\ image' = <<>> /\ parts' = {}

Next == NewImage \/ \E c \in Colours : AddPixel(c)

Spec == Init /\ [][Next]_<<image, parts>>

\* Neighbouring pixels of one colour share a part, and a part has one colour.
PartsClosed ==
    /\ UNION parts = 1 .. Len(image)
    /\ \A b1, b2 \in parts : b1 = b2 \/ b1 \cap b2 = {}
    /\ \A p \in 1 .. Len(image) : \A n \in Neighbours(p) :
          (image[p] = image[n]) <=> \E b \in parts : {p, n} \subseteq b

\* A part cannot be split into two halves that do not touch.
PartsConnected ==
    \A b \in parts : \A half \in (SUBSET b) \ {{}, b} :
        \E p \in half, n \in b \ half : p \in Neighbours(n) \/ n \in Neighbours(p)
=============================================================================

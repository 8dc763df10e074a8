\* Two strings of up to eight characters, two messages with three arguments together, three bundles
\* and three messages of up to two words, and time tags with words of two bits.
CONSTANTS
    Classes = {"string", "message", "bundle", "time tag"}
    Objects = {s, t}
    Texts <- MCTexts
    Characters <- MCCharacters
    MaxLength = 8
    Messages = {m, n}
    Addresses <- MCAddresses
    Floats <- MCFloats
    Ints <- MCInts
    Strings <- MCStrings
    Blobs <- MCBlobs
    Foreign <- MCForeign
    MaxArguments = 3
    Bundles = {b1, b2, b3}
    BundledMessages = {m1, m2, m3}
    TimeTags = {1, 77}
    MaxWords = 2
    WordSize = 4
    LongMax <- TwoWords
    From1900To1970 = 2
    MaxSeconds = 1
SYMMETRY ObjectSymmetry
SPECIFICATION Spec
\* Nothing is defined after an access outside of an array; everything may have been deleted.
CHECK_DEADLOCK FALSE
INVARIANTS
    RepresentationsParse
    ContentsKept

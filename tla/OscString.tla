------------------------------ MODULE OscString ------------------------------
(***************************************************************************)
(* The encodings that OSC packets are made of (WOscString.cpp,             *)
(* WOscBlob.cpp, WOscUtil.cpp, WOscUtil.h).  A byte is a number; a text is *)
(* what a C string holds before its terminator; an OSC string is the       *)
(* buffer of a WOscString, whose length is m_bufferLen.                    *)
(***************************************************************************)
EXTENDS Integers, Sequences

Bytes == 0 .. 255

\* GetSizeFourByteAligned
Aligned(n) == n + ((4 - (n % 4)) % 4)

Zeros(n) == [i \in 1 .. n |-> 0]

\* strlen of the string that begins at position pos of a buffer
StrLen(buffer, pos) ==
    (CHOOSE i \in pos .. Len(buffer) :
        buffer[i] = 0 /\ \A j \in pos .. i - 1 : buffer[j] # 0) - pos

Text(s) == SubSeq(s, 1, StrLen(s, 1))

\* PadStringWithZeros, which the constructor and the assignment of a text call
OscString(text) == text \o Zeros(Aligned(Len(text) + 1) - Len(text))

\* operator+=
Concatenation(s, t) ==
    LET lenLhs == StrLen(s, 1)
        lenRhs == StrLen(t, 1)
    IN  SubSeq(s, 1, lenLhs) \o SubSeq(t, 1, lenRhs)
            \o Zeros(Aligned(lenRhs + lenLhs + 1) - lenLhs - lenRhs)

\* FillBufferWith<int>: the most significant byte comes first
Word(n) == <<(n \div 16777216) % 256, (n \div 65536) % 256, (n \div 256) % 256, n % 256>>

\* BufferTo<int>
ToInt(buffer, pos) ==
    LET high == buffer[pos] IN
        (IF high >= 128 THEN high - 256 ELSE high) * 16777216
            + buffer[pos + 1] * 65536 + buffer[pos + 2] * 256 + buffer[pos + 3]

(***************************************************************************)
(* WOscBlob: its buffer holds the length of the data, the data and zeros   *)
(***************************************************************************)
SizeOfBlobSize == 4

OscBlob(data) == Word(Len(data)) \o data \o Zeros(Aligned(Len(data)) - Len(data))

OscBlobAt(buffer, pos) ==
    SubSeq(buffer, pos, pos + Aligned(ToInt(buffer, pos)) + SizeOfBlobSize - 1)

DataLen(blob) == ToInt(blob, 1)
Data(blob) == SubSeq(blob, SizeOfBlobSize + 1, SizeOfBlobSize + DataLen(blob))

=============================================================================

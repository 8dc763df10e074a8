------------------------------ MODULE TimeTag ------------------------------
(***************************************************************************)
(* WOscTimeTag: a register of two words, seconds and fractions, with the   *)
(* operations that set it from the clock, compute with it and put it into  *)
(* a packet.                                                               *)
(***************************************************************************)
EXTENDS Integers, Sequences

CONSTANTS
    WordSize,         \* one more than the largest word (2^32)
    LongMax,          \* ULONG_MAX: of one word or of two, as the compiler has it
    From1900To1970,   \* seconds
    MaxSeconds        \* bound on the clock

WordAssumption ==
    /\ WordSize \in Nat \ {0, 1} /\ LongMax \in {WordSize - 1, WordSize * WordSize - 1}
    /\ From1900To1970 \in Nat /\ MaxSeconds \in Nat /\ From1900To1970 + MaxSeconds < WordSize

Tags == 0 .. WordSize * WordSize - 1
Wrap(n) == n % (WordSize * WordSize)

VARIABLES
    seconds,          \* since 1970: what time(NULL) returns
    tag,              \* m_timeTag
    last,             \* the last operation: its name, m_timeTag before it, its argument
    crashed

vars == <<seconds, tag, last, crashed>>

Init == seconds = 0 /\ tag = 1 /\ last = [op |-> "new", before |-> 1, rhs |-> 0] /\ crashed = FALSE

GetSystemTime == seconds + From1900To1970
ImmediateTime == 1
SmallestTimeTag == ImmediateTime
LargestTimeTag == LongMax

Tick ==
    /\ seconds < MaxSeconds /\ seconds' = seconds + 1
    /\ last' = [last EXCEPT !.op = "tick"]
    /\ UNCHANGED <<tag, crashed>>

Set(op, rhs, value) ==
    /\ ~crashed
    /\ last' = [op |-> op, before |-> tag, rhs |-> rhs]
    /\ tag' = value
    /\ UNCHANGED <<seconds, crashed>>

SetToCurrentTime == Set("current", 0, GetSystemTime)
SetToImmediateTime == Set("immediate", 0, ImmediateTime)
SetToLargestTimeTag == Set("largest", 0, LargestTimeTag)
SetToSmallestTimeTag == Set("smallest", 0, SmallestTimeTag)

\* Without an object for the system time, that object is called all the same.
SetToCurrentTimeOfNone ==
    /\ ~crashed /\ crashed' = TRUE
    /\ UNCHANGED <<seconds, tag, last>>

Plus(a, b) == Wrap(a + b)

Minus(a, b) == Wrap(a - b)

Assign(rhs) == Set("=", rhs, rhs)
\* m_timeTag =+ rhs.m_timeTag
AddAssign(rhs) == Set("+=", rhs, rhs)
SubtractAssign(rhs) == Set("-=", rhs, Minus(tag, rhs))
\* t = t + rhs
Add(rhs) == Set("+", rhs, Plus(tag, rhs))

Next ==
    \/ Tick
    \/ SetToCurrentTime \/ SetToCurrentTimeOfNone
    \/ SetToImmediateTime \/ SetToLargestTimeTag \/ SetToSmallestTimeTag
    \/ \E rhs \in Tags : Assign(rhs) \/ Add(rhs) \/ AddAssign(rhs) \/ SubtractAssign(rhs)

Spec == Init /\ [][Next]_vars

-----------------------------------------------------------------------------
TypeOK ==
    /\ seconds \in 0 .. MaxSeconds /\ tag \in Tags /\ crashed \in BOOLEAN
    /\ last.before \in Tags /\ last.rhs \in Tags

SecondsOf(t) == t \div WordSize
FractionOf(t) == t % WordSize

\* A sum of two times that fits carries whole seconds out of the fractions, one or none of them,
\* and a difference takes the same second back ("64 bit fixed point number", WOscTimeTag.h:64).
FractionsCarry ==
    LET carry == IF FractionOf(last.before) + FractionOf(last.rhs) >= WordSize THEN 1 ELSE 0
        borrow == IF FractionOf(last.before) < FractionOf(last.rhs) THEN 1 ELSE 0
    IN /\ (last.op = "+" /\ last.before + last.rhs \in Tags) =>
              SecondsOf(tag) = SecondsOf(last.before) + SecondsOf(last.rhs) + carry
       /\ (last.op = "-=" /\ last.before >= last.rhs) =>
              SecondsOf(tag) = SecondsOf(last.before) - SecondsOf(last.rhs) - borrow

\* "The first 32 bits specify the number of seconds since midnight on January 1, 1900"
\* (WOscTimeTag.cpp:64-65): so they do after SetToCurrentTime.
CurrentTimeIsInSeconds == last.op = "current" => SecondsOf(tag) = seconds + From1900To1970

\* "Returns the largest possible time-tag. I.e. all bits set to one." (WOscTimeTag.cpp:164-165)
LargestIsLargest == last.op = "largest" => \A t \in Tags : t <= tag

\* "Adds the right-hand time-tag to the left-hand time-tag, stores the result in the left-hand
\* time-tag and returns the result." (WOscTimeTag.cpp:277-279)
AddAssignAdds == last.op = "+=" => tag = Plus(last.before, last.rhs)

\* "If not specified, The system time gets initialized with the library default system time."
\* (WOscTimeTag.cpp:195-197)
DefaultSystemTime == ~crashed
=============================================================================

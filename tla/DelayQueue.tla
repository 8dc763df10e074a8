----------------------------- MODULE DelayQueue -----------------------------
(***************************************************************************)
(* What a receiver promises about bundles with a time tag: those that come *)
(* before their time wait, and are taken, once their time has passed, in   *)
(* the order of their tags and, for equal tags, of their arrival.          *)
(***************************************************************************)
EXTENDS Naturals

CONSTANTS Bundle        \* pairs of a number, in the order of arrival, and a tag

VARIABLES
    waiting,        \* the bundles that wait
    taken,          \* those that have been taken out
    time

vars == <<waiting, taken, time>>

Init == waiting = {} /\ taken = {} /\ time \in Nat

Before(a, b) == a[2] < b[2] \/ (a[2] = b[2] /\ a[1] < b[1])

Arrive(b) ==
    /\ time < b[2]
    /\ \A other \in waiting \cup taken : other[1] < b[1]
    /\ waiting' = waiting \cup {b}
    /\ UNCHANGED <<taken, time>>

Take(b) ==
    /\ b \in waiting /\ b[2] < time
    /\ \A other \in waiting \ {b} : Before(b, other)
    /\ waiting' = waiting \ {b} /\ taken' = taken \cup {b}
    /\ UNCHANGED time

Tick == time' = time + 1 /\ UNCHANGED <<waiting, taken>>

\* The receiver is deleted with all that still waits.
Drop == waiting' = {} /\ UNCHANGED <<taken, time>>

Next == \/ \E b \in Bundle : Arrive(b) \/ Take(b)
        \/ Tick
        \/ Drop

Spec == Init /\ [][Next]_vars
=============================================================================

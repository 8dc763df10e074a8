--------------------------- MODULE FiducialFinder ---------------------------
(***************************************************************************)
(* FiducialFinder (fiducials.cpp): what is remembered of every fiducial    *)
(* from frame to frame.  The raw fiducials of a frame are an input; how    *)
(* they are found is the subject of Tracking.  One coordinate stands for x *)
(* and y, which are treated alike; numbers are exact, a quotient is the    *)
(* pair of its operands, and a tuple without elements is NaN.              *)
(***************************************************************************)
EXTENDS Integers, FiniteSets, SequencesExt

CONSTANTS
    MaxFiducials,  \* MAX_FIDUCIALS
    Circle,        \* a full turn, in the units of angles
    ClocksPerSec,  \* CLOCKS_PER_SEC
    Ticks,         \* by how much clock() may have grown since the last frame
    RawFrames      \* what find_fiducialsX may find in a frame

ASSUME FinderAssumption ==
    /\ MaxFiducials \in Nat /\ Circle \in Nat /\ ClocksPerSec \in Nat /\ Ticks \subseteq Nat
    /\ RawFrames \subseteq Seq([id : Int, x : Int, a : 0 .. Circle - 1])
    /\ \A raw \in RawFrames : Len(raw) <= MaxFiducials

Ids == 0 .. MaxFiducials - 1

VARIABLES
    clock,             \* what clock() returned for this frame
    trackedFiducials,
    found,             \* the return value of findFiducials
    seen               \* history: the last three instants at which a fiducial was seen, and where

finderVars == <<clock, trackedFiducials, found, seen>>

NaN == <<>>
Unseen == [isTracked |-> FALSE, timestamp |-> 0, x |-> NaN, a |-> NaN,
           xspeed |-> NaN, aspeed |-> NaN, xyacc |-> NaN, aacc |-> NaN]

FinderInit ==
    /\ clock = 0 /\ found = 0
    /\ trackedFiducials = [i \in Ids |-> Unseen]
    /\ seen = [i \in Ids |-> <<>>]

\* frameStartClock, which findFiducials takes for milliseconds
FrameStart(c) == (c * ClocksPerSec) \div 1000

Abs(n) == IF n < 0 THEN -n ELSE n

\* The turn from one angle to another, the short way round.
Turn(old, new) ==
    LET delta == new - old
    IN  IF Abs(delta + Circle) < Abs(delta) THEN delta + Circle
        ELSE IF Abs(delta - Circle) < Abs(delta) THEN delta - Circle
        ELSE delta

\* One raw fiducial: the first one of its id in this instant updates what is remembered.
New(fiducials, raw, time) ==
    raw.id \in Ids /\ (fiducials[raw.id].isTracked => fiducials[raw.id].timestamp # time)

UpdatedOnce(old, raw, time) ==
    [Unseen EXCEPT !.isTracked = TRUE, !.timestamp = time, !.x = <<raw.x>>, !.a = <<raw.a>>]
Updated(old, raw, time) ==
    LET timeDiff == time - old.timestamp
        xspeed == IF old.x = NaN THEN old.xspeed ELSE <<raw.x - old.x[1], timeDiff>>
        aspeed == IF old.a = NaN THEN old.aspeed ELSE <<Turn(old.a[1], raw.a), timeDiff>>
    IN  [isTracked |-> TRUE, timestamp |-> time, x |-> <<raw.x>>, a |-> <<raw.a>>,
         xspeed |-> xspeed, aspeed |-> aspeed,
         xyacc |-> IF old.xspeed = NaN THEN old.xyacc ELSE <<xspeed, old.xspeed, timeDiff>>,
         aacc |-> IF old.a = NaN \/ old.aspeed = NaN THEN old.aacc
                                                     ELSE <<aspeed, old.aspeed, timeDiff>>]

Transfer(fiducials, raw, time) ==
    IF New(fiducials, raw, time)
    THEN [fiducials EXCEPT ![raw.id] = Updated(@, raw, time)]
    ELSE fiducials

MarkNothing(fiducials, time) == fiducials
MarkLost(fiducials, time) ==
    [i \in Ids |-> IF fiducials[i].timestamp # time THEN [fiducials[i] EXCEPT !.isTracked = FALSE]
                                                    ELSE fiducials[i]]

\* The counter that is returned is never increased.
Returned(fiducials) == 0

\* Of several candidates with the same id the first one counts.
Remember(raws, time) ==
    seen' = [i \in Ids |->
        LET of == {k \in 1 .. Len(raws) : raws[k].id = i}
            first == raws[Min(of)]
            s == seen[i]
        IN  IF of = {} \/ (s # <<>> /\ s[Len(s)].t = time) THEN s
            ELSE LET all == Append(s, [t |-> time, x |-> first.x, a |-> first.a])
                 IN  IF Len(all) > 3 THEN Tail(all) ELSE all]

FindFiducials(raws, tick) ==
    LET time == FrameStart(clock + tick)
    IN  /\ clock' = clock + tick
        /\ trackedFiducials' =
              MarkLost(FoldLeft(LAMBDA f, raw : Transfer(f, raw, time), trackedFiducials, raws), time)
        /\ found' = Returned(trackedFiducials')
        /\ Remember(raws, time)

-----------------------------------------------------------------------------
\* The speed of a fiducial is the way between its last two sightings over the time between them,
\* however many frames it was lost in between, and its acceleration compares that to the speed
\* before; of several candidates with its id in one instant only the first one counts.
SpeedsOfLastSightings ==
    \A i \in Ids :
        LET f == trackedFiducials[i]
            s == seen[i]
            n == Len(s)
            dt(k) == s[k].t - s[k - 1].t
            v(k) == <<s[k].x - s[k - 1].x, dt(k)>>
        IN  /\ f.x = IF n = 0 THEN NaN ELSE <<s[n].x>>
            /\ f.xspeed = IF n < 2 THEN NaN ELSE v(n)
            /\ f.xyacc = IF n < 3 THEN NaN ELSE <<v(n), v(n - 1), dt(n)>>
            /\ n > 0 => f.timestamp = s[n].t

\* A speed is never a quotient by zero, although the clock need not advance from frame to frame.
TimePasses ==
    \A i \in Ids : LET f == trackedFiducials[i]
                   IN  /\ f.xspeed # NaN => f.xspeed[2] > 0
                       /\ f.aacc # NaN => f.aacc[1][2] > 0 /\ f.aacc[3] > 0

\* A rotation is taken the short way round, and from the angle it started at to the one seen.
ShortWayRound ==
    \A i \in Ids :
        LET s == seen[i]
            n == Len(s)
            f == trackedFiducials[i]
        IN  /\ (f.aspeed = NaN) = (n < 2)
            /\ n >= 2 => /\ 2 * Abs(f.aspeed[1]) <= Circle
                         /\ (f.aspeed[1] - (s[n].a - s[n - 1].a)) % Circle = 0
            /\ (f.aacc = NaN) = (n < 3)

\* fiducials.h:51 promises that "the return value is the number of actually found fiducials".
ReturnsNumberFound == found = Cardinality({i \in Ids : trackedFiducials[i].isTracked})

\* fiducials.h:23 says that the timestamp is in seconds; here it is in thousandths of one.
TimestampsInSeconds ==
    \A i \in Ids : trackedFiducials[i].isTracked =>
        trackedFiducials[i].timestamp = (clock * 1000) \div ClocksPerSec
=============================================================================

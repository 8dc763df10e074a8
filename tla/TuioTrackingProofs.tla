------------------------- MODULE TuioTrackingProofs -------------------------
(***************************************************************************)
(* What is remembered of a fiducial is a function of its last three        *)
(* sightings, and what a receiver holds is one frame, for every number of  *)
(* fiducials, every clock and every sequence of frames.                    *)
(***************************************************************************)
EXTENDS TuioTracking, SequenceTheorems, FoldProofs

-----------------------------------------------------------------------------
(***************************************************************************)
(* Numbers                                                                 *)
(***************************************************************************)
\* Time does not go back: the clock only grows, and so does what it is taken for.
LEMMA FrameStartGrows ==
    ASSUME NEW c \in Nat, NEW tick \in Nat
    PROVE  /\ FrameStart(c) \in Nat /\ FrameStart(c + tick) \in Nat
           /\ FrameStart(c) <= FrameStart(c + tick)
<1> DEFINE a == c * ClocksPerSec
           d == tick * ClocksPerSec
<1>1. a \in Nat /\ d \in Nat /\ (c + tick) * ClocksPerSec = a + d
  BY FinderAssumption
<1>2. FrameStart(c) = a \div 1000 /\ FrameStart(c + tick) = (a + d) \div 1000
  BY <1>1 DEF FrameStart
<1> HIDE DEF a, d
<1> QED
  BY <1>1, <1>2

\* No turn, a full turn, and a full turn back end where they began.
LEMMA FullTurns ==
    ASSUME NEW c \in Nat \ {0}
    PROVE  0 % c = 0 /\ c % c = 0 /\ (-c) % c = 0
OBVIOUS

LEMMA TurnIsShort ==
    ASSUME NEW old \in 0 .. Circle - 1, NEW new \in 0 .. Circle - 1
    PROVE  /\ Turn(old, new) \in Int
           /\ 2 * Abs(Turn(old, new)) <= Circle
           /\ (Turn(old, new) - (new - old)) % Circle = 0
<1> DEFINE delta == new - old
<1>1. Circle \in Nat \ {0} /\ delta \in Int /\ delta < Circle /\ -delta < Circle
  BY FinderAssumption
<1>2. Turn(old, new) = IF Abs(delta + Circle) < Abs(delta) THEN delta + Circle
                       ELSE IF Abs(delta - Circle) < Abs(delta) THEN delta - Circle
                       ELSE delta
  BY DEF Turn
<1> HIDE DEF delta
<1>3. Turn(old, new) \in {delta, delta + Circle, delta - Circle} /\ 2 * Abs(Turn(old, new)) <= Circle
  BY <1>1, <1>2 DEF Abs
<1>4. Turn(old, new) \in Int /\ Turn(old, new) - delta \in {0, Circle, -Circle}
  BY <1>1, <1>3
<1>5. (Turn(old, new) - delta) % Circle = 0
  BY <1>1, <1>4, FullTurns
<1> QED
  BY <1>3, <1>4, <1>5 DEF delta

-----------------------------------------------------------------------------
(***************************************************************************)
(* The loop over the raw fiducials                                         *)
(***************************************************************************)
Raws == [id : Int, x : Int, a : 0 .. Circle - 1]

Numbers == {<<v>> : v \in Int} \cup {NaN}
Angles == {<<v>> : v \in 0 .. Circle - 1} \cup {NaN}
Quotients == (Int \X Int) \cup {NaN}
Changes == (Quotients \X Quotients \X Int) \cup {NaN}
Fiducials == [isTracked : BOOLEAN, timestamp : Nat, x : Numbers, a : Angles,
              xspeed : Quotients, aspeed : Quotients, xyacc : Changes, aacc : Changes]

LEMMA UnseenType == Unseen \in Fiducials
BY DEF Unseen, Fiducials, Numbers, Angles, Quotients, Changes

LEMMA UpdatedType ==
    ASSUME NEW old \in Fiducials, NEW raw \in Raws, NEW time \in Nat
    PROVE  /\ Updated(old, raw, time) \in Fiducials
           /\ Updated(old, raw, time).isTracked /\ Updated(old, raw, time).timestamp = time
<1> DEFINE timeDiff == time - old.timestamp
           xspeed == IF old.x = NaN THEN old.xspeed ELSE <<raw.x - old.x[1], timeDiff>>
           aspeed == IF old.a = NaN THEN old.aspeed ELSE <<Turn(old.a[1], raw.a), timeDiff>>
           xyacc == IF old.xspeed = NaN THEN old.xyacc ELSE <<xspeed, old.xspeed, timeDiff>>
           aacc == IF old.a = NaN \/ old.aspeed = NaN THEN old.aacc
                                                     ELSE <<aspeed, old.aspeed, timeDiff>>
<1>1. timeDiff \in Int /\ raw.x \in Int /\ raw.a \in 0 .. Circle - 1
  BY DEF Fiducials, Raws
<1>2. /\ old.x \in Numbers /\ old.a \in Angles /\ old.xspeed \in Quotients /\ old.aspeed \in Quotients
      /\ old.xyacc \in Changes /\ old.aacc \in Changes
  BY DEF Fiducials
<1> HIDE DEF timeDiff
<1>3. xspeed \in Quotients
  <2>1. CASE old.x = NaN
    BY <1>2, <2>1
  <2>2. CASE old.x # NaN
    <3>1. PICK v \in Int : old.x = <<v>>
      BY <1>2, <2>2 DEF Numbers
    <3>2. xspeed = <<raw.x - v, timeDiff>>
      BY <2>2, <3>1
    <3> QED
      BY <1>1, <3>2 DEF Quotients
  <2> QED
    BY <2>1, <2>2
<1>4. aspeed \in Quotients
  <2>1. CASE old.a = NaN
    BY <1>2, <2>1
  <2>2. CASE old.a # NaN
    <3>1. PICK v \in 0 .. Circle - 1 : old.a = <<v>>
      BY <1>2, <2>2 DEF Angles
    <3>2. aspeed = <<Turn(v, raw.a), timeDiff>>
      BY <2>2, <3>1
    <3>3. Turn(v, raw.a) \in Int
      BY <1>1, TurnIsShort
    <3> QED
      BY <1>1, <3>2, <3>3 DEF Quotients
  <2> QED
    BY <2>1, <2>2
<1> HIDE DEF xspeed, aspeed
<1>5. xyacc \in Changes /\ aacc \in Changes
  BY <1>1, <1>2, <1>3, <1>4 DEF Changes
<1>6. Updated(old, raw, time) =
        [isTracked |-> TRUE, timestamp |-> time, x |-> <<raw.x>>, a |-> <<raw.a>>,
         xspeed |-> xspeed, aspeed |-> aspeed, xyacc |-> xyacc, aacc |-> aacc]
  BY DEF Updated, timeDiff, xspeed, aspeed
<1>7. <<raw.x>> \in Numbers /\ <<raw.a>> \in Angles
  BY <1>1 DEF Numbers, Angles
<1> HIDE DEF xyacc, aacc
<1> QED
  BY <1>3, <1>4, <1>5, <1>6, <1>7 DEF Fiducials

LEMMA TransferType ==
    ASSUME NEW fids \in [Ids -> Fiducials], NEW raw \in Raws, NEW time \in Nat
    PROVE  Transfer(fids, raw, time) \in [Ids -> Fiducials]
<1>1. CASE New(fids, raw, time)
  <2>1. raw.id \in Ids /\ fids[raw.id] \in Fiducials
    BY <1>1 DEF New
  <2>2. Updated(fids[raw.id], raw, time) \in Fiducials
    BY <2>1, UpdatedType
  <2> QED
    BY <1>1, <2>1, <2>2 DEF Transfer
<1>2. CASE ~New(fids, raw, time)
  BY <1>2 DEF Transfer
<1> QED
  BY <1>1, <1>2

\* What the loop leaves behind
After(fids, raws, time) == FoldLeft(LAMBDA f, raw : Transfer(f, raw, time), fids, raws)

\* The fiducials after every turn of the loop, one raw fiducial after the other.
Turns(fids, n, raws, time) ==
    {f \in [0 .. n -> [Ids -> Fiducials]] :
        /\ f[0] = fids
        /\ \A k \in 1 .. n : f[k] = Transfer(f[k - 1], raws[k], time)
        /\ f[n] = After(fids, raws, time)}

LEMMA TransferLoop ==
    ASSUME NEW fids \in [Ids -> Fiducials], NEW n \in Nat, NEW raws \in [1 .. n -> Raws],
           NEW time \in Nat
    PROVE  Turns(fids, n, raws, time) # {}
<1> DEFINE V == [Ids -> Fiducials]
           Step(k, v) == Transfer(v, raws[k], time)
           Loop(i) == i = [s \in SUBSET (1 .. n) |->
                              IF s = {} THEN fids ELSE Step(Max(s), i[s \ {Max(s)}])]
           iter == CHOOSE i : Loop(i)
           f == [k \in 0 .. n |-> iter[1 .. k]]
           g == [k \in 1 .. n |-> [v \in V |-> Step(k, v)]]
<1>1. \A k \in 1 .. n, v \in V : Step(k, v) \in V
  BY TransferType
<1>2. DOMAIN raws = 1 .. n
  OBVIOUS
<1>3. After(fids, raws, time) = iter[1 .. n]
  BY <1>2 DEF After, FoldLeft, MapThenFoldSet
<1>4. f[n] = iter[1 .. n]
  OBVIOUS
<1> HIDE DEF Step
<1>5. g \in [1 .. n -> [V -> V]]
  BY <1>1
<1>6. \A k \in 1 .. n, v \in V : g[k][v] = Step(k, v)
  OBVIOUS
<1>7. fids \in V
  OBVIOUS
<1> HIDE DEF g, V
<1>8. Loop(iter)
  <2>1. PICK i : Folds(i, n, V, fids, g)
    BY <1>5, <1>7, FoldExists
  <2>2. \A s \in SUBSET (1 .. n) : s # {} => i[s] = Step(Max(s), i[s \ {Max(s)}])
    BY <1>6, <2>1 DEF Folds
  <2>3. Loop(i)
    BY <2>1, <2>2 DEF Folds
  <2> HIDE DEF Loop
  <2> QED
    BY <2>3
<1> HIDE DEF iter
<1>9. Computes(f, n, V, fids, g)
  <2>1. iter[{}] = fids
    BY <1>8
  <2>2. ASSUME NEW k \in 1 .. n, iter[1 .. k - 1] \in V
        PROVE  iter[1 .. k] = g[k][iter[1 .. k - 1]]
    <3>1. /\ 1 .. k \in SUBSET (1 .. n) /\ 1 .. k # {}
          /\ Max(1 .. k) = k /\ (1 .. k) \ {k} = 1 .. k - 1
      BY MaxOfFirstPlaces
    <3>2. iter[1 .. k] = Step(k, iter[1 .. k - 1])
      BY <1>8, <3>1
    <3> QED
      BY <1>6, <2>2, <3>2
  <2> QED
    BY <1>5, <1>7, <2>1, <2>2, FoldComputes
<1> HIDE DEF f
<1>10. f \in [0 .. n -> V] /\ f[0] = fids /\ \A k \in 1 .. n : f[k] = Step(k, f[k - 1])
  BY <1>6, <1>9 DEF Computes
<1>11. \A k \in 1 .. n : f[k] = Transfer(f[k - 1], raws[k], time)
  BY <1>10 DEF Step
<1> QED
  BY <1>3, <1>4, <1>10, <1>11 DEF V, Turns

-----------------------------------------------------------------------------
(***************************************************************************)
(* The last sightings, and what is remembered of them                      *)
(***************************************************************************)
Sightings == [t : Nat, x : Int, a : 0 .. Circle - 1]

Way(s, k) == <<s[k].x - s[k - 1].x, s[k].t - s[k - 1].t>>
Rotation(s, k) == <<Turn(s[k - 1].a, s[k].a), s[k].t - s[k - 1].t>>

RecordOf(s, tracked) ==
    LET n == Len(s)
    IN  [isTracked |-> tracked,
         timestamp |-> IF n = 0 THEN 0 ELSE s[n].t,
         x |-> IF n = 0 THEN NaN ELSE <<s[n].x>>,
         a |-> IF n = 0 THEN NaN ELSE <<s[n].a>>,
         xspeed |-> IF n < 2 THEN NaN ELSE Way(s, n),
         aspeed |-> IF n < 2 THEN NaN ELSE Rotation(s, n),
         xyacc |-> IF n < 3 THEN NaN ELSE <<Way(s, n), Way(s, n - 1), s[n].t - s[n - 1].t>>,
         aacc |-> IF n < 3 THEN NaN ELSE <<Rotation(s, n), Rotation(s, n - 1), s[n].t - s[n - 1].t>>]

\* The sightings are in the order of time, which is strict, and none is later than now.
InOrder(s, now) ==
    /\ s \in Seq(Sightings) /\ Len(s) <= 3
    /\ \A k \in 1 .. Len(s) - 1 : s[k].t < s[k + 1].t
    /\ Len(s) > 0 => s[Len(s)].t <= now

Later(s, e) == LET all == Append(s, e) IN IF Len(all) > 3 THEN Tail(all) ELSE all

\* r is the sequence of sightings s of length n with one more and the length m.
OneMore(s, e, r, n, m) ==
    /\ r \in Seq(Sightings) /\ Len(r) = m /\ n \in 0 .. 3 /\ r[m] = e
    /\ (n < 3 /\ m = n + 1) \/ (n = 3 /\ m = 3)
    /\ n >= 1 => r[m - 1] = s[n] /\ s[n] \in Sightings
    /\ n >= 2 => r[m - 2] = s[n - 1] /\ s[n - 1] \in Sightings

LEMMA LastSightings ==
    ASSUME NEW s \in Seq(Sightings), Len(s) <= 3, NEW e \in Sightings
    PROVE  OneMore(s, e, Later(s, e), Len(s), IF Len(s) < 3 THEN Len(s) + 1 ELSE 3)
<1> DEFINE all == Append(s, e)
           n == Len(s)
           tail == Tail(all)
<1>1. n \in 0 .. 3
  <2>1. n \in Nat /\ n <= 3
    OBVIOUS
  <2> HIDE DEF n
  <2> QED
    BY <2>1
<1>2. all \in Seq(Sightings) /\ Len(all) = n + 1 /\ all[n + 1] = e
  BY AppendProperties
<1>3. \A k \in 1 .. n : all[k] = s[k] /\ s[k] \in Sightings
  BY AppendProperties, ElementOfSeq
<1>6. Later(s, e) = IF Len(all) > 3 THEN tail ELSE all
  BY DEF Later
<1>7. ASSUME n = 3
      PROVE  tail \in Seq(Sightings) /\ Len(tail) = 3 /\ \A k \in 1 .. 3 : tail[k] = all[k + 1]
  <2>1. Len(all) = 4
    BY <1>2, <1>7
  <2> HIDE DEF all
  <2>2. all # <<>>
    BY <2>1
  <2>3. /\ tail \in Seq(Sightings) /\ Len(tail) = Len(all) - 1
        /\ \A k \in 1 .. Len(tail) : tail[k] = all[k + 1]
    BY <1>2, <2>2, HeadTailProperties
  <2> HIDE DEF tail
  <2>4. Len(tail) = 3
    BY <2>1, <2>3
  <2> QED
    BY <2>3, <2>4
<1> HIDE DEF all, tail
<1>4. CASE n < 3
  <2>1. Later(s, e) = all
    BY <1>1, <1>2, <1>4, <1>6
  <2> HIDE DEF n
  <2>2. ASSUME n >= 1 PROVE all[n + 1 - 1] = s[n] /\ s[n] \in Sightings
    BY <1>1, <1>3, <2>2
  <2>3. ASSUME n >= 2 PROVE all[n + 1 - 2] = s[n - 1] /\ s[n - 1] \in Sightings
    <3>1. n + 1 - 2 = n - 1 /\ n - 1 \in 1 .. n
      BY <1>1, <2>3
    <3> QED
      BY <1>3, <3>1
  <2>4. OneMore(s, e, all, n, n + 1)
    BY <1>1, <1>2, <1>4, <2>2, <2>3 DEF OneMore
  <2> QED
    BY <1>4, <2>1, <2>4 DEF n
<1>5. CASE n = 3
  <2>1. Later(s, e) = tail
    <3>1. Len(all) = 4
      BY <1>2, <1>5
    <3> QED
      BY <1>6, <3>1
  <2>2. tail[3] = all[4] /\ tail[3 - 1] = all[3] /\ tail[3 - 2] = all[2]
    <3>1. tail[1] = all[1 + 1] /\ tail[2] = all[2 + 1] /\ tail[3] = all[3 + 1]
      BY <1>5, <1>7
    <3> QED
      BY <3>1
  <2> HIDE DEF n
  <2>3. all[4] = e /\ all[3] = s[3] /\ all[2] = s[2] /\ s[3] \in Sightings /\ s[2] \in Sightings
    BY <1>2, <1>3, <1>5
  <2>4. OneMore(s, e, tail, n, 3)
    BY <1>5, <1>7, <2>2, <2>3 DEF OneMore
  <2>5. (IF n < 3 THEN n + 1 ELSE 3) = 3
    BY <1>5
  <2> QED
    BY <2>1, <2>4, <2>5 DEF n
<1>8. n < 3 \/ n = 3
  <2> HIDE DEF n
  <2> QED
    BY <1>1
<1> QED
  BY <1>4, <1>5, <1>8

LEMMA NoNumber ==
    /\ \A u : <<u>> # NaN /\ <<u>>[1] = u
    /\ \A u, v : <<u, v>> # NaN
    /\ \A u, v, w : <<u, v, w>> # NaN
BY DEF NaN

\* What is remembered is updated to what the sightings say, one more of them.
UpdatedWith(r, s, tracked, raw, time) ==
    /\ InOrder(r, time) /\ Len(r) > 0 /\ r[Len(r)].t = time
    /\ Updated(RecordOf(s, tracked), raw, time) = RecordOf(r, TRUE)

LEMMA UpdatedRecord ==
    ASSUME NEW s, NEW time \in Nat, InOrder(s, time), Len(s) > 0 => s[Len(s)].t # time,
           NEW tracked \in BOOLEAN, NEW raw \in Raws
    PROVE  UpdatedWith(Later(s, [t |-> time, x |-> raw.x, a |-> raw.a]), s, tracked, raw, time)
<1> DEFINE e == [t |-> time, x |-> raw.x, a |-> raw.a]
           r == Later(s, e)
           n == Len(s)
           m == IF n < 3 THEN n + 1 ELSE 3
           old == RecordOf(s, tracked)
<1>1. e \in Sightings /\ e.t = time /\ e.x = raw.x /\ e.a = raw.a
  BY DEF Sightings, Raws
<1>2. s \in Seq(Sightings) /\ n <= 3
  BY DEF InOrder
<1> HIDE DEF e
<1>15. /\ n = Len(s) /\ m = (IF n < 3 THEN n + 1 ELSE 3) /\ r = Later(s, e)
       /\ old = RecordOf(s, tracked)
  OBVIOUS
<1>17. OneMore(s, e, r, n, m)
  BY <1>1, <1>2, LastSightings
<1> HIDE DEF n, m, r, old
<1>3. /\ r \in Seq(Sightings) /\ Len(r) = m /\ n \in 0 .. 3 /\ r[m] = e
      /\ n >= 1 => r[m - 1] = s[n] /\ s[n] \in Sightings
      /\ n >= 2 => r[m - 2] = s[n - 1] /\ s[n - 1] \in Sightings
  BY <1>17 DEF OneMore
<1>16. (n < 3 /\ m = n + 1) \/ (n = 3 /\ m = 3)
  BY <1>17 DEF OneMore
<1>4. ASSUME n >= 1 PROVE s[n].t < time /\ s[n].t \in Nat
  <2>1. s[n] \in Sightings /\ s[n].t <= time /\ s[n].t # time
    BY <1>3, <1>4, <1>15 DEF InOrder
  <2>2. s[n].t \in Nat
    BY <2>1 DEF Sightings
  <2> QED
    BY <2>1, <2>2
<1>5. InOrder(r, time)
  <2>1. ASSUME NEW k \in 1 .. m - 1 PROVE r[k].t < r[k + 1].t
    <3>1. CASE k = m - 1
      <4>1. n >= 1 /\ r[k] = s[n] /\ r[k + 1] = e
        BY <1>3, <1>16, <3>1
      <4> QED
        BY <1>1, <1>4, <4>1
    <3>2. CASE k # m - 1
      <4>1. k = m - 2 /\ n >= 2 /\ n - 1 \in 1 .. n - 1
        BY <1>3, <1>16, <3>2
      <4>2. s[n - 1].t < s[n].t
        <5>1. s[n - 1].t < s[n - 1 + 1].t
          BY <1>15, <4>1 DEF InOrder
        <5>2. n - 1 + 1 = n
          BY <1>3
        <5> QED
          BY <5>1, <5>2
      <4>3. r[k] = s[n - 1] /\ r[k + 1] = s[n]
        <5>1. k + 1 = m - 1
          BY <1>3, <1>16, <4>1
        <5> QED
          BY <1>3, <4>1, <5>1
      <4> QED
        BY <4>2, <4>3
    <3> QED
      BY <3>1, <3>2
  <2>2. m <= 3 /\ m > 0 /\ r[m].t <= time
    BY <1>1, <1>3, <1>16
  <2> QED
    BY <1>3, <2>1, <2>2 DEF InOrder
<1> DEFINE timeDiff == time - old.timestamp
           xspeed == IF old.x = NaN THEN old.xspeed ELSE <<raw.x - old.x[1], timeDiff>>
           aspeed == IF old.a = NaN THEN old.aspeed ELSE <<Turn(old.a[1], raw.a), timeDiff>>
           xyacc == IF old.xspeed = NaN THEN old.xyacc ELSE <<xspeed, old.xspeed, timeDiff>>
           aacc == IF old.a = NaN \/ old.aspeed = NaN THEN old.aacc
                                                     ELSE <<aspeed, old.aspeed, timeDiff>>
<1>6. /\ n >= 1 => old.timestamp = s[n].t /\ old.x = <<s[n].x>> /\ old.a = <<s[n].a>>
      /\ n = 0 => old.x = NaN /\ old.a = NaN
      /\ n >= 2 => old.xspeed = Way(s, n) /\ old.aspeed = Rotation(s, n)
      /\ n < 2 => old.xspeed = NaN /\ old.aspeed = NaN /\ old.xyacc = NaN /\ old.aacc = NaN
  BY <1>3, <1>15 DEF RecordOf
<1>7. ASSUME n >= 1
      PROVE  timeDiff = r[m].t - r[m - 1].t /\ xspeed = Way(r, m) /\ aspeed = Rotation(r, m)
  <2>1. timeDiff = r[m].t - r[m - 1].t
    BY <1>1, <1>3, <1>6, <1>7
  <2>2. old.x # NaN /\ old.x[1] = s[n].x /\ old.a # NaN /\ old.a[1] = s[n].a
    BY <1>6, <1>7, NoNumber
  <2>3. xspeed = <<raw.x - s[n].x, timeDiff>> /\ aspeed = <<Turn(s[n].a, raw.a), timeDiff>>
    BY <2>2
  <2> HIDE DEF timeDiff, xspeed, aspeed
  <2>4. r[m] = e /\ r[m - 1] = s[n]
    BY <1>3, <1>7
  <2> QED
    BY <1>1, <2>1, <2>3, <2>4 DEF Way, Rotation
<1>8. n = 0 => xspeed = NaN /\ aspeed = NaN
  BY <1>6
<1>9. ASSUME n >= 2 PROVE Way(s, n) = Way(r, m - 1) /\ Rotation(s, n) = Rotation(r, m - 1)
  <2>1. r[m - 1] = s[n] /\ r[m - 2] = s[n - 1]
    BY <1>3, <1>9
  <2>2. m - 1 - 1 = m - 2
    BY <1>3, <1>16
  <2> QED
    BY <2>1, <2>2 DEF Way, Rotation
<1> HIDE DEF timeDiff, xspeed, aspeed
<1>10. ASSUME n >= 2
       PROVE  /\ m = 3
              /\ xyacc = <<Way(r, m), Way(r, m - 1), r[m].t - r[m - 1].t>>
              /\ aacc = <<Rotation(r, m), Rotation(r, m - 1), r[m].t - r[m - 1].t>>
  <2>1. old.xspeed # NaN /\ old.aspeed # NaN /\ old.a # NaN
    <3>1. Way(s, n) # NaN /\ Rotation(s, n) # NaN
      BY NoNumber DEF Way, Rotation
    <3>2. old.a = <<s[n].a>>
      BY <1>3, <1>6, <1>10
    <3> QED
      BY <1>6, <1>10, <3>1, <3>2, NoNumber
  <2>2. m = 3 /\ n >= 1
    BY <1>3, <1>10, <1>16
  <2> QED
    BY <1>6, <1>7, <1>9, <1>10, <2>1, <2>2
<1>18. n < 2 => xyacc = NaN /\ aacc = NaN
  BY <1>6
<1>11. Updated(old, raw, time) =
         [isTracked |-> TRUE, timestamp |-> time, x |-> <<raw.x>>, a |-> <<raw.a>>,
          xspeed |-> xspeed, aspeed |-> aspeed, xyacc |-> xyacc, aacc |-> aacc]
  BY DEF Updated, timeDiff, xspeed, aspeed
<1> HIDE DEF xyacc, aacc
<1>12. /\ m # 0 /\ (m < 2 <=> n = 0) /\ (m < 3 <=> n < 2)
       /\ r[m].t = time /\ r[m].x = raw.x /\ r[m].a = raw.a
  BY <1>1, <1>3, <1>16
<1>19. /\ xspeed = IF m < 2 THEN NaN ELSE Way(r, m)
       /\ aspeed = IF m < 2 THEN NaN ELSE Rotation(r, m)
  BY <1>3, <1>7, <1>8, <1>12
<1>20. /\ xyacc = IF m < 3 THEN NaN ELSE <<Way(r, m), Way(r, m - 1), r[m].t - r[m - 1].t>>
       /\ aacc = IF m < 3 THEN NaN
                 ELSE <<Rotation(r, m), Rotation(r, m - 1), r[m].t - r[m - 1].t>>
  BY <1>3, <1>10, <1>12, <1>18
<1>13. RecordOf(r, TRUE) =
         [isTracked |-> TRUE, timestamp |-> time, x |-> <<raw.x>>, a |-> <<raw.a>>,
          xspeed |-> xspeed, aspeed |-> aspeed, xyacc |-> xyacc, aacc |-> aacc]
  BY <1>3, <1>12, <1>19, <1>20 DEF RecordOf
<1>14. Updated(old, raw, time) = RecordOf(r, TRUE)
  BY <1>11, <1>13
<1>21. Len(r) > 0 /\ r[Len(r)].t = time
  BY <1>3, <1>12, <1>16
<1> QED
  BY <1>5, <1>14, <1>21 DEF UpdatedWith, r, e, old

-----------------------------------------------------------------------------
(***************************************************************************)
(* One frame                                                               *)
(***************************************************************************)
Known(f, time) == f.isTracked /\ f.timestamp = time
Candidates(raws, i) == {k \in 1 .. Len(raws) : raws[k].id = i}

\* The loop over the raw fiducials updates a fiducial once, by the first candidate, unless it has
\* been seen at this time.
LEMMA UpdatedByFirst ==
    ASSUME NEW fids \in [Ids -> Fiducials], NEW raws \in Seq(Raws), NEW time \in Nat, NEW i \in Ids
    PROVE  /\ After(fids, raws, time) \in [Ids -> Fiducials]
           /\ Candidates(raws, i) = {} \/ Known(fids[i], time)
                 => After(fids, raws, time)[i] = fids[i]
           /\ Candidates(raws, i) # {} => raws[Min(Candidates(raws, i))] \in Raws
           /\ Candidates(raws, i) # {} /\ ~Known(fids[i], time)
                 => After(fids, raws, time)[i]
                       = Updated(fids[i], raws[Min(Candidates(raws, i))], time)
<1> DEFINE n == Len(raws)
           of == Candidates(raws, i)
           m == Min(of)
<1>1. n \in Nat /\ raws \in [1 .. n -> Raws]
  OBVIOUS
<1> HIDE DEF n
<1>2. PICK f \in [0 .. n -> [Ids -> Fiducials]] :
         /\ f[0] = fids
         /\ \A k \in 1 .. n : f[k] = Transfer(f[k - 1], raws[k], time)
         /\ f[n] = After(fids, raws, time)
  <2>1. Turns(fids, n, raws, time) # {}
    BY <1>1, TransferLoop
  <2> QED
    BY ONLY <2>1 DEF Turns
<1>3. of = {k \in 1 .. n : raws[k].id = i}
  BY DEF Candidates, n
<1>4. of # {} => m \in of /\ \A k \in of : m <= k
  <2>1. of \subseteq Nat
    BY <1>1, <1>3
  <2> HIDE DEF of
  <2>2. ASSUME of # {} PROVE \E l \in of : \A k \in of : l <= k
    BY <2>1, <2>2, LeastElement
  <2> QED
    BY <2>2 DEF Min
<1> HIDE DEF of, m
<1> DEFINE U == of # {} /\ ~Known(fids[i], time)
           new == Updated(fids[i], raws[m], time)
           G == {k \in 0 .. n : f[k][i] = IF U /\ m <= k THEN new ELSE fids[i]}
<1>12. of # {} => raws[m] \in Raws
  BY <1>1, <1>3, <1>4
<1>5. U => Known(new, time)
  <2>1. ASSUME U PROVE raws[m] \in Raws
    BY <1>12, <2>1
  <2>2. fids[i] \in Fiducials
    OBVIOUS
  <2>3. ASSUME U PROVE new.isTracked /\ new.timestamp = time
    BY <2>1, <2>2, <2>3, UpdatedType
  <2> QED
    BY <2>1, <2>3 DEF Known
<1> HIDE DEF U, new
<1>6. 0 \in G
  <2>1. U => m \in 1 .. n
    BY <1>3, <1>4 DEF U
  <2>2. ~(U /\ m <= 0)
    BY <1>1, <2>1
  <2> QED
    BY <1>1, <1>2, <2>2
<1>7. ASSUME NEW k \in 1 .. n, k - 1 \in G PROVE k \in G
  <2> DEFINE old == f[k - 1]
  <2>1. f[k] = Transfer(old, raws[k], time) /\ old \in [Ids -> Fiducials]
    BY <1>1, <1>2
  <2>2. old[i] = IF U /\ m <= k - 1 THEN new ELSE fids[i]
    BY <1>7
  <2>3. U => m \in 1 .. n
    BY <1>3, <1>4 DEF U
  <2> HIDE DEF old
  <2>4. CASE raws[k].id # i
    <3>1. f[k][i] = old[i]
      BY <2>1, <2>4 DEF Transfer, New
    <3>2. U => (m <= k <=> m <= k - 1)
      <4>1. U => m \in of
        BY <1>4 DEF U
      <4>2. U => m # k
        BY <1>3, <2>4, <4>1
      <4> QED
        BY <1>1, <2>3, <4>2
    <3> QED
      BY <1>1, <2>2, <3>1, <3>2
  <2>5. CASE raws[k].id = i
    <3>1. k \in of
      BY <1>3, <2>5
    <3>2. U => m <= k
      BY <1>4, <3>1 DEF U
    <3>3. New(old, raws[k], time) <=> ~Known(old[i], time)
      BY <2>5 DEF New, Known
    <3>4. CASE ~U
      <4>1. Known(fids[i], time) /\ old[i] = fids[i]
        BY <2>2, <3>1, <3>4 DEF U
      <4>2. f[k][i] = old[i]
        BY <2>1, <3>3, <4>1 DEF Transfer
      <4> QED
        BY <1>1, <3>4, <4>1, <4>2
    <3>5. CASE U /\ m <= k - 1
      <4>1. f[k][i] = old[i] /\ old[i] = new
        BY <1>5, <2>1, <2>2, <3>3, <3>5 DEF Transfer
      <4> QED
        BY <1>1, <3>2, <3>5, <4>1
    <3>6. CASE U /\ ~(m <= k - 1)
      <4>1. m = k
        BY <1>1, <2>3, <3>2, <3>6
      <4>2. old[i] = fids[i] /\ ~Known(old[i], time)
        BY <2>2, <3>6 DEF U
      <4>3. f[k] = [old EXCEPT ![i] = Updated(old[i], raws[k], time)]
        BY <2>1, <2>5, <3>3, <4>2 DEF Transfer
      <4>4. f[k][i] = new
        BY <2>1, <4>1, <4>2, <4>3 DEF new
      <4> QED
        BY <1>1, <3>2, <3>6, <4>4
    <3> QED
      BY <3>4, <3>5, <3>6
  <2> QED
    BY <2>4, <2>5
<1>8. f[n][i] = IF U /\ m <= n THEN new ELSE fids[i]
  <2>1. \A k \in 0 .. n : k \in G
    <3> HIDE DEF G
    <3> QED
      BY <1>1, <1>6, <1>7, Rounds
  <2> QED
    BY <1>1, <2>1
<1>9. U => m <= n
  BY <1>1, <1>3, <1>4 DEF U
<1>10. f[n] \in [Ids -> Fiducials]
  BY <1>1, <1>2
<1>11. of = Candidates(raws, i) /\ m = Min(Candidates(raws, i))
  BY DEF of, m
<1> QED
  BY <1>2, <1>8, <1>9, <1>10, <1>11, <1>12 DEF U, new

-----------------------------------------------------------------------------
(***************************************************************************)
(* What is remembered, as an invariant                                     *)
(***************************************************************************)
Remembered(f, s, now) ==
    /\ InOrder(s, now)
    /\ f = RecordOf(s, f.isTracked)
    /\ f.isTracked <=> Len(s) > 0 /\ s[Len(s)].t = now

SeenInv ==
    /\ clock \in Nat /\ found = 0
    /\ trackedFiducials \in [Ids -> Fiducials]
    /\ \A i \in Ids : Remembered(trackedFiducials[i], seen[i], FrameStart(clock))

LEMMA InitSeenInv == FinderInit => SeenInv
<1> SUFFICES ASSUME FinderInit PROVE SeenInv
  OBVIOUS
<1>1. Unseen = RecordOf(<<>>, FALSE) /\ Unseen.isTracked = FALSE
  BY DEF Unseen, RecordOf
<1>2. InOrder(<<>>, FrameStart(0))
  BY DEF InOrder
<1>3. \A i \in Ids : trackedFiducials[i] = Unseen /\ seen[i] = <<>>
  BY DEF FinderInit
<1>4. Remembered(Unseen, <<>>, FrameStart(0))
  <2>1. Len(<<>>) = 0
    OBVIOUS
  <2>2. Unseen = RecordOf(<<>>, Unseen.isTracked)
    BY <1>1
  <2>3. ~Unseen.isTracked
    BY <1>1, Zenon
  <2>4. ~(Len(<<>>) > 0)
    BY <2>1
  <2> QED
    BY <1>2, <2>2, <2>3, <2>4, Zenon DEF Remembered
<1> QED
  BY <1>3, <1>4, UnseenType DEF FinderInit, SeenInv

\* A record in which isTracked is set.
LEMMA SetTracked ==
    ASSUME NEW tracked, NEW t, NEW x, NEW a, NEW v, NEW w, NEW p, NEW q, NEW r, NEW value,
           r = [isTracked |-> tracked, timestamp |-> t, x |-> x, a |-> a,
                xspeed |-> v, aspeed |-> w, xyacc |-> p, aacc |-> q]
    PROVE  [r EXCEPT !.isTracked = value]
             = [isTracked |-> value, timestamp |-> t, x |-> x, a |-> a,
                xspeed |-> v, aspeed |-> w, xyacc |-> p, aacc |-> q]
OBVIOUS

LEMMA RecordLost ==
    ASSUME NEW s, NEW tracked
    PROVE  /\ [RecordOf(s, tracked) EXCEPT !.isTracked = FALSE] = RecordOf(s, FALSE)
           /\ RecordOf(s, tracked).isTracked = tracked
<1> DEFINE n == Len(s)
           timestamp == IF n = 0 THEN 0 ELSE s[n].t
           x == IF n = 0 THEN NaN ELSE <<s[n].x>>
           a == IF n = 0 THEN NaN ELSE <<s[n].a>>
           xspeed == IF n < 2 THEN NaN ELSE Way(s, n)
           aspeed == IF n < 2 THEN NaN ELSE Rotation(s, n)
           xyacc == IF n < 3 THEN NaN ELSE <<Way(s, n), Way(s, n - 1), s[n].t - s[n - 1].t>>
           aacc == IF n < 3 THEN NaN
                   ELSE <<Rotation(s, n), Rotation(s, n - 1), s[n].t - s[n - 1].t>>
           r == RecordOf(s, tracked)
<1>1. \A b : RecordOf(s, b) =
        [isTracked |-> b, timestamp |-> timestamp, x |-> x, a |-> a, xspeed |-> xspeed,
         aspeed |-> aspeed, xyacc |-> xyacc, aacc |-> aacc]
  BY DEF RecordOf
<1> HIDE DEF n, timestamp, x, a, xspeed, aspeed, xyacc, aacc
<1>2. r = [isTracked |-> tracked, timestamp |-> timestamp, x |-> x, a |-> a, xspeed |-> xspeed,
           aspeed |-> aspeed, xyacc |-> xyacc, aacc |-> aacc]
  BY <1>1
<1> HIDE DEF r
<1>3. \A value : [r EXCEPT !.isTracked = value] = RecordOf(s, value)
  BY <1>1, <1>2, SetTracked
<1>4. r.isTracked = tracked
  BY <1>2
<1> QED
  BY <1>3, <1>4 DEF r

\* What becomes of one fiducial in a frame, and of its sightings.
Refreshed(f, isThere, raw, time) == IF ~isThere \/ Known(f, time) THEN f ELSE Updated(f, raw, time)
Marked(g, time) == IF g.timestamp # time THEN [g EXCEPT !.isTracked = FALSE] ELSE g
SeenAgain(s, isThere, raw, time) ==
    IF ~isThere \/ (s # <<>> /\ s[Len(s)].t = time) THEN s
    ELSE Later(s, [t |-> time, x |-> raw.x, a |-> raw.a])

LEMMA RememberedStep ==
    ASSUME NEW f \in Fiducials, NEW s, NEW now \in Nat, Remembered(f, s, now),
           NEW time \in Nat, now <= time, NEW raw, NEW isThere \in BOOLEAN,
           isThere => raw \in Raws
    PROVE  Remembered(Marked(Refreshed(f, isThere, raw, time), time),
                      SeenAgain(s, isThere, raw, time), time)
<1> DEFINE g == Refreshed(f, isThere, raw, time)
           r == SeenAgain(s, isThere, raw, time)
           h == Marked(g, time)
<1>8. g = IF ~isThere \/ Known(f, time) THEN f ELSE Updated(f, raw, time)
  BY DEF Refreshed
<1>9. r = IF ~isThere \/ (s # <<>> /\ s[Len(s)].t = time) THEN s
          ELSE Later(s, [t |-> time, x |-> raw.x, a |-> raw.a])
  BY DEF SeenAgain
<1>10. h = IF g.timestamp # time THEN [g EXCEPT !.isTracked = FALSE] ELSE g
  BY DEF Marked
<1> HIDE DEF g, r, h
<1>1. /\ s \in Seq(Sightings) /\ Len(s) \in Nat /\ (s # <<>> <=> Len(s) > 0)
      /\ Len(s) > 0 => s[Len(s)] \in Sightings
  <2>1. s \in Seq(Sightings)
    BY DEF Remembered, InOrder
  <2>2. Len(s) \in Nat /\ (s # <<>> <=> Len(s) > 0)
    BY <2>1, EmptySeq
  <2>3. Len(s) > 0 => s[Len(s)] \in Sightings
    BY <2>1, <2>2, ElementOfSeq
  <2> QED
    BY <2>1, <2>2, <2>3
<1>2. Len(s) > 0 => s[Len(s)].t \in Nat /\ s[Len(s)].t <= now
  BY <1>1 DEF Remembered, InOrder, Sightings
<1>3. InOrder(s, time)
  <2>1. Len(s) > 0 => s[Len(s)].t <= time
    BY <1>2
  <2> QED
    BY <2>1 DEF Remembered, InOrder
<1>4. /\ f = RecordOf(s, f.isTracked) /\ f.isTracked \in BOOLEAN
      /\ f.timestamp = IF Len(s) = 0 THEN 0 ELSE s[Len(s)].t
      /\ f.isTracked <=> Len(s) > 0 /\ s[Len(s)].t = now
  <2>1. f = RecordOf(s, f.isTracked) /\ f.isTracked \in BOOLEAN
    BY DEF Remembered, Fiducials
  <2>2. RecordOf(s, f.isTracked).timestamp = IF Len(s) = 0 THEN 0 ELSE s[Len(s)].t
    BY DEF RecordOf
  <2> QED
    BY <2>1, <2>2 DEF Remembered
<1>5. Known(f, time) <=> s # <<>> /\ s[Len(s)].t = time
  BY <1>1, <1>2, <1>4 DEF Known
<1>6. ASSUME ~isThere \/ Known(f, time) PROVE Remembered(h, r, time)
  <2>1. g = f /\ r = s
    BY <1>5, <1>6, <1>8, <1>9
  <2>2. CASE f.timestamp # time
    <3>1. h = RecordOf(s, FALSE) /\ h.isTracked = FALSE
      <4>1. h = [f EXCEPT !.isTracked = FALSE]
        BY <1>10, <2>1, <2>2, Zenon
      <4>2. [f EXCEPT !.isTracked = FALSE] = RecordOf(s, FALSE)
        BY <1>4, RecordLost, ZenonT(60)
      <4>3. RecordOf(s, FALSE).isTracked = FALSE
        BY RecordLost
      <4> QED
        BY <4>1, <4>2, <4>3, Zenon
    <3>2. ~(Len(s) > 0 /\ s[Len(s)].t = time)
      BY <1>1, <1>4, <2>2
    <3> QED
      BY <1>3, <2>1, <3>1, <3>2 DEF Remembered
  <2>3. CASE f.timestamp = time
    <3>1. h = f
      BY <1>10, <2>1, <2>3
    <3>2. f.isTracked <=> Len(s) > 0 /\ s[Len(s)].t = time
      BY <1>1, <1>2, <1>4, <2>3
    <3> QED
      BY <1>3, <1>4, <2>1, <3>1, <3>2 DEF Remembered
  <2> QED
    BY <2>2, <2>3
<1>7. ASSUME isThere, ~Known(f, time) PROVE Remembered(h, r, time)
  <2>1. r = Later(s, [t |-> time, x |-> raw.x, a |-> raw.a])
    BY <1>5, <1>7, <1>9
  <2>2. /\ InOrder(r, time) /\ Len(r) > 0 /\ r[Len(r)].t = time
        /\ Updated(RecordOf(s, f.isTracked), raw, time) = RecordOf(r, TRUE)
    <3>1. (Len(s) > 0 => s[Len(s)].t # time) /\ raw \in Raws /\ f.isTracked \in BOOLEAN
      BY <1>1, <1>4, <1>5, <1>7
    <3>2. UpdatedWith(Later(s, [t |-> time, x |-> raw.x, a |-> raw.a]), s, f.isTracked, raw, time)
      BY <1>3, <3>1, UpdatedRecord
    <3> QED
      BY <2>1, <3>2, Zenon DEF UpdatedWith
  <2>3. g = RecordOf(r, TRUE)
    BY <1>4, <1>7, <1>8, <2>2
  <2>4. g.isTracked = TRUE /\ g.timestamp = time
    <3>1. g.timestamp = IF Len(r) = 0 THEN 0 ELSE r[Len(r)].t
      BY <2>3 DEF RecordOf
    <3> QED
      BY <2>2, <2>3, <3>1 DEF RecordOf
  <2>5. h = g
    BY <1>10, <2>4
  <2> QED
    BY <2>2, <2>3, <2>4, <2>5 DEF Remembered
<1> QED
  BY <1>6, <1>7 DEF g, r, h

LEMMA FindStep ==
    ASSUME SeenInv, NEW raws \in RawFrames, NEW tick \in Ticks, FindFiducials(raws, tick)
    PROVE  SeenInv'
<1> DEFINE time == FrameStart(clock + tick)
           after == After(trackedFiducials, raws, time)
<1>1. /\ clock \in Nat /\ tick \in Nat /\ raws \in Seq(Raws)
      /\ clock' = clock + tick /\ found' = 0
      /\ trackedFiducials \in [Ids -> Fiducials]
  BY FinderAssumption DEF SeenInv, FindFiducials, Returned, Raws
<1>2. trackedFiducials' =
        [i \in Ids |-> IF after[i].timestamp # time THEN [after[i] EXCEPT !.isTracked = FALSE]
                                                    ELSE after[i]]
  BY DEF FindFiducials, MarkLost, After
<1>3. time \in Nat /\ FrameStart(clock) \in Nat /\ FrameStart(clock) <= time
  BY <1>1, FrameStartGrows
<1>4. ASSUME NEW i \in Ids
      PROVE  /\ trackedFiducials'[i] \in Fiducials
             /\ Remembered(trackedFiducials'[i], seen'[i], time)
  <2> DEFINE of == Candidates(raws, i)
             raw == raws[Min(of)]
             f == trackedFiducials[i]
             s == seen[i]
             g == after[i]
             r == seen'[i]
  <2>1. r = IF of = {} \/ (s # <<>> /\ s[Len(s)].t = time) THEN s
            ELSE Later(s, [t |-> time, x |-> raw.x, a |-> raw.a])
    BY DEF FindFiducials, Remember, Later, Candidates
  <2>2. /\ after \in [Ids -> Fiducials]
        /\ of # {} /\ ~Known(f, time) => raw \in Raws
        /\ g = IF of = {} \/ Known(f, time) THEN f ELSE Updated(f, raw, time)
    BY <1>1, <1>3, UpdatedByFirst
  <2>3. of # {} => raw \in Raws
    BY <1>1, <1>3, UpdatedByFirst
  <2>4. f \in Fiducials /\ Remembered(f, s, FrameStart(clock))
    BY <1>1 DEF SeenInv
  <2>5. trackedFiducials'[i] = IF g.timestamp # time THEN [g EXCEPT !.isTracked = FALSE] ELSE g
    BY <1>2
  <2>6. g \in Fiducials
    BY <2>2
  <2>7. trackedFiducials'[i] \in Fiducials
    <3> HIDE DEF g
    <3> QED
      BY <2>5, <2>6 DEF Fiducials
  <2> DEFINE isThere == of # {}
  <2>8. /\ g = Refreshed(f, isThere, raw, time)
        /\ r = SeenAgain(s, isThere, raw, time)
    BY <2>1, <2>2 DEF Refreshed, SeenAgain
  <2>9. isThere \in BOOLEAN
    OBVIOUS
  <2>11. trackedFiducials'[i] = Marked(g, time)
    BY <2>5 DEF Marked
  <2> HIDE DEF of, raw, f, s, g, r, time, isThere
  <2>12. isThere => raw \in Raws
    BY <2>3 DEF isThere
  <2>10. Remembered(Marked(Refreshed(f, isThere, raw, time), time),
                    SeenAgain(s, isThere, raw, time), time)
    BY <1>3, <2>4, <2>9, <2>12, RememberedStep
  <2> QED
    BY <2>7, <2>8, <2>10, <2>11 DEF r
<1>5. trackedFiducials' \in [Ids -> Fiducials]
  <2> HIDE DEF after
  <2> QED
    BY <1>2, <1>4
<1>6. time = FrameStart(clock')
  BY <1>1
<1> QED
  BY <1>1, <1>4, <1>5, <1>6 DEF SeenInv

-----------------------------------------------------------------------------
(***************************************************************************)
(* The bundle of a frame                                                   *)
(***************************************************************************)
\* The messages up to the frame number
Sent(fids) ==
    FoldLeft(LAMBDA sent, i : IF fids[i].isTracked THEN Append(sent, Set(fids, i)) ELSE sent,
             <<Alive(fids)>>, IdsInOrder)

Messages(fids) == {Alive(fids)} \cup {Set(fids, i) : i \in Ids}

\* The loop of sendMessage, one id after the other.
LEMMA SendLoop ==
    ASSUME NEW fids
    PROVE  \E f \in [0 .. MaxFiducials -> Seq(Messages(fids))] :
              /\ f[0] = <<Alive(fids)>>
              /\ \A k \in 1 .. MaxFiducials :
                    f[k] = IF fids[k - 1].isTracked THEN Append(f[k - 1], Set(fids, k - 1))
                           ELSE f[k - 1]
              /\ f[MaxFiducials] = Sent(fids)
<1> DEFINE n == MaxFiducials
           V == Seq(Messages(fids))
           start == <<Alive(fids)>>
           Step(k, v) == IF fids[IdsInOrder[k]].isTracked THEN Append(v, Set(fids, IdsInOrder[k]))
                         ELSE v
           Loop(i) == i = [s \in SUBSET (1 .. n) |->
                              IF s = {} THEN start ELSE Step(Max(s), i[s \ {Max(s)}])]
           iter == CHOOSE i : Loop(i)
           f == [k \in 0 .. n |-> iter[1 .. k]]
           g == [k \in 1 .. n |-> [v \in V |-> Step(k, v)]]
<1>1. n \in Nat /\ DOMAIN IdsInOrder = 1 .. n /\ \A k \in 1 .. n : IdsInOrder[k] = k - 1
  BY FinderAssumption DEF IdsInOrder
<1>2. \A k \in 1 .. n : IdsInOrder[k] \in Ids
  BY <1>1 DEF Ids
<1>3. Sent(fids) = iter[1 .. n]
  BY <1>1 DEF Sent, FoldLeft, MapThenFoldSet
<1>4. f[n] = iter[1 .. n]
  BY <1>1
<1>5. start \in V
  BY DEF Messages
<1>6. \A k \in 1 .. n, v \in V : Step(k, v) \in V
  <2> SUFFICES ASSUME NEW k \in 1 .. n, NEW v \in V PROVE Step(k, v) \in V
    OBVIOUS
  <2>1. Set(fids, IdsInOrder[k]) \in Messages(fids)
    BY <1>2 DEF Messages
  <2>2. Append(v, Set(fids, IdsInOrder[k])) \in V
    BY <2>1, AppendProperties
  <2> QED
    BY <2>2
<1> HIDE DEF Step, V, start
<1>7. g \in [1 .. n -> [V -> V]] /\ \A k \in 1 .. n, v \in V : g[k][v] = Step(k, v)
  BY <1>6
<1> HIDE DEF g, n
<1>8. Loop(iter)
  <2>1. PICK i : Folds(i, n, V, start, g)
    BY <1>1, <1>5, <1>7, FoldExists
  <2>2. \A s \in SUBSET (1 .. n) : s # {} => i[s] = Step(Max(s), i[s \ {Max(s)}])
    BY <1>7, <2>1 DEF Folds
  <2>3. Loop(i)
    BY <2>1, <2>2 DEF Folds
  <2> HIDE DEF Loop
  <2> QED
    BY <2>3
<1> HIDE DEF iter
<1>9. Computes(f, n, V, start, g)
  <2>1. iter[{}] = start
    BY <1>8
  <2>2. ASSUME NEW k \in 1 .. n, iter[1 .. k - 1] \in V
        PROVE  iter[1 .. k] = g[k][iter[1 .. k - 1]]
    <3>1. /\ 1 .. k \in SUBSET (1 .. n) /\ 1 .. k # {}
          /\ Max(1 .. k) = k /\ (1 .. k) \ {k} = 1 .. k - 1
      BY <1>1, MaxOfFirstPlaces
    <3>2. iter[1 .. k] = Step(k, iter[1 .. k - 1])
      BY <1>8, <3>1
    <3> QED
      BY <1>7, <2>2, <3>2
  <2> QED
    BY <1>1, <1>5, <1>7, <2>1, <2>2, FoldComputes
<1> HIDE DEF f
<1>10. f \in [0 .. n -> V] /\ f[0] = start /\ \A k \in 1 .. n : f[k] = Step(k, f[k - 1])
  BY <1>1, <1>7, <1>9 DEF Computes
<1>11. \A k \in 1 .. n : f[k] = IF fids[k - 1].isTracked THEN Append(f[k - 1], Set(fids, k - 1))
                               ELSE f[k - 1]
  BY <1>1, <1>10 DEF Step
<1> QED
  BY <1>3, <1>4, <1>10, <1>11 DEF V, start, n

\* The messages of the first k ids: one for every fiducial that is tracked, and no other.
Listing(sent, k, fids) ==
    /\ sent \in Seq(Messages(fids)) /\ Len(sent) >= 1 /\ sent[1] = Alive(fids)
    /\ \A j \in 2 .. Len(sent) : \E i \in Tracked(fids) : sent[j] = Set(fids, i)
    /\ \A i \in Tracked(fids) : i < k => \E j \in 2 .. Len(sent) : sent[j] = Set(fids, i)

LEMMA ListingStep ==
    ASSUME NEW fids, NEW k \in 1 .. MaxFiducials, NEW old, Listing(old, k - 1, fids), NEW new,
           new = IF fids[k - 1].isTracked THEN Append(old, Set(fids, k - 1)) ELSE old
    PROVE  Listing(new, k, fids)
<1>1. MaxFiducials \in Nat /\ k - 1 \in Ids /\ k \in Nat
  BY FinderAssumption DEF Ids
<1>2. \A i \in Tracked(fids) : i \in Nat /\ (i < k => i = k - 1 \/ i < k - 1)
  BY <1>1 DEF Tracked, Ids
<1>3. old \in Seq(Messages(fids)) /\ Len(old) \in Nat /\ Len(old) >= 1
  BY DEF Listing
<1>4. CASE fids[k - 1].isTracked
  <2> DEFINE e == Set(fids, k - 1)
  <2>1. new = Append(old, e) /\ e \in Messages(fids) /\ k - 1 \in Tracked(fids)
    BY <1>1, <1>4 DEF Messages, Tracked
  <2> HIDE DEF e
  <2>2. new \in Seq(Messages(fids)) /\ Len(new) = Len(old) + 1 /\ new[Len(old) + 1] = e
    BY <1>3, <2>1, AppendProperties
  <2>3. \A j \in 1 .. Len(old) : new[j] = old[j]
    BY <1>3, <2>1, AppendProperties
  <2>4. new[1] = Alive(fids)
    BY <1>3, <2>3 DEF Listing
  <2>5. ASSUME NEW j \in 2 .. Len(new) PROVE \E i \in Tracked(fids) : new[j] = Set(fids, i)
    <3>1. CASE j = Len(new)
      BY <2>1, <2>2, <3>1 DEF e
    <3>2. CASE j # Len(new)
      <4>1. j \in 2 .. Len(old)
        BY <1>3, <2>2, <3>2
      <4>2. new[j] = old[j]
        BY <1>3, <2>3, <4>1
      <4> QED
        BY <4>1, <4>2 DEF Listing
    <3> QED
      BY <3>1, <3>2
  <2>6. ASSUME NEW i \in Tracked(fids), i < k PROVE \E j \in 2 .. Len(new) : new[j] = Set(fids, i)
    <3>1. CASE i = k - 1
      <4>1. Len(old) + 1 \in 2 .. Len(new)
        BY <1>3, <2>2
      <4> QED
        BY <2>2, <3>1, <4>1 DEF e
    <3>2. CASE i < k - 1
      <4>1. PICK j \in 2 .. Len(old) : old[j] = Set(fids, i)
        BY <3>2 DEF Listing
      <4>2. j \in 2 .. Len(new) /\ new[j] = old[j]
        BY <1>3, <2>2, <2>3, <4>1
      <4> QED
        BY <4>1, <4>2
    <3> QED
      BY <1>2, <2>6, <3>1, <3>2
  <2>7. Len(new) >= 1
    BY <1>3, <2>2
  <2> QED
    BY <2>2, <2>4, <2>5, <2>6, <2>7 DEF Listing
<1>5. CASE ~fids[k - 1].isTracked
  <2>1. new = old
    BY <1>5
  <2>2. \A i \in Tracked(fids) : i < k => i < k - 1
    BY <1>2, <1>5 DEF Tracked
  <2> QED
    BY <2>1, <2>2 DEF Listing
<1> QED
  BY <1>4, <1>5

LEMMA SentContents ==
    ASSUME NEW fids
    PROVE  Listing(Sent(fids), MaxFiducials, fids)
<1>1. PICK f \in [0 .. MaxFiducials -> Seq(Messages(fids))] :
         /\ f[0] = <<Alive(fids)>>
         /\ \A k \in 1 .. MaxFiducials :
               f[k] = IF fids[k - 1].isTracked THEN Append(f[k - 1], Set(fids, k - 1))
                      ELSE f[k - 1]
         /\ f[MaxFiducials] = Sent(fids)
  BY SendLoop
<1>2. MaxFiducials \in Nat
  BY FinderAssumption
<1> DEFINE G == {k \in 0 .. MaxFiducials : Listing(f[k], k, fids)}
<1>3. 0 \in G
  <2> DEFINE start == <<Alive(fids)>>
  <2>1. start \in Seq(Messages(fids)) /\ Len(start) = 1 /\ start[1] = Alive(fids)
    BY DEF Messages
  <2>2. \A i \in Tracked(fids) : ~(i < 0)
    BY <1>2 DEF Tracked, Ids
  <2> HIDE DEF start
  <2>3. Listing(start, 0, fids)
    BY <2>1, <2>2 DEF Listing
  <2>4. f[0] = start
    BY <1>1 DEF start
  <2>5. 0 \in 0 .. MaxFiducials
    BY <1>2
  <2> QED
    BY <2>3, <2>4, <2>5
<1>4. ASSUME NEW k \in 1 .. MaxFiducials, k - 1 \in G PROVE k \in G
  <2>1. Listing(f[k], k, fids)
    BY <1>1, <1>4, ListingStep
  <2> QED
    BY <1>2, <2>1
<1>5. \A k \in 0 .. MaxFiducials : k \in G
  <2> HIDE DEF G
  <2> QED
    BY <1>2, <1>3, <1>4, Rounds
<1>6. Listing(f[MaxFiducials], MaxFiducials, fids)
  BY <1>2, <1>5
<1> QED
  BY <1>1, <1>6

\* The messages of a frame's bundle, between the ids that are alive and the number.
Carries(bundle, frame, number) ==
    LET n == Len(bundle)
    IN  /\ n \in Nat /\ n >= 2
        /\ Head(bundle) = bundle[1] /\ Last(bundle) = bundle[n]
        /\ bundle[1] = [path |-> "alive", ids |-> DOMAIN frame]
        /\ bundle[n] = FSeq(number)
        /\ \A j \in 2 .. n - 1 :
              \E i \in DOMAIN frame : bundle[j] = [path |-> "set", id |-> i, data |-> frame[i]]
        /\ \A i \in DOMAIN frame :
              \E j \in 2 .. n - 1 : bundle[j] = [path |-> "set", id |-> i, data |-> frame[i]]

FrameOf(fids) == [i \in Tracked(fids) |-> Data(fids[i])]

LEMMA BundleCarries ==
    ASSUME NEW fids, NEW number
    PROVE  Carries(Bundle(fids, number), FrameOf(fids), number)
<1> DEFINE sent == Sent(fids)
           bundle == Bundle(fids, number)
           l == Len(sent)
           All == Messages(fids) \cup {FSeq(number)}
<1>1. /\ sent \in Seq(Messages(fids)) /\ l \in Nat /\ l >= 1 /\ sent[1] = Alive(fids)
      /\ \A j \in 2 .. l : \E i \in Tracked(fids) : sent[j] = Set(fids, i)
      /\ \A i \in Tracked(fids) : \E j \in 2 .. l : sent[j] = Set(fids, i)
  <2>1. Listing(sent, MaxFiducials, fids)
    BY SentContents
  <2>2. \A i \in Tracked(fids) : i < MaxFiducials
    BY FinderAssumption DEF Tracked, Ids
  <2> HIDE DEF sent
  <2> QED
    BY <2>1, <2>2 DEF Listing
<1>2. bundle = Append(sent, FSeq(number))
  BY DEF Bundle, Sent
<1> HIDE DEF sent, bundle
<1>3. sent \in Seq(All)
  BY <1>1, SeqMonotonic
<1>4. /\ bundle \in Seq(All) /\ Len(bundle) = l + 1 /\ bundle[l + 1] = FSeq(number)
      /\ \A j \in 1 .. l : bundle[j] = sent[j]
  BY <1>2, <1>3, AppendProperties
<1> HIDE DEF All, l
<1>5. Head(bundle) = bundle[1] /\ Last(bundle) = bundle[l + 1]
  BY <1>1, <1>4 DEF Last
<1>6. bundle[1] = [path |-> "alive", ids |-> DOMAIN FrameOf(fids)]
  BY <1>1, <1>4 DEF Alive, FrameOf
<1>7. \A i \in Tracked(fids) : Set(fids, i) = [path |-> "set", id |-> i, data |-> FrameOf(fids)[i]]
  BY DEF Set, FrameOf
<1>8. DOMAIN FrameOf(fids) = Tracked(fids) /\ l + 1 - 1 = l
  BY <1>1 DEF FrameOf
<1>9. \A j \in 2 .. l : bundle[j] = sent[j]
  BY <1>1, <1>4
<1>10. \A j \in 2 .. l : \E i \in DOMAIN FrameOf(fids) :
          bundle[j] = [path |-> "set", id |-> i, data |-> FrameOf(fids)[i]]
  BY <1>1, <1>7, <1>8, <1>9
<1>11. \A i \in DOMAIN FrameOf(fids) : \E j \in 2 .. l :
          bundle[j] = [path |-> "set", id |-> i, data |-> FrameOf(fids)[i]]
  BY <1>1, <1>7, <1>8, <1>9
<1>12. Carries(bundle, FrameOf(fids), number)
  <2>1. /\ Len(bundle) \in Nat /\ Len(bundle) >= 2 /\ Len(bundle) = l + 1
        /\ 2 .. Len(bundle) - 1 = 2 .. l
    BY <1>1, <1>4
  <2> QED
    BY <1>4, <1>5, <1>6, <1>10, <1>11, <2>1 DEF Carries
<1> QED
  BY <1>12 DEF bundle

-----------------------------------------------------------------------------
(***************************************************************************)
(* The server, the network and the receiver                                *)
(***************************************************************************)
Values == [x : Numbers, a : Angles, xspeed : Quotients, aspeed : Quotients,
           xyacc : Changes, aacc : Changes]
Frames == UNION {[S -> Values] : S \in SUBSET Ids}

\* Every datagram is the bundle of one frame that was sent, and the view is of one of them.
SentInv ==
    /\ sock \in {"none", "open", "absent", "closed"}
    /\ fseq \in 0 .. MaxSent /\ frames \in Seq(Frames) /\ fseq = Len(frames)
    /\ \A bundle \in network : \E m \in 1 .. Len(frames) : Carries(bundle, frames[m], m - 1)

ViewInv ==
    /\ view = [fseq |-> view.fseq, fiducials |-> view.fiducials] /\ view.fseq \in Int
    /\ view.fseq >= 0 => view.fseq < Len(frames) /\ view.fiducials = frames[view.fseq + 1]

TrackingInv == SeenInv /\ SentInv /\ ViewInv

LEMMA InitTrackingInv == Init => TrackingInv
<1> SUFFICES ASSUME Init PROVE TrackingInv
  OBVIOUS
<1>1. SeenInv
  BY InitSeenInv DEF Init
<1>2. SentInv
  BY TuioAssumption DEF Init, SentInv
<1>3. ViewInv
  BY DEF Init, ViewInv
<1> QED
  BY <1>1, <1>2, <1>3 DEF TrackingInv

\* The fiducials that are tracked make a frame.
LEMMA FrameType ==
    ASSUME NEW fids \in [Ids -> Fiducials]
    PROVE  FrameOf(fids) \in Frames
<1>1. Tracked(fids) \in SUBSET Ids
  BY DEF Tracked
<1>2. \A i \in Tracked(fids) : Data(fids[i]) \in Values
  BY DEF Tracked, Data, Values, Fiducials
<1>3. FrameOf(fids) \in [Tracked(fids) -> Values]
  BY <1>2 DEF FrameOf
<1> QED
  BY <1>1, <1>3 DEF Frames

\* A frame is remembered, sent and numbered.
LEMMA FrameStep ==
    ASSUME TrackingInv, NEW raws \in RawFrames, NEW tick \in Ticks, Frame(raws, tick)
    PROVE  TrackingInv'
<1> DEFINE new == FrameOf(trackedFiducials')
           bundle == Bundle(trackedFiducials', fseq)
<1>1. /\ FindFiducials(raws, tick) /\ fseq < MaxSent /\ fseq' = fseq + 1
      /\ frames' = Append(frames, new) /\ UNCHANGED <<sock, view>>
      /\ network' \subseteq network \cup {bundle}
  BY DEF Frame, SendMessage, SendTo, FrameOf
<1>2. SeenInv'
  BY <1>1, FindStep DEF TrackingInv
<1>3. new \in Frames
  BY <1>2, FrameType DEF SeenInv
<1>4. Carries(bundle, new, fseq)
  BY BundleCarries
<1> HIDE DEF new, bundle
<1>5. /\ frames \in Seq(Frames) /\ fseq = Len(frames) /\ fseq \in 0 .. MaxSent
      /\ frames' \in Seq(Frames) /\ Len(frames') = Len(frames) + 1 /\ Len(frames) \in Nat
      /\ frames'[Len(frames) + 1] = new /\ \A m \in 1 .. Len(frames) : frames'[m] = frames[m]
  <2>1. frames \in Seq(Frames) /\ fseq = Len(frames) /\ fseq \in 0 .. MaxSent
    BY DEF TrackingInv, SentInv
  <2> QED
    BY <1>1, <1>3, <2>1, AppendProperties
<1>6. SentInv'
  <2>1. ASSUME NEW b \in network'
        PROVE  \E m \in 1 .. Len(frames') : Carries(b, frames'[m], m - 1)
    <3>1. CASE b = bundle
      <4>1. Len(frames) + 1 \in 1 .. Len(frames') /\ Len(frames) + 1 - 1 = fseq
        BY <1>5
      <4>2. Carries(b, frames'[Len(frames) + 1], Len(frames) + 1 - 1)
        BY <1>4, <1>5, <3>1, <4>1
      <4> QED
        BY <4>1, <4>2
    <3>2. CASE b # bundle
      <4>1. b \in network
        BY <1>1, <2>1, <3>2
      <4>2. PICK m \in 1 .. Len(frames) : Carries(b, frames[m], m - 1)
        BY <4>1 DEF TrackingInv, SentInv
      <4>3. m \in 1 .. Len(frames') /\ frames'[m] = frames[m]
        BY <1>5, <4>2
      <4>4. Carries(b, frames'[m], m - 1)
        BY <4>2, <4>3
      <4> QED
        BY <4>3, <4>4
    <3> QED
      BY <3>1, <3>2
  <2>2. fseq' \in 0 .. MaxSent /\ fseq' = Len(frames')
    BY <1>1, <1>5, TuioAssumption
  <2> QED
    BY <1>1, <1>5, <2>1, <2>2 DEF TrackingInv, SentInv
<1>7. ViewInv'
  <2>1. ViewInv /\ view' = view
    BY <1>1 DEF TrackingInv
  <2>2. ASSUME view.fseq >= 0
        PROVE  view.fseq < Len(frames') /\ view.fiducials = frames'[view.fseq + 1]
    <3>1. view.fseq + 1 \in 1 .. Len(frames)
      BY <1>5, <2>1, <2>2 DEF ViewInv
    <3> QED
      BY <1>5, <2>1, <2>2, <3>1 DEF ViewInv
  <2> QED
    BY <2>1, <2>2 DEF ViewInv
<1> QED
  BY <1>2, <1>6, <1>7 DEF TrackingInv

\* A bundle that is received replaces the view by its frame: no value of it comes from before.
LEMMA ReceivedFrame ==
    ASSUME NEW bundle, NEW number \in Int, NEW frame \in Frames, Carries(bundle, frame, number),
           Receive(bundle)
    PROVE  \/ view' = view
           \/ view' = [fseq |-> number, fiducials |-> frame]
<1> DEFINE n == Len(bundle)
           sets == {k \in 1 .. n : bundle[k].path = "set"}
           known(i) == \E k \in sets : bundle[k].id = i
           value(i) == IF known(i) THEN bundle[CHOOSE k \in sets : bundle[k].id = i].data
                       ELSE IF i \in DOMAIN view.fiducials THEN view.fiducials[i] ELSE Data(Unseen)
           ids == DOMAIN frame
<1>1. /\ n \in Nat /\ n >= 2
      /\ Head(bundle) = bundle[1] /\ Last(bundle) = bundle[n]
      /\ bundle[1] = [path |-> "alive", ids |-> ids]
      /\ bundle[n] = [path |-> "fseq", number |-> number]
      /\ \A j \in 2 .. n - 1 :
            \E i \in ids : bundle[j] = [path |-> "set", id |-> i, data |-> frame[i]]
      /\ \A i \in ids :
            \E j \in 2 .. n - 1 : bundle[j] = [path |-> "set", id |-> i, data |-> frame[i]]
  BY DEF Carries, FSeq
<1>2. Head(bundle).ids = ids /\ Last(bundle).number = number
  BY <1>1
<1>3. view' = IF number <= view.fseq THEN view
              ELSE [fseq |-> number, fiducials |-> [i \in ids |-> value(i)]]
  BY <1>2 DEF Receive
<1>4. bundle[1].path = "alive" /\ bundle[n].path = "fseq"
  BY <1>1
<1>5. \A k \in sets : k \in 2 .. n - 1
  BY <1>1, <1>4
<1>6. ASSUME NEW k \in sets PROVE bundle[k].id \in ids /\ bundle[k].data = frame[bundle[k].id]
  <2>1. PICK i \in ids : bundle[k] = [path |-> "set", id |-> i, data |-> frame[i]]
    BY <1>1, <1>5
  <2>2. bundle[k].id = i /\ bundle[k].data = frame[i]
    BY <2>1
  <2> QED
    BY <2>2
<1>7. ASSUME NEW i \in ids PROVE value(i) = frame[i]
  <2>1. PICK j \in 2 .. n - 1 : bundle[j] = [path |-> "set", id |-> i, data |-> frame[i]]
    BY <1>1
  <2>2. j \in sets /\ bundle[j].id = i
    BY <1>1, <2>1
  <2> DEFINE k == CHOOSE l \in sets : bundle[l].id = i
  <2> HIDE DEF sets
  <2>3. k \in sets /\ bundle[k].id = i
    BY <2>2
  <2>4. known(i)
    BY <2>2
  <2>5. value(i) = bundle[k].data
    BY <2>4
  <2> HIDE DEF k, value
  <2> QED
    BY <1>6, <2>3, <2>5
<1>8. [i \in ids |-> value(i)] = frame
  <2>1. frame = [i \in ids |-> frame[i]]
    BY DEF Frames
  <2> HIDE DEF value
  <2> QED
    BY <1>7, <2>1
<1> HIDE DEF value, ids
<1> QED
  BY <1>3, <1>8

LEMMA DeliverStep ==
    ASSUME TrackingInv, NEW bundle \in network, Deliver(bundle)
    PROVE  TrackingInv'
<1>1. UNCHANGED <<finderVars, sock, fseq, network, frames>> /\ Receive(bundle)
  BY DEF Deliver
<1>2. PICK m \in 1 .. Len(frames) : Carries(bundle, frames[m], m - 1)
  BY DEF TrackingInv, SentInv
<1>3. frames \in Seq(Frames) /\ Len(frames) \in Nat /\ frames[m] \in Frames /\ m - 1 \in Int
  BY DEF TrackingInv, SentInv
<1>4. view' = view \/ view' = [fseq |-> m - 1, fiducials |-> frames[m]]
  BY <1>1, <1>2, <1>3, ReceivedFrame
<1>5. ViewInv'
  <2>1. CASE view' = view
    BY <1>1, <2>1 DEF TrackingInv, ViewInv
  <2>2. CASE view' = [fseq |-> m - 1, fiducials |-> frames[m]]
    <3>1. view'.fseq = m - 1 /\ view'.fiducials = frames[m] /\ m - 1 + 1 = m /\ m - 1 < Len(frames)
      BY <1>3, <2>2
    <3> QED
      BY <1>1, <1>3, <2>2, <3>1 DEF ViewInv
  <2> QED
    BY <1>4, <2>1, <2>2
<1> QED
  BY <1>1, <1>5 DEF TrackingInv, SeenInv, SentInv, finderVars

LEMMA NextTrackingInv == TrackingInv /\ [Next]_vars => TrackingInv'
<1> SUFFICES ASSUME TrackingInv, [Next]_vars PROVE TrackingInv'
  OBVIOUS
<1>1. CASE Open \/ OpenFails \/ Close \/ UNCHANGED vars
  BY <1>1 DEF Open, OpenFails, Close, vars, tuioVars, finderVars, TrackingInv, SeenInv, SentInv,
              ViewInv
<1>2. ASSUME NEW bundle \in network, Lose(bundle) PROVE TrackingInv'
  BY <1>2 DEF Lose, finderVars, TrackingInv, SeenInv, SentInv, ViewInv
<1> QED
  BY <1>1, <1>2, FrameStep, DeliverStep DEF Next

\* The strengthening: what is remembered of a fiducial is a function of its last sightings, and
\* every datagram is the bundle of a frame.
THEOREM TrackingInvariant == Spec => []TrackingInv
BY InitTrackingInv, NextTrackingInv, PTL DEF Spec

-----------------------------------------------------------------------------
(***************************************************************************)
(* What follows for a fiducial                                             *)
(***************************************************************************)
LEMMA RecordFields ==
    ASSUME NEW s, NEW tracked, NEW f, f = RecordOf(s, tracked)
    PROVE  LET n == Len(s)
           IN  /\ f.timestamp = IF n = 0 THEN 0 ELSE s[n].t
               /\ f.x = IF n = 0 THEN NaN ELSE <<s[n].x>>
               /\ f.xspeed = IF n < 2 THEN NaN ELSE Way(s, n)
               /\ f.aspeed = IF n < 2 THEN NaN ELSE Rotation(s, n)
               /\ f.xyacc = IF n < 3 THEN NaN
                            ELSE <<Way(s, n), Way(s, n - 1), s[n].t - s[n - 1].t>>
               /\ f.aacc = IF n < 3 THEN NaN
                           ELSE <<Rotation(s, n), Rotation(s, n - 1), s[n].t - s[n - 1].t>>
BY DEF RecordOf

\* The last two sightings are sightings, and time passed between them.
LEMMA LastTwo ==
    ASSUME NEW s, NEW now, InOrder(s, now), NEW n, n = Len(s), n >= 2
    PROVE  /\ n \in {2, 3} /\ s[n] \in Sightings /\ s[n - 1] \in Sightings
           /\ s[n].t - s[n - 1].t > 0
<1>1. s \in Seq(Sightings) /\ n \in Nat /\ n <= 3
  BY DEF InOrder
<1>2. n - 1 \in 1 .. n - 1 /\ n - 1 \in 1 .. n /\ n \in 1 .. n /\ n - 1 + 1 = n
  BY <1>1
<1>3. s[n - 1].t < s[n].t
  <2>1. s[n - 1].t < s[n - 1 + 1].t
    BY <1>2 DEF InOrder
  <2> QED
    BY <1>2, <2>1
<1>4. s[n] \in Sightings /\ s[n - 1] \in Sightings
  BY <1>1, <1>2, ElementOfSeq
<1>5. s[n].t \in Nat /\ s[n - 1].t \in Nat
  BY <1>4 DEF Sightings
<1> QED
  BY <1>1, <1>3, <1>4, <1>5

SpeedOf(f, s) ==
    LET n == Len(s)
        dt(k) == s[k].t - s[k - 1].t
        v(k) == <<s[k].x - s[k - 1].x, dt(k)>>
    IN  /\ f.x = IF n = 0 THEN NaN ELSE <<s[n].x>>
        /\ f.xspeed = IF n < 2 THEN NaN ELSE v(n)
        /\ f.xyacc = IF n < 3 THEN NaN ELSE <<v(n), v(n - 1), dt(n)>>
        /\ n > 0 => f.timestamp = s[n].t

LEMMA SpeedOfRemembered ==
    ASSUME NEW f, NEW s, NEW now, Remembered(f, s, now)
    PROVE  SpeedOf(f, s)
<1> DEFINE n == Len(s)
           dt(k) == s[k].t - s[k - 1].t
           v(k) == <<s[k].x - s[k - 1].x, dt(k)>>
<1>1. f = RecordOf(s, f.isTracked) /\ n \in Nat
  BY DEF Remembered, InOrder
<1>2. /\ f.timestamp = IF n = 0 THEN 0 ELSE s[n].t
      /\ f.x = IF n = 0 THEN NaN ELSE <<s[n].x>>
      /\ f.xspeed = IF n < 2 THEN NaN ELSE Way(s, n)
      /\ f.xyacc = IF n < 3 THEN NaN ELSE <<Way(s, n), Way(s, n - 1), s[n].t - s[n - 1].t>>
  BY <1>1, RecordFields, ZenonT(60)
<1>3. Way(s, n) = v(n) /\ Way(s, n - 1) = v(n - 1)
  BY DEF Way
<1>4. f.xyacc = IF n < 3 THEN NaN ELSE <<v(n), v(n - 1), dt(n)>>
  <2> HIDE DEF n, v
  <2> QED
    BY <1>2, <1>3
<1>5. f.xspeed = IF n < 2 THEN NaN ELSE v(n)
  <2> HIDE DEF n, v
  <2> QED
    BY <1>2, <1>3
<1>6. n > 0 => f.timestamp = s[n].t
  <2> HIDE DEF n
  <2> QED
    BY <1>1, <1>2
<1> QED
  BY <1>2, <1>4, <1>5, <1>6 DEF SpeedOf

TimePassesFor(f) ==
    /\ f.xspeed # NaN => f.xspeed[2] > 0
    /\ f.aacc # NaN => f.aacc[1][2] > 0 /\ f.aacc[3] > 0

ShortFor(f, s) ==
    LET n == Len(s)
    IN  /\ (f.aspeed = NaN) = (n < 2)
        /\ n >= 2 => /\ 2 * Abs(f.aspeed[1]) <= Circle
                     /\ (f.aspeed[1] - (s[n].a - s[n - 1].a)) % Circle = 0
        /\ (f.aacc = NaN) = (n < 3)

LEMMA SoundWhenRemembered ==
    ASSUME NEW f, NEW s, NEW now, Remembered(f, s, now)
    PROVE  TimePassesFor(f) /\ ShortFor(f, s)
<1> DEFINE n == Len(s)
           v == Way(s, n)
           w == Rotation(s, n)
           d == s[n].t - s[n - 1].t
           c == <<w, Rotation(s, n - 1), d>>
<1>1. InOrder(s, now) /\ n \in Nat /\ n <= 3 /\ f = RecordOf(s, f.isTracked)
  BY DEF Remembered, InOrder
<1>2. /\ f.xspeed = (IF n < 2 THEN NaN ELSE v) /\ f.aspeed = (IF n < 2 THEN NaN ELSE w)
      /\ f.aacc = (IF n < 3 THEN NaN ELSE c)
  BY <1>1, RecordFields, ZenonT(60)
<1>3. /\ v # NaN /\ v[2] = d /\ w # NaN /\ w[2] = d /\ w[1] = Turn(s[n - 1].a, s[n].a)
      /\ c # NaN /\ c[1] = w /\ c[3] = d
  BY NoNumber DEF Way, Rotation
<1>4. ASSUME n >= 2
      PROVE  /\ d > 0 /\ 2 * Abs(w[1]) <= Circle
             /\ (w[1] - (s[n].a - s[n - 1].a)) % Circle = 0
  <2>1. d > 0 /\ s[n] \in Sightings /\ s[n - 1] \in Sightings
    BY <1>1, <1>4, LastTwo
  <2>2. s[n].a \in 0 .. Circle - 1 /\ s[n - 1].a \in 0 .. Circle - 1
    BY <2>1 DEF Sightings
  <2> QED
    BY <1>3, <2>1, <2>2, TurnIsShort, SMTT(60)
<1>5. (n < 2 \/ n >= 2) /\ (n >= 3 => n >= 2) /\ (n < 3 \/ n >= 3) /\ ~(n < 2 /\ n >= 2)
  BY <1>1
<1> HIDE DEF v, w, d, c
<1>6. TimePassesFor(f)
  <2>1. f.xspeed # NaN => f.xspeed[2] > 0
    BY <1>1, <1>2, <1>3, <1>4, <1>5
  <2>2. f.aacc # NaN => f.aacc[1][2] > 0 /\ f.aacc[3] > 0
    BY <1>1, <1>2, <1>3, <1>4, <1>5
  <2> QED
    BY <2>1, <2>2 DEF TimePassesFor
<1>7. ShortFor(f, s)
  <2>1. (f.aspeed = NaN) = (n < 2)
    <3>1. CASE n < 2
      BY <1>2, <3>1
    <3>2. CASE ~(n < 2)
      BY <1>2, <1>3, <3>2
    <3> QED
      BY <3>1, <3>2
  <2>2. (f.aacc = NaN) = (n < 3)
    <3>1. CASE n < 3
      BY <1>2, <3>1
    <3>2. CASE ~(n < 3)
      BY <1>2, <1>3, <3>2
    <3> QED
      BY <3>1, <3>2
  <2>3. ASSUME n >= 2
        PROVE  /\ 2 * Abs(f.aspeed[1]) <= Circle
               /\ (f.aspeed[1] - (s[n].a - s[n - 1].a)) % Circle = 0
    <3>1. f.aspeed = w
      BY <1>2, <1>5, <2>3
    <3> QED
      BY <1>4, <2>3, <3>1
  <2> QED
    BY <2>1, <2>2, <2>3 DEF ShortFor
<1> QED
  BY <1>6, <1>7

LEMMA TrackingTypeOK == TrackingInv => TypeOK
<1> SUFFICES ASSUME TrackingInv PROVE TypeOK
  OBVIOUS
<1>1. clock \in Nat /\ found \in Nat /\ trackedFiducials \in [Ids -> Fiducials]
  BY DEF TrackingInv, SeenInv
<1>2. \A i \in Ids : trackedFiducials[i].isTracked \in BOOLEAN /\ trackedFiducials[i].timestamp \in Nat
  <2>1. ASSUME NEW i \in Ids
        PROVE  trackedFiducials[i].isTracked \in BOOLEAN /\ trackedFiducials[i].timestamp \in Nat
    <3>1. trackedFiducials[i] \in Fiducials
      BY <1>1
    <3> QED
      BY <3>1 DEF Fiducials
  <2> QED
    BY <2>1
<1>3. ASSUME NEW bundle \in network
      PROVE  Head(bundle).path = "alive" /\ Last(bundle).path = "fseq"
  <2>1. PICK m \in 1 .. Len(frames) : Carries(bundle, frames[m], m - 1)
    BY DEF TrackingInv, SentInv
  <2>2. /\ Head(bundle) = [path |-> "alive", ids |-> DOMAIN frames[m]]
        /\ Last(bundle) = [path |-> "fseq", number |-> m - 1]
    BY <2>1 DEF Carries, FSeq
  <2> QED
    BY <2>2
<1>4. sock \in {"none", "open", "absent", "closed"} /\ fseq \in 0 .. MaxSent
  BY DEF TrackingInv, SentInv
<1> QED
  BY <1>1, <1>2, <1>3, <1>4 DEF TypeOK

\* Of every fiducial, after every sequence of frames: its speed is the way between its last two
\* sightings over the time between them, and its acceleration compares that to the speed before.
THEOREM SpeedsAreOfSightings == Spec => []SpeedsOfLastSightings
<1>1. TrackingInv => SpeedsOfLastSightings
  <2> SUFFICES ASSUME TrackingInv PROVE SpeedsOfLastSightings
    OBVIOUS
  <2>1. \A i \in Ids : SpeedOf(trackedFiducials[i], seen[i])
    BY SpeedOfRemembered DEF TrackingInv, SeenInv
  <2> QED
    BY <2>1 DEF SpeedsOfLastSightings, SpeedOf
<1> QED
  BY <1>1, TrackingInvariant, PTL

\* No speed is over no time or the long way round, and what is said to be tracked was seen at the
\* time of the last frame.
THEOREM FinderIsSound == Spec => []FinderInv
<1>1. TrackingInv => FinderInv
  <2> SUFFICES ASSUME TrackingInv PROVE FinderInv
    OBVIOUS
  <2>1. \A i \in Ids : Remembered(trackedFiducials[i], seen[i], FrameStart(clock))
    BY DEF TrackingInv, SeenInv
  <2>2. \A i \in Ids : TimePassesFor(trackedFiducials[i]) /\ ShortFor(trackedFiducials[i], seen[i])
    BY <2>1, SoundWhenRemembered
  <2>3. TimePasses
    BY <2>2 DEF TimePasses, TimePassesFor
  <2>4. ShortWayRound
    BY <2>2 DEF ShortWayRound, ShortFor
  <2>5. TrackedNow
    <3>1. ASSUME NEW i \in Ids
          PROVE  trackedFiducials[i].isTracked <=>
                    seen[i] # <<>> /\ seen[i][Len(seen[i])].t = FrameStart(clock)
      <4>1. seen[i] \in Seq(Sightings)
        BY <2>1 DEF Remembered, InOrder
      <4>2. Len(seen[i]) > 0 <=> seen[i] # <<>>
        BY <4>1, EmptySeq
      <4> QED
        BY <2>1, <4>2 DEF Remembered
    <3> QED
      BY <3>1 DEF TrackedNow
  <2> QED
    BY <2>3, <2>4, <2>5, TrackingTypeOK DEF FinderInv
<1> QED
  BY <1>1, TrackingInvariant, PTL

\* Whatever datagrams are lost, repeated or overtaken, what the receiver holds is exactly what was
\* tracked in one frame.
THEOREM ViewIsAlwaysOneFrame == Spec => []ViewIsOneFrame
<1>1. TrackingInv => ViewIsOneFrame
  BY DEF TrackingInv, ViewInv, ViewIsOneFrame
<1> QED
  BY <1>1, TrackingInvariant, PTL
=============================================================================

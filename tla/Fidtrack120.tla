---------------------------- MODULE Fidtrack120 ----------------------------
(***************************************************************************)
(* compute_location_angle_and_id_for_6_symbol_fiducial (fidtrack120.c): the *)
(* six symbols of a fiducial lie in two lines of three; the one with a     *)
(* single leaf is at the end of a line and the codes are read from it.     *)
(* A point is twice the centre of its region's box, a pair of integers;    *)
(* the quotients of the code are compared as products, without rounding.   *)
(* The variables are those of the function, and its parts are the steps.   *)
(***************************************************************************)
EXTENDS Integers, Sequences, FiniteSets, SequencesExt

InvalidFiducialId == -1
SymbolsCollected == 6

VARIABLES
    points,     \* the symbols, in the order in which they are in the list of the root
    lines,      \* the lines found, in the end in the order in which the codes are read
    step,       \* "collect", "first line", "second line", "order", "read" or "done"
    fiducial    \* symbol_sequence, id and direction

fiducialVars == <<points, lines, step, fiducial>>

InitFiducial == points = <<>> /\ lines = <<>> /\ step = "collect" /\ fiducial = <<>>

X(p) == p.at[1]
Y(p) == p.at[2]

SquaredDistance(a, b) == (X(a) - X(b)) * (X(a) - X(b)) + (Y(a) - Y(b)) * (Y(a) - Y(b))

\* c = b / a is in 0 .. 1, and a is not zero.
Intersects(A, B, C, D) ==
    LET ABx == X(B) - X(A)
        ABy == Y(B) - Y(A)
        a == (X(D) - X(C)) * ABy - (Y(D) - Y(C)) * ABx
        b == (Y(C) - Y(A)) * ABx + (X(A) - X(C)) * ABy
    IN a # 0 /\ 0 <= b * a /\ b * a <= a * a

\* All i, j, k of the nested loops in their order; the first of the flattest is kept.
IndexTriples == [n \in {3, 6} |->
    SelectSeq([m \in 1 .. n * n * n |->
                  <<(m - 1) \div (n * n) + 1, (((m - 1) \div n) % n) + 1, ((m - 1) % n) + 1>>],
              LAMBDA t : t[1] # t[2] /\ t[2] # t[3] /\ t[1] # t[3])]

\* Quotients as pairs.
Flatter(m, n) == m[1] * n[2] < n[1] * m[2]

FindStraightestLineOf3(among) ==
    LET triples == IndexTriples[Len(among)]
        d == [i, j \in 1 .. Len(among) |-> SquaredDistance(among[i], among[j])]
        n == [m \in 1 .. Len(triples) |->
                LET t == triples[m] IN <<d[t[1], t[2]] + d[t[2], t[3]], d[t[1], t[3]]>>]
        best == CHOOSE m \in DOMAIN n : /\ \A l \in 1 .. m - 1 : Flatter(n[m], n[l])
                                        /\ \A l \in m + 1 .. Len(n) : ~Flatter(n[l], n[m])
    IN [k \in 1 .. 3 |-> among[triples[best][k]]]

\* symbols_present has 16 entries.
HasAllSymbolsOnce(sequence) ==
    /\ \A i \in 1 .. Len(sequence) : sequence[i] \in 0 .. Len(sequence) - 1
    /\ \A i, j \in 1 .. Len(sequence) : sequence[i] = sequence[j] => i = j

Factorials == <<1, 1, 2, 6, 24, 120, 720, 5040>>

\* mapping[s] is decremented once for every symbol before that was smaller.
Remaining(sequence, i) ==
    sequence[i] - 1 - Cardinality({j \in 2 .. i - 1 : sequence[j] < sequence[i]})

\* The first symbol is 0 and not counted.
IdFromSymbolSequence(sequence) ==
    LET n == Len(sequence)
    IN FoldLeft(LAMBDA sum, i : sum + Remaining(sequence, i) * Factorials[n - i + 1],
                0, [i \in 1 .. n - 1 |-> i + 1])

IsFirstSymbol(p) == p.adjacentCount = 2

\* start1 is to be the symbol with one leaf: one of the four ends is, or the code goes on anyway.
Reorder(first, second) ==
    IF IsFirstSymbol(first[1]) THEN <<first, second>>
    ELSE IF IsFirstSymbol(first[3]) THEN <<Reverse(first), second>>
    ELSE IF ~IsFirstSymbol(second[1]) /\ IsFirstSymbol(second[3]) THEN <<Reverse(second), first>>
    ELSE <<second, first>>

KeepSecondLine(found) == found

TurnSecondLine(found) ==
    IF Intersects(found[1][1], found[2][3], found[2][1], found[1][3])
    THEN <<found[1], Reverse(found[2])>> ELSE found

\* The vectors whose sum is the direction of the fiducial; y points up.
Along(from, to) == <<X(to) - X(from), -(Y(to) - Y(from))>>
LongSides(l) == <<Along(l[1][1], l[1][3]), Along(l[1][1], l[1][2]), Along(l[1][2], l[1][3]),
                  Along(l[2][3], l[2][1]), Along(l[2][3], l[2][2]), Along(l[2][2], l[2][1])>>
\* "rotated 90 degrees"
ShortSides(l) ==
    LET across(a, b) == <<Y(a) - Y(b), X(a) - X(b)>>
    IN <<across(l[1][1], l[2][3]), across(l[1][2], l[2][2]), across(l[1][3], l[2][1])>>

Direction(l) ==
    LET vectors == LongSides(l) \o ShortSides(l)
    IN <<FoldLeft(LAMBDA sum, v : sum + v[1], 0, vectors),
         FoldLeft(LAMBDA sum, v : sum + v[2], 0, vectors)>>

SymbolSequence(l) == [i \in 1 .. 6 |-> (l[1] \o l[2])[i].adjacentCount - 2]

\* The loop over the neighbours of the root collects those that are symbols.
Collect(point) ==
    /\ step = "collect"
    /\ points' = Append(points, point)
    /\ step' = IF Len(points) + 1 = SymbolsCollected THEN "first line" ELSE step
    /\ UNCHANGED <<lines, fiducial>>

FindFirstLine ==
    /\ step = "first line" /\ step' = "second line"
    /\ lines' = <<FindStraightestLineOf3(points)>>
    /\ UNCHANGED <<points, fiducial>>

FindSecondLine ==
    /\ step = "second line" /\ step' = "order"
    /\ LET others == SelectSeq(points, LAMBDA p : p \notin ToSet(lines[1]))
       IN lines' = Append(lines, FindStraightestLineOf3(others))
    /\ UNCHANGED <<points, fiducial>>

OrderLines ==
    /\ step = "order" /\ step' = "read"
    /\ lines' = TurnSecondLine(Reorder(lines[1], lines[2]))
    /\ UNCHANGED <<points, fiducial>>

ReadFiducial ==
    /\ step = "read" /\ step' = "done"
    /\ LET sequence == SymbolSequence(lines)
       IN fiducial' = [symbol_sequence |-> sequence,
                       id |-> IF sequence[1] = 0 /\ HasAllSymbolsOnce(sequence)
                              THEN IdFromSymbolSequence(sequence) ELSE InvalidFiducialId,
                       direction |-> Direction(lines)]
    /\ UNCHANGED <<points, lines>>

ComputeFiducial == FindFirstLine \/ FindSecondLine \/ OrderLines \/ ReadFiducial
=============================================================================

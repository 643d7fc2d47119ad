---------------------------- MODULE CapacityModel ----------------------------
(***************************************************************************)
(* The capacity model of obs-advisor: from the measured rows of one        *)
(* instrument to what it would need at another load and another retention. *)
(* Every measurement is brought to the wanted retention by a power of the  *)
(* ratio of periods, whose exponent is fitted to the measurements, and the *)
(* load is then interpolated, or extrapolated, piecewise linearly.         *)
(*                                                                         *)
(* Floating-point numbers are an ordered field without rounding; powers    *)
(* and logarithms are constants, of which only their laws count.  A slice  *)
(* of rows is a sequence, in the order in which the query returned them,   *)
(* and a point is the position of its row: sorting points is Precedes.     *)
(***************************************************************************)
EXTENDS Integers, Sequences, FiniteSets, SequencesExt

CONSTANTS
    Plus(_, _), Minus(_, _), Times(_, _), Over(_, _), AtMost(_, _),
    Whole(_),   \* the number of an integer
    Pow(_, _), Log(_),
    Keys,       \* ResourceKeys
    Day,        \* seconds in a day
    AlphaFew,   \* exponent of each key while only one period was measured
    AlphaNone,  \* exponent while no line can be fitted
    AlphaMin,   \* limits of a fitted exponent
    AlphaMax,
    Null        \* no validation

Zero          == Whole(0)
One           == Whole(1)
Larger(p, q)  == IF AtMost(p, q) THEN q ELSE p
Smaller(p, q) == IF AtMost(p, q) THEN p ELSE q
Abs(p)        == Larger(p, Minus(Zero, p))

Positive(Num) == {p \in Num : AtMost(Zero, p) /\ p # Zero}

\* The laws of an ordered field with the integers in it, for the numbers of Num.
NumberLaws(Num) ==
    /\ \A p \in Num : Plus(Zero, p) = p /\ Times(One, p) = p
    /\ \A p, q \in Num :
          /\ Plus(p, q) = Plus(q, p) /\ Plus(Minus(p, q), q) = p
          /\ Times(p, q) = Times(q, p) /\ (q # Zero => Times(Over(p, q), q) = p)
          /\ AtMost(p, q) \/ AtMost(q, p)
          /\ AtMost(p, q) /\ AtMost(q, p) => p = q
          /\ AtMost(Zero, p) /\ AtMost(Zero, q) => AtMost(Zero, Times(p, q))
    /\ \A p, q, r \in Num :
          /\ Plus(Plus(p, q), r) = Plus(p, Plus(q, r))
          /\ Times(Times(p, q), r) = Times(p, Times(q, r))
          /\ Times(p, Plus(q, r)) = Plus(Times(p, q), Times(p, r))
          /\ AtMost(p, q) /\ AtMost(q, r) => AtMost(p, r)
          /\ AtMost(p, q) => AtMost(Plus(p, r), Plus(q, r))

IntegerLaws(Ints) ==
    \A m, n \in Ints :
        /\ AtMost(Whole(m), Whole(n)) <=> m <= n
        /\ Whole(m + n) = Plus(Whole(m), Whole(n))
        /\ Whole(m * n) = Times(Whole(m), Whole(n))

\* A power with an exponent that is not negative is multiplicative and does not
\* fall below one for a number that does not.
PowerLaws(Num, Exponents) ==
    \A a \in Exponents : AtMost(Zero, a) =>
        \A p, q \in Positive(Num) :
            /\ AtMost(Zero, Pow(p, a)) /\ Pow(p, a) # Zero
            /\ Pow(Times(p, q), a) = Times(Pow(p, a), Pow(q, a))
            /\ AtMost(One, p) => AtMost(One, Pow(p, a))

ASSUME CapacityModelAssumption ==
    /\ Keys \subseteq {"cpu_cores", "mem_peak_bytes", "disk_bytes"}
    /\ Day \in Nat \ {0}
    /\ \A k \in Keys : /\ AtMost(Zero, AlphaMin[k]) /\ AtMost(AlphaMin[k], AlphaMax[k])
                       /\ AtMost(Zero, AlphaFew[k]) /\ AtMost(Zero, AlphaNone[k])

(***************************************************************************)
(* Periods.                                                                *)
(***************************************************************************)
\* How long the data of a row accumulated.
MeasuredPeriod(r) ==
    IF r.duration_seconds > 0 THEN Over(Whole(r.duration_seconds), Whole(Day))
    ELSE Whole(r.retention_days)

PeriodForKey(r, key) ==
    IF key = "disk_bytes" THEN MeasuredPeriod(r) ELSE Whole(r.retention_days)

\* Rows without a value are left out.
Used(rows, key) == {i \in DOMAIN rows : rows[i].use[key] > 0}

(***************************************************************************)
(* The exponent: the slope of a line through the logarithms of the periods *)
(* and of their medians.                                                   *)
(***************************************************************************)
\* The value in the middle once they are sorted, the upper one of two.
Median(val) ==
    LET half == Cardinality(DOMAIN val) \div 2
    IN  Min({v \in Range(val) :
                /\ Cardinality({i \in DOMAIN val : val[i] < v}) <= half
                /\ half < Cardinality({i \in DOMAIN val : val[i] <= v})})

ClampAbove(alpha, key) == Smaller(AlphaMax[key], alpha)

Clamp(alpha, key) == Larger(AlphaMin[key], Smaller(AlphaMax[key], alpha))

\* Of the values of a function.
Mean(f) == Over(FoldFunction(Plus, Zero, f), Whole(Cardinality(DOMAIN f)))

Variance(pts) ==
    LET xMean == Mean([p \in pts |-> p.x])
    IN  Mean([p \in pts |-> Times(Minus(p.x, xMean), Minus(p.x, xMean))])

Slope(pts) ==
    LET xMean == Mean([p \in pts |-> p.x])
        yMean == Mean([p \in pts |-> p.y])
        cov   == Mean([p \in pts |-> Times(Minus(p.x, xMean), Minus(p.y, yMean))])
    IN  Over(cov, Variance(pts))

Periods(rows, key) == {PeriodForKey(rows[i], key) : i \in Used(rows, key)}

MedianPoints(rows, key) ==
    LET OfPeriod(p) == {i \in Used(rows, key) : PeriodForKey(rows[i], key) = p}
        Medians(p)  == Median([i \in OfPeriod(p) |-> rows[i].use[key]])
    IN  {[x |-> Log(p), y |-> Log(Whole(Medians(p)))] : p \in Periods(rows, key) \ {Zero}}

\* Points without variance cannot be told apart by their logarithms: of two
\* periods that differ, only rounding makes them so.
EstimateAlpha(rows, key) ==
    LET pts == MedianPoints(rows, key)
    IN  IF Cardinality(Periods(rows, key)) < 2 THEN AlphaFew[key]
        ELSE IF Cardinality(pts) < 2 \/ Variance(pts) = Zero THEN AlphaNone[key]
        ELSE Clamp(Slope(pts), key)

(***************************************************************************)
(* The load.  A function y gives the value of each point, its domain are   *)
(* the points.                                                             *)
(***************************************************************************)
PrecedesAsGiven(rows, i, j) == i < j

\* The sort is not stable, but then the order of the rows is not given either.
Precedes(rows, i, j) ==
    \/ rows[i].load_value < rows[j].load_value
    \/ rows[i].load_value = rows[j].load_value /\ i < j

Lowest(rows, S)  == CHOOSE i \in S : \A j \in S \ {i} : Precedes(rows, i, j)
Highest(rows, S) == CHOOSE i \in S : \A j \in S \ {i} : Precedes(rows, j, i)

Above(rows, S, i) == Lowest(rows, {j \in S : Precedes(rows, i, j)})
Below(rows, S, i) == Highest(rows, {j \in S : Precedes(rows, j, i)})

Segment(rows, y, i, j, x) ==
    LET dx == rows[j].load_value - rows[i].load_value
    IN  IF dx = 0 THEN y[i]
        ELSE Plus(y[i], Times(Over(Whole(x - rows[i].load_value), Whole(dx)), Minus(y[j], y[i])))

SegmentEndLate(rows, S, x) ==
    IF x <= rows[Lowest(rows, S)].load_value THEN Above(rows, S, Lowest(rows, S))
    ELSE IF x >= rows[Highest(rows, S)].load_value THEN Highest(rows, S)
    ELSE LET first == Lowest(rows, {i \in S : rows[i].load_value >= x})
         IN  Lowest(rows, {Highest(rows, S)} \cup {i \in S : Precedes(rows, first, i)})

\* The end of the first segment that reaches x; beyond the ends, of the one at
\* that end.
SegmentEnd(rows, S, x) ==
    IF x <= rows[Lowest(rows, S)].load_value THEN Above(rows, S, Lowest(rows, S))
    ELSE IF x >= rows[Highest(rows, S)].load_value THEN Highest(rows, S)
    ELSE Lowest(rows, {i \in S : rows[i].load_value >= x})

Interpolate(rows, y, x) ==
    LET S   == DOMAIN y
        end == SegmentEnd(rows, S, x)
    IN  IF S = {} THEN Zero
        ELSE IF Lowest(rows, S) = Highest(rows, S) THEN y[Lowest(rows, S)]
        ELSE Segment(rows, y, Below(rows, S, end), end, x)

\* What a measurement alone says of its own load.
Scaled(r, target, alpha, key) ==
    Times(Whole(r.use[key]), Pow(Over(target, PeriodForKey(r, key)), alpha))

EstimateResource(rows, load, target, key) ==
    LET alpha == EstimateAlpha(rows, key)
        y     == [i \in Used(rows, key) |-> Scaled(rows[i], target, alpha, key)]
    IN  Larger(Zero, Interpolate(rows, y, load))

(***************************************************************************)
(* Leave-one-out validation.                                               *)
(***************************************************************************)
Mape(actual, predicted) ==
    IF actual <= 0 THEN Zero
    ELSE Over(Abs(Minus(Whole(actual), predicted)), Whole(actual))

TrainAll(rows, i) == rows

Train(rows, i) == RemoveAt(rows, i)

\* The rows of a table are distinct, and each has one error.
ValidateHoldout(rows, key) ==
    LET Position(r) == CHOOSE i \in DOMAIN rows : rows[i] = r
        Error(r)    == Mape(r.use[key],
                            EstimateResource(Train(rows, Position(r)), r.load_value,
                                             PeriodForKey(r, key), key))
    IN  IF Len(rows) < 3 THEN Null ELSE Mean([r \in Range(rows) |-> Error(r)])

=============================================================================

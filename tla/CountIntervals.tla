--------------------------- MODULE CountIntervals ---------------------------
(***************************************************************************)
(* Sets of counts as intervals: what the prover knows of the lengths of    *)
(* the arrays, or of the number of properties of the objects, a schema     *)
(* accepts.  A shape says which counts, whether values of other types are  *)
(* accepted, and whether it is exact; a shape that is not exact may hold   *)
(* more than the schema accepts.                                           *)
(*                                                                         *)
(* Source: ir/constraints.py (ArrayLengthConstraint); compiler/domains/    *)
(* arrays.py and objects.py build their shapes by the same algebra.        *)
(***************************************************************************)
EXTENDS Integers, Sequences, FiniteSets, SequencesExt

CONSTANT None       \* a bound, a keyword or a result that is not there

Intervals == [low : Nat, high : Int \cup {None}]
Shapes == [intervals : Seq(Intervals), others : BOOLEAN, exact : BOOLEAN]

ASSUME NoneAssumption == None \notin Int /\ None \notin Shapes

Interval(low, high) == [low |-> low, high |-> high]

UpTo(i, n) == i.high = None \/ n <= i.high
InInterval(i, n) == i.low <= n /\ UpTo(i, n)

EmptyInterval(i) == i.high # None /\ i.low > i.high

(* Upper bounds, where None is no bound.                                   *)
LowerBound(a, b) == IF a = None THEN b ELSE IF b = None THEN a ELSE IF a < b THEN a ELSE b
Larger(a, b) == IF a < b THEN b ELSE a

MeetIntervals(a, b) == Interval(Larger(a.low, b.low), LowerBound(a.high, b.high))

Touches(previous, i) == previous.high = None \/ i.low <= previous.high + 1

(* Mutant: intervals that touch are not joined, the inner one is dropped.  *)
JoinedKeepingFirst(previous, i) == previous

Joined(previous, i) ==
    Interval(previous.low,
             IF None \in {previous.high, i.high} THEN None ELSE Larger(previous.high, i.high))

(* By their lower bounds; which of two with the same comes first makes no  *)
(* difference to what follows.                                             *)
Before(a, b) ==
    \/ a.low < b.low
    \/ a.low = b.low /\ a.high # None /\ (b.high = None \/ a.high < b.high)

Ordered(intervals) ==
    [k \in 1 .. Cardinality(intervals) |->
        CHOOSE i \in intervals : Cardinality({j \in intervals : Before(j, i)}) = k - 1]

(* The intervals in order, those that overlap or touch made one.           *)
MergeNext(merged, i) ==
    IF merged # <<>> /\ Touches(Last(merged), i)
    THEN Append(Front(merged), Joined(Last(merged), i))
    ELSE Append(merged, i)

Merged(intervals) ==
    FoldLeft(MergeNext, <<>>, Ordered({i \in intervals : ~EmptyInterval(i)}))

Counts(intervals, n) == \E k \in DOMAIN intervals : InInterval(intervals[k], n)

(***************************************************************************)
(* The first count of an interval from start on that no interval of the    *)
(* sequence holds: each interval not wholly before the start moves it.     *)
(***************************************************************************)
Advance(start, i) ==
    IF start = None \/ (i.high # None /\ i.high < start) \/ i.low > start THEN start
    ELSE IF i.high = None THEN None ELSE i.high + 1

Pass(start, covering) == FoldLeft(Advance, start, covering)

FirstUncovered(i, covering) ==
    LET start == Pass(i.low, covering) IN
      IF start = None \/ ~UpTo(i, start) THEN None ELSE start

CoveredBy(i, covering) == FirstUncovered(i, covering) = None

(* The gaps between the intervals, and what follows the last.              *)
Gaps(intervals) ==
    LET Start(k) == IF k = 1 THEN 0 ELSE intervals[k - 1].high + 1
        between == {Interval(Start(k), intervals[k].low - 1) : k \in DOMAIN intervals}
        last == Len(intervals)
        after == IF last = 0 THEN {Interval(0, None)}
                 ELSE IF intervals[last].high = None THEN {}
                 ELSE {Interval(intervals[last].high + 1, None)}
    IN  Merged(between \cup after)

-----------------------------------------------------------------------------
(* Shapes.                                                                 *)
Shape(intervals, others, exact) ==
    [intervals |-> Merged(intervals), others |-> others, exact |-> exact]

AnyShape == Shape({Interval(0, None)}, TRUE, TRUE)
NothingShape == Shape({}, FALSE, TRUE)

MeetShapes(a, b) ==
    IF None \in {a, b} THEN None
    ELSE Shape({MeetIntervals(i, j) : i \in ToSet(a.intervals), j \in ToSet(b.intervals)},
               a.others /\ b.others, a.exact /\ b.exact)

JoinShapes(a, b) ==
    IF None \in {a, b} THEN None
    ELSE Shape(ToSet(a.intervals) \cup ToSet(b.intervals),
               a.others \/ b.others, a.exact /\ b.exact)

(* Mutant: the complement of a shape that only bounds the schema.          *)
ComplementOfBounds(a) ==
    IF a = None THEN None
    ELSE [intervals |-> Gaps(a.intervals), others |-> ~a.others, exact |-> TRUE]

(* Only an exact shape has a complement.                                   *)
Complement(a) ==
    IF a = None \/ ~a.exact THEN None
    ELSE [intervals |-> Gaps(a.intervals), others |-> ~a.others, exact |-> TRUE]

ShapeWithin(a, b) ==
    /\ a.others => b.others
    /\ \A k \in DOMAIN a.intervals : CoveredBy(a.intervals[k], b.intervals)

(* The first count of the first interval that is not covered.              *)
CountNotIn(a, b) ==
    LET open == {k \in DOMAIN a.intervals : ~CoveredBy(a.intervals[k], b.intervals)}
        first == CHOOSE k \in open : \A j \in open : k <= j
    IN  IF open = {} THEN None ELSE FirstUncovered(a.intervals[first], b.intervals)

-----------------------------------------------------------------------------
(* Bounds read off a shape.                                                *)
LeastCount(a) == IF a.intervals = <<>> THEN 0 ELSE a.intervals[1].low

GreatestCount(a) ==
    IF a.intervals = <<>> THEN 0 ELSE a.intervals[Len(a.intervals)].high

(* The least count of the shape above an index.                            *)
CountReaching(a, index) ==
    LET long == {k \in DOMAIN a.intervals :
                    UpTo(a.intervals[k], Larger(a.intervals[k].low, index + 1))}
        first == CHOOSE k \in long : \A j \in long : k <= j
    IN  IF long = {} THEN None ELSE Larger(a.intervals[first].low, index + 1)
=============================================================================

------------------------- MODULE NumericConstraints -------------------------
(***************************************************************************)
(* What the prover concludes about numbers: the numeric keywords of a      *)
(* schema are compiled to a union of atoms, and the atoms of two schemas   *)
(* are compared for inclusion, intersection and emptiness.                 *)
(*                                                                         *)
(* Sources: compiler/domains/numbers.py (keywords to atoms), ir/           *)
(* constraints.py (NumericAtomFact, NumericConstraint: the same algebra),  *)
(* prover/scalars.py (numeric_difference_plan_from_constraints) and the    *)
(* numeric parts of prover/disjointness.py.                                *)
(*                                                                         *)
(* The code computes with fractions.  Here a number is a whole multiple of *)
(* 1/Unit; that a witness is printed as a float is left out: it is         *)
(* validated before it counts, and so it is here.                          *)
(***************************************************************************)
EXTENDS Integers, Sequences, FiniteSets, SequencesExt

CONSTANTS
    Unit,           \* the number 1
    Numbers,        \* the numbers schemas are compared on
    NonNumber,      \* a JSON value that is not a number
    Absent,         \* a keyword or bound that is not there
    Flag,           \* "exclusiveMinimum": true, as Draft 4 has it
    MaxFinite,      \* bound: values enumerated (4096 in the code)
    Queries         \* [kind, lhs, rhs]

ASSUME UnitAssumption == Unit \in Nat \ {0} /\ Numbers \subseteq Int
ASSUME AbsentAssumption ==
    Absent \notin Int /\ NonNumber \notin Int /\ Flag \notin Int \cup {Absent}

(***************************************************************************)
(* A schema is a record of keywords; type is "integer", "number" or "any"  *)
(* (absent); allOf and anyOf are sequences of schemas without either, and  *)
(* anyOf is <<>> when it is absent.                                        *)
(***************************************************************************)
Keywords(branches) ==
    LET bounds == Int \cup {Absent}
    IN  [type : {"integer", "number", "any"},
         minimum : bounds, exclusiveMinimum : bounds \cup {Flag},
         maximum : bounds, exclusiveMaximum : bounds \cup {Flag},
         multipleOf : (Nat \ {0}) \cup {Absent}, allOf : branches, anyOf : branches]

Branches == Keywords({<<>>})
Schemas == Keywords(Seq(Branches))

(* The keywords a number must satisfy together: those of the schema, of    *)
(* all of allOf and of one of anyOf.                                       *)
Conjunctions(s) ==
    LET always == {s} \cup ToSet(s.allOf)
    IN  IF s.anyOf = <<>> THEN {always} ELSE {always \cup {branch} : branch \in ToSet(s.anyOf)}

(* Among integers, multipleOf is whole or one over a whole number: other   *)
(* fractions are beyond the candidates that emptiness is decided by.       *)
RegularMultiple(m) == m = Absent \/ m % Unit = 0 \/ Unit % m = 0
Fits(branches) ==
    (\E b \in branches : b.type = "integer") => \A b \in branches : RegularMultiple(b.multipleOf)

ASSUME QueriesAssumption ==
    /\ Queries \subseteq [kind : {"subset", "disjoint", "empty"}, lhs : Schemas, rhs : Schemas]
    /\ \A q \in Queries : \A branches \in Conjunctions(q.lhs) \cup Conjunctions(q.rhs) :
         Fits(branches)

VARIABLES
    query,      \* what is asked
    phase,      \* "compile", "plan", "atoms", "witness", "solver", "done"
    lhs, rhs,   \* the constraints compiled
    todo,       \* the atoms of lhs still to be covered
    result      \* [status, witness]

vars == <<query, phase, lhs, rhs, todo, result>>

Result(status, w) == [status |-> status, witness |-> w]
NoResult == Result("none", NonNumber)

-----------------------------------------------------------------------------
(* Rational numbers.                                                       *)
Abs(x) == IF x < 0 THEN -x ELSE x
SmallerOf(x, y) == IF x < y THEN x ELSE y
LargerOf(x, y) == IF x < y THEN y ELSE x

Gcd(x, y) == CHOOSE d \in 1 .. SmallerOf(x, y) :
                /\ x % d = 0 /\ y % d = 0
                /\ \A e \in d + 1 .. SmallerOf(x, y) : x % e # 0 \/ y % e # 0
Lcm(x, y) == (x * y) \div Gcd(x, y)

Numerator(x) == x \div Gcd(x, Unit)
Denominator(x) == Unit \div Gcd(x, Unit)

IsWhole(x) == x % Unit = 0
IsMultiple(x, m) == x % m = 0
Floor(x) == (x \div Unit) * Unit
Ceil(x) == -Floor(-x)
LastMultiple(x, m) == (x \div m) * m
FirstMultiple(x, m) == -LastMultiple(-x, m)

(* Mutant: the denominators' least common multiple.                        *)
LcmOfDenominators(a, b) ==
    IF a = Absent THEN b ELSE IF b = Absent THEN a
    ELSE (Unit * Lcm(Numerator(a), Numerator(b))) \div Lcm(Denominator(a), Denominator(b))

LcmFraction(a, b) ==
    IF a = Absent THEN b ELSE IF b = Absent THEN a
    ELSE (Unit * Lcm(Numerator(a), Numerator(b))) \div Gcd(Denominator(a), Denominator(b))

-----------------------------------------------------------------------------
(* Atoms: an interval with open or closed ends, of numbers or integers, of *)
(* the multiples of one number.  A bound is [at, closed].                  *)
NoBound == [at |-> Absent, closed |-> TRUE]
Bound(x, closed) == [at |-> x, closed |-> closed]
Unbounded(integer) == [integer |-> integer, lower |-> NoBound, upper |-> NoBound,
                       multiple |-> Absent]

StrongerLower(a, b) ==
    IF a.at = Absent THEN b ELSE IF b.at = Absent THEN a
    ELSE IF a.at > b.at THEN a ELSE IF b.at > a.at THEN b
    ELSE Bound(a.at, a.closed /\ b.closed)

StrongerUpper(a, b) ==
    IF a.at = Absent THEN b ELSE IF b.at = Absent THEN a
    ELSE IF a.at < b.at THEN a ELSE IF b.at < a.at THEN b
    ELSE Bound(a.at, a.closed /\ b.closed)

Normalized(a) ==
    LET low == a.lower.at
        high == a.upper.at
    IN  IF ~a.integer THEN a
        ELSE [a EXCEPT
                !.lower = IF low = Absent THEN NoBound
                          ELSE Bound(Ceil(low) + (IF ~a.lower.closed /\ IsWhole(low)
                                                  THEN Unit ELSE 0), TRUE),
                !.upper = IF high = Absent THEN NoBound
                          ELSE Bound(Floor(high) - (IF ~a.upper.closed /\ IsWhole(high)
                                                    THEN Unit ELSE 0), TRUE)]

InAtom(atom, x) ==
    LET a == Normalized(atom) IN
      /\ a.integer => IsWhole(x)
      /\ a.lower.at # Absent => x > a.lower.at \/ (x = a.lower.at /\ a.lower.closed)
      /\ a.upper.at # Absent => x < a.upper.at \/ (x = a.upper.at /\ a.upper.closed)
      /\ a.multiple # Absent => IsMultiple(x, a.multiple)

Ends(a) == {b \in {a.lower.at, a.upper.at} : b # Absent}

(* The numbers tried around a bound, whose multiples are those of m.       *)
Around(b, integer, m) ==
    {b, b + Unit, b - Unit}
    \cup (IF integer THEN {} ELSE {b + Unit \div 2, b - Unit \div 2})
    \cup (IF m = Absent THEN {}
          ELSE {FirstMultiple(b, m), FirstMultiple(b, m) + m,
                LastMultiple(b, m), LastMultiple(b, m) - m})

Middle(a) ==
    IF Absent \in {a.lower.at, a.upper.at} THEN {} ELSE {(a.lower.at + a.upper.at) \div 2}

NonMultiples(a, m) ==
    LET bases == {0} \cup Ends(a) \cup Middle(a)
                 \cup (IF a.lower.at = Absent THEN {} ELSE {FirstMultiple(a.lower.at, m)})
                 \cup (IF a.upper.at = Absent THEN {} ELSE {LastMultiple(a.upper.at, m)})
    IN  {b + o : b \in bases, o \in {m \div 2, -(m \div 2), m \div 3, -(m \div 3)}}

(* candidate_fractions, without and with the atoms of the other side.      *)
OwnCandidates(atom) ==
    LET a == Normalized(atom) IN
      {0, Unit, -Unit}
      \cup (IF a.integer THEN {} ELSE {Unit \div 2, -(Unit \div 2)})
      \cup (IF a.multiple = Absent THEN {} ELSE {a.multiple * k : k \in -4 .. 4})
      \cup (UNION {Around(b, a.integer, a.multiple) : b \in Ends(a)})
      \cup Middle(a)

CandidatesAgainst(atom, others) ==
    LET a == Normalized(atom) IN
      OwnCandidates(atom)
      \cup (UNION {Around(b, a.integer, a.multiple) :
                     b \in UNION {Ends(Normalized(others[k])) : k \in DOMAIN others}})
      \cup (UNION {NonMultiples(a, others[k].multiple) :
                     k \in {j \in DOMAIN others : others[j].multiple # Absent}})

(* An atom is empty when none of its own candidates is in it.              *)
IsEmptyAtom(atom) ==
    LET a == Normalized(atom) IN
      \/ /\ Absent \notin {a.lower.at, a.upper.at}
         /\ \/ a.lower.at > a.upper.at
            \/ a.lower.at = a.upper.at /\ ~(a.lower.closed /\ a.upper.closed)
      \/ \A x \in OwnCandidates(atom) : ~InAtom(atom, x)

NonEmpty(atoms) ==
    FoldLeft(LAMBDA kept, a : IF IsEmptyAtom(a) THEN kept ELSE Append(kept, a), <<>>, atoms)

NormalizedAtoms(c) == NonEmpty(c.atoms)

InConstraint(c, x) ==
    \E k \in DOMAIN c.atoms : ~IsEmptyAtom(c.atoms[k]) /\ InAtom(c.atoms[k], x)

-----------------------------------------------------------------------------
(* Inclusion.                                                              *)

AllWhole(a) == a.integer \/ (a.multiple # Absent /\ Denominator(a.multiple) = 1)

(* Mutant: open and closed ends are not told apart.                        *)
BoundsIgnoringEnds(a, b) ==
    /\ b.lower.at # Absent => a.lower.at # Absent /\ a.lower.at >= b.lower.at
    /\ b.upper.at # Absent => a.upper.at # Absent /\ a.upper.at <= b.upper.at

BoundsWithin(a, b) ==
    /\ b.lower.at # Absent =>
         /\ a.lower.at # Absent /\ a.lower.at >= b.lower.at
         /\ a.lower.at = b.lower.at => b.lower.closed \/ ~a.lower.closed
    /\ b.upper.at # Absent =>
         /\ a.upper.at # Absent /\ a.upper.at <= b.upper.at
         /\ a.upper.at = b.upper.at => b.upper.closed \/ ~a.upper.closed

MultiplesWithin(a, b) ==
    b.multiple # Absent =>
        IF a.multiple = Absent THEN a.integer /\ IsMultiple(Unit, b.multiple)
        ELSE IsMultiple(a.multiple, b.multiple)

AtomWithin(lhsAtom, rhsAtom) ==
    LET a == Normalized(lhsAtom)
        b == Normalized(rhsAtom)
    IN  \/ IsEmptyAtom(a)
        \/ /\ ~IsEmptyAtom(b)
           /\ b.integer => AllWhole(a)
           /\ BoundsWithin(a, b)
           /\ MultiplesWithin(a, b)

(* finite_values: the values of a bounded atom, when there are not many.   *)
FiniteValues(a) ==
    IF Absent \in {a.lower.at, a.upper.at} \/ (~a.integer /\ a.multiple = Absent)
    THEN [known |-> FALSE, values |-> {}]
    ELSE LET steps == IF a.integer THEN {x \in a.lower.at .. a.upper.at : IsWhole(x)}
                      ELSE {x \in a.lower.at .. a.upper.at : IsMultiple(x, a.multiple)}
             values == {x \in steps : InAtom(a, x)}
         IN  [known |-> Cardinality(IF a.integer THEN steps ELSE values) <= MaxFinite,
              values |-> values]

(* _coverage_interval_for: the integers of an atom, if it has all of an    *)
(* interval.                                                               *)
Covers(b) == b.multiple = Absent \/ IsMultiple(Unit, b.multiple)
WholeInterval(b) == Normalized([b EXCEPT !.integer = TRUE])

StartsBefore(i, j) ==
    i.lower.at = Absent \/ (j.lower.at # Absent /\ i.lower.at <= j.lower.at)

(* sorted: each interval goes behind those that do not start after it.     *)
Placed(sorted, i) ==
    InsertAt(sorted, 1 + Cardinality({k \in DOMAIN sorted : StartsBefore(sorted[k], i)}), i)

Sorted(intervals) == FoldLeft(Placed, <<>>, intervals)

(* Mutant: an interval ends where the next one must start.                 *)
TouchingMustOverlap(a, intervals) ==
    LET sorted == Sorted(intervals)
        step(current, i) ==
          IF current = Absent \/ i.lower.at = Absent \/ i.upper.at = Absent
             \/ i.lower.at > current THEN current
          ELSE LargerOf(current, i.upper.at)
        end == FoldLeft(step, a.lower.at, sorted)
    IN  a.upper.at # Absent /\ end # Absent /\ end > a.upper.at

(* _intervals_cover_atom: intervals by their start; current is the first   *)
(* integer not covered yet.                                                *)
Beyond(a, current) == a.upper.at # Absent /\ current # Absent /\ current > a.upper.at

Scan(a, s, i) ==
    IF s.verdict # "scanning" THEN s
    ELSE IF i.lower.at # Absent /\ (s.current = Absent \/ i.lower.at > s.current)
    THEN [s EXCEPT !.verdict = "gap"]
    ELSE IF i.upper.at = Absent THEN [s EXCEPT !.verdict = "covered"]
    ELSE LET next == i.upper.at + Unit
             current == IF s.current = Absent THEN next ELSE LargerOf(s.current, next)
         IN  [current |-> current,
              verdict |-> IF Beyond(a, current) THEN "covered" ELSE "scanning"]

ScanEnd(a, sorted) ==
    FoldLeft(LAMBDA s, i : Scan(a, s, i), [current |-> a.lower.at, verdict |-> "scanning"], sorted)

IntervalsCover(a, intervals) ==
    LET end == ScanEnd(a, Sorted(intervals))
    IN  end.verdict = "covered" \/ (end.verdict = "scanning" /\ Beyond(a, end.current))

(* interval_covered_by and is_covered_by: "yes", "no" or "unknown".        *)
InOrder(i) == Absent \in {i.lower.at, i.upper.at} \/ i.lower.at <= i.upper.at

IntervalsOf(atoms) ==
    FoldLeft(LAMBDA found, b : IF Covers(b) /\ InOrder(WholeInterval(b))
                               THEN Append(found, WholeInterval(b)) ELSE found,
             <<>>, atoms)

CoveredByIntervals(a, others) ==
    IF a.multiple # Absent THEN "unknown"
    ELSE IF a.integer /\ IntervalsCover(a, IntervalsOf(others)) THEN "yes" ELSE "no"

Covered(atom, c) ==
    LET a == Normalized(atom)
        others == NormalizedAtoms(c)
        finite == FiniteValues(a)
    IN  IF IsEmptyAtom(a) \/ \E k \in DOMAIN others : AtomWithin(a, others[k]) THEN "yes"
        ELSE IF finite.known
        THEN IF \A x \in finite.values : InConstraint(c, x) THEN "yes" ELSE "no"
        ELSE CoveredByIntervals(a, others)

(* witness_not_in: the candidates an atom has and the other side has not.  *)
Witnesses(atom, c) ==
    {x \in CandidatesAgainst(atom, NormalizedAtoms(c)) :
        InAtom(atom, x) /\ ~InConstraint(c, x)}

(* _ordered_numeric_candidates: small numbers first, and fractions before  *)
(* them where they are allowed.                                            *)
ComesFirst(x, y, integer) ==
    IF ~integer /\ (IsWhole(x) # IsWhole(y)) THEN IsWhole(y)
    ELSE Abs(x) < Abs(y) \/ (Abs(x) = Abs(y) /\ x <= y)

FirstWitness(c, d) ==
    LET atoms == NormalizedAtoms(c)
        having == {k \in DOMAIN atoms : Witnesses(atoms[k], d) # {}}
    IN  IF having = {} THEN Absent
        ELSE LET first == atoms[Min(having)]
                 found == Witnesses(first, d)
             IN  CHOOSE x \in found : \A y \in found : ComesFirst(x, y, first.integer)

-----------------------------------------------------------------------------
(* Keywords to constraints.                                                *)
IntersectAtoms(a, b) ==
    [integer |-> a.integer \/ b.integer,
     lower |-> StrongerLower(a.lower, b.lower),
     upper |-> StrongerUpper(a.upper, b.upper),
     multiple |-> LcmFraction(a.multiple, b.multiple)]

Intersect(c, d) ==
    LET p == NormalizedAtoms(c)
        q == NormalizedAtoms(d)
        pairs == [i \in DOMAIN p |-> [j \in DOMAIN q |-> IntersectAtoms(p[i], q[j])]]
    IN  [atoms |-> NonEmpty(FlattenSeq(pairs)),
         others |-> c.others /\ d.others]

Union(c, d) ==
    [atoms |-> NormalizedAtoms(c) \o NormalizedAtoms(d), others |-> c.others \/ d.others]

Nothing == [atoms |-> <<>>, others |-> FALSE]

(* The bounds a pair of keywords sets: minimum, and exclusiveMinimum as a  *)
(* number or, in Draft 4, as a flag of minimum.                            *)
InclusiveBound(inclusive) ==
    IF inclusive = Absent THEN NoBound ELSE Bound(inclusive, TRUE)

ExclusiveBound(inclusive, exclusive) ==
    IF exclusive = Absent \/ (exclusive = Flag /\ inclusive = Absent) THEN NoBound
    ELSE Bound(IF exclusive = Flag THEN inclusive ELSE exclusive, FALSE)

LocalConstraint(s) ==
    [atoms |-> <<[integer |-> s.type = "integer",
                  lower |-> StrongerLower(InclusiveBound(s.minimum),
                                 ExclusiveBound(s.minimum, s.exclusiveMinimum)),
                  upper |-> StrongerUpper(InclusiveBound(s.maximum),
                                 ExclusiveBound(s.maximum, s.exclusiveMaximum)),
                  multiple |-> s.multipleOf]>>,
     others |-> s.type = "any"]

AllOfConstraint(s) ==
    FoldLeft(LAMBDA c, branch : Intersect(c, LocalConstraint(branch)),
             LocalConstraint(s), s.allOf)

AnyOfConstraint(s) ==
    FoldLeft(LAMBDA c, branch : Union(c, LocalConstraint(branch)), Nothing, s.anyOf)

ConstraintOf(s) ==
    IF s.anyOf = <<>> THEN AllOfConstraint(s)
    ELSE Intersect(AllOfConstraint(s), AnyOfConstraint(s))

-----------------------------------------------------------------------------
(* What the keywords mean.                                                 *)
LocallyAccepts(s, x) ==
    /\ s.type = "integer" => IsWhole(x)
    /\ s.minimum # Absent => x >= s.minimum /\ (s.exclusiveMinimum = Flag => x # s.minimum)
    /\ s.maximum # Absent => x <= s.maximum /\ (s.exclusiveMaximum = Flag => x # s.maximum)
    /\ s.exclusiveMinimum \notin {Absent, Flag} => x > s.exclusiveMinimum
    /\ s.exclusiveMaximum \notin {Absent, Flag} => x < s.exclusiveMaximum
    /\ s.multipleOf # Absent => IsMultiple(x, s.multipleOf)

AcceptsNumber(s, x) ==
    /\ LocallyAccepts(s, x)
    /\ \A k \in DOMAIN s.allOf : LocallyAccepts(s.allOf[k], x)
    /\ s.anyOf # <<>> => \E k \in DOMAIN s.anyOf : LocallyAccepts(s.anyOf[k], x)

AcceptsOthers(s) ==
    /\ s.type = "any"
    /\ \A k \in DOMAIN s.allOf : s.allOf[k].type = "any"
    /\ s.anyOf # <<>> => \E k \in DOMAIN s.anyOf : s.anyOf[k].type = "any"

Accepts(s, v) == IF v = NonNumber THEN AcceptsOthers(s) ELSE AcceptsNumber(s, v)

-----------------------------------------------------------------------------
Init ==
    /\ query \in Queries
    /\ phase = "compile"
    /\ lhs = Nothing
    /\ rhs = Nothing
    /\ todo = <<>>
    /\ result = NoResult

Finish(r) ==
    /\ result' = r
    /\ phase' = "done"
    /\ UNCHANGED <<query, lhs, rhs, todo>>

GoTo(next) == phase' = next /\ UNCHANGED <<query, lhs, rhs, todo, result>>

Compile ==
    /\ phase = "compile"
    /\ lhs' = ConstraintOf(query.lhs)
    /\ rhs' = ConstraintOf(query.rhs)
    /\ phase' = "plan"
    /\ UNCHANGED <<query, todo, result>>

(* validated_false: a witness counts when both schemas agree.              *)
Counterexample(w) ==
    IF Accepts(query.lhs, w) /\ ~Accepts(query.rhs, w)
    THEN Finish(Result("proved_false", w)) ELSE Finish(Result("unsupported", NonNumber))

(* numeric_difference_plan_from_constraints: values that are not numbers.  *)
PlanDifference ==
    /\ phase = "plan" /\ query.kind = "subset"
    /\ IF lhs.others /\ ~rhs.others THEN Counterexample(NonNumber)
       ELSE IF NormalizedAtoms(rhs) = <<>> /\ rhs.others
       THEN Finish(Result("unsupported", NonNumber))
       ELSE /\ todo' = NormalizedAtoms(lhs)
            /\ phase' = "atoms"
            /\ UNCHANGED <<query, lhs, rhs, result>>

(* numeric_subset_of takes the atoms in turn.                              *)
CoverAtom ==
    /\ phase = "atoms" /\ todo # <<>>
    /\ LET covered == Covered(Head(todo), rhs) IN
         IF covered = "yes"
         THEN todo' = Tail(todo) /\ UNCHANGED <<query, phase, lhs, rhs, result>>
         ELSE IF covered = "no" \/ Witnesses(Head(todo), rhs) # {} THEN GoTo("witness")
         ELSE GoTo("solver")

AllCovered ==
    /\ phase = "atoms" /\ todo = <<>>
    /\ Finish(Result("proved_true", NonNumber))

TryWitness ==
    /\ phase = "witness"
    /\ LET w == FirstWitness(lhs, rhs)
       IN  IF w = Absent THEN GoTo("solver") ELSE Counterexample(w)

(* The solver is given the atoms and may say so, find a witness, or not    *)
(* know; that it ran out of work is not told apart from that.              *)
AskSolver ==
    /\ phase = "solver"
    /\ LET more == {x \in Numbers : InConstraint(lhs, x) /\ ~InConstraint(rhs, x)} IN
         \/ more = {} /\ Finish(Result("proved_true", NonNumber))
         \/ \E w \in more : Counterexample(w)
         \/ Finish(Result("unsupported", NonNumber))

(* _numeric_disjointness_ir.                                               *)
DecideDisjoint ==
    /\ phase = "plan" /\ query.kind = "disjoint"
    /\ LET both == Intersect(lhs, rhs)
           w == FirstWitness(both, Nothing)
       IN  IF both.others THEN Finish(Result("unsupported", NonNumber))
           ELSE IF NormalizedAtoms(both) = <<>> THEN Finish(Result("proved_true", NonNumber))
           ELSE IF w # Absent /\ Accepts(query.lhs, w) /\ Accepts(query.rhs, w)
           THEN Finish(Result("proved_false", w))
           ELSE Finish(Result("unsupported", NonNumber))

(* _numeric_shape_emptiness_ir; rhs is not used.                           *)
DecideEmpty ==
    /\ phase = "plan" /\ query.kind = "empty"
    /\ Finish(Result(IF NormalizedAtoms(lhs) = <<>> /\ ~lhs.others
                     THEN "proved_true" ELSE "unsupported", NonNumber))

Next == \/ Compile \/ PlanDifference \/ CoverAtom \/ AllCovered \/ TryWitness \/ AskSolver
        \/ DecideDisjoint \/ DecideEmpty

Spec == Init /\ [][Next]_vars

-----------------------------------------------------------------------------
(* Properties.                                                             *)

(* The atoms accept exactly what the keywords do: bounds of both kinds and *)
(* both drafts, whole and fractional multiples, conjunctions and unions.   *)
ConstraintsMeanTheirKeywords ==
    phase = "plan" =>
        /\ \A x \in Numbers : InConstraint(lhs, x) <=> AcceptsNumber(query.lhs, x)
        /\ \A x \in Numbers : InConstraint(rhs, x) <=> AcceptsNumber(query.rhs, x)

Counterexamples ==
    {v \in Numbers \cup {NonNumber} :
        /\ Accepts(query.lhs, v)
        /\ query.kind = "subset" => ~Accepts(query.rhs, v)
        /\ query.kind = "disjoint" => Accepts(query.rhs, v)}

(* A proof about numbers leaves no number out, and a refutation shows one. *)
NumberProofsAreSound ==
    /\ result.status = "proved_true" => Counterexamples = {}
    /\ result.status = "proved_false" =>
         /\ Accepts(query.lhs, result.witness)
         /\ Accepts(query.rhs, result.witness) <=> query.kind = "disjoint"

OnlyIntegerIntervals(s) ==
    /\ \A branch \in {s} \cup ToSet(s.allOf) \cup ToSet(s.anyOf) : branch.multipleOf = Absent
    /\ \/ s.type = "integer"
       \/ s.anyOf # <<>> /\ \A k \in DOMAIN s.anyOf : s.anyOf[k].type = "integer"

(* Inclusion of unions of integer intervals is decided: their gaps, ends   *)
(* and touching intervals never need the solver.                           *)
IntegerIntervalsAreDecided ==
    phase = "solver" => ~(OnlyIntegerIntervals(query.lhs) /\ OnlyIntegerIntervals(query.rhs))
=============================================================================

-------------------------- MODULE ArrayDifference --------------------------
(***************************************************************************)
(* The rules that decide whether the arrays of one schema are among those  *)
(* of another, in the order the solver tries them: by their types, their   *)
(* lengths, their uniqueness, the items they contain, and the schemas of   *)
(* their items.  A rule that is unsupported leaves the question to the     *)
(* next; the first that proves or refutes it, or runs out of work, ends    *)
(* it.                                                                     *)
(*                                                                         *)
(* Sources: prover/rules/arrays.py, prover/difference_arrays.py,           *)
(* prover/array_contains.py, and for types prover/scalars.py and           *)
(* prover/rules/scalars.py; the order is that of prover/sat.py.  Schemas   *)
(* are without references, and unevaluatedItems is left out.               *)
(*                                                                         *)
(* A question about item schemas goes to another proof.  Its answer is     *)
(* right when there is one; the query says which item schemas have none.   *)
(***************************************************************************)
EXTENDS ArrayShapes

CONSTANTS
    Null,           \* the item null
    TypeOf,         \* the type of an item
    Enumerated,     \* the item schemas whose values are listed (enum, const)
    LengthBound,    \* bound: longest array tried as a witness of lengths
    ArraysUpTo,     \* bound: longest array the properties look at
    Queries         \* [lhs, rhs, hard, draining, certified, horizon, work, expensive]

ASSUME NullAssumption == Null \in Items
ASSUME StringAssumption == "string" \in OtherTypes
ASSUME BoundAssumption == ArraysUpTo \in Nat /\ LengthBound \in Nat
ASSUME NoneIsNoArrayAssumption ==
    /\ None \notin Items
    /\ None \notin {Other(t) : t \in OtherTypes}
    /\ \A n \in 0 .. LengthBound : None \notin {Array(items) : items \in [1 .. n -> Items]}
    /\ \A S \in SUBSET (0 .. LengthBound - 1) : None \notin [S -> Items]
ASSUME QueriesAssumption ==
    \A q \in Queries : q.lhs \in Schemas /\ q.rhs \in Schemas /\ q.work \in Nat

VARIABLES
    query,      \* the schemas, and what the rest of the prover can do:
                \*   hard       item schemas nothing can be proved or built of
                \*   draining   those that use up the work when asked about
                \*   certified  those refuted by a certificate, not by an item
                \*   horizon    longest array built, or None
                \*   work       units left;  expensive: expensive proofs allowed
    facts,      \* what the compiler derived of the two schemas
    phase,      \* the rule that is next, "child" or "done"
    todo,       \* item obligations still to be asked: [index, left, right]
    result      \* [status, witness]

vars == <<query, facts, phase, todo, result>>

lhs == query.lhs
rhs == query.rhs

(* The facts of a schema (compiler/semantics.py): its types, and if they   *)
(* are all it says; its lengths, as a left side and where items are not    *)
(* constrained; its uniqueness, as a left and as a right side.             *)
FactsOf(s) ==
    [types |-> TypeShape(s), onlyTypes |-> TypesComplete(s),
     lengths |-> LeftLengths(s), plain |-> RightLengths(s),
     distinct |-> LeftUniqueness(s), asksDistinct |-> RightUniqueness(s)]

ArraysOnly(derived) == derived.types = {"array"}

Result(status, v) == [status |-> status, witness |-> v]
Unsupported == Result("unsupported", None)
Exhausted == Result("exhausted", None)
ProvedTrue == Result("true", None)

-----------------------------------------------------------------------------
(* What other parts of the prover answer.                                  *)
Answerable(i) == i \notin query.hard \cup query.draining

(* context.subproof_terms.                                                 *)
ItemProof(l, r) ==
    IF l = FalseItem \/ r = TrueItem \/ l = r THEN ProvedTrue
    ELSE IF {l, r} \cap query.draining # {} THEN Exhausted
    ELSE IF {l, r} \cap query.hard # {} THEN Unsupported
    ELSE IF l \subseteq r THEN ProvedTrue
    ELSE IF r \in query.certified THEN Result("certified", Null)
    ELSE Result("false", CHOOSE i \in l \ r : TRUE)

Proved(l, r) == ItemProof(l, r).status = "true"
NoMatch(l, c) == l = FalseItem \/ (Answerable(l) /\ Answerable(c) /\ l \cap c = {})

(* build_term_witness.                                                     *)
Built(i) == IF i = FalseItem \/ ~Answerable(i) THEN None ELSE CHOOSE x \in i : TRUE

(* The values of an item schema that can be listed.                        *)
ListedValues(i) ==
    IF i \in Enumerated \cup {TrueItem} THEN i
    ELSE IF Built(i) = None THEN {} ELSE {Built(i)}

(* Listed values outside another schema: by its values if they are listed, *)
(* else one of each type that it does not have.                            *)
ListedOutside(i, c) ==
    IF c \in Enumerated \cup {FalseItem} THEN ListedValues(i) \ c
    ELSE LET types == {TypeOf[x] : x \in i} \ {TypeOf[x] : x \in c} IN
           {CHOOSE x \in Items : TypeOf[x] = t : t \in types}

(* A candidate is a counterexample only if both sides confirm it.          *)
Validated(v) ==
    IF v # None /\ Holds(lhs, v) /\ ~Holds(rhs, v) THEN Result("false", v) ELSE Unsupported

(* The value tried when the right side has arrays only: the empty string.  *)
AnotherValue == Other("string")

-----------------------------------------------------------------------------
(* Candidate arrays: a length, and items given for some of its indexes.    *)
Lengths == facts.lhs.lengths

(* Mutant: the greatest length is not looked at.                           *)
ReachingAnyLength(index) == IF Lengths = None THEN None ELSE Larger(LeastCount(Lengths), index + 1)

Reaching(index) == IF Lengths = None THEN None ELSE CountReaching(Lengths, index)
BeyondHorizon(n) == query.horizon # None /\ n > query.horizon

NoItems == [index \in {} |-> None]
FirstIndexes(n, item) == [index \in 0 .. n - 1 |-> item]
Given(index, item) == [k \in {index} |-> item]
Over(given, others) ==
    [k \in DOMAIN given \cup DOMAIN others |-> IF k \in DOMAIN given THEN given[k] ELSE others[k]]

(* The array, its other items built from their schemas; None if that fails.*)
Populated(length, given) ==
    LET Item(k) == IF k - 1 \in DOMAIN given THEN given[k - 1] ELSE Built(ItemAt(lhs, k - 1)) IN
      IF length = None \/ given = None \/ BeyondHorizon(length)
         \/ \E k \in 1 .. length : Item(k) = None
      THEN None
      ELSE Array([k \in 1 .. length |-> Item(k)])

(* Items for the indexes that have none, each listed and not yet used.     *)
MadeDistinct(length, given) ==
    LET Add(g, k) ==
            LET fresh == ListedValues(ItemAt(lhs, k)) \ {g[j] : j \in DOMAIN g} IN
              IF k \in DOMAIN g THEN g
              ELSE IF fresh = {} THEN None
              ELSE Over(g, Given(k, CHOOSE x \in fresh : TRUE))
    IN  FoldLeft(LAMBDA g, k : IF g = None THEN None ELSE Add(g, k - 1), given,
                 [k \in 1 .. length |-> k])

GuaranteesDistinct == facts.lhs.distinct # None /\ facts.lhs.distinct.guarantees

DistinctIfNeeded(length, given) ==
    IF given = None \/ ~GuaranteesDistinct THEN given ELSE MadeDistinct(length, given)

(* Items the left contains needs, outside an index.                        *)
RequiredItems(excluded, count) ==
    LET indexes == {k \in 0 .. count : k \notin excluded}
        first == {k \in indexes : Cardinality({j \in indexes : j < k}) < count}
        item == Built(lhs.contains)
    IN  IF lhs.contains = None \/ count <= 0 THEN NoItems
        ELSE IF (lhs.maxContains # None /\ LeastContains(lhs) > lhs.maxContains) \/ item = None
        THEN None
        ELSE [k \in first |-> item]

(* An array of a length, with as many matches as the left contains needs   *)
(* and not more than it allows; without them if they cannot be built.      *)
ArrayOfLength(length) ==
    LET least == LeastContains(lhs)
        matching == IF lhs.contains = None \/ least = 0 THEN NoItems
                    ELSE IF length < least \/ Built(lhs.contains) = None THEN None
                    ELSE FirstIndexes(least, Built(lhs.contains))
        rest == (0 .. length - 1) \ DOMAIN matching
        Outside(k) == ListedOutside(ItemAt(lhs, k), lhs.contains)
        bounded == IF matching = None THEN None
                   ELSE IF lhs.contains = None \/ lhs.maxContains = None THEN matching
                   ELSE IF \E k \in rest : Outside(k) = {} THEN None
                   ELSE Over(matching, [k \in rest |-> CHOOSE x \in Outside(k) : TRUE])
        planned == DistinctIfNeeded(length, bounded)
    IN  Populated(length, IF planned = None THEN NoItems ELSE planned)

-----------------------------------------------------------------------------
(* prove_type_difference.  The witnesses are one value of each type the    *)
(* right does not have, then one built of the left, of which this says no  *)
(* more than that it may be any array, or none.                            *)
AtomValue(type) == IF type = "array" THEN Array(<<>>) ELSE Other(type)

TypeResults ==
    LET l == facts.lhs.types
        r == facts.rhs.types
        atoms == {Validated(AtomValue(t)) : t \in l \ r} \ {Unsupported}
        built == {Validated(ArrayOfLength(n)) : n \in 0 .. LengthBound} \cup {Unsupported}
    IN  IF None \in {l, r} THEN {Unsupported}
        ELSE IF l \subseteq r
        THEN {IF facts.rhs.onlyTypes THEN ProvedTrue ELSE Unsupported}
        ELSE IF atoms # {} THEN atoms ELSE built

-----------------------------------------------------------------------------
(* prove_array_length_difference.  Any length of the left that the right   *)
(* does not have may be the one the solver's model names.                  *)
RightIsDistinct ==
    facts.rhs.asksDistinct # None /\ facts.rhs.asksDistinct.requires => GuaranteesDistinct

WitnessLengths(against) ==
    {n \in 0 .. LengthBound : Counts(Lengths.intervals, n) /\ ~Counts(against.intervals, n)}

SolverUnits(against) == Larger(Len(Lengths.intervals) + Len(against.intervals), 1)

ByLength(length) == IF BeyondHorizon(length) THEN Exhausted ELSE Validated(ArrayOfLength(length))

LengthResults ==
    LET right == facts.rhs.plain
        against == IF right = None THEN facts.rhs.lengths ELSE right
    IN  IF None \in {Lengths, against} THEN {Unsupported}
        ELSE IF Lengths.others /\ ~against.others THEN {Validated(AnotherValue)}
        ELSE IF ~ShapeWithin(Lengths, against)
        THEN IF SolverUnits(against) > query.work THEN {Exhausted}
             ELSE {ByLength(n) : n \in WitnessLengths(against)}
        ELSE IF right # None /\ ~Lengths.others /\ right.exact /\ RightIsDistinct
        THEN {ProvedTrue}
        ELSE {Unsupported}

-----------------------------------------------------------------------------
(* prove_array_uniqueness_difference.                                      *)
BuiltForAll(schemas) ==
    IF \E i \in schemas : ~Answerable(i) THEN None
    ELSE Built({x \in Items : \A i \in schemas : x \in i})

(* The same item at two indexes: after the matches of contains, in the     *)
(* tail, or at the start.                                                  *)
Duplicated(first, length, schemas, given) ==
    LET x == BuiltForAll(schemas) IN
      IF x = None THEN None ELSE Populated(length, Over([k \in {first, first + 1} |-> x], given))

AtLeastTwo == IF Reaching(1) = None THEN 2 ELSE Reaching(1)

Duplicate ==
    LET required == RequiredItems({}, LeastContains(lhs))
        after == Cardinality(DOMAIN required)
        start == TailStart(lhs)
        Planned(first) == Reaching(first + 1) # None /\ ~BeyondHorizon(Reaching(first + 1))
    IN  IF lhs.contains # None /\ required # None /\ Planned(after)
        THEN Duplicated(after, Reaching(after + 1),
                        {ItemAt(lhs, after), ItemAt(lhs, after + 1), Items \ lhs.contains},
                        required)
        ELSE IF HasTail(lhs) /\ ~TailClosed(lhs) /\ Planned(start)
        THEN Duplicated(start, Reaching(start + 1), {lhs.tail}, NoItems)
        ELSE Duplicated(0, AtLeastTwo, {ItemAt(lhs, 0), ItemAt(lhs, 1)}, NoItems)

UniquenessResult ==
    LET l == facts.lhs.distinct
        r == facts.rhs.asksDistinct
        least == IF Lengths = None THEN 0 ELSE LeastCount(Lengths)
    IN  IF r = None THEN Unsupported
        ELSE IF l = None
        THEN IF ArraysOnly(facts.lhs) /\ r.requires THEN Validated(Duplicate) ELSE Unsupported
        ELSE IF l.others /\ ~r.others THEN Validated(AnotherValue)
        ELSE IF ~l.array THEN IF l.others THEN Unsupported ELSE ProvedTrue
        ELSE IF ~r.array
        THEN IF BeyondHorizon(least) THEN Exhausted ELSE Validated(Populated(least, NoItems))
        ELSE IF ~r.requires \/ l.guarantees
        THEN IF l.others \/ ~r.complete THEN Unsupported ELSE ProvedTrue
        ELSE IF BeyondHorizon(AtLeastTwo) THEN Exhausted
        ELSE Validated(Duplicate)

(* Mutant: the own contains counts though its items need not match.        *)
GuaranteedByAnyContains(c) ==
    LET own == IF lhs.contains # None THEN LeastContains(lhs) ELSE 0
        required == LeastCount(Lengths)
        slots == {k \in 0 .. required - 1 : Proved(ItemAt(lhs, k), c)}
    IN  Larger(own, Cardinality(slots))

-----------------------------------------------------------------------------
(* Bounds on the number of items of a left array that match a schema.      *)
GuaranteedMatches(c) ==
    LET own == IF lhs.contains # None /\ Proved(lhs.contains, c) THEN LeastContains(lhs) ELSE 0
        required == LeastCount(Lengths)
        start == TailStart(lhs)
        slots == {k \in 0 .. required - 1 :
                     (HasTail(lhs) => k < start) /\ Proved(ItemAt(lhs, k), c)}
        tail == IF HasTail(lhs) /\ ~TailClosed(lhs) /\ required > start /\ Proved(lhs.tail, c)
                THEN required - start ELSE 0
    IN  Larger(own, Cardinality(slots) + tail)

MatchableSlots(c, n) ==
    Cardinality({k \in 0 .. n - 1 : Reaching(k) # None /\ ~NoMatch(ItemAt(lhs, k), c)})

StructuralMatches(c) ==
    LET longest == GreatestCount(Lengths) IN
      IF HasTail(lhs) /\ (TailClosed(lhs) \/ NoMatch(lhs.tail, c))
      THEN MatchableSlots(c, TailStart(lhs))
      ELSE IF longest = None \/ BeyondHorizon(longest) THEN None
      ELSE MatchableSlots(c, longest)

PossibleMatches(c) ==
    LET own == IF lhs.contains # None /\ lhs.maxContains # None /\ Proved(c, lhs.contains)
               THEN lhs.maxContains ELSE None
    IN  LowerBound(GreatestCount(Lengths), LowerBound(StructuralMatches(c), own))

-----------------------------------------------------------------------------
(* prove_array_contains_difference.  A step of the plan is a result, or    *)
(* None when it does not apply.                                            *)
Least == LeastContains(rhs)
Most == rhs.maxContains

InContainsFragment ==
    /\ rhs.contains # None
    /\ LeftContainsFragment(lhs) /\ RightContainsFragment(rhs)
    /\ ArraysOnly(facts.lhs) /\ ArraysOnly(facts.rhs)

EmptyArray == IF Least > 0 /\ Counts(Lengths.intervals, 0) THEN Validated(Array(<<>>)) ELSE None

OwnItem ==
    LET proof == ItemProof(lhs.contains, rhs.contains) IN
      IF lhs.contains # None /\ proof.status \in {"false", "certified"}
      THEN Validated(Array(<<proof.witness>>))
      ELSE None

(* Every left array has too many matches: the shortest is taken.           *)
TooManyMatches(guaranteed) ==
    LET length == LeastCount(Lengths)
        own == Built(lhs.contains)
        given == IF lhs.contains = None THEN NoItems
                 ELSE IF own = None THEN None
                 ELSE FirstIndexes(LowerBound(length, guaranteed), own)
    IN  IF Most = None \/ guaranteed <= Most THEN None
        ELSE IF Larger(length, 1) > query.work \/ BeyondHorizon(length) THEN Exhausted
        ELSE Validated(Populated(length, given))

(* The shortest array, with items that do not match where there are any.   *)
TooFewMatches ==
    LET length == LeastCount(Lengths)
        indexes == 0 .. length - 1
        Proof(k) == ItemProof(ItemAt(lhs, k), rhs.contains)
        Add(g, k) ==
            LET fresh == ListedOutside(ItemAt(lhs, k), rhs.contains) \ {g[j] : j \in DOMAIN g} IN
              IF fresh = {} THEN None ELSE Over(g, Given(k, CHOOSE x \in fresh : TRUE))
        distinct == FoldLeft(LAMBDA g, k : IF g = None THEN None ELSE Add(g, k - 1), NoItems,
                             [k \in 1 .. length |-> k])
        matching == {k \in indexes : Proof(k).status = "true"}
    IN  IF Least <= 0 \/ length <= 0 THEN None
        ELSE IF BeyondHorizon(length) THEN Exhausted
        ELSE IF GuaranteesDistinct /\ distinct # None THEN Validated(Populated(length, distinct))
        ELSE IF \E k \in indexes \ matching : Proof(k).status # "false" THEN None
        ELSE IF Cardinality(matching) >= Least THEN None
        ELSE Validated(Populated(length, [k \in indexes \ matching |-> Proof(k).witness]))

(* Expanded: as few matches as the left contains needs.                    *)
FewestOwnMatches ==
    LET own == LeastContains(lhs)
        length == Larger(own, LeastCount(Lengths))
        item == Built(lhs.contains)
    IN  IF lhs.contains = None \/ own <= 0 \/ own >= Least \/ length >= Least THEN None
        ELSE IF Larger(length, 1) > query.work \/ BeyondHorizon(length) THEN Exhausted
        ELSE IF item = None THEN None
        ELSE Validated(Populated(length, FirstIndexes(own, item)))

(* Items that match the right contains and not the left.                   *)
TooManyForeignMatches ==
    LET own == LeastContains(lhs)
        extra == Most + 1 - own
        proof == ItemProof(rhs.contains, lhs.contains)
        listed == ListedOutside(rhs.contains, lhs.contains)
        foreign == IF listed # {} THEN listed
                   ELSE IF proof.status = "false" THEN {proof.witness} ELSE {}
        length == Reaching(Most)
        owns == IF own = 0 THEN <<>> ELSE SetToSeq(ListedValues(lhs.contains))
        ownItems == IF own = 0 THEN NoItems
                    ELSE IF ~GuaranteesDistinct
                    THEN IF Built(lhs.contains) = None THEN None
                         ELSE FirstIndexes(own, Built(lhs.contains))
                    ELSE IF Len(owns) < own THEN None
                    ELSE [k \in 0 .. own - 1 |-> owns[k + 1]]
        fresh == SetToSeq(IF GuaranteesDistinct
                          THEN foreign \ {ownItems[k] : k \in DOMAIN ownItems} ELSE foreign)
        given == Over(ownItems, [k \in own .. own + extra - 1 |-> fresh[k - own + 1]])
    IN  IF lhs.contains = None \/ Most = None THEN None
        ELSE IF (lhs.maxContains # None /\ own > lhs.maxContains) \/ extra <= 0 THEN None
        ELSE IF foreign = {} \/ length = None THEN None
        ELSE IF BeyondHorizon(length) THEN Exhausted
        ELSE IF ownItems = None THEN None
        ELSE IF Len(fresh) < extra THEN None
        ELSE Validated(Populated(length, DistinctIfNeeded(length, given)))

(* One match more than the right allows, from items that must match.       *)
OneMatchTooMany ==
    LET target == Most + 1
        length == Reaching(Most)
        free == \A k \in 0 .. Most : ItemAt(lhs, k) = TrueItem
        values == SetToSeq(ListedValues(rhs.contains))
        given == IF ~GuaranteesDistinct
                 THEN IF Built(rhs.contains) = None THEN None
                      ELSE FirstIndexes(target, Built(rhs.contains))
                 ELSE IF Len(values) < target THEN None
                 ELSE [k \in 0 .. Most |-> values[k + 1]]
    IN  IF Most = None \/ length = None THEN None
        ELSE IF BeyondHorizon(length) THEN Exhausted
        ELSE IF /\ lhs.contains # None /\ lhs.maxContains # None
                /\ target > lhs.maxContains /\ Proved(rhs.contains, lhs.contains)
        THEN None
        ELSE IF free /\ given # None THEN Validated(Populated(length, given))
        ELSE IF \A k \in 0 .. Most : Proved(ItemAt(lhs, k), rhs.contains)
        THEN Validated(Populated(length, NoItems))
        ELSE None

FirstStep(steps) ==
    LET apply == {k \in DOMAIN steps : steps[k] # None} IN
      IF apply = {} THEN None ELSE steps[CHOOSE k \in apply : \A j \in apply : k <= j]

ContainsResult(expanded) ==
    LET guaranteed == GuaranteedMatches(rhs.contains)
        possible == PossibleMatches(rhs.contains)
        enough == Least = 0 \/ guaranteed >= Least
        few == Most = None \/ (possible # None /\ possible <= Most)
        step == FirstStep(<<EmptyArray, OwnItem, TooManyMatches(guaranteed),
                            IF enough \/ lhs.contains # None THEN None ELSE TooFewMatches,
                            IF enough \/ ~expanded THEN None ELSE FewestOwnMatches,
                            TooManyForeignMatches, OneMatchTooMany>>)
    IN  IF ~InContainsFragment THEN Unsupported
        ELSE IF step # None THEN step
        ELSE IF enough /\ few THEN ProvedTrue
        ELSE Result("bounds", None)

-----------------------------------------------------------------------------
(* prove_array_item_values_difference.                                     *)
Obligation(index, l, r) == [index |-> index, left |-> l, right |-> r]
Reachable(index) == Reaching(index) # None

InOrder(indexes) ==
    [n \in 1 .. Cardinality(indexes) |->
        CHOOSE k \in indexes : Cardinality({j \in indexes : j < k}) = n - 1]

(* Mutant: the tail is compared with the left tail only.                   *)
ObligationsOfTails ==
    LET start == TailStart(rhs)
        slots == {k \in 0 .. start - 1 : ItemAt(rhs, k) # TrueItem /\ Reachable(k)}
        tail == Larger(start, Len(lhs.prefix))
        keys == InOrder(slots)
    IN  [n \in DOMAIN keys |-> Obligation(keys[n], ItemAt(lhs, keys[n]), ItemAt(rhs, keys[n]))]
        \o IF HasTail(rhs) /\ ~TailClosed(rhs) /\ Reachable(tail)
           THEN <<Obligation(tail, ItemAt(lhs, tail), rhs.tail)>> ELSE <<>>

(* What must be shown: each right slot, and the right tail against the     *)
(* left slots under it, the items without a schema, and the left tail.     *)
Obligations ==
    LET start == TailStart(rhs)
        slots == {k \in 0 .. start - 1 : ItemAt(rhs, k) # TrueItem /\ Reachable(k)}
        tailBinds == HasTail(rhs) /\ ~TailClosed(rhs) /\ rhs.tail # TrueItem
        under == {k \in start .. Len(lhs.prefix) - 1 : Reachable(k)}
        beyond == {k \in {Larger(start, Len(lhs.prefix))} : Reachable(k)}
        Right(k) == Obligation(k, ItemAt(lhs, k), ItemAt(rhs, k))
        UnderTail(k) == Obligation(k, ItemAt(lhs, k), rhs.tail)
        Map(F(_), s) == [n \in DOMAIN s |-> F(s[n])]
    IN  Map(Right, InOrder(slots))
        \o IF tailBinds
           THEN Map(UnderTail, InOrder(under))
                \o Map(UnderTail, IF TailClosed(lhs) THEN <<>> ELSE InOrder(beyond))
           ELSE <<>>

ItemsApply ==
    /\ ItemsFragment(lhs, TRUE) /\ ItemsFragment(rhs, TRUE)
    /\ \E k \in 0 .. TailStart(rhs) :
          (k < TailStart(rhs) \/ HasTail(rhs)) /\ ItemAt(rhs, k) # TrueItem
    /\ None \notin {Lengths, facts.rhs.lengths}

(* Before any item is compared, the lengths are; "items" when they fit.    *)
ItemLengths ==
    LET right == facts.rhs.lengths
        length == IF right.intervals = <<>> THEN LeastCount(Lengths) ELSE CountNotIn(Lengths, right)
    IN  IF ~ItemsApply THEN Unsupported
        ELSE IF Lengths.others /\ ~right.others THEN Validated(AnotherValue)
        ELSE IF Lengths.intervals = <<>> THEN ProvedTrue
        ELSE IF right.intervals = <<>> \/ ~ShapeWithin(Lengths, right)
        THEN ByLength(length)
        ELSE IF Obligations # <<>> THEN Result("items", None)
        ELSE IF ItemsFragment(rhs, FALSE) THEN ProvedTrue ELSE Unsupported

(* An array with the offending item, the matches its contains needs and,   *)
(* if it must, distinct items; else the plain one.                         *)
ArrayWith(index, item) ==
    LET present == IF lhs.contains # None /\ Answerable(lhs.contains) /\ item \in lhs.contains
                   THEN 1 ELSE 0
        needed == IF lhs.contains = None THEN 0 ELSE LeastContains(lhs) - present
        required == RequiredItems({index}, needed)
        length == Reaching(CHOOSE k \in {index} \cup DOMAIN required :
                              \A j \in {index} \cup DOMAIN required : j <= k)
        given == Over(Given(index, item), required)
        planned == IF required = None \/ length = None \/ BeyondHorizon(length) THEN None
                   ELSE Populated(length, DistinctIfNeeded(length, given))
    IN  IF planned # None THEN planned ELSE Populated(Reaching(index), Given(index, item))

ItemResult(obligation) ==
    LET proof == ItemProof(obligation.left, obligation.right)
        v == ArrayWith(obligation.index, proof.witness)
    IN  IF proof.status = "certified" THEN Result("certified", None)
        ELSE IF proof.status # "false" THEN proof
        ELSE IF v # None THEN Validated(v)
        ELSE IF BeyondHorizon(Reaching(obligation.index)) THEN Result("certified", None)
        ELSE Unsupported

-----------------------------------------------------------------------------
Init ==
    /\ query \in Queries
    /\ facts = [lhs |-> FactsOf(query.lhs), rhs |-> FactsOf(query.rhs)]
    /\ phase = "type"
    /\ todo = <<>>
    /\ result = Unsupported

(* A rule's result ends the search unless it is unsupported.               *)
Conclude(outcome, next) ==
    IF outcome.status = "unsupported"
    THEN phase' = next /\ UNCHANGED result
    ELSE phase' = "done" /\ result' = outcome

ProveType ==
    /\ phase = "type"
    /\ \E outcome \in TypeResults : Conclude(outcome, "length")
    /\ UNCHANGED <<query, facts, todo>>

ProveLength ==
    /\ phase = "length"
    /\ \E outcome \in LengthResults : Conclude(outcome, "uniqueness")
    /\ UNCHANGED <<query, facts, todo>>

ProveUniqueness ==
    /\ phase = "uniqueness"
    /\ Conclude(UniquenessResult, "contains")
    /\ UNCHANGED <<query, facts, todo>>

(* When the bounds do not decide, the expensive proof is tried if allowed. *)
ProveContains ==
    /\ phase = "contains"
    /\ LET outcome == ContainsResult(FALSE) IN
         IF outcome.status # "bounds" THEN Conclude(outcome, "items")
         ELSE /\ phase' = IF query.expensive THEN "expanded" ELSE "items"
              /\ UNCHANGED result
    /\ UNCHANGED <<query, facts, todo>>

ProveContainsExpanded ==
    /\ phase = "expanded"
    /\ LET outcome == ContainsResult(TRUE) IN
         Conclude(IF outcome.status = "bounds" THEN Unsupported ELSE outcome, "items")
    /\ UNCHANGED <<query, facts, todo>>

PlanItems ==
    /\ phase = "items"
    /\ IF ItemLengths.status = "items"
       THEN phase' = "child" /\ todo' = Obligations /\ UNCHANGED result
       ELSE Conclude(ItemLengths, "done") /\ UNCHANGED todo
    /\ UNCHANGED <<query, facts>>

(* The items are compared in turn; once all are included, so is the array. *)
ProveItem ==
    /\ phase = "child" /\ todo # <<>>
    /\ LET outcome == ItemResult(Head(todo)) IN
         IF outcome.status = "true"
         THEN todo' = Tail(todo) /\ UNCHANGED <<phase, result>>
         ELSE Conclude(outcome, "done") /\ UNCHANGED todo
    /\ UNCHANGED <<query, facts>>

ItemsIncluded ==
    /\ phase = "child" /\ todo = <<>>
    /\ phase' = "done" /\ result' = ProvedTrue
    /\ UNCHANGED <<query, facts, todo>>

Next ==
    \/ ProveType \/ ProveLength \/ ProveUniqueness
    \/ ProveContains \/ ProveContainsExpanded
    \/ PlanItems \/ ProveItem \/ ItemsIncluded

Spec == Init /\ [][Next]_vars

-----------------------------------------------------------------------------
(* Properties.  An array is tried up to a length, and a value of each type *)
(* that is not array.                                                      *)
Values == {Other(type) : type \in OtherTypes}
          \cup {Array(items) : items \in UNION {[1 .. n -> Items] : n \in 0 .. ArraysUpTo}}

(* The length shape of a schema (compiler/domains/arrays.py) admits every  *)
(* array the schema does, whatever its branches and negations, and one     *)
(* that says it is exact admits no others.  Of the values of other types   *)
(* it says only whether there are any, so that its complement leaves out   *)
(* all of them: where nothing is negated it leaves out none it should not. *)
ShapeBounds(shape, s) ==
    shape # None =>
      \A v \in Values :
        IF IsArray(v)
        THEN /\ Holds(s, v) => Counts(shape.intervals, Len(v.items))
             /\ shape.exact /\ Counts(shape.intervals, Len(v.items)) => Holds(s, v)
        ELSE s.negated = <<>> /\ Holds(s, v) => shape.others

(* The types derived of a schema (compiler/domains/types.py) hold that of  *)
(* each value it accepts, and of no other value if the schema says nothing *)
(* but types.                                                              *)
TypesBound(types, complete, s) ==
    types # None =>
      \A v \in Values :
        /\ Holds(s, v) => v.type \in types
        /\ complete /\ v.type \in types => Holds(s, v)

(* What the compiler derives bounds the schemas, on both sides.            *)
ShapesBoundTheirSchemas ==
    phase = "type" =>
      /\ ShapeBounds(facts.lhs.lengths, lhs)
      /\ ShapeBounds(facts.rhs.lengths, rhs)
      /\ ShapeBounds(facts.rhs.plain, rhs)
      /\ TypesBound(facts.lhs.types, facts.lhs.onlyTypes, lhs)
      /\ TypesBound(facts.rhs.types, facts.rhs.onlyTypes, rhs)

(* No left array has fewer items that match the right contains than the    *)
(* prover takes as guaranteed, nor more than it takes as possible.         *)
MatchBoundsHold ==
    phase = "contains" /\ InContainsFragment =>
      \A v \in Values : Holds(lhs, v) =>
        /\ GuaranteedMatches(rhs.contains) <= Matches(v.items, rhs.contains)
        /\ PossibleMatches(rhs.contains) # None =>
             Matches(v.items, rhs.contains) <= PossibleMatches(rhs.contains)

(* What is proved included is: no array, nor other value, of the left side *)
(* is rejected by the right (README.md: "sound results when it can").      *)
InclusionsAreSound ==
    phase = "done" /\ result.status = "true" => \A v \in Values : Holds(lhs, v) => Holds(rhs, v)

(* Types are told apart: both sides have type shapes, and the right side   *)
(* negates nothing that says more of its other types than that it has      *)
(* them.  Of a schema with a keyword the compiler does not know the rule   *)
(* about types says nothing, and the rule about lengths then proves too    *)
(* much: it takes {not: {type: string}} for a schema of arrays alone.      *)
TypesToldIn(q) ==
    \/ q.lhs.types = {"array"}
    \/ /\ TypeShape(q.lhs) # None /\ TypeShape(q.rhs) # None
       /\ \A k \in DOMAIN q.rhs.negated :
             OnlyTypes(q.rhs.negated[k]) \/ q.rhs.negated[k].types = {"array"}

TypesTold == \A q \in Queries : TypesToldIn(q)

(* Right sides whose items come alone.  Of any other the rule about items  *)
(* proves more than it has compared: it passes over contains and           *)
(* uniqueItems (rules/arrays.py, the last line of the rule).               *)
ItemsStandAlone ==
    \A q \in Queries :
      HasItems(q.rhs) /\ ~Compound(q.rhs) => ~HasContains(q.rhs) /\ ~q.rhs.unique

(* What is refuted by a certificate has a counterexample, though none was  *)
(* built (rules/arrays.py: "certified counterexample at a reachable        *)
(* index").                                                                *)
CertificatesAreSound ==
    phase = "done" /\ result.status = "certified" =>
      \E v \in Values : Holds(lhs, v) /\ ~Holds(rhs, v)

(* Any item can be put into an array, and a right side that asks for       *)
(* distinct items accepts arrays.                                          *)
LengthsCanBeTold ==
    \A q \in Queries :
      /\ TrueItem \notin q.hard \cup q.draining
      /\ q.rhs.unique => "array" \in q.rhs.types

(* Lengths are decided: arrays whose schemas bound nothing but their       *)
(* lengths are proved included or given a counterexample, if the search    *)
(* has no horizon and work enough (the rule's completeness is "exact").    *)
LengthsAreDecided ==
    phase = "done" =>
      LET l == facts.lhs.plain
          r == facts.rhs.plain
      IN  (/\ l # None /\ r # None /\ l.exact /\ r.exact /\ ~l.others
           /\ ~HasContains(lhs) /\ ~HasItems(lhs)
           /\ query.horizon = None /\ query.work >= SolverUnits(r))
          => result.status \in {"true", "false"}
=============================================================================

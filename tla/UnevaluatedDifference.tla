----------------------- MODULE UnevaluatedDifference -----------------------
(***************************************************************************)
(* The rules for unevaluatedProperties and unevaluatedItems: the trace of  *)
(* the right side is resolved, a plan is made of it, and the questions     *)
(* about values that the plan has left are asked one by one.               *)
(*                                                                         *)
(* Sources: prover/rules/objects.py, prover/rules/arrays.py,               *)
(* prover/difference_objects.py and prover/difference_arrays.py, the parts *)
(* that have "unevaluated", "conditioned" or "evaluated" in their name.    *)
(* The left side is an object schema (ObjectShapes) or an array schema     *)
(* (ArrayShapes) without references, the right side one of                 *)
(* EvaluationTraces with a keyword unevaluated* at its root.               *)
(***************************************************************************)
EXTENDS EvaluationTraces

CONSTANTS
    Many,           \* the values that stand for infinitely many
    Queries         \* [domain, lhs, rhs, unevaluated, hard, draining, horizon,
                    \*  work, endeavor]

ASSUME ManyAssumption == Many \subseteq Values

VARIABLES
    query,      \* the schemas, and what the rest of the prover can do:
                \*   domain      "object" or "array"
                \*   unevaluated the value schema of the keyword
                \*   hard        value schemas nothing can be proved or built of
                \*   draining    those that use up the work when asked about
                \*   horizon     longest array built
                \*   work        units the conditioned plans may use, or None
                \*   endeavor    whether expensive proofs are allowed
    phase,      \* "trace", "plan", "child" or "done"
    trace,      \* the trace of the right side, or None
    todo,       \* obligations still to be asked: [place, left, right]
    result      \* [status, witness]

vars == <<query, phase, trace, todo, result>>

A == INSTANCE ArrayShapes WITH Items <- Values, OtherTypes <- {"other"}

lhs == query.lhs
rhs == query.rhs
Objects == query.domain = "object"

Result(status, v) == [status |-> status, witness |-> v]
Unsupported == Result("unsupported", None)
Exhausted == Result("exhausted", None)
ProvedTrue == Result("true", None)
Ask == Result("ask", None)

-----------------------------------------------------------------------------
(* Both sides, as values see them.                                         *)
Valued(kind, at) == [kind |-> kind, at |-> at]
Other == Valued("other", <<>>)

AllObjects == {Valued("object", at) : at \in UNION {[names -> Values] : names \in SUBSET Names}}
AllArrays == {Valued("array", at) : at \in UNION {[1 .. n -> Values] : n \in 0 .. Longest}}

HoldsIn(domain, schema, v) ==
    IF domain = "object"
    THEN HoldsLocally(schema, IF v.kind = "object" THEN ObjectOf(v.at) ELSE NotAnObject)
    ELSE A!Holds(schema, IF v.kind = "array" THEN A!Array(v.at) ELSE A!Other("other"))

ValuesOf(domain, schema) ==
    {v \in IF domain = "object" THEN AllObjects \cup {Other} ELSE AllArrays \cup {Other} :
        HoldsIn(domain, schema, v)}

HoldsLeft(v) == HoldsIn(query.domain, lhs, v)
LeftValues == ValuesOf(query.domain, lhs)

(* The keyword is about what nothing in the schema evaluates.              *)
HoldsRight(v) ==
    /\ NodeHolds(rhs, v)
    /\ v.kind = query.domain =>
         \A place \in DOMAIN v.at \ Evaluated(rhs, v) : v.at[place] \in query.unevaluated

(* A candidate is a counterexample only if both sides confirm it.          *)
Validated(v) ==
    IF v # None /\ HoldsLeft(v) /\ ~HoldsRight(v) THEN Result("false", v) ELSE Unsupported

-----------------------------------------------------------------------------
(* What other parts of the prover answer; a term is a set of value schemas *)
(* to be satisfied together.                                               *)
Term(schema) == Conjunction({schema})
UnevaluatedTerm == Term(query.unevaluated)
Rejecting == IsFalse(UnevaluatedTerm)

Proof(l, r) ==
    IF None \in {l, r} THEN Unsupported
    ELSE IF IsFalse(l) \/ IsTrue(r) \/ l = r THEN ProvedTrue
    ELSE IF (l \cup r) \cap query.draining # {} THEN Exhausted
    ELSE IF (l \cup r) \cap query.hard # {} THEN Unsupported
    ELSE IF Meaning(l) \subseteq Meaning(r) THEN ProvedTrue
    ELSE Result("false", CHOOSE x \in Meaning(l) \ Meaning(r) : TRUE)

Proved(l, r) == Proof(l, r).status = "true"

(* build_term_witness.                                                     *)
Built(term) ==
    IF term = None THEN None
    ELSE IF term \cap (query.hard \cup query.draining) # {} \/ Meaning(term) = {} THEN None
    ELSE CHOOSE x \in Meaning(term) : TRUE

(* The values of a term that has finitely many; none otherwise.            *)
FiniteValues(term) ==
    IF term = None THEN {}
    ELSE IF term \cap (query.hard \cup query.draining) # {} \/ Meaning(term) \cap Many # {} THEN {}
    ELSE Meaning(term)

Affords(units) == query.work = None \/ units <= query.work

-----------------------------------------------------------------------------
(* Sources at a place.                                                     *)
TermOfAll(schemas) == IF schemas = {} THEN None ELSE Conjunction(schemas)

(* Sources of names and of items are kept apart.                           *)
NameKinds == {"additionalProperties", "dependentSchemas", "patternProperties", "properties"}
OfDomain(sources) == {s \in sources : Objects <=> s.kind \in NameKinds}

NamedSources(sources) ==
    {s \in sources : ~(s.kind = "additionalProperties" /\ s.term = FalseValue /\ Rejecting)}

NamedSourcesSupported(sources) ==
    \A s \in NamedSources(sources) : s.kind \in {"properties", "patternProperties"}

ItemSourcesSupported(sources) ==
    \A s \in sources : s.kind \in {"additionalItems", "items", "prefixItems"} \/ s.marks

(* item is the left term at the place: what is sure to match contains is   *)
(* evaluated by it.                                                        *)
SourceEvaluates(s, place, item) ==
    /\ s.term # FalseValue
    /\ \/ place \in s.places
       \/ s.marks /\ Proved(item, Term(s.term))

EvaluatedTerm(sources, place, item) ==
    TermOfAll({s.term : s \in {t \in sources : SourceEvaluates(t, place, item)}})

Obligation(place, l, r) == [place |-> place, left |-> l, right |-> r]
Asked(obligations) ==
    [outcome |-> IF obligations = {} THEN ProvedTrue ELSE Ask, todo |-> obligations]
Ends(outcome) == [outcome |-> outcome, todo |-> {}]
Defers == Ends(Unsupported)

-----------------------------------------------------------------------------
(* Conditioned paths (_conditioned_property_paths_cover_lhs, and the same  *)
(* for items).  Every value of a selector, a place that tells the branches *)
(* apart, must be one that some path allows there, and every path must     *)
(* deal with all other places.                                             *)

(* A place of the condition of a path: its schema, if that is simple.      *)
ConditionTerm(n, place) ==
    IF Objects
    THEN IF place \in DOMAIN n.props THEN Term(n.props[place]) ELSE None
    ELSE IF place \in DOMAIN n.prefix THEN Term(n.prefix[place]) ELSE None

ConditionKeywords ==
    IF Objects THEN {"properties", "required", "type"} ELSE {"prefixItems", "type"}

SimpleCondition(n) == NodeKeywords(n) \subseteq ConditionKeywords

(* The condition looks at nothing but the selector.                        *)
LooksOnlyAt(n, selector) ==
    IF Objects
    THEN /\ selector \in lhs.required
         /\ DOMAIN n.props \cup n.required \subseteq {selector}
    ELSE \A k \in DOMAIN n.prefix \ {selector} : n.prefix[k] = TrueValue

(* The condition fails for the values of the path.                         *)
ExcludesSelectorValues(path, selector, values) ==
    LET n == path.node[1]
        excluded == FiniteValues(ConditionTerm(n, selector))
    IN  SimpleCondition(n) /\ LooksOnlyAt(n, selector)
        /\ excluded # {} /\ excluded \cap values = {}

SupportedShape(path, selector, values) ==
    LET n == path.node[1]
        named == UNION {s.places : s \in {t \in path.sources : t.kind = "properties"}}
    IN  IF ~Conditioned(path) THEN FALSE
        ELSE IF ~path.holds THEN ExcludesSelectorValues(path, selector, values)
        ELSE SimpleCondition(n) /\ (Objects => n.required \subseteq lhs.required \cap named)

(* places: those of the left side; item: the left terms there.             *)
PathSources(path) ==
    IF Objects THEN NamedSources(OfDomain(path.sources)) ELSE OfDomain(path.sources)

PathCovers(path, places, item, selector) ==
    LET sources == PathSources(path)
        At(place) == EvaluatedTerm(sources, place, item[place])
        values == FiniteValues(EvaluatedTerm(sources, selector, item[selector]))
    IN  /\ IF Objects THEN NamedSourcesSupported(sources) ELSE ItemSourcesSupported(sources)
        /\ values # {}
        /\ SupportedShape(path, selector, values)
        /\ \A place \in places \ {selector} :
             Proved(item[place], IF At(place) = None THEN UnevaluatedTerm ELSE At(place))

(* Mutant: one value of the selector is enough.                            *)
CoversSomeValue(paths, places, item, selector) ==
    LET sources(path) == PathSources(path)
        Allowed(path) == FiniteValues(EvaluatedTerm(sources(path), selector, item[selector]))
    IN  /\ FiniteValues(item[selector]) # {}
        /\ \A path \in paths : PathCovers(path, places, item, selector)
        /\ FiniteValues(item[selector]) \cap UNION {Allowed(path) : path \in paths} # {}

CoversSelector(paths, places, item, selector) ==
    LET sources(path) == PathSources(path)
        Allowed(path) == FiniteValues(EvaluatedTerm(sources(path), selector, item[selector]))
    IN  /\ FiniteValues(item[selector]) # {}
        /\ \A path \in paths : PathCovers(path, places, item, selector)
        /\ FiniteValues(item[selector]) \subseteq UNION {Allowed(path) : path \in paths}

(* Each candidate for a selector, path and place is a unit of work.        *)
ConditionedOutcome(paths, places, item, candidates) ==
    LET units == Larger(1, Cardinality(candidates)) * Larger(1, Cardinality(paths))
                 * Larger(1, Cardinality(places))
    IN  IF ~Affords(units) THEN Exhausted
        ELSE IF \E c \in candidates : CoversSelector(paths, places, item, c) THEN ProvedTrue
        ELSE Unsupported

-----------------------------------------------------------------------------
(* Objects (unevaluated_properties_difference_plan).                       *)
ClosedLeft == DOMAIN lhs.patterns = {} /\ IsFalse(AdditionalTerm(lhs))
AllowedNames == {name \in DOMAIN lhs.props : AllowsKey(lhs, name)}
NameTerms == [name \in Names |-> KeyTerm(lhs, name)]

ConditionedObjectPlan(paths) ==
    IF ~query.endeavor \/ ~Fragment("object", rhs, TRUE)
       \/ ~KeyValues(lhs) \/ AcceptsOthers(lhs) \/ ~ClosedLeft
    THEN Defers
    ELSE Ends(ConditionedOutcome(paths, AllowedNames, NameTerms, lhs.required \cap DOMAIN lhs.props))

(* Mutant: an object with the one name.                                    *)
ObjectWithNothingElse(name, given) ==
    LET Value(n) == IF n = name /\ given # None THEN given ELSE Built(KeyTerm(lhs, n)) IN
      IF ~AllowsKey(lhs, name) \/ Value(name) = None THEN None
      ELSE Valued("object", [n \in {name} |-> Value(n)])

(* An object with the required names and another, a value given; None if a *)
(* value cannot be built.                                                  *)
ObjectWith(name, given) ==
    LET names == lhs.required \cup {name}
        Value(n) == IF n = name /\ given # None THEN given ELSE Built(KeyTerm(lhs, n))
    IN  IF \E n \in names : ~AllowsKey(lhs, n) \/ Value(n) = None THEN None
        ELSE Valued("object", [n \in names |-> Value(n)])

UnevaluatedNames(sources, names) ==
    {n \in names : AllowsKey(lhs, n) /\ EvaluatedTerm(sources, n, None) = None}

(* The first name that is not evaluated, in an order that is left open.    *)
ClosedObjectPlans(sources) ==
    LET Right(n) == IF EvaluatedTerm(sources, n, None) = None THEN UnevaluatedTerm
                    ELSE EvaluatedTerm(sources, n, None)
        unevaluated == UnevaluatedNames(sources, AllowedNames)
    IN  IF Rejecting /\ unevaluated # {}
        THEN {Ends(Validated(ObjectWith(n, None))) : n \in unevaluated}
        ELSE {Asked({Obligation(n, KeyTerm(lhs, n), Right(n)) : n \in AllowedNames})}

(* A name no source is for, as a regular expression of such names gives it.*)
OpenObjectPlans(sources) ==
    LET declared == UnevaluatedNames(sources, DOMAIN lhs.props \cup lhs.required)
        matched == UNION {s.places : s \in sources}
        beyond == (IF lhs.names = None THEN Names ELSE lhs.names) \ matched
        allowed == {n \in beyond : AllowsKey(lhs, n)}
    IN  IF ~Rejecting THEN {Defers}
        ELSE IF declared # {} THEN {Ends(Validated(ObjectWith(n, None))) : n \in declared}
        ELSE {Ends(Validated(ObjectWith(n, None))) : n \in allowed}
             \cup (IF allowed = beyond /\ beyond # {} THEN {} ELSE {Defers})

ObjectPlans(sources) ==
    IF ~NamedSourcesSupported(sources) \/ ~KeyValues(lhs) THEN {Defers}
    ELSE IF AcceptsOthers(lhs) THEN {Ends(Validated(Other))}
    ELSE IF ~AcceptsObjects(lhs) \/ \E n \in lhs.required : ~AllowsKey(lhs, n)
    THEN {Ends(ProvedTrue)}
    ELSE IF ClosedLeft /\ Fragment("object", rhs, TRUE)
    THEN ClosedObjectPlans(NamedSources(sources))
    ELSE OpenObjectPlans(NamedSources(sources))

-----------------------------------------------------------------------------
(* Arrays (unevaluated_items_difference_plan).                             *)
(* A shape is known of the left side: only arrays, of bounded lengths.     *)
FiniteLeft(lengths) == lengths # None /\ ~lengths.others /\ GreatestCount(lengths) # None

ItemTerm(k) == Term(A!ItemAt(lhs, k - 1))
Reaching(lengths, k) == IF lengths = None THEN None ELSE CountReaching(lengths, k - 1)
Reachable(lengths, limit) == {k \in 1 .. limit : Reaching(lengths, k) # None}

ConditionedArrayPlan(paths, lengths) ==
    IF ~query.endeavor \/ ~Fragment("array", rhs, TRUE) \/ ~FiniteLeft(lengths) THEN Defers
    ELSE Ends(ConditionedOutcome(paths, Reachable(lengths, GreatestCount(lengths)),
                                 [k \in 1 .. Longest |-> ItemTerm(k)], DOMAIN lhs.prefix))

(* An array of a length, one item given; None if an item cannot be built.  *)
ArrayOf(length, place, given) ==
    LET Item(k) == IF k = place /\ given # None THEN given ELSE Built(ItemTerm(k)) IN
      IF \E k \in 1 .. length : Item(k) = None THEN None
      ELSE Valued("array", [k \in 1 .. length |-> Item(k)])

WithLength(length, place, given) ==
    IF length > query.horizon THEN Exhausted ELSE Validated(ArrayOf(length, place, given))

Unevaluated(sources, places) == {k \in places : EvaluatedTerm(sources, k, ItemTerm(k)) = None}

(* An item nothing is sure to evaluate, though contains might: it is asked *)
(* about alone.  Where that may not be asked, it is left unevaluated.      *)
UnevaluatedItem(marking, k) ==
    IF ~query.endeavor \/ Cardinality(marking) # 1
    THEN Ends(WithLength(k, k, None))
    ELSE IF ~Affords(1) THEN Ends(Exhausted)
    ELSE Asked({Obligation(k, ItemTerm(k), Term(s.term)) : s \in marking})

EachItem(sources, places) ==
    LET Right(term) == IF term = None THEN UnevaluatedTerm ELSE term IN
      Asked({Obligation(k, ItemTerm(k), Right(EvaluatedTerm(sources, k, ItemTerm(k)))) : k \in places})

FiniteArrayPlan(sources, open, lengths) ==
    IF ~Rejecting \/ open = {} THEN EachItem(sources, Reachable(lengths, GreatestCount(lengths)))
    ELSE UnevaluatedItem({s \in sources : s.marks}, First(open))

(* Without an upper bound, items are looked at up to two past the last     *)
(* place at which a source begins.                                         *)
ProbeLimit(sources, lengths) ==
    LET starts == {First(s.places) - 1 : s \in {t \in sources : t.places # {}}} IN
      IF lengths # None /\ GreatestCount(lengths) # None THEN GreatestCount(lengths)
      ELSE 2 + FoldSet(Larger, 0, starts)

OpenArrayPlan(open) ==
    IF ~Rejecting \/ open = {} THEN Defers ELSE Ends(WithLength(First(open), First(open), None))

ArrayPlan(sources, lengths) ==
    IF ~ItemSourcesSupported(sources) THEN Defers
    ELSE IF FiniteLeft(lengths) /\ Fragment("array", rhs, TRUE)
    THEN FiniteArrayPlan(sources, Unevaluated(sources, Reachable(lengths, GreatestCount(lengths))), lengths)
    ELSE OpenArrayPlan(Unevaluated(sources, Reachable(lengths, ProbeLimit(sources, lengths))))

-----------------------------------------------------------------------------
Init ==
    /\ query \in Queries
    /\ phase = "trace"
    /\ trace = None
    /\ todo = {}
    /\ result = Unsupported

End(outcome) == result' = outcome /\ phase' = "done"

ResolveTrace ==
    /\ phase = "trace"
    /\ trace' = Trace(rhs, LeftValues)
    /\ phase' = "plan"
    /\ UNCHANGED <<query, todo, result>>

(* The trace is not known: that is the answer.                             *)
DeferUnknownTrace ==
    /\ phase = "plan" /\ trace.status # "known"
    /\ End(IF trace.status = "exhausted" THEN Exhausted ELSE Unsupported)
    /\ UNCHANGED <<query, trace, todo>>

Follow(plan) ==
    /\ todo' = plan.todo
    /\ IF plan.outcome = Ask THEN phase' = "child" /\ UNCHANGED result ELSE End(plan.outcome)
    /\ UNCHANGED <<query, trace>>

SourcesOfPaths == OfDomain(UNION {path.sources : path \in trace.paths})
HasConditionedPaths == \E path \in trace.paths : Conditioned(path)

PlanConditioned ==
    /\ phase = "plan" /\ trace.status = "known" /\ HasConditionedPaths
    /\ Follow(IF Objects THEN ConditionedObjectPlan(trace.paths)
              ELSE ConditionedArrayPlan(trace.paths, A!LeftLengths(lhs)))

PlanObjects ==
    /\ phase = "plan" /\ trace.status = "known" /\ ~HasConditionedPaths /\ Objects
    /\ \E plan \in ObjectPlans(SourcesOfPaths) : Follow(plan)

PlanArrays ==
    /\ phase = "plan" /\ trace.status = "known" /\ ~HasConditionedPaths /\ ~Objects
    /\ Follow(ArrayPlan(SourcesOfPaths, A!LeftLengths(lhs)))

(* A value outside the right term, in a value of the left side.            *)
Refutation(o, x) ==
    IF Objects THEN Validated(ObjectWith(o.place, x)) ELSE WithLength(Reaching(A!LeftLengths(lhs), o.place), o.place, x)

AskValue(o) ==
    LET proof == Proof(o.left, o.right) IN
    /\ todo' = todo \ {o}
    /\ IF proof.status = "true" THEN UNCHANGED <<phase, result>>
       ELSE End(IF proof.status = "false" THEN Refutation(o, proof.witness) ELSE proof)
    /\ UNCHANGED <<query, trace>>

(* In the order of the names, which is left open, or of the items.         *)
AskName ==
    /\ phase = "child" /\ Objects
    /\ \E o \in todo : AskValue(o)

AskItem ==
    /\ phase = "child" /\ ~Objects
    /\ \E o \in todo : (\A p \in todo : o.place <= p.place) /\ AskValue(o)

AllAnswered ==
    /\ phase = "child" /\ todo = {}
    /\ End(ProvedTrue)
    /\ UNCHANGED <<query, trace, todo>>

Next ==
    \/ ResolveTrace
    \/ DeferUnknownTrace
    \/ PlanConditioned
    \/ PlanObjects
    \/ PlanArrays
    \/ AskName
    \/ AskItem
    \/ AllAnswered

Spec == Init /\ [][Next]_vars

-----------------------------------------------------------------------------
(* What the trace says is evaluated really is, for every left value that   *)
(* the right side accepts but for the keyword, on the path it takes.  The  *)
(* branches are told apart by proofs about all left values at once         *)
(* (_branch_collection_expression, _conditional_expression).               *)
Placed == {"properties", "patternProperties", "prefixItems", "items", "additionalItems"}

ClaimedPlacesAreEvaluated ==
    trace # None =>
      \A path \in trace.paths, v \in LeftValues :
        NodeHolds(rhs, v) /\ Takes(path, v) =>
          \A s \in path.sources :
            s.kind \in Placed => s.places \cap DOMAIN v.at \subseteq Evaluated(rhs, v)

(* A proof of inclusion is right: every left value is accepted, with what  *)
(* it has that nothing evaluates (prove_object_unevaluated_properties_     *)
(* difference and prove_array_unevaluated_items_difference).               *)
InclusionsAreSound ==
    result.status = "true" => \A v \in LeftValues : HoldsRight(v)

(* Without branches, and with closed left sides whose counts are free,     *)
(* every question is decided when all questions about values are: the      *)
(* witness of each refusal holds in the left side.                         *)
Plain ==
    /\ query.hard = {} /\ query.draining = {} /\ query.work = None
    /\ NodeKeywords(rhs) \cap {"ref", "allOf", "anyOf", "oneOf", "if", "not"} = {}
    /\ Fragment(query.domain, rhs, TRUE)
    /\ IF Objects
       THEN /\ KeyValues(lhs) /\ ~AcceptsOthers(lhs) /\ ClosedLeft
            /\ lhs.min = None /\ lhs.max = None
            /\ NamedSourcesSupported(OfDomain(Frontier(rhs)))
       ELSE /\ FiniteLeft(A!LeftLengths(lhs)) /\ GreatestCount(A!LeftLengths(lhs)) <= query.horizon
            /\ lhs.min = None /\ lhs.contains = None /\ ~lhs.unique

PlainQuestionsAreDecided ==
    phase = "done" /\ Plain => result.status \in {"true", "false"}
=============================================================================

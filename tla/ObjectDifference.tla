-------------------------- MODULE ObjectDifference --------------------------
(***************************************************************************)
(* The rules that decide whether the objects of one schema are among those *)
(* of another, in the order the solver tries them: by the number of their  *)
(* properties, the names present, the values of named properties, all keys *)
(* and values, the names alone, and as closed objects.  A rule that is     *)
(* unsupported leaves the question to the next; the first that proves or   *)
(* refutes it, or runs out of work, ends it.                               *)
(*                                                                         *)
(* Sources: prover/rules/objects.py, prover/difference_objects.py; the     *)
(* order is that of prover/sat.py.  Schemas are without references, and    *)
(* unevaluatedProperties is left out.                                      *)
(*                                                                         *)
(* A question about value schemas goes to another proof.  Its answer is    *)
(* right when there is one; the query says which schemas have none.        *)
(***************************************************************************)
EXTENDS ObjectShapes

CONSTANTS
    Null,           \* the value null
    Queries         \* [lhs, rhs, hard, draining, certified, horizon, work, endeavor]

ASSUME NullAssumption == Null \in Values

ASSUME QueriesAssumption ==
    \A q \in Queries :
      /\ IsSchema(q.lhs) /\ IsSchema(q.rhs)
      /\ Presence(q.lhs) /\ Presence(q.rhs) =>
           (PresenceNamesOf(q.lhs) \cup PresenceNamesOf(q.rhs)) \cap Fresh = {}

ASSUME NoneIsNoValue == None \notin Names \cup Values

VARIABLES
    query,      \* the schemas, and what the rest of the prover can do:
                \*   hard       value schemas nothing can be proved or built of
                \*   draining   those that use up the work when asked about
                \*   certified  those refuted by a certificate, not by a value
                \*   horizon    most names looked at
                \*   work       units the solver may use, or None
                \*   endeavor   whether expensive proofs are allowed
    facts,      \* what the compiler derived of the two schemas
    phase,      \* the rule that is next, one of its "... child", or "done"
    todo,       \* value obligations still to be asked: [name, left, right]
    result      \* [status, witness]

vars == <<query, facts, phase, todo, result>>

lhs == query.lhs
rhs == query.rhs

(* The facts of a schema (compiler/semantics.py), one part for each rule.  *)
FactsOf(s) ==
    [counts |-> CountShape(s), presence |-> Presence(s), values |-> ValuesShape(s),
     keys |-> KeyValues(s), terms |-> [n \in Names |-> KeyTerm(s, n)],
     allowed |-> {n \in Names : AllowsKey(s, n)},
     names |-> NamesShape(s), closed |-> ClosedShape(s)]

Result(status, v) == [status |-> status, witness |-> v]
Unsupported == Result("unsupported", None)
Exhausted == Result("exhausted", None)
ProvedTrue == Result("true", None)
Certified == Result("certified", None)

-----------------------------------------------------------------------------
(* What other parts of the prover answer.                                  *)
Answerable(term) == term \cap (query.hard \cup query.draining) = {}
Affords(units) == query.work = None \/ units <= query.work

(* _object_child_subproof.  A null counterexample is taken for none (the   *)
(* confirmation guard of prover/sat.py).                                   *)
ChildProof(l, r) ==
    IF None \in {l, r} THEN Unsupported
    ELSE IF IsFalse(l) \/ IsTrue(r) \/ l = r THEN ProvedTrue
    ELSE IF (l \cup r) \cap query.draining # {} THEN Exhausted
    ELSE IF (l \cup r) \cap query.hard # {} THEN Unsupported
    ELSE IF Meaning(l) \subseteq Meaning(r) THEN ProvedTrue
    ELSE IF r \cap query.certified # {} THEN Certified
    ELSE LET other == (Meaning(l) \ Meaning(r)) \ {Null} IN
           IF other = {} THEN Unsupported ELSE Result("false", CHOOSE x \in other : TRUE)

(* build_term_witness.                                                     *)
Built(term) ==
    IF term = None THEN None
    ELSE IF ~Answerable(term) \/ Meaning(term) = {} THEN None
    ELSE CHOOSE x \in Meaning(term) : TRUE

(* Mutant: a candidate that was not built is taken for one.                *)
ValidatedUnbuilt(v) ==
    IF v = None \/ (Holds(lhs, v) /\ ~Holds(rhs, v)) THEN Result("false", v) ELSE Unsupported

(* A candidate is a counterexample only if both sides confirm it.          *)
Validated(v) ==
    IF v # None /\ Holds(lhs, v) /\ ~Holds(rhs, v) THEN Result("false", v) ELSE Unsupported

-----------------------------------------------------------------------------
(* Candidate objects.                                                      *)
NoValues == [name \in {} |-> Null]
Given(name, x) == [n \in {name} |-> x]
Nulls(names) == ObjectOf([n \in names |-> Null])

(* An object with a value for each term, some given; None if one fails.    *)
Materialized(terms, given) ==
    LET Value(n) == IF n \in DOMAIN given THEN given[n] ELSE Built(terms[n]) IN
      IF \E n \in DOMAIN terms : Value(n) = None THEN None
      ELSE ObjectOf([n \in DOMAIN terms |-> Value(n)])

Slots(names) == [n \in names |-> facts.lhs.terms[n]]

(* The names of a number of properties: the declared ones first, then some *)
(* that patterns match, then others.                                       *)
DistinctNames(count, blocked) ==
    LET allowed == facts.lhs.allowed \ blocked
        declared == allowed \cap (lhs.required \cup DOMAIN lhs.props)
        matched == declared \cup {n \in allowed : MatchesPattern(lhs, n)}
        Beyond(first, all) == {first \cup more : more \in kSubset(count - Cardinality(first), all \ first)}
    IN  IF count <= Cardinality(declared) THEN kSubset(count, declared)
        ELSE IF count <= Cardinality(matched) THEN Beyond(declared, matched)
        ELSE IF IsFalse(AdditionalTerm(lhs)) THEN {}
        ELSE Beyond(matched, allowed)

LeftUpper == CountUpper(facts.lhs.counts)
RightUpper == CountUpper(facts.rhs.counts)

(* Names that are one too many for the right side.                         *)
ViolatingNames ==
    IF ~facts.lhs.keys \/ (LeftUpper # None /\ LeftUpper <= RightUpper) THEN {}
    ELSE DistinctNames(RightUpper + 1, {})

-----------------------------------------------------------------------------
(* prove_object_property_count_difference.  Any count of the left that the *)
(* right does not have may be the one the solver's model names.            *)
UncoveredCounts(l, r) ==
    {n \in 0 .. Cardinality(Fresh) : Counts(l.intervals, n) /\ ~Counts(r.intervals, n)}

(* Left keys that are restricted have values to build, which is not done   *)
(* here.                                                                   *)
CountWitness(n) ==
    IF facts.lhs.keys /\ ~UnrestrictedKeys(lhs)
    THEN IF n = 0 THEN ObjectOf(NoValues) ELSE None
    ELSE Nulls(CHOOSE names \in kSubset(n, Fresh) : TRUE)

CountResults ==
    LET l == facts.lhs.counts
        r == facts.rhs.counts
        empty == Validated(ObjectOf(NoValues))
        ByCount(n) == IF CountWitness(n) # None THEN Validated(CountWitness(n))
                      ELSE Validated(CountWitness(CountNotIn(l, r)))
    IN  IF LeastProperties(rhs) > 0 /\ empty # Unsupported THEN {empty}
        ELSE IF None \in {l, r} THEN {Unsupported}
        ELSE IF l.others /\ ~r.others THEN {Validated(NotAnObject)}
        ELSE IF ~Affords(1) THEN {Exhausted}
        ELSE IF ~ShapeWithin(l, r) THEN {ByCount(n) : n \in UncoveredCounts(l, r)}
        ELSE IF ~l.others /\ r.exact THEN {ProvedTrue}
        ELSE {Unsupported}

-----------------------------------------------------------------------------
(* prove_object_presence_product_difference.                               *)

(* The value of a property that a dependent schema of the right restricts. *)
DependentResult(trigger, name) ==
    LET proof == ChildProof(facts.lhs.terms[name], Conjunction({rhs.depends[trigger].props[name]}))
        v == Materialized(Slots({trigger, name}), Given(name, proof.witness))
    IN  IF trigger \notin facts.lhs.allowed \/ name \notin facts.lhs.allowed THEN Unsupported
        ELSE IF proof.status = "exhausted" THEN Exhausted
        ELSE IF proof.status # "false" THEN Unsupported
        ELSE IF v = None THEN Certified
        ELSE Validated(v)

DependentResults ==
    IF ~facts.lhs.keys THEN {}
    ELSE (UNION {{DependentResult(trigger, name) :
                     name \in {n \in DOMAIN rhs.depends[trigger].props :
                                 rhs.depends[trigger].props[n] # TrueValue}}
                   : trigger \in DOMAIN rhs.depends})
         \ {Unsupported}

InterestingNames(s) ==
    LET named == {trigger \in DOMAIN s.depends : s.depends[trigger].required # {}} IN
      DOMAIN s.needs \cup (UNION {s.needs[trigger] : trigger \in DOMAIN s.needs})
      \cup named \cup UNION {s.depends[trigger].required : trigger \in named}

(* A name the left may have alone, and the right may not.                  *)
LoneNames ==
    LET alone == {n \in Names : PresenceAnswer(lhs, TRUE, {n}) # FALSE}
        outside == IF ~facts.rhs.keys THEN {}
                   ELSE (InterestingNames(lhs) \cap alone) \ facts.rhs.allowed
        triggers == {n \in alone : /\ PresenceAnswer(rhs, TRUE, {n}) = FALSE
                                   /\ facts.lhs.keys => n \in facts.lhs.allowed}
        needing == {n \in DOMAIN rhs.needs \cap triggers : rhs.needs[n] # {}}
        depending == {n \in DOMAIN rhs.depends \cap triggers : rhs.depends[n].required # {}}
    IN  IF outside # {} THEN outside ELSE IF needing # {} THEN needing ELSE depending

PresenceWitness(present) ==
    LET v == IF facts.lhs.keys /\ present \subseteq facts.lhs.allowed
             THEN Materialized(Slots(present), NoValues) ELSE None
    IN  IF v = None THEN Nulls(present) ELSE v

(* Both sides declare all names, so no fresh name need be looked at.       *)
ClosedWorld ==
    \A f \in {facts.lhs, facts.rhs} : f.closed # None /\ f.closed.finite

MentionedNames == PresenceNamesOf(lhs) \cup PresenceNamesOf(rhs)

(* Fresh names enough to exceed or reach the upper bounds.                 *)
FreshCount ==
    LET size == Cardinality(MentionedNames)
        beyond == IF RightUpper = None THEN 1 ELSE RightUpper + 1 - size
        reach == IF LeftUpper = None THEN 1
                 ELSE LowerBound(LeftUpper, IF RightUpper = None THEN None ELSE RightUpper + 1) - size
    IN  Larger(1, Larger(beyond, reach))

(* The names looked at.                                                    *)
ProductNames ==
    IF ClosedWorld THEN MentionedNames
    ELSE MentionedNames \cup CHOOSE fresh \in kSubset(FreshCount, Fresh) : TRUE

RejectedPresences ==
    {p \in SUBSET ProductNames : AcceptsPresent(lhs, TRUE, p) /\ ~AcceptsPresent(rhs, TRUE, p)}

ProductIsComplete ==
    /\ ~NegatesValues(lhs) /\ ~PresenceIgnoresValues(rhs)
    /\ ClosedWorld \/ /\ lhs.oneOf = <<>> /\ rhs.oneOf = <<>>
                      /\ ~PresenceBoundsCount(lhs) /\ ~PresenceBoundsCountAbove(rhs)

ProductProves(size) ==
    /\ ~(facts.rhs.keys /\ ConstrainsKeyValues(rhs))
    /\ ProductIsComplete \/ (LeftUpper # None /\ LeftUpper <= size)

ProductResults ==
    LET size == Cardinality(ProductNames) IN
    IF ~facts.lhs.presence \/ ~facts.rhs.presence THEN {Unsupported}
    ELSE IF size > query.horizon \/ ~Affords(Larger(size, 1)) THEN {Exhausted}
    ELSE IF AcceptsPresent(lhs, FALSE, {}) /\ ~AcceptsPresent(rhs, FALSE, {})
    THEN {Validated(NotAnObject)}
    ELSE IF RejectedPresences # {} THEN {Validated(PresenceWitness(p)) : p \in RejectedPresences}
    ELSE IF ProductProves(size) THEN {ProvedTrue}
    ELSE {Unsupported}

PresenceResults ==
    IF DependentResults # {} THEN DependentResults
    ELSE IF LoneNames # {} THEN {Validated(PresenceWitness({n})) : n \in LoneNames}
    ELSE ProductResults

-----------------------------------------------------------------------------
(* Rules that ask about values: a plan is a set of results, or Ask when    *)
(* the obligations are to be asked.                                        *)
Ask == Result("ask", None)
Obligation(name, l, r) == [name |-> name, left |-> l, right |-> r]

IncludedUnlessOthers(others) == IF others THEN Unsupported ELSE ProvedTrue

(* The objects are compared; others were left out or found included.       *)
ValuesWitness(given) ==
    Materialized([n \in facts.lhs.values.required \cup DOMAIN given |-> ValueTerm(lhs, n)], given)

(* prove_object_property_values_difference.                                *)
ValuesPlan ==
    LET l == facts.lhs.values
        r == facts.rhs.values
    IN  IF None \in {l, r} THEN Unsupported
        ELSE IF l.others /\ ~r.others THEN Validated(NotAnObject)
        ELSE IF ~l.objects THEN IncludedUnlessOthers(l.others)
        ELSE IF ~r.objects \/ ~(r.required \subseteq l.required)
        THEN Validated(ValuesWitness(NoValues))
        ELSE Ask

ValuesObligations ==
    {Obligation(n, ValueTerm(lhs, n), ValueTerm(rhs, n)) :
        n \in {m \in facts.rhs.values.names : ~IsTrue(ValueTerm(rhs, m))}}

-----------------------------------------------------------------------------
(* prove_object_key_value_difference.                                      *)
Declared == DOMAIN lhs.props \cup DOMAIN rhs.props \cup lhs.required \cup rhs.required
Patterns == DOMAIN lhs.patterns \cup DOMAIN rhs.patterns

KeyWitness(given) == Materialized(Slots(lhs.required \cup DOMAIN given), given)
KeySkeleton(name) == Materialized(Slots(lhs.required \cup {name}), NoValues)

(* The product of the declared names and the classes of the patterns.      *)
ProductSize ==
    Cardinality(Declared)
    + 2 ^ (Cardinality(Patterns) + Cardinality({s \in {lhs, rhs} : s.names # None}))

MixedProductTooLarge ==
    /\ DOMAIN lhs.props \cup DOMAIN rhs.props # {} /\ Patterns # {}
    /\ ProductSize > query.horizon

(* A left side with dependencies: a name with a bad value, and all names   *)
(* that come with it.                                                      *)
DependencyResults ==
    LET named == {n \in DOMAIN rhs.props \cup UNION DOMAIN rhs.patterns : ~IsTrue(facts.rhs.terms[n])}
        Bad(n) == ChildProof({}, facts.rhs.terms[n])
        Present(n) == DependencyClosed(lhs, {n})
        bad == {n \in named : /\ PresenceAnswer(lhs, TRUE, Present(n)) = TRUE
                              /\ Bad(n).status = "false"}
        Literals(n) == [m \in Present(n) |-> IF m = n THEN Bad(n).witness ELSE Built({})]
    IN  IF ~facts.rhs.keys \/ ~facts.lhs.presence THEN {}
        ELSE IF PresenceIgnoresValues(lhs) THEN {}
        ELSE {Validated(ObjectOf(Literals(n))) : n \in bad}

(* Objects without the names only the right requires.  Which names are     *)
(* tried for a count depends on their order.                               *)
Missing == rhs.required \ lhs.required
OmissionCounts == Larger(Cardinality(lhs.required), CountLower(facts.lhs.counts)) .. query.horizon
Tried(count) == DistinctNames(count, Missing)
Omitting(count) == {names \in Tried(count) : PresenceAnswer(lhs, TRUE, names) # FALSE}
MayFail(count) == Tried(count) = {} \/ Omitting(count) # Tried(count)

OmissionWitnesses ==
    {Materialized(Slots(names), NoValues) : names \in
        UNION {Omitting(c) : c \in {k \in OmissionCounts :
                                      \A j \in OmissionCounts : j < k => MayFail(j)}}}

OmissionMayFail == \A c \in OmissionCounts : MayFail(c)

OnlyRequired ==
    /\ PresenceAnswer(lhs, TRUE, lhs.required) = TRUE
    /\ PresenceAnswer(rhs, TRUE, lhs.required) = FALSE

(* The names the left allows and the right does not, as far as they are    *)
(* found by one name of each language; None when none is.                  *)
KeyspaceNames ==
    LET outside == Names \ rhs.names
        declared == ((DOMAIN lhs.props \cup lhs.required) \cap facts.lhs.allowed) \ facts.rhs.allowed
        found == {n \in outside \cap facts.lhs.allowed : MatchesPattern(lhs, n)}
        missed == \A p \in DOMAIN lhs.patterns :
                     p \cap outside = {} \/ ~(p \cap outside \subseteq facts.lhs.allowed)
        open == IF IsFalse(AdditionalTerm(lhs)) THEN {}
                ELSE (IF lhs.names = None THEN Names ELSE lhs.names) \cap outside
    IN  IF declared # {} THEN declared
        ELSE IF rhs.names = None THEN {None}
        ELSE found \cup IF ~missed THEN {} ELSE IF open # {} THEN open ELSE {None}

(* Before any value is asked about, a name each language gives is tried    *)
(* with a bad value.                                                       *)
DirectLanguages ==
    (Patterns \cup {p \cap q : p \in DOMAIN lhs.patterns, q \in DOMAIN rhs.patterns}) \ {{}}

DirectResult(name) ==
    LET proof == ChildProof(facts.lhs.terms[name], facts.rhs.terms[name])
        allowed == lhs.required \cup {name} \subseteq facts.lhs.allowed
    IN  IF name \notin facts.lhs.allowed \/ IsTrue(facts.rhs.terms[name]) THEN Ask
        ELSE IF proof.status = "exhausted" THEN Exhausted
        ELSE IF proof.status # "false" \/ ~allowed THEN Ask
        ELSE Validated(KeyWitness(Given(name, proof.witness)))

DirectResults ==
    LET tried == {DirectResult(n) : n \in UNION DirectLanguages} \ {Ask} IN
      IF query.endeavor THEN {Ask}
      ELSE tried \cup IF \A p \in DirectLanguages : \E n \in p : DirectResult(n) = Ask
                      THEN {Ask} ELSE {}

(* Mutant: only declared names are compared.                               *)
KeyObligationsOfDeclared ==
    {o \in {Obligation(n, facts.lhs.terms[n], facts.rhs.terms[n]) : n \in Declared} :
        o.name \in facts.lhs.allowed /\ ~IsTrue(o.right)}

(* The declared names, and one name of each class of the others.           *)
KeyObligations ==
    LET Like(n) == {m \in Names \ Declared :
                      /\ \A p \in Patterns : m \in p <=> n \in p
                      /\ \A s \in {lhs, rhs} : s.names # None => (m \in s.names <=> n \in s.names)}
        representatives == {CHOOSE m \in Like(n) : TRUE : n \in Names \ Declared}
    IN  {o \in {Obligation(n, facts.lhs.terms[n], facts.rhs.terms[n]) : n \in Declared \cup representatives} :
            o.name \in facts.lhs.allowed /\ ~IsTrue(o.right)}

(* The right side restricts no value: its counts remain.                   *)
NoValuesResults ==
    IF RightUpper # None
    THEN IF ViolatingNames = {} THEN {Unsupported}
         ELSE {Validated(Materialized(Slots(names), NoValues)) : names \in ViolatingNames}
    ELSE IF facts.rhs.presence /\ PresenceBoundsCount(rhs) THEN {Unsupported}
    ELSE {IncludedUnlessOthers(AcceptsOthers(lhs))}

ObligationResults(outcome) ==
    IF outcome # Ask THEN {outcome}
    ELSE IF ProductSize > query.horizon THEN {Exhausted}
    ELSE IF KeyObligations = {} THEN {Unsupported}
    ELSE {Ask}

KeyspaceResults ==
    UNION {IF name # None THEN {Validated(KeySkeleton(name))}
           ELSE IF ~ConstrainsKeyValues(rhs) THEN NoValuesResults
           ELSE UNION {ObligationResults(outcome) : outcome \in DirectResults}
             : name \in KeyspaceNames}

KeysResults ==
    IF ~facts.lhs.keys \/ ~facts.rhs.keys
    THEN IF ~facts.lhs.keys /\ DependencyResults # {} THEN DependencyResults ELSE {Unsupported}
    ELSE IF MixedProductTooLarge THEN {Exhausted}
    ELSE IF AcceptsOthers(lhs) /\ ~AcceptsOthers(rhs) THEN {Validated(NotAnObject)}
    ELSE IF ~AcceptsObjects(lhs) \/ ~(lhs.required \subseteq facts.lhs.allowed)
    THEN {IncludedUnlessOthers(AcceptsOthers(lhs))}
    ELSE IF ~AcceptsObjects(rhs) \/ (Missing # {} /\ OnlyRequired)
    THEN {Validated(KeyWitness(NoValues))}
    ELSE IF Missing = {} THEN KeyspaceResults
    ELSE {Validated(v) : v \in OmissionWitnesses}
         \cup IF OmissionMayFail THEN KeyspaceResults ELSE {}

CountsDirectlySatisfied ==
    /\ LeastProperties(lhs) >= LeastProperties(rhs)
    /\ rhs.max # None => lhs.max # None /\ lhs.max <= rhs.max

-----------------------------------------------------------------------------
(* prove_object_property_names_difference.                                 *)
NamesIncluded(l, r) ==
    /\ l.others => r.others
    /\ NamesInhabited(l) =>
         r.objects /\ r.required \subseteq l.required /\ l.keyspace \subseteq r.keyspace

(* A rejected witness is repaired with values its names need.              *)
Repaired(names) ==
    LET Value(n) == IF Built(facts.lhs.terms[n]) = None THEN Null ELSE Built(facts.lhs.terms[n]) IN
      IF Validated(Nulls(names)) # Unsupported \/ ~facts.lhs.keys
         \/ ~(names \subseteq facts.lhs.allowed)
      THEN Validated(Nulls(names))
      ELSE Validated(ObjectOf([n \in names |-> Value(n)]))

NamesResults ==
    LET l == facts.lhs.names
        r == facts.rhs.names
        lone == {n \in InterestingNames(lhs) \ r.keyspace : PresenceAnswer(lhs, TRUE, {n}) = TRUE}
    IN  IF NamesWithValues(rhs) \/ r = None THEN {Unsupported}
        ELSE IF l = None
        THEN IF r.objects /\ lone # {} THEN {Validated(Nulls({n})) : n \in lone} ELSE {Unsupported}
        ELSE IF NamesIncluded(l, r) THEN {IncludedUnlessOthers(l.others)}
        ELSE IF l.others /\ ~r.others THEN {Validated(NotAnObject)}
        ELSE IF ~r.objects \/ ~(r.required \subseteq l.required) THEN {Repaired(l.required)}
        ELSE {Repaired(l.required \cup {n}) : n \in l.keyspace \ r.keyspace}

-----------------------------------------------------------------------------
(* prove_closed_object_properties_difference.                              *)
ClosedWitness(names, given) ==
    LET l == facts.lhs.closed
        all == l.required \cup names \cup DOMAIN given
    IN  IF \E n \in all : ~KeyspaceAccepts(l, n) THEN None
        ELSE Materialized([n \in all |-> ClosedTerm(lhs, n)], given)

ClosedObligations ==
    {o \in {Obligation(n, ClosedTerm(lhs, n), ClosedTerm(rhs, n)) : n \in facts.lhs.closed.allowed} :
        o.right # None /\ ~IsTrue(o.right)}

(* Left names without end: only the counts of the right can be refuted.    *)
OpenKeyspaceResults ==
    IF RightUpper # None
    THEN IF ViolatingNames = {} THEN {Unsupported}
         ELSE {Validated(ClosedWitness(names, NoValues)) : names \in ViolatingNames}
    ELSE IF \E p \in AndParts(rhs) : DOMAIN p.props # {} \/ DOMAIN p.patterns # {} THEN {Unsupported}
    ELSE {IncludedUnlessOthers(facts.lhs.closed.others)}

ClosedResults ==
    LET l == facts.lhs.closed
        r == facts.rhs.closed
        outside == {n \in l.allowed : l.finite /\ ~KeyspaceAccepts(r, n)}
    IN  IF None \in {l, r} THEN {Unsupported}
        ELSE IF l.others /\ ~r.others THEN {Validated(NotAnObject)}
        ELSE IF ~ClosedInhabited(l) THEN {IncludedUnlessOthers(l.others)}
        ELSE IF ~r.objects \/ ~(r.required \subseteq l.required)
        THEN {Validated(ClosedWitness({}, NoValues))}
        ELSE IF ~KeyspaceSatisfies(l, r)
        THEN IF outside = {} THEN {Unsupported}
             ELSE {Validated(ClosedWitness({n}, NoValues)) : n \in outside}
        ELSE IF l.finite THEN {Ask} ELSE OpenKeyspaceResults

-----------------------------------------------------------------------------
(* An obligation that is refuted: the offending value takes its place in   *)
(* an object, whose other values are built.                                *)
ObjectWith(given) ==
    IF phase = "values child" THEN ValuesWitness(given)
    ELSE IF phase = "keys child" THEN KeyWitness(given)
    ELSE ClosedWitness({}, given)

(* The closed rule takes a rejected object for a certificate.              *)
ValueResult(obligation) ==
    LET proof == ChildProof(obligation.left, obligation.right)
        v == ObjectWith(Given(obligation.name, proof.witness))
    IN  IF proof.status # "false" THEN proof
        ELSE IF v = None \/ (phase = "closed child" /\ Validated(v) = Unsupported) THEN Certified
        ELSE Validated(v)

Init ==
    /\ query \in Queries
    /\ facts = [lhs |-> FactsOf(query.lhs), rhs |-> FactsOf(query.rhs)]
    /\ phase = "count"
    /\ todo = <<>>
    /\ result = Unsupported

(* A rule's result ends the search unless it is unsupported.               *)
Conclude(outcome, next) ==
    /\ todo' = <<>>
    /\ IF outcome = Unsupported
       THEN phase' = next /\ UNCHANGED result
       ELSE phase' = "done" /\ result' = outcome

ConcludeOrAsk(outcome, obligations, child, next) ==
    IF outcome = Ask
    THEN phase' = child /\ todo' = SetToSeq(obligations) /\ UNCHANGED result
    ELSE Conclude(outcome, next)

ProveCount ==
    /\ phase = "count"
    /\ \E outcome \in CountResults : Conclude(outcome, "presence")
    /\ UNCHANGED <<query, facts>>

ProvePresence ==
    /\ phase = "presence"
    /\ \E outcome \in PresenceResults : Conclude(outcome, "values")
    /\ UNCHANGED <<query, facts>>

ProveValues ==
    /\ phase = "values"
    /\ ConcludeOrAsk(ValuesPlan, ValuesObligations, "values child", "keys")
    /\ UNCHANGED <<query, facts>>

ProveKeys ==
    /\ phase = "keys"
    /\ \E outcome \in KeysResults : ConcludeOrAsk(outcome, KeyObligations, "keys child", "names")
    /\ UNCHANGED <<query, facts>>

ProveNames ==
    /\ phase = "names"
    /\ \E outcome \in NamesResults : Conclude(outcome, "closed")
    /\ UNCHANGED <<query, facts>>

ProveClosed ==
    /\ phase = "closed"
    /\ \E outcome \in ClosedResults : ConcludeOrAsk(outcome, ClosedObligations, "closed child", "done")
    /\ UNCHANGED <<query, facts>>

NextRule ==
    IF phase = "values child" THEN "keys" ELSE IF phase = "keys child" THEN "names" ELSE "done"

Asking == phase \in {"values child", "keys child", "closed child"}

(* The values are compared in turn.                                        *)
ProveValue ==
    /\ Asking /\ todo # <<>>
    /\ LET outcome == ValueResult(Head(todo)) IN
         IF outcome.status = "true"
         THEN todo' = Tail(todo) /\ UNCHANGED <<phase, result>>
         ELSE Conclude(outcome, NextRule)
    /\ UNCHANGED <<query, facts>>

(* All values are included; what the key rule says of counts remains.      *)
ValuesIncluded ==
    /\ Asking /\ todo = <<>>
    /\ Conclude(IF phase = "keys child" /\ (rhs.min # None \/ rhs.max # None)
                   /\ ~CountsDirectlySatisfied
                THEN Unsupported ELSE ProvedTrue, NextRule)
    /\ UNCHANGED <<query, facts>>

Next ==
    \/ ProveCount \/ ProvePresence \/ ProveValues \/ ProveKeys \/ ProveNames \/ ProveClosed
    \/ ProveValue \/ ValuesIncluded

Spec == Init /\ [][Next]_vars

-----------------------------------------------------------------------------
(* Properties.                                                             *)
Schemas == {q.lhs : q \in Queries} \cup {q.rhs : q \in Queries}
Instances ==
    {NotAnObject} \cup UNION {{ObjectOf(values) : values \in [names -> Values]}
                               : names \in {n \in SUBSET Names : IsFiniteSet(n)}}
InstancesOf == [s \in Schemas |-> {v \in Instances : Holds(s, v)}]

(* The result and what is left to ask have the shape the rules expect.     *)
TypeOK ==
    /\ phase \in {"count", "presence", "values", "values child", "keys", "keys child",
                  "names", "closed", "closed child", "done"}
    /\ result.status \in {"unsupported", "exhausted", "true", "false", "certified"}
    /\ (result.witness # None) = (result.status = "false")
    /\ todo # <<>> => Asking /\ todo[1].name \in Names /\ None # todo[1].right

(* What the compiler derives of a schema holds of each of its objects: the *)
(* number of properties is in the count shape, the names present are       *)
(* accepted, each value meets its term in the key, value and closed facts; *)
(* and an exact count shape, or a presence without values, admits nothing  *)
(* else (ir/constraints.py).                                               *)
CountsBound(s) ==
    LET shape == CountShape(s)
        Admitted(v) == IF v.object THEN Counts(shape.intervals, Cardinality(DOMAIN v.values))
                       ELSE shape.others
    IN  shape # None =>
          /\ \A v \in InstancesOf[s] : Admitted(v)
          /\ shape.exact => \A v \in Instances : Admitted(v) => v \in InstancesOf[s]

PresenceBounds(s) ==
    Presence(s) =>
      /\ ~NegatesValues(s) /\ s.oneOf = <<>> =>
           \A v \in InstancesOf[s] : AcceptsPresent(s, v.object, DOMAIN v.values)
      /\ ~PresenceIgnoresValues(s) =>
           \A v \in Instances : AcceptsPresent(s, v.object, DOMAIN v.values) => v \in InstancesOf[s]

ValuesBound(s) ==
    \A v \in InstancesOf[s] : \A n \in DOMAIN v.values :
      /\ KeyValues(s) => AllowsKey(s, n) /\ v.values[n] \in Meaning(KeyTerm(s, n))
      /\ ValuesShape(s) # None /\ ValueTerm(s, n) # None => v.values[n] \in Meaning(ValueTerm(s, n))
      /\ NamesShape(s) # None => n \in NamesShape(s).keyspace
      /\ ClosedShape(s) # None =>
           /\ KeyspaceAccepts(ClosedShape(s), n)
           /\ ClosedTerm(s, n) # None => v.values[n] \in Meaning(ClosedTerm(s, n))

FactsHold == [s \in Schemas |-> CountsBound(s) /\ PresenceBounds(s) /\ ValuesBound(s)]

FactsBoundTheirSchemas == FactsHold[lhs] /\ FactsHold[rhs]

(* What is proved included is: no object, nor other value, of the left     *)
(* side is rejected by the right (README.md: "sound results when it can"). *)
InclusionsAreSound ==
    phase = "done" /\ result.status = "true" => InstancesOf[lhs] \subseteq InstancesOf[rhs]

(* Where the rules that prove look at all there is: the presence rule, in  *)
(* an open world, at enough fresh names, and at no values it should not    *)
(* ignore or bounds it does not reach; the key rule at the required names, *)
(* and at counts and the keyspace when it asks about no value; the closed  *)
(* rule at counts.  Elsewhere an inclusion may be proved that is not one   *)
(* (prover/difference_objects.py:1791, :2020, :2063, :1305).               *)
PresenceSeesAll ==
    facts.lhs.presence /\ facts.rhs.presence =>
      /\ ClosedWorld \/ kSubset(FreshCount, Fresh) # {}
      /\ \/ ProductIsComplete \/ LeftUpper = None
         \/ /\ ~NegatesValues(lhs) /\ lhs.oneOf = <<>> /\ ~PresenceIgnoresValues(rhs)
            /\ LeftUpper <= FreshCount

CountsReachBelow ==
    /\ AcceptsObjects(rhs) => facts.rhs.counts.intervals # <<>>
    /\ CountLower(facts.rhs.counts) <= CountLower(facts.lhs.counts)
CountsReachAbove == RightUpper = None \/ (LeftUpper # None /\ LeftUpper <= RightUpper)

KeysSeeAll ==
    facts.lhs.keys /\ facts.rhs.keys =>
      /\ Missing = {}
      /\ \/ ConstrainsKeyValues(rhs)
         \/ /\ CountsReachBelow
            /\ \/ None \in {lhs.names, rhs.names} \/ DOMAIN lhs.patterns = {}
               \/ ~IsFalse(AdditionalTerm(lhs))

ClosedSeesAll ==
    None \notin {facts.lhs.closed, facts.rhs.closed} =>
      CountsReachBelow /\ (facts.lhs.closed.finite => CountsReachAbove)

RulesSeeAll == PresenceSeesAll /\ KeysSeeAll /\ ClosedSeesAll

(* What is refuted by a certificate has a counterexample, though none was  *)
(* built (rules/objects.py: "counterexample could not be materialized      *)
(* without expanding child data").                                         *)
CertificatesAreSound ==
    phase = "done" /\ result.status = "certified" => ~(InstancesOf[lhs] \subseteq InstancesOf[rhs])

(* Presence is decided: schemas that ask only which names are present, and *)
(* how many, are proved included or given a counterexample, if the names   *)
(* are within the horizon and the solver can be paid.                      *)
PresenceIsDecided ==
    /\ phase = "done" /\ facts.lhs.presence /\ facts.rhs.presence
    /\ ~PresenceIgnoresValues(lhs) /\ ~PresenceIgnoresValues(rhs)
    /\ facts.rhs.keys => rhs.additional = None
    /\ ClosedWorld \/ LeftUpper # None \/ ProductIsComplete
    /\ ~AcceptsOthers(lhs)
    /\ Cardinality(ProductNames) <= query.horizon /\ Affords(Cardinality(ProductNames))
    => result.status \in {"true", "false"}
=============================================================================

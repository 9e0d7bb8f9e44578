---------------------------- MODULE ObjectShapes ----------------------------
(***************************************************************************)
(* What the compiler derives of an object schema: how many properties its  *)
(* objects have, which names may and must be present, and the schema of    *)
(* each value.  Every fact is for the schemas of one keyword fragment, and *)
(* is None outside it.                                                     *)
(*                                                                         *)
(* Sources: compiler/domains/objects.py, compiler/domains/object_facts.py, *)
(* compiler/semantics.py, and the records of ir/constraints.py.            *)
(***************************************************************************)
EXTENDS CountIntervals

CONSTANTS
    Names,          \* property names
    Fresh,          \* the names no schema mentions one by one: they stand for
                    \* the infinitely many others
    Values          \* the values of properties

ASSUME FreshAssumption == Fresh \subseteq Names

(***************************************************************************)
(* A value schema is the set of the values it accepts, a regular language  *)
(* the set of the names it matches.  A schema is a record of keywords:     *)
(*   types      a subset of {"object", "other"},                           *)
(*   min, max   minProperties and maxProperties, or None,                  *)
(*   required   names,                                                     *)
(*   props      a function from names to value schemas (properties),       *)
(*   patterns   a function from languages to value schemas,                *)
(*   additional a value schema, or None,                                   *)
(*   names      the language of propertyNames, or None,                    *)
(*   needs      a function from names to names (dependentRequired),        *)
(*   depends    a function from names to schemas (dependentSchemas),       *)
(*   allOf, anyOf, oneOf, negated    schemas (<<>>: absent).               *)
(* Subschemas have none of the last five.                                  *)
(***************************************************************************)
TrueValue == Values
FalseValue == {}

IsMap(f, keys, values) == DOMAIN f \subseteq keys /\ f \in [DOMAIN f -> values]

(* A schema is written down: it has finitely many keywords and names.      *)
HasKeywords(s) ==
    /\ s.types \subseteq {"object", "other"}
    /\ {s.min, s.max} \subseteq Nat \cup {None}
    /\ s.required \subseteq Names /\ IsFiniteSet(s.required)
    /\ IsMap(s.props, Names, SUBSET Values) /\ IsFiniteSet(DOMAIN s.props)
    /\ IsMap(s.patterns, SUBSET Names, SUBSET Values) /\ IsFiniteSet(DOMAIN s.patterns)
    /\ s.additional \in (SUBSET Values) \cup {None}
    /\ s.names \in (SUBSET Names) \cup {None}
    /\ IsMap(s.needs, Names, SUBSET Names)

IsBranch(s) ==
    /\ HasKeywords(s)
    /\ DOMAIN s.depends = {}
    /\ s.allOf = <<>> /\ s.anyOf = <<>> /\ s.oneOf = <<>> /\ s.negated = <<>>

AreBranches(branches) ==
    branches \in Seq(ToSet(branches)) /\ \A b \in ToSet(branches) : IsBranch(b)

IsSchema(s) ==
    /\ HasKeywords(s)
    /\ DOMAIN s.depends \subseteq Names
    /\ \A trigger \in DOMAIN s.depends : IsBranch(s.depends[trigger])
    /\ AreBranches(s.allOf) /\ AreBranches(s.anyOf)
    /\ AreBranches(s.oneOf) /\ AreBranches(s.negated)

ASSUME NoTermAssumption ==
    /\ \A i \in SUBSET Values : i # None
    /\ \A term \in SUBSET SUBSET Values : term # None
    /\ \A p \in SUBSET Names : p # None

ObjectOf(values) == [object |-> TRUE, values |-> values]
NotAnObject == [object |-> FALSE, values |-> <<>>]

-----------------------------------------------------------------------------
(* The meaning of the keywords (JSON Schema; validator/core.py).           *)
SchemasFor(s, name) ==
    LET matching == {p \in DOMAIN s.patterns : name \in p} IN
      {s.props[n] : n \in DOMAIN s.props \cap {name}}
      \cup {s.patterns[p] : p \in matching}
      \cup (IF s.additional = None \/ name \in DOMAIN s.props \/ matching # {}
            THEN {} ELSE {s.additional})

HoldsLocally(s, v) ==
    LET present == DOMAIN v.values IN
    IF ~v.object THEN "other" \in s.types
    ELSE /\ "object" \in s.types
         /\ s.min # None => Cardinality(present) >= s.min
         /\ s.max # None => Cardinality(present) <= s.max
         /\ s.required \subseteq present
         /\ s.names # None => present \subseteq s.names
         /\ \A name \in present : \A i \in SchemasFor(s, name) : v.values[name] \in i
         /\ \A trigger \in DOMAIN s.needs \cap present : s.needs[trigger] \subseteq present

Holds(s, v) ==
    LET HoldingOf(branches) == {k \in DOMAIN branches : HoldsLocally(branches[k], v)} IN
    /\ HoldsLocally(s, v)
    /\ HoldingOf(s.allOf) = DOMAIN s.allOf
    /\ s.anyOf # <<>> => HoldingOf(s.anyOf) # {}
    /\ s.oneOf # <<>> => Cardinality(HoldingOf(s.oneOf)) = 1
    /\ HoldingOf(s.negated) = {}
    /\ v.object => \A trigger \in DOMAIN s.depends \cap DOMAIN v.values :
                      HoldsLocally(s.depends[trigger], v)

-----------------------------------------------------------------------------
(* Fragments, by the keywords of the schema.                               *)
Keywords(s) ==
    LET uses == [minProperties |-> s.min # None, maxProperties |-> s.max # None,
                 required |-> s.required # {}, properties |-> DOMAIN s.props # {},
                 patternProperties |-> DOMAIN s.patterns # {},
                 additionalProperties |-> s.additional # None,
                 propertyNames |-> s.names # None,
                 dependentRequired |-> DOMAIN s.needs # {},
                 dependentSchemas |-> DOMAIN s.depends # {},
                 allOf |-> s.allOf # <<>>, anyOf |-> s.anyOf # <<>>,
                 oneOf |-> s.oneOf # <<>>, not |-> s.negated # <<>>]
    IN  {k \in DOMAIN uses : uses[k]}

CountKeywords ==
    {"additionalProperties", "allOf", "anyOf", "maxProperties", "minProperties", "not",
     "patternProperties", "properties", "propertyNames", "required"}
PresenceKeywords ==
    {"additionalProperties", "allOf", "anyOf", "dependentRequired", "dependentSchemas",
     "maxProperties", "minProperties", "not", "oneOf", "properties", "required"}
ValuesKeywords == {"allOf", "properties", "required"}
KeyValueKeywords ==
    {"additionalProperties", "maxProperties", "minProperties", "patternProperties",
     "properties", "propertyNames", "required"}
NamesKeywords ==
    {"additionalProperties", "allOf", "patternProperties", "properties", "propertyNames",
     "required"}
ClosedKeywords ==
    {"additionalProperties", "allOf", "maxProperties", "minProperties",
     "patternProperties", "properties", "required"}

AllIn(s, keywords) ==
    Keywords(s) \subseteq keywords /\ \A k \in DOMAIN s.allOf : Keywords(s.allOf[k]) \subseteq keywords

(* Conjunctions of value schemas, as the terms of the prover: the true     *)
(* schema drops out.  None is a term that is not there.                    *)
Conjunction(schemas) == schemas \ {TrueValue}
IsTrue(term) == term = {}
IsFalse(term) == FalseValue \in term
Meaning(term) == {x \in Values : \A i \in term : x \in i}

ClosedNames(s) == DOMAIN s.props \cup UNION DOMAIN s.patterns
AcceptsObjects(s) == "object" \in s.types
AcceptsOthers(s) == "other" \in s.types

-----------------------------------------------------------------------------
(* Property counts (object_property_count_shape_for_schema).               *)
LeastProperties(s) == IF s.min = None THEN 0 ELSE s.min

(* Mutant: patternProperties do not keep additionalProperties: false from  *)
(* bounding the count.                                                     *)
LocalCountsIgnoringPatterns(s) ==
    IF ~AcceptsObjects(s) THEN Shape({}, AcceptsOthers(s), TRUE)
    ELSE Shape({Interval(Larger(LeastProperties(s), Cardinality(s.required)),
                         IF s.additional = FalseValue
                         THEN LowerBound(s.max, Cardinality(DOMAIN s.props)) ELSE s.max)},
               AcceptsOthers(s),
               Keywords(s) \subseteq {"maxProperties", "minProperties", "allOf", "anyOf", "not"})

LocalCounts(s) ==
    IF ~AcceptsObjects(s) THEN Shape({}, AcceptsOthers(s), TRUE)
    ELSE LET closed == s.additional = FalseValue /\ DOMAIN s.patterns = {} IN
           Shape({Interval(Larger(LeastProperties(s), Cardinality(s.required)),
                           IF closed THEN LowerBound(s.max, Cardinality(DOMAIN s.props))
                           ELSE s.max)},
                 AcceptsOthers(s),
                 Keywords(s) \subseteq {"maxProperties", "minProperties", "allOf", "anyOf", "not"})

BranchCounts(b) == IF Keywords(b) \subseteq CountKeywords THEN LocalCounts(b) ELSE None

CountShape(s) ==
    LET Each(branches) == [k \in DOMAIN branches |-> BranchCounts(branches[k])]
        all == FoldLeft(MeetShapes, BranchCounts(s), Each(s.allOf))
        any == FoldLeft(JoinShapes, NothingShape, Each(s.anyOf))
        both == IF s.anyOf = <<>> THEN all ELSE MeetShapes(all, any)
    IN  FoldLeft(MeetShapes, both, [k \in DOMAIN s.negated |-> Complement(BranchCounts(s.negated[k]))])

(* Bounds of a shape, for those who need one: None is no upper bound.      *)
CountLower(shape) == IF shape = None THEN 0 ELSE LeastCount(shape)
CountUpper(shape) ==
    IF shape = None \/ shape.intervals = <<>> THEN None ELSE GreatestCount(shape)

-----------------------------------------------------------------------------
(* Presence (ObjectPresenceProductConstraint): which sets of names a       *)
(* schema accepts, whatever their values.                                  *)
HasPresence(s) ==
    /\ Keywords(s) \subseteq PresenceKeywords
    /\ s.additional \in {None, FalseValue}

Branches(s) == ToSet(s.allOf) \cup ToSet(s.anyOf) \cup ToSet(s.oneOf)
DependentBranches(s) == {s.depends[trigger] : trigger \in DOMAIN s.depends}
Parts(s) == {s} \cup Branches(s) \cup DependentBranches(s) \cup ToSet(s.negated)

Presence(s) == \A part \in Parts(s) : HasPresence(part)

(* Mutant: the names of a closed object are not looked at.                 *)
LocallyPresentOpen(s, object, present) ==
    IF ~object THEN AcceptsOthers(s)
    ELSE /\ AcceptsObjects(s)
         /\ s.required \subseteq present
         /\ \A trigger \in DOMAIN s.needs \cap present : s.needs[trigger] \subseteq present
         /\ Cardinality(present) >= LeastProperties(s)
         /\ s.max # None => Cardinality(present) <= s.max

LocallyPresent(s, object, present) ==
    IF ~object THEN AcceptsOthers(s)
    ELSE /\ AcceptsObjects(s)
         /\ s.required \subseteq present
         /\ s.additional = FalseValue => present \subseteq DOMAIN s.props
         /\ \A trigger \in DOMAIN s.needs \cap present : s.needs[trigger] \subseteq present
         /\ Cardinality(present) >= LeastProperties(s)
         /\ s.max # None => Cardinality(present) <= s.max

AcceptsPresent(s, object, present) ==
    LET Accepting(branches) == {k \in DOMAIN branches : LocallyPresent(branches[k], object, present)}
    IN  /\ LocallyPresent(s, object, present)
        /\ Accepting(s.allOf) = DOMAIN s.allOf
        /\ s.anyOf # <<>> => Accepting(s.anyOf) # {}
        /\ s.oneOf # <<>> => Cardinality(Accepting(s.oneOf)) = 1
        /\ object => \A trigger \in DOMAIN s.depends \cap present :
                        LocallyPresent(s.depends[trigger], object, present)
        /\ Accepting(s.negated) = {}

(* presence_accepts: None where there is no presence constraint.           *)
PresenceAnswer(s, object, present) ==
    IF Presence(s) THEN AcceptsPresent(s, object, present) ELSE None

LocalNames(s) ==
    s.required \cup DOMAIN s.props \cup DOMAIN s.needs
    \cup UNION {s.needs[trigger] : trigger \in DOMAIN s.needs}

PresenceNamesOf(s) == (UNION {LocalNames(part) : part \in Parts(s)}) \cup DOMAIN s.depends

BoundsCount(s) == LeastProperties(s) > 0 \/ s.max # None
PresenceBoundsCount(s) == \E part \in Parts(s) : BoundsCount(part)
PresenceBoundsCountAbove(s) ==
    \/ \E part \in Parts(s) \ ToSet(s.negated) : part.max # None
    \/ \E part \in ToSet(s.negated) : LeastProperties(part) > 0

ConstrainsValues(s) == \E name \in DOMAIN s.props : s.props[name] # TrueValue
PresenceIgnoresValues(s) == \E part \in Parts(s) : ConstrainsValues(part)
NegatesValues(s) == \E part \in ToSet(s.negated) : ConstrainsValues(part)

(* The names that come with a name (dependency_closed_present_names).      *)
DependencyClosed(s, seed) ==
    LET Step(names) ==
            names \cup s.required
            \cup (UNION {s.needs[trigger] : trigger \in DOMAIN s.needs \cap names})
            \cup (UNION {s.depends[trigger].required : trigger \in DOMAIN s.depends \cap names})
            \cup UNION {UNION {s.depends[t].needs[n] : n \in DOMAIN s.depends[t].needs \cap names}
                          : t \in DOMAIN s.depends \cap names}
    IN  FoldLeft(LAMBDA names, k : Step(names), seed, [k \in 1 .. Cardinality(Names) |-> k])

-----------------------------------------------------------------------------
(* Property values (ObjectPropertyValuesConstraint).                       *)
AndParts(s) == {s} \cup ToSet(s.allOf)

(* Mutant: the schemas of a property are joined, not conjoined.            *)
PropertyTermOfAny(parts, name) ==
    LET schemas == {p.props[name] : p \in {q \in parts : name \in DOMAIN q.props}} IN
      IF schemas = {} THEN None ELSE Conjunction({UNION schemas})

PropertyTerm(parts, name) ==
    LET schemas == {p.props[name] : p \in {q \in parts : name \in DOMAIN q.props}} IN
      IF schemas = {} THEN None ELSE Conjunction(schemas)

ValuesShape(s) ==
    IF ~AllIn(s, ValuesKeywords) THEN None
    ELSE [required |-> UNION {p.required : p \in AndParts(s)},
          objects |-> \A p \in AndParts(s) : AcceptsObjects(p),
          others |-> \A p \in AndParts(s) : AcceptsOthers(p),
          names |-> UNION {DOMAIN p.props : p \in AndParts(s)}]

ValueTerm(s, name) == PropertyTerm(AndParts(s), name)

-----------------------------------------------------------------------------
(* Keys and values (ObjectKeyValueConstraint).                             *)
KeyValues(s) == Keywords(s) \subseteq KeyValueKeywords

AdditionalTerm(s) == IF s.additional = None THEN {} ELSE Conjunction({s.additional})
MatchesPattern(s, name) == \E p \in DOMAIN s.patterns : name \in p

AllowsKey(s, name) ==
    /\ s.names # None => name \in s.names
    /\ name \in DOMAIN s.props \/ MatchesPattern(s, name) \/ ~IsFalse(AdditionalTerm(s))

KeyTerm(s, name) ==
    IF ~AllowsKey(s, name) THEN {FalseValue} ELSE Conjunction(SchemasFor(s, name))

ConstrainsKeyValues(s) ==
    \/ ConstrainsValues(s)
    \/ \E p \in DOMAIN s.patterns : s.patterns[p] # TrueValue
    \/ ~IsTrue(AdditionalTerm(s))

UnrestrictedKeys(s) ==
    /\ Keywords(s) \subseteq {"additionalProperties", "maxProperties", "minProperties"}
    /\ IsTrue(AdditionalTerm(s))

-----------------------------------------------------------------------------
(* Names (ObjectPropertyNamesConstraint).                                  *)
LocalKeyspace(s) ==
    (IF s.names = None THEN Names ELSE s.names)
    \cap (IF s.additional = FalseValue THEN ClosedNames(s) ELSE Names)

NamesShape(s) ==
    IF ~AllIn(s, NamesKeywords)
       \/ \E p \in AndParts(s) : p.additional \notin {None, TrueValue, FalseValue}
    THEN None
    ELSE [keyspace |-> {n \in Names : \A p \in AndParts(s) : n \in LocalKeyspace(p)},
          required |-> UNION {p.required : p \in AndParts(s)},
          objects |-> \A p \in AndParts(s) : AcceptsObjects(p),
          others |-> \A p \in AndParts(s) : AcceptsOthers(p)]

NamesInhabited(shape) == shape.objects /\ shape.required \subseteq shape.keyspace

(* object_property_names_schema_has_value_constraints.                     *)
NamesWithValues(s) ==
    \E p \in AndParts(s) :
      \/ ConstrainsValues(p)
      \/ \E t \in DOMAIN p.patterns : p.patterns[t] # TrueValue
      \/ p.additional \notin {None, TrueValue, FalseValue}

-----------------------------------------------------------------------------
(* Closed objects (ObjectClosedPropertiesConstraint).  The keyspace is     *)
(* finite when it is the declared names alone.                             *)
LocallyClosed(s) ==
    IF ~AcceptsObjects(s)
    THEN [allowed |-> {}, finite |-> TRUE, keyspace |-> {}, required |-> {},
          objects |-> FALSE, others |-> AcceptsOthers(s)]
    ELSE LET finite == s.additional = FalseValue /\ DOMAIN s.patterns = {} IN
         [allowed |-> DOMAIN s.props, finite |-> finite,
          keyspace |-> IF s.additional = FalseValue THEN ClosedNames(s) ELSE Names,
          required |-> s.required, objects |-> TRUE, others |-> AcceptsOthers(s)]

KeyspaceAccepts(shape, name) == name \in IF shape.finite THEN shape.allowed ELSE shape.keyspace

MeetClosed(a, b) ==
    [allowed |-> {n \in a.allowed \cup b.allowed : KeyspaceAccepts(a, n) /\ KeyspaceAccepts(b, n)},
     finite |-> a.finite \/ b.finite, keyspace |-> a.keyspace \cap b.keyspace,
     required |-> a.required \cup b.required,
     objects |-> a.objects /\ b.objects, others |-> a.others /\ b.others]

ClosedShape(s) ==
    IF ~AllIn(s, ClosedKeywords)
       \/ \E p \in AndParts(s) : p.additional \notin {None, TrueValue, FalseValue}
    THEN None
    ELSE FoldLeft(MeetClosed, LocallyClosed(s), [k \in DOMAIN s.allOf |-> LocallyClosed(s.allOf[k])])

ClosedInhabited(shape) ==
    shape.objects /\ \A name \in shape.required : KeyspaceAccepts(shape, name)

KeyspaceSatisfies(a, b) ==
    /\ b.required \subseteq a.required
    /\ IF a.finite THEN \A name \in a.allowed : KeyspaceAccepts(b, name)
       ELSE ~b.finite /\ a.keyspace \subseteq b.keyspace

(* The term of a name: its properties, and every pattern that matches it.  *)
ClosedTerm(s, name) ==
    LET matching == UNION {{p.patterns[t] : t \in {u \in DOMAIN p.patterns : name \in u}}
                             : p \in AndParts(s)}
        property == PropertyTerm(AndParts(s), name)
    IN  IF property = None /\ matching = {} THEN None
        ELSE (IF property = None THEN {} ELSE property) \cup Conjunction(matching)
=============================================================================

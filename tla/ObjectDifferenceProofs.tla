----------------------- MODULE ObjectDifferenceProofs ------------------------
(***************************************************************************)
(* Proofs about the rules on objects.  What the compiler derives of a      *)
(* schema is related to the values the schema accepts, one fact at a time: *)
(* counts, presence, values, keys, names and closed shapes; a branch at a  *)
(* time for facts folded from the schemas of an applicator.                *)
(*                                                                         *)
(* Then the converse, what is enough for a value to be accepted, and each  *)
(* rule in turn: its results prove nothing, or prove an inclusion, or ask  *)
(* about values whose inclusion suffices.  The invariant SoundInv carries  *)
(* the last over the steps that compare the values.                        *)
(***************************************************************************)
EXTENDS ObjectDifference, CommonLemmas

(* The number of properties of an object; and the values that the keywords *)
(* of a schema accept.                                                     *)
SizeOf == [v \in Instances |-> IF v.object THEN Cardinality(DOMAIN v.values) ELSE None]
AcceptedLocally(b) == {v \in Instances : HoldsLocally(b, v)}
Accepted(s) == {v \in Instances : Holds(s, v)}

(* An object gives values to finitely many names.                          *)
LEMMA ValueFacts ==
    /\ \A v \in Instances :
         /\ v.object \in BOOLEAN
         /\ ~v.object => v = NotAnObject /\ SizeOf[v] = None
         /\ v.object => /\ v = ObjectOf(v.values)
                        /\ DOMAIN v.values \in SUBSET Names /\ IsFiniteSet(DOMAIN v.values)
                        /\ v.values \in [DOMAIN v.values -> Values]
                        /\ Cardinality(DOMAIN v.values) \in Nat
                        /\ SizeOf[v] = Cardinality(DOMAIN v.values) /\ SizeOf[v] # None
    /\ SizeOf \in Sizes(Instances)
  <1>1. ASSUME NEW v \in Instances
        PROVE  /\ v.object \in BOOLEAN
               /\ ~v.object => v = NotAnObject
               /\ v.object => /\ v = ObjectOf(v.values)
                              /\ DOMAIN v.values \in SUBSET Names /\ IsFiniteSet(DOMAIN v.values)
                              /\ v.values \in [DOMAIN v.values -> Values]
    <2>1. CASE v = NotAnObject
      BY <2>1 DEF NotAnObject
    <2>2. CASE v # NotAnObject
      <3>1. PICK names \in {n \in SUBSET Names : IsFiniteSet(n)} :
               v \in {ObjectOf(values) : values \in [names -> Values]}
        BY <2>2 DEF Instances
      <3>2. PICK values \in [names -> Values] : v = ObjectOf(values)
        BY <3>1
      <3>3. v.object = TRUE /\ v.values = values /\ DOMAIN values = names
        BY <3>2 DEF ObjectOf
      <3> QED BY <3>1, <3>2, <3>3
    <2> QED BY <2>1, <2>2
  <1>2. ASSUME NEW v \in Instances
        PROVE  /\ ~v.object => SizeOf[v] = None
               /\ v.object => /\ Cardinality(DOMAIN v.values) \in Nat
                              /\ SizeOf[v] = Cardinality(DOMAIN v.values) /\ SizeOf[v] # None
    <2>1. SizeOf[v] = IF v.object THEN Cardinality(DOMAIN v.values) ELSE None
      BY DEF SizeOf
    <2>2. v.object => Cardinality(DOMAIN v.values) \in Nat
      BY <1>1, FS_CardinalityType
    <2> QED BY <2>1, <2>2, NoneAssumption
  <1>3. SizeOf \in Sizes(Instances)
    <2>1. SizeOf = [v \in Instances |-> SizeOf[v]]
      BY DEF SizeOf
    <2>2. \A v \in Instances : SizeOf[v] \in Nat \cup {None}
      <3>1. ASSUME NEW v \in Instances PROVE SizeOf[v] \in Nat \cup {None}
        <4>1. CASE v.object
          BY <4>1, <1>2
        <4>2. CASE ~v.object
          BY <4>2, <1>2
        <4> QED BY <4>1, <4>2
      <3> QED BY <3>1
    <2> HIDE DEF SizeOf
    <2> QED BY <2>1, <2>2 DEF Sizes
  <1> QED BY <1>1, <1>2, <1>3

(* Which keywords a schema has.                                            *)
LEMMA KeywordFacts ==
    ASSUME NEW s
    PROVE  /\ "minProperties" \in Keywords(s) <=> s.min # None
           /\ "maxProperties" \in Keywords(s) <=> s.max # None
           /\ "required" \in Keywords(s) <=> s.required # {}
           /\ "properties" \in Keywords(s) <=> DOMAIN s.props # {}
           /\ "patternProperties" \in Keywords(s) <=> DOMAIN s.patterns # {}
           /\ "additionalProperties" \in Keywords(s) <=> s.additional # None
           /\ "propertyNames" \in Keywords(s) <=> s.names # None
           /\ "dependentRequired" \in Keywords(s) <=> DOMAIN s.needs # {}
           /\ "dependentSchemas" \in Keywords(s) <=> DOMAIN s.depends # {}
           /\ "allOf" \in Keywords(s) <=> s.allOf # <<>>
           /\ "anyOf" \in Keywords(s) <=> s.anyOf # <<>>
           /\ "oneOf" \in Keywords(s) <=> s.oneOf # <<>>
           /\ "not" \in Keywords(s) <=> s.negated # <<>>
  <1> DEFINE uses == [minProperties |-> s.min # None, maxProperties |-> s.max # None,
                 required |-> s.required # {}, properties |-> DOMAIN s.props # {},
                 patternProperties |-> DOMAIN s.patterns # {},
                 additionalProperties |-> s.additional # None,
                 propertyNames |-> s.names # None,
                 dependentRequired |-> DOMAIN s.needs # {},
                 dependentSchemas |-> DOMAIN s.depends # {},
                 allOf |-> s.allOf # <<>>, anyOf |-> s.anyOf # <<>>,
                 oneOf |-> s.oneOf # <<>>, not |-> s.negated # <<>>]
  <1>1. Keywords(s) = {k \in DOMAIN uses : uses[k]}
    BY DEF Keywords
  <1>2. DOMAIN uses = {"minProperties", "maxProperties", "required", "properties", "patternProperties",
           "additionalProperties", "propertyNames", "dependentRequired", "dependentSchemas",
           "allOf", "anyOf", "oneOf", "not"}
    OBVIOUS
  <1>3. /\ uses.minProperties <=> s.min # None
        /\ uses.maxProperties <=> s.max # None
        /\ uses.required <=> s.required # {}
        /\ uses.properties <=> DOMAIN s.props # {}
        /\ uses.patternProperties <=> DOMAIN s.patterns # {}
        /\ uses.additionalProperties <=> s.additional # None
        /\ uses.propertyNames <=> s.names # None
    OBVIOUS
  <1>4. /\ uses.dependentRequired <=> DOMAIN s.needs # {}
        /\ uses.dependentSchemas <=> DOMAIN s.depends # {}
        /\ uses.allOf <=> s.allOf # <<>>
        /\ uses.anyOf <=> s.anyOf # <<>>
        /\ uses.oneOf <=> s.oneOf # <<>>
        /\ uses["not"] <=> s.negated # <<>>
    OBVIOUS
  <1> HIDE DEF uses
  <1> QED BY <1>1, <1>2, <1>3, <1>4

-----------------------------------------------------------------------------
(* The names an object may have, where nothing else is allowed.            *)
LEMMA ClosedObject ==
    ASSUME NEW b, b.additional = FalseValue, NEW v \in Instances, v.object, HoldsLocally(b, v)
    PROVE  \A n \in DOMAIN v.values : n \in DOMAIN b.props \/ \E p \in DOMAIN b.patterns : n \in p
  <1>1. b.additional # None
    BY NoTermAssumption DEF FalseValue
  <1>2. SUFFICES ASSUME NEW n \in DOMAIN v.values, n \notin DOMAIN b.props,
                        {p \in DOMAIN b.patterns : n \in p} = {}
                 PROVE  FALSE
    OBVIOUS
  <1>3. FalseValue \in SchemasFor(b, n)
    BY <1>1, <1>2 DEF SchemasFor
  <1>4. v.values[n] \in FalseValue
    BY <1>2, <1>3 DEF HoldsLocally
  <1> QED BY <1>4 DEF FalseValue

(* The counts of the keywords that count: at least, and at most.           *)
LowOf(b) == Larger(LeastProperties(b), Cardinality(b.required))
HighOf(b) ==
    IF b.additional = FalseValue /\ DOMAIN b.patterns = {}
    THEN LowerBound(b.max, Cardinality(DOMAIN b.props)) ELSE b.max
CountsOnly(b) == Keywords(b) \subseteq {"maxProperties", "minProperties", "allOf", "anyOf", "not"}

(* What the counts are of.                                                 *)
LEMMA CountTypes ==
    ASSUME NEW b, HasKeywords(b)
    PROVE  /\ LeastProperties(b) \in Nat /\ (b.max # None => b.max \in Nat)
           /\ (b.min # None => b.min \in Nat)
           /\ Cardinality(b.required) \in Nat /\ Cardinality(DOMAIN b.props) \in Nat
           /\ IsFiniteSet(b.required) /\ IsFiniteSet(DOMAIN b.props)
           /\ LowOf(b) \in Nat /\ HighOf(b) \in Nat \cup {None}
           /\ Interval(LowOf(b), HighOf(b)) \in Intervals
  <1>1. b.min \in Nat \cup {None} /\ b.max \in Nat \cup {None}
    BY DEF HasKeywords
  <1>2. IsFiniteSet(b.required) /\ IsFiniteSet(DOMAIN b.props)
    BY DEF HasKeywords
  <1>3. Cardinality(b.required) \in Nat /\ Cardinality(DOMAIN b.props) \in Nat
    BY <1>2, FS_CardinalityType
  <1>4. LeastProperties(b) \in Nat
    BY <1>1 DEF LeastProperties
  <1>5. LowOf(b) \in Nat
    BY <1>3, <1>4 DEF LowOf, Larger
  <1>6. HighOf(b) \in Nat \cup {None}
    <2> DEFINE c == Cardinality(DOMAIN b.props)
    <2>1. LowerBound(b.max, c) \in Nat \cup {None}
      <3>1. c \in Nat
        BY <1>3
      <3> HIDE DEF c
      <3> QED BY <1>1, <3>1 DEF LowerBound
    <2> QED BY <1>1, <2>1 DEF HighOf
  <1>7. Interval(LowOf(b), HighOf(b)) \in Intervals
    <2> DEFINE l == LowOf(b)
               h == HighOf(b)
    <2>1. l \in Nat /\ h \in Int \cup {None}
      BY <1>5, <1>6
    <2> HIDE DEF l, h
    <2>2. Interval(l, h) \in Intervals
      BY <2>1 DEF Interval, Intervals
    <2> QED BY <2>2 DEF l, h
  <1> QED BY <1>1, <1>2, <1>3, <1>4, <1>5, <1>6, <1>7

(* An object a schema's own keywords accept has a number of properties in  *)
(* their interval.                                                         *)
LEMMA CountWithin ==
    ASSUME NEW b, HasKeywords(b), NEW v \in Instances, v.object, HoldsLocally(b, v)
    PROVE  InInterval(Interval(LowOf(b), HighOf(b)), Cardinality(DOMAIN v.values))
  <1> DEFINE present == DOMAIN v.values
             n == Cardinality(present)
             r == Cardinality(b.required)
             d == Cardinality(DOMAIN b.props)
             closed == b.additional = FalseValue /\ DOMAIN b.patterns = {}
  <1>1. present \in SUBSET Names /\ IsFiniteSet(present) /\ n \in Nat
    BY ValueFacts
  <1>2. /\ (b.min # None => n >= b.min) /\ (b.max # None => n <= b.max)
        /\ b.required \subseteq present
    BY DEF HoldsLocally
  <1>3. /\ LeastProperties(b) \in Nat /\ (b.max # None => b.max \in Nat)
        /\ (b.min # None => b.min \in Nat) /\ r \in Nat /\ d \in Nat
        /\ IsFiniteSet(DOMAIN b.props)
    BY CountTypes
  <1>4. r <= n
    BY <1>1, <1>2, FS_Subset
  <1>5. closed => n <= d
    <2>1. SUFFICES ASSUME closed PROVE n <= d
      OBVIOUS
    <2>2. present \in SUBSET DOMAIN b.props
      BY <2>1, ClosedObject
    <2> QED BY <1>3, <2>2, FS_Subset
  <1>6. LeastProperties(b) <= n
    BY <1>1, <1>2, <1>3 DEF LeastProperties
  <1>7. LowOf(b) <= n
    <2>1. LowOf(b) = Larger(LeastProperties(b), r)
      BY DEF LowOf
    <2> DEFINE l == LeastProperties(b)
    <2> HIDE DEF r, n, l
    <2> QED BY <1>1, <1>3, <1>4, <1>6, <2>1 DEF Larger, l
  <1>8. HighOf(b) = None \/ n <= HighOf(b)
    <2>1. HighOf(b) = IF closed THEN LowerBound(b.max, d) ELSE b.max
      BY DEF HighOf
    <2>2. CASE closed
      <3>1. n <= d
        BY <1>5, <2>2
      <3>2. HighOf(b) = LowerBound(b.max, d)
        BY <2>1, <2>2
      <3> HIDE DEF n, d, closed
      <3>3. CASE b.max = None
        BY <3>1, <3>2, <3>3 DEF LowerBound
      <3>4. CASE b.max # None
        <4>1. LowerBound(b.max, d) \in {b.max, d}
          BY <3>4 DEF LowerBound
        <4> QED BY <3>1, <3>2, <3>4, <4>1, <1>2
      <3> QED BY <3>3, <3>4
    <2>3. CASE ~closed
      BY <1>2, <2>1, <2>3
    <2> QED BY <2>2, <2>3
  <1> HIDE DEF n
  <1>9. InInterval(Interval(LowOf(b), HighOf(b)), n)
    BY <1>7, <1>8 DEF InInterval, Interval, UpTo
  <1> QED BY <1>9 DEF n

(* And where only counts are asked for, that is all.                       *)
LEMMA CountsSuffice ==
    ASSUME NEW b, HasKeywords(b), "object" \in b.types, CountsOnly(b), NEW v \in Instances, v.object,
           InInterval(Interval(LowOf(b), HighOf(b)), Cardinality(DOMAIN v.values))
    PROVE  HoldsLocally(b, v)
  <1> DEFINE n == Cardinality(DOMAIN v.values)
  <1>1. n \in Nat /\ DOMAIN v.values \in SUBSET Names
    BY ValueFacts
  <1>2. /\ b.required = {} /\ DOMAIN b.props = {} /\ DOMAIN b.patterns = {}
        /\ b.additional = None /\ b.names = None /\ DOMAIN b.needs = {}
    <2> DEFINE S == {"maxProperties", "minProperties", "allOf", "anyOf", "not"}
    <2>1. /\ "required" \notin S /\ "properties" \notin S /\ "patternProperties" \notin S
          /\ "additionalProperties" \notin S /\ "propertyNames" \notin S /\ "dependentRequired" \notin S
      OBVIOUS
    <2>2. Keywords(b) \subseteq S
      BY DEF CountsOnly
    <2> HIDE DEF S
    <2> QED BY <2>1, <2>2, KeywordFacts
  <1>3. \A name : SchemasFor(b, name) = {}
    BY <1>2 DEF SchemasFor
  <1>4. LowOf(b) <= n /\ (HighOf(b) = None \/ n <= HighOf(b))
    <2> HIDE DEF n
    <2> QED BY DEF InInterval, Interval, UpTo, n
  <1>5. b.min # None => n >= b.min
    <2>1. LowOf(b) = Larger(LeastProperties(b), Cardinality(b.required))
      BY DEF LowOf
    <2>2. LeastProperties(b) \in Nat /\ Cardinality(b.required) \in Nat
      BY CountTypes
    <2> DEFINE l == LeastProperties(b)
               r == Cardinality(b.required)
    <2>3. l <= LowOf(b) /\ LowOf(b) \in Nat
      <3> HIDE DEF l, r
      <3> QED BY <2>1, <2>2 DEF Larger, l, r
    <2>4. b.min # None => l = b.min
      BY DEF LeastProperties
    <2> HIDE DEF l, r, n
    <2> QED BY <1>1, <1>4, <2>2, <2>3, <2>4 DEF l
  <1>6. b.max # None => n <= b.max
    <2>1. b.additional # FalseValue
      BY <1>2, NoTermAssumption DEF FalseValue
    <2>2. HighOf(b) = b.max
      BY <2>1 DEF HighOf
    <2> QED BY <1>4, <2>2
  <1> HIDE DEF n
  <1> QED BY <1>1, <1>2, <1>3, <1>5, <1>6 DEF HoldsLocally, n

(* The counts of a schema's own keywords bound what they accept.           *)
LEMMA BranchCountsBound ==
    ASSUME NEW b, HasKeywords(b)
    PROVE  Bounds(BranchCounts(b), AcceptedLocally(b), Instances, SizeOf)
  <1> DEFINE o == "other" \in b.types
             i == Interval(LowOf(b), HighOf(b))
             X == AcceptedLocally(b)
  <1>1. LocalCounts(b) = IF "object" \notin b.types THEN Shape({}, o, TRUE)
                         ELSE Shape({i}, o, CountsOnly(b))
    BY DEF LocalCounts, AcceptsObjects, AcceptsOthers, LowOf, HighOf, CountsOnly
  <1>2. i \in Intervals
    BY CountTypes
  <1>3. \A v \in Instances : ~v.object => (v \in X <=> o)
    BY ValueFacts DEF AcceptedLocally, HoldsLocally, NotAnObject
  <1>4. \A v \in Instances : v.object /\ v \in X =>
          "object" \in b.types /\ InInterval(i, Cardinality(DOMAIN v.values))
    BY CountWithin DEF AcceptedLocally, HoldsLocally
  <1>5. \A v \in Instances :
          v.object /\ "object" \in b.types /\ CountsOnly(b) /\ InInterval(i, Cardinality(DOMAIN v.values)) => v \in X
    BY CountsSuffice DEF AcceptedLocally
  <1> HIDE DEF i, X, o
  <1>6. \A v \in Instances : /\ ~v.object => SizeOf[v] = None
                             /\ v.object => /\ SizeOf[v] = Cardinality(DOMAIN v.values)
                                            /\ SizeOf[v] \in Nat /\ SizeOf[v] # None
                             /\ v.object \in BOOLEAN
    BY ValueFacts
  <1>7. ASSUME NEW S \in SUBSET Intervals, IsFiniteSet(S), NEW e \in BOOLEAN,
               \A v \in Instances : v.object /\ v \in X => \E j \in S : InInterval(j, SizeOf[v]),
               \A v \in Instances : v.object /\ e /\ (\E j \in S : InInterval(j, SizeOf[v])) => v \in X
        PROVE  Bounds(Shape(S, o, e), X, Instances, SizeOf)
    <2> DEFINE a == Shape(S, o, e)
    <2>0. o \in BOOLEAN
      BY DEF o
    <2>1. /\ a \in Shapes /\ a # None /\ Apart(a.intervals)
          /\ a.exact <=> e
          /\ \A c \in Nat \cup {None} :
               Admits(a, c) <=> IF c = None THEN o ELSE \E j \in S : InInterval(j, c)
      BY <1>7, <2>0, ShapeFacts
    <2> HIDE DEF a
    <2>2. ASSUME NEW v \in Instances
          PROVE  /\ v \in X => Admits(a, SizeOf[v])
                 /\ a.exact /\ Admits(a, SizeOf[v]) => v \in X
      <3>1. CASE v.object
        <4>1. SizeOf[v] \in Nat /\ SizeOf[v] # None
          BY <1>6, <3>1
        <4>2. Admits(a, SizeOf[v]) <=> \E j \in S : InInterval(j, SizeOf[v])
          BY <2>1, <4>1
        <4> QED BY <1>7, <2>1, <3>1, <4>2
      <3>2. CASE ~v.object
        <4>1. SizeOf[v] = None
          BY <1>6, <3>2
        <4>2. Admits(a, SizeOf[v]) <=> o
          BY <2>1, <4>1
        <4> QED BY <1>3, <3>2, <4>2
      <3> QED BY <3>1, <3>2
    <2> QED BY <2>1, <2>2 DEF Bounds, a
  <1>8. Bounds(LocalCounts(b), X, Instances, SizeOf)
    <2>1. CASE "object" \notin b.types
      <3>1. IsFiniteSet({}) /\ {} \in SUBSET Intervals /\ TRUE \in BOOLEAN
        BY FS_EmptySet
      <3>2. \A v \in Instances : v.object => v \notin X
        BY <1>4, <2>1
      <3>3. Bounds(Shape({}, o, TRUE), X, Instances, SizeOf)
        BY <1>7, <3>1, <3>2
      <3> QED BY <1>1, <2>1, <3>3
    <2>2. CASE "object" \in b.types
      <3> DEFINE e == CountsOnly(b)
      <3>1. IsFiniteSet({i}) /\ {i} \in SUBSET Intervals
        BY <1>2, FS_Singleton
      <3>2. e \in BOOLEAN
        BY DEF CountsOnly
      <3>3. \A v \in Instances : v.object /\ v \in X => \E j \in {i} : InInterval(j, SizeOf[v])
        BY <1>4, <1>6
      <3>4. \A v \in Instances : v.object /\ e /\ (\E j \in {i} : InInterval(j, SizeOf[v])) => v \in X
        BY <1>5, <1>6, <2>2
      <3> HIDE DEF e
      <3>5. Bounds(Shape({i}, o, e), X, Instances, SizeOf)
        BY <1>7, <3>1, <3>2, <3>3, <3>4
      <3> QED BY <1>1, <2>2, <3>5 DEF e
    <2> QED BY <2>1, <2>2
  <1>9. CASE BranchCounts(b) = None
    BY <1>9 DEF Bounds
  <1>10. CASE BranchCounts(b) # None
    <2>1. BranchCounts(b) = LocalCounts(b)
      BY <1>10 DEF BranchCounts
    <2> QED BY <1>8, <2>1 DEF X
  <1> QED BY <1>9, <1>10

-----------------------------------------------------------------------------
(* Branches are a sequence of schemas without branches of their own.       *)
LEMMA BranchFacts ==
    ASSUME NEW q, AreBranches(q)
    PROVE  /\ Len(q) \in Nat /\ DOMAIN q = 1 .. Len(q) /\ q = [k \in 1 .. Len(q) |-> q[k]]
           /\ ToSet(q) = {q[k] : k \in 1 .. Len(q)} /\ IsFiniteSet(ToSet(q))
           /\ \A k \in 1 .. Len(q) : IsBranch(q[k]) /\ HasKeywords(q[k])
  <1> DEFINE S == ToSet(q)
  <1>1. S = {q[k] : k \in DOMAIN q}
    BY DEF ToSet
  <1>2. q \in Seq(S) /\ \A b \in S : IsBranch(b)
    BY DEF AreBranches
  <1> HIDE DEF S
  <1>3. Len(q) \in Nat /\ DOMAIN q = 1 .. Len(q) /\ q = [k \in 1 .. Len(q) |-> q[k]]
    BY <1>2
  <1>4. \A k \in 1 .. Len(q) : q[k] \in S
    BY <1>1, <1>3
  <1>5. \A k \in 1 .. Len(q) : IsBranch(q[k]) /\ HasKeywords(q[k])
    BY <1>2, <1>4 DEF IsBranch
  <1>6. IsFiniteSet({q[k] : k \in 1 .. Len(q)})
    BY <1>3, FiniteRange
  <1> QED BY <1>1, <1>3, <1>5, <1>6 DEF S

(* The keywords that name no branch; and what a schema means, branch by    *)
(* branch.                                                                 *)
OneOfHolds(s, v) == s.oneOf # <<>> => Cardinality({k \in DOMAIN s.oneOf : HoldsLocally(s.oneOf[k], v)}) = 1
DependentsHold(s, v) ==
    v.object => \A trigger \in DOMAIN s.depends \cap DOMAIN v.values : HoldsLocally(s.depends[trigger], v)

(* What it is to accept a value, applicator by applicator.                 *)
LEMMA HoldsFacts ==
    ASSUME NEW s, NEW v
    PROVE  Holds(s, v) <=>
             /\ HoldsLocally(s, v)
             /\ \A k \in DOMAIN s.allOf : HoldsLocally(s.allOf[k], v)
             /\ s.anyOf # <<>> => \E k \in DOMAIN s.anyOf : HoldsLocally(s.anyOf[k], v)
             /\ OneOfHolds(s, v)
             /\ \A k \in DOMAIN s.negated : ~HoldsLocally(s.negated[k], v)
             /\ DependentsHold(s, v)
  <1> DEFINE Of(branches) == {k \in DOMAIN branches : HoldsLocally(branches[k], v)}
  <1>1. Holds(s, v) <=> /\ HoldsLocally(s, v)
                        /\ Of(s.allOf) = DOMAIN s.allOf
                        /\ s.anyOf # <<>> => Of(s.anyOf) # {}
                        /\ s.oneOf # <<>> => Cardinality(Of(s.oneOf)) = 1
                        /\ Of(s.negated) = {}
                        /\ DependentsHold(s, v)
    BY DEF Holds, DependentsHold
  <1>2. Of(s.allOf) = DOMAIN s.allOf <=> \A k \in DOMAIN s.allOf : HoldsLocally(s.allOf[k], v)
    OBVIOUS
  <1>3. Of(s.anyOf) # {} <=> \E k \in DOMAIN s.anyOf : HoldsLocally(s.anyOf[k], v)
    OBVIOUS
  <1>4. Of(s.negated) = {} <=> \A k \in DOMAIN s.negated : ~HoldsLocally(s.negated[k], v)
    OBVIOUS
  <1>5. OneOfHolds(s, v) <=> (s.oneOf # <<>> => Cardinality(Of(s.oneOf)) = 1)
    BY DEF OneOfHolds
  <1> HIDE DEF Of
  <1> QED BY <1>1, <1>2, <1>3, <1>4, <1>5

(* The count shape of a schema bounds what the schema accepts.             *)
LEMMA CountShapeBounds ==
    ASSUME NEW s, IsSchema(s)
    PROVE  Bounds(CountShape(s), Accepted(s), Instances, SizeOf)
  <1> DEFINE V == Instances
             Of(branches) == [k \in DOMAIN branches |-> BranchCounts(branches[k])]
             Sets(branches) == [k \in DOMAIN branches |-> AcceptedLocally(branches[k])]
             not == [k \in DOMAIN s.negated |-> Complement(BranchCounts(s.negated[k]))]
             Outside == [k \in DOMAIN s.negated |-> V \ AcceptedLocally(s.negated[k])]
             own == {v \in V : HoldsLocally(s, v) /\ OneOfHolds(s, v) /\ DependentsHold(s, v)}
             all == FoldLeft(MeetShapes, BranchCounts(s), Of(s.allOf))
             any == FoldLeft(JoinShapes, NothingShape, Of(s.anyOf))
             both == IF s.anyOf = <<>> THEN all ELSE MeetShapes(all, any)
             allSet == {v \in own : \A k \in 1 .. Len(s.allOf) : v \in Sets(s.allOf)[k]}
             anySet == {} \cup UNION {Sets(s.anyOf)[k] : k \in 1 .. Len(s.anyOf)}
             bothSet == IF s.anyOf = <<>> THEN allSet ELSE allSet \cap anySet
             set == {v \in bothSet : \A k \in 1 .. Len(s.negated) : v \in Outside[k]}
  <1>1. SizeOf \in Sizes(V)
    BY ValueFacts
  <1>2. AreBranches(s.allOf) /\ AreBranches(s.anyOf) /\ AreBranches(s.negated) /\ HasKeywords(s)
    BY DEF IsSchema
  <1>3. ASSUME NEW q, AreBranches(q)
        PROVE  /\ Len(q) \in Nat /\ DOMAIN q = 1 .. Len(q)
               /\ Of(q) = [k \in 1 .. Len(q) |-> Of(q)[k]]
               /\ \A k \in 1 .. Len(q) : Bounds(Of(q)[k], Sets(q)[k], V, SizeOf)
    <2>1. Len(q) \in Nat /\ DOMAIN q = 1 .. Len(q) /\ \A k \in 1 .. Len(q) : HasKeywords(q[k])
      BY <1>3, BranchFacts
    <2>2. ASSUME NEW k \in 1 .. Len(q)
          PROVE  Bounds(Of(q)[k], Sets(q)[k], V, SizeOf)
      <3>1. Bounds(BranchCounts(q[k]), AcceptedLocally(q[k]), V, SizeOf)
        BY <2>1, BranchCountsBound
      <3> QED BY <2>1, <3>1
    <2>3. Of(q) = [k \in 1 .. Len(q) |-> Of(q)[k]]
      BY <2>1
    <2> QED BY <2>1, <2>2, <2>3
  <1>4. Bounds(BranchCounts(s), own, V, SizeOf)
    <2>1. CASE BranchCounts(s) = None
      BY <2>1 DEF Bounds
    <2>2. CASE BranchCounts(s) # None
      <3>1. Keywords(s) \subseteq CountKeywords
        BY <2>2 DEF BranchCounts
      <3>2. "oneOf" \notin CountKeywords /\ "dependentSchemas" \notin CountKeywords
        BY DEF CountKeywords
      <3>3. s.oneOf = <<>> /\ DOMAIN s.depends = {}
        <4>1. "oneOf" \notin Keywords(s) /\ "dependentSchemas" \notin Keywords(s)
          BY <3>1, <3>2
        <4> QED BY <4>1, KeywordFacts
      <3>4. own = AcceptedLocally(s)
        BY <3>3 DEF AcceptedLocally, OneOfHolds, DependentsHold
      <3> HIDE DEF own
      <3> QED BY <1>2, <3>4, BranchCountsBound
    <2> QED BY <2>1, <2>2
  <1>5. Bounds(all, allSet, V, SizeOf)
    <2> DEFINE f == Of(s.allOf)
               Y == Sets(s.allOf)
               N == Len(s.allOf)
    <2>1. /\ N \in Nat /\ f = [k \in 1 .. N |-> f[k]]
          /\ \A k \in 1 .. N : Bounds(f[k], Y[k], V, SizeOf)
      BY <1>2, <1>3
    <2> HIDE DEF f, Y, N, own
    <2>2. Bounds(FoldLeft(MeetShapes, BranchCounts(s), f), {v \in own : \A k \in 1 .. N : v \in Y[k]}, V, SizeOf)
      BY <1>1, <1>4, <2>1, MeetAllBounds
    <2> QED BY <2>2 DEF f, Y, N
  <1>6. Bounds(any, anySet, V, SizeOf)
    <2> DEFINE f == Of(s.anyOf)
               Y == Sets(s.anyOf)
               N == Len(s.anyOf)
    <2>1. /\ N \in Nat /\ f = [k \in 1 .. N |-> f[k]]
          /\ \A k \in 1 .. N : Bounds(f[k], Y[k], V, SizeOf)
      BY <1>2, <1>3
    <2>2. Bounds(NothingShape, {}, V, SizeOf)
      <3> DEFINE a == Shape({}, FALSE, TRUE)
      <3>1. IsFiniteSet({}) /\ {} \in SUBSET Intervals
        BY FS_EmptySet
      <3>2. /\ a \in Shapes /\ Apart(a.intervals)
            /\ \A c \in Nat \cup {None} :
                 Admits(a, c) <=> IF c = None THEN FALSE ELSE \E i \in {} : InInterval(i, c)
        BY <3>1, ShapeFacts
      <3>3. \A v \in V : SizeOf[v] \in Nat \cup {None}
        BY <1>1 DEF Sizes
      <3> HIDE DEF a
      <3>4. Bounds(a, {}, V, SizeOf)
        BY <3>2, <3>3 DEF Bounds
      <3> QED BY <3>4 DEF a, NothingShape
    <2> HIDE DEF f, Y, N
    <2>3. Bounds(FoldLeft(JoinShapes, NothingShape, f), {} \cup UNION {Y[k] : k \in 1 .. N}, V, SizeOf)
      BY <1>1, <2>1, <2>2, JoinAllBounds
    <2> QED BY <2>3 DEF f, Y, N
  <1>7. Bounds(both, bothSet, V, SizeOf)
    <2>1. CASE s.anyOf = <<>>
      BY <1>5, <2>1
    <2>2. CASE s.anyOf # <<>>
      <3> HIDE DEF all, any, allSet, anySet
      <3>1. Bounds(MeetShapes(all, any), allSet \cap anySet, V, SizeOf)
        BY <1>1, <1>5, <1>6, MeetBounds
      <3> QED BY <2>2, <3>1
    <2> QED BY <2>1, <2>2
  <1>8. Bounds(FoldLeft(MeetShapes, both, not), set, V, SizeOf)
    <2> DEFINE N == Len(s.negated)
    <2>1. N \in Nat /\ DOMAIN s.negated = 1 .. N
      BY <1>2, <1>3
    <2>2. ASSUME NEW k \in 1 .. N
          PROVE  Bounds(not[k], Outside[k], V, SizeOf)
      <3>1. Bounds(Of(s.negated)[k], Sets(s.negated)[k], V, SizeOf)
        BY <1>2, <1>3
      <3>2. Bounds(BranchCounts(s.negated[k]), AcceptedLocally(s.negated[k]), V, SizeOf)
        BY <2>1, <3>1
      <3>3. Bounds(Complement(BranchCounts(s.negated[k])), V \ AcceptedLocally(s.negated[k]), V, SizeOf)
        BY <1>1, <3>2, ComplementBounds
      <3> QED BY <2>1, <3>3
    <2>3. not = [k \in 1 .. N |-> not[k]]
      BY <2>1
    <2> HIDE DEF N, not, Outside, both, bothSet
    <2>4. Bounds(FoldLeft(MeetShapes, both, not), {v \in bothSet : \A k \in 1 .. N : v \in Outside[k]}, V, SizeOf)
      BY <1>1, <1>7, <2>1, <2>2, <2>3, MeetAllBounds
    <2> QED BY <2>4 DEF N
  <1>9. CountShape(s) = FoldLeft(MeetShapes, both, not)
    BY DEF CountShape
  <1>10. set = {v \in V : Holds(s, v)}
    <2>1. /\ DOMAIN s.allOf = 1 .. Len(s.allOf) /\ DOMAIN s.anyOf = 1 .. Len(s.anyOf)
          /\ DOMAIN s.negated = 1 .. Len(s.negated)
      BY <1>2, <1>3
    <2>2. allSet = {v \in own : \A k \in DOMAIN s.allOf : HoldsLocally(s.allOf[k], v)}
      <3>1. \A k \in DOMAIN s.allOf : \A v \in V : v \in Sets(s.allOf)[k] <=> HoldsLocally(s.allOf[k], v)
        BY DEF AcceptedLocally
      <3>2. own \subseteq V
        OBVIOUS
      <3> HIDE DEF own, Sets, V
      <3> QED BY <2>1, <3>1, <3>2
    <2>3. anySet = {v \in V : \E k \in DOMAIN s.anyOf : HoldsLocally(s.anyOf[k], v)}
      <3> DEFINE q == s.anyOf
                 Y == Sets(q)
      <3>1. \A k \in DOMAIN q : Y[k] = AcceptedLocally(q[k])
        OBVIOUS
      <3>2. anySet = UNION {Y[k] : k \in DOMAIN q}
        BY <2>1
      <3> HIDE DEF Y, anySet, q
      <3>3. \A v : v \in anySet <=> \E k \in DOMAIN q : v \in AcceptedLocally(q[k])
        BY <3>1, <3>2
      <3>4. \A b, v : v \in AcceptedLocally(b) <=> v \in V /\ HoldsLocally(b, v)
        BY DEF AcceptedLocally
      <3>5. anySet = {v \in V : \E k \in DOMAIN q : HoldsLocally(q[k], v)}
        <4> HIDE DEF V
        <4> QED BY <3>3, <3>4
      <3> QED BY <3>5 DEF q
    <2>4. \A k \in DOMAIN s.negated : \A v \in V : v \in Outside[k] <=> ~HoldsLocally(s.negated[k], v)
      BY DEF AcceptedLocally
    <2>5. \A v \in V : v \in own <=> HoldsLocally(s, v) /\ OneOfHolds(s, v) /\ DependentsHold(s, v)
      OBVIOUS
    <2>6. \A v \in V : v \in set <=> Holds(s, v)
      <3> TAKE v \in V
      <3>1. v \in allSet <=> v \in own /\ \A k \in DOMAIN s.allOf : HoldsLocally(s.allOf[k], v)
        BY <2>2
      <3>2. v \in anySet <=> \E k \in DOMAIN s.anyOf : HoldsLocally(s.anyOf[k], v)
        BY <2>3
      <3>3. v \in bothSet <=> v \in allSet /\ (s.anyOf # <<>> => v \in anySet)
        OBVIOUS
      <3>4. v \in set <=> v \in bothSet /\ \A k \in DOMAIN s.negated : ~HoldsLocally(s.negated[k], v)
        BY <2>1, <2>4
      <3> HIDE DEF allSet, anySet, bothSet, own, set
      <3> QED BY <2>5, <3>1, <3>2, <3>3, <3>4, HoldsFacts
    <2>7. set \subseteq V
      <3>1. bothSet \subseteq allSet /\ allSet \subseteq own /\ own \subseteq V
        OBVIOUS
      <3> QED BY <3>1
    <2> HIDE DEF set, V
    <2> QED BY <2>6, <2>7
  <1> HIDE DEF set
  <1>11. set = Accepted(s)
    BY <1>10 DEF Accepted
  <1> QED BY <1>8, <1>9, <1>11

-----------------------------------------------------------------------------
(* What a part's keywords say of the names present: no more than what they *)
(* say of the object, and no less where they do not restrict values.       *)
LEMMA LocalPresence ==
    ASSUME NEW b, HasKeywords(b), HasPresence(b), NEW v \in Instances
    PROVE  /\ HoldsLocally(b, v) => LocallyPresent(b, v.object, DOMAIN v.values)
           /\ ~ConstrainsValues(b) /\ LocallyPresent(b, v.object, DOMAIN v.values) => HoldsLocally(b, v)
  <1>1. CASE ~v.object
    BY <1>1 DEF HoldsLocally, LocallyPresent, AcceptsOthers
  <1>2. CASE v.object
    <2> DEFINE present == DOMAIN v.values
               n == Cardinality(present)
    <2>1. n \in Nat /\ \A m \in present : v.values[m] \in Values
      BY <1>2, ValueFacts
    <2>2. b.min \in Nat \cup {None}
      BY DEF HasKeywords
    <2>3. n >= LeastProperties(b) <=> (b.min # None => n >= b.min)
      <3> HIDE DEF n
      <3> QED BY <2>1, <2>2 DEF LeastProperties
    <2>4. DOMAIN b.patterns = {} /\ b.names = None /\ b.additional \in {None, FalseValue}
      <3>1. "patternProperties" \notin PresenceKeywords /\ "propertyNames" \notin PresenceKeywords
        BY DEF PresenceKeywords
      <3>2. Keywords(b) \subseteq PresenceKeywords /\ b.additional \in {None, FalseValue}
        BY DEF HasPresence
      <3>3. "patternProperties" \notin Keywords(b) /\ "propertyNames" \notin Keywords(b)
        BY <3>1, <3>2
      <3> QED BY <3>2, <3>3, KeywordFacts
    <2>5. HoldsLocally(b, v) <=>
            /\ "object" \in b.types
            /\ b.min # None => n >= b.min
            /\ b.max # None => n <= b.max
            /\ b.required \subseteq present
            /\ \A m \in present : \A i \in SchemasFor(b, m) : v.values[m] \in i
            /\ \A trigger \in DOMAIN b.needs \cap present : b.needs[trigger] \subseteq present
      BY <1>2, <2>4 DEF HoldsLocally
    <2>6. LocallyPresent(b, v.object, present) <=>
            /\ "object" \in b.types
            /\ b.required \subseteq present
            /\ b.additional = FalseValue => present \subseteq DOMAIN b.props
            /\ \A trigger \in DOMAIN b.needs \cap present : b.needs[trigger] \subseteq present
            /\ n >= LeastProperties(b)
            /\ b.max # None => n <= b.max
      BY <1>2 DEF LocallyPresent, AcceptsObjects
    <2>7. HoldsLocally(b, v) /\ b.additional = FalseValue => present \subseteq DOMAIN b.props
      BY <1>2, <2>4, ClosedObject
    <2>8. ASSUME ~ConstrainsValues(b), b.additional = FalseValue => present \subseteq DOMAIN b.props,
                 NEW m \in present, NEW i \in SchemasFor(b, m)
          PROVE  v.values[m] \in i
      <3>1. i \in {b.props[k] : k \in DOMAIN b.props \cap {m}}
        BY <2>4, <2>8 DEF SchemasFor
      <3>2. i = Values
        BY <2>8, <3>1 DEF ConstrainsValues, TrueValue
      <3> QED BY <2>1, <3>2
    <2> HIDE DEF n, present
    <2> QED BY <2>3, <2>5, <2>6, <2>7, <2>8 DEF present
  <1> QED BY <1>1, <1>2, ValueFacts

(* What a schema says of the names present, branch by branch.              *)
LEMMA PresentFacts ==
    ASSUME NEW s, NEW object, NEW present
    PROVE  LET Local(b) == LocallyPresent(b, object, present)
           IN  AcceptsPresent(s, object, present) <=>
                 /\ Local(s)
                 /\ \A k \in DOMAIN s.allOf : Local(s.allOf[k])
                 /\ s.anyOf # <<>> => \E k \in DOMAIN s.anyOf : Local(s.anyOf[k])
                 /\ s.oneOf # <<>> => Cardinality({k \in DOMAIN s.oneOf : Local(s.oneOf[k])}) = 1
                 /\ \A k \in DOMAIN s.negated : ~Local(s.negated[k])
                 /\ object => \A trigger \in DOMAIN s.depends \cap present : Local(s.depends[trigger])
  <1> DEFINE Local(b) == LocallyPresent(b, object, present)
             Of(branches) == {k \in DOMAIN branches : Local(branches[k])}
  <1>1. AcceptsPresent(s, object, present) <=>
                        /\ Local(s)
                        /\ Of(s.allOf) = DOMAIN s.allOf
                        /\ s.anyOf # <<>> => Of(s.anyOf) # {}
                        /\ s.oneOf # <<>> => Cardinality(Of(s.oneOf)) = 1
                        /\ Of(s.negated) = {}
                        /\ object => \A trigger \in DOMAIN s.depends \cap present : Local(s.depends[trigger])
    BY DEF AcceptsPresent
  <1>2. Of(s.allOf) = DOMAIN s.allOf <=> \A k \in DOMAIN s.allOf : Local(s.allOf[k])
    OBVIOUS
  <1>3. Of(s.anyOf) # {} <=> \E k \in DOMAIN s.anyOf : Local(s.anyOf[k])
    OBVIOUS
  <1>4. Of(s.negated) = {} <=> \A k \in DOMAIN s.negated : ~Local(s.negated[k])
    OBVIOUS
  <1> HIDE DEF Local
  <1>5. Of(s.oneOf) = {k \in DOMAIN s.oneOf : Local(s.oneOf[k])}
    OBVIOUS
  <1> HIDE DEF Of
  <1>6. AcceptsPresent(s, object, present) <=>
                        /\ Local(s)
                        /\ \A k \in DOMAIN s.allOf : Local(s.allOf[k])
                        /\ s.anyOf # <<>> => \E k \in DOMAIN s.anyOf : Local(s.anyOf[k])
                        /\ s.oneOf # <<>> => Cardinality({k \in DOMAIN s.oneOf : Local(s.oneOf[k])}) = 1
                        /\ \A k \in DOMAIN s.negated : ~Local(s.negated[k])
                        /\ object => \A trigger \in DOMAIN s.depends \cap present : Local(s.depends[trigger])
    BY <1>1, <1>2, <1>3, <1>4, <1>5
  <1> QED BY <1>6 DEF Local

(* The parts of a schema, each where it is.                                *)
LEMMA PartFacts ==
    ASSUME NEW s, IsSchema(s)
    PROVE  /\ s \in Parts(s) /\ HasKeywords(s)
           /\ \A q \in {s.allOf, s.anyOf, s.oneOf, s.negated} :
                \A k \in DOMAIN q : q[k] \in Parts(s) /\ IsBranch(q[k]) /\ HasKeywords(q[k])
           /\ \A k \in DOMAIN s.negated : s.negated[k] \in ToSet(s.negated)
           /\ \A trigger \in DOMAIN s.depends :
                /\ s.depends[trigger] \in Parts(s)
                /\ IsBranch(s.depends[trigger]) /\ HasKeywords(s.depends[trigger])
  <1>1. \A q : \A k \in DOMAIN q : q[k] \in ToSet(q)
    BY DEF ToSet
  <1>2. \A q \in {s.allOf, s.anyOf, s.oneOf, s.negated} : \A k \in DOMAIN q : q[k] \in Parts(s)
    BY <1>1 DEF Parts, Branches
  <1>3. \A q \in {s.allOf, s.anyOf, s.oneOf, s.negated} : AreBranches(q)
    BY DEF IsSchema
  <1>4. \A trigger \in DOMAIN s.depends : s.depends[trigger] \in Parts(s) /\ IsBranch(s.depends[trigger])
    BY DEF Parts, DependentBranches, IsSchema
  <1>5. \A q \in {s.allOf, s.anyOf, s.oneOf, s.negated} : \A k \in DOMAIN q : IsBranch(q[k])
    BY <1>1, <1>3 DEF AreBranches
  <1>6. \A b : IsBranch(b) => HasKeywords(b)
    BY DEF IsBranch
  <1>7. s \in Parts(s) /\ HasKeywords(s)
    BY DEF Parts, IsSchema
  <1> QED BY <1>1, <1>2, <1>4, <1>5, <1>6, <1>7

(* What the compiler knows of the names present bounds what the schema     *)
(* accepts, and is all it asks for where it does not restrict values.      *)
LEMMA PresenceHolds ==
    ASSUME NEW s, IsSchema(s), Presence(s), NEW v \in Instances
    PROVE  /\ ~NegatesValues(s) /\ s.oneOf = <<>> /\ Holds(s, v) => AcceptsPresent(s, v.object, DOMAIN v.values)
           /\ ~PresenceIgnoresValues(s) /\ AcceptsPresent(s, v.object, DOMAIN v.values) => Holds(s, v)
  <1> DEFINE present == DOMAIN v.values
             object == v.object
             Here(b) == LocallyPresent(b, object, present)
             True(b) == HoldsLocally(b, v)
  <1>1. \A b \in Parts(s) : HasKeywords(b) =>
            (True(b) => Here(b)) /\ (~ConstrainsValues(b) /\ Here(b) => True(b))
    BY LocalPresence DEF Presence
  <1>2. AcceptsPresent(s, object, present) <=>
                 /\ Here(s)
                 /\ \A k \in DOMAIN s.allOf : Here(s.allOf[k])
                 /\ s.anyOf # <<>> => \E k \in DOMAIN s.anyOf : Here(s.anyOf[k])
                 /\ s.oneOf # <<>> => Cardinality({k \in DOMAIN s.oneOf : Here(s.oneOf[k])}) = 1
                 /\ \A k \in DOMAIN s.negated : ~Here(s.negated[k])
                 /\ object => \A trigger \in DOMAIN s.depends \cap present : Here(s.depends[trigger])
    BY PresentFacts
  <1>3. Holds(s, v) <=>
             /\ True(s)
             /\ \A k \in DOMAIN s.allOf : True(s.allOf[k])
             /\ s.anyOf # <<>> => \E k \in DOMAIN s.anyOf : True(s.anyOf[k])
             /\ s.oneOf # <<>> => Cardinality({k \in DOMAIN s.oneOf : True(s.oneOf[k])}) = 1
             /\ \A k \in DOMAIN s.negated : ~True(s.negated[k])
             /\ object => \A trigger \in DOMAIN s.depends \cap present : True(s.depends[trigger])
    BY HoldsFacts DEF OneOfHolds, DependentsHold
  <1>4. /\ s \in Parts(s) /\ HasKeywords(s)
        /\ \A q \in {s.allOf, s.anyOf, s.oneOf, s.negated} :
                \A k \in DOMAIN q : q[k] \in Parts(s) /\ HasKeywords(q[k])
        /\ \A k \in DOMAIN s.negated : s.negated[k] \in ToSet(s.negated)
        /\ \A trigger \in DOMAIN s.depends : s.depends[trigger] \in Parts(s) /\ HasKeywords(s.depends[trigger])
    BY PartFacts
  <1> HIDE DEF Here, True, present, object
  <1>5. ASSUME ~NegatesValues(s), s.oneOf = <<>>, Holds(s, v)
        PROVE  AcceptsPresent(s, object, present)
    <2>1. \A k \in DOMAIN s.negated : ~ConstrainsValues(s.negated[k])
      BY <1>4, <1>5 DEF NegatesValues
    <2>2. Here(s) /\ \A k \in DOMAIN s.allOf : Here(s.allOf[k])
      BY <1>1, <1>3, <1>4, <1>5
    <2>3. s.anyOf # <<>> => \E k \in DOMAIN s.anyOf : Here(s.anyOf[k])
      BY <1>1, <1>3, <1>4, <1>5
    <2>4. \A k \in DOMAIN s.negated : ~Here(s.negated[k])
      BY <1>1, <1>3, <1>4, <1>5, <2>1
    <2>5. object => \A trigger \in DOMAIN s.depends \cap present : Here(s.depends[trigger])
      BY <1>1, <1>3, <1>4, <1>5
    <2> QED BY <1>2, <1>5, <2>2, <2>3, <2>4, <2>5
  <1>6. ASSUME ~PresenceIgnoresValues(s), AcceptsPresent(s, object, present)
        PROVE  Holds(s, v)
    <2>1. \A b \in Parts(s) : HasKeywords(b) => (True(b) <=> Here(b))
      BY <1>1, <1>6 DEF PresenceIgnoresValues
    <2>2. True(s) /\ \A k \in DOMAIN s.allOf : True(s.allOf[k])
      BY <1>2, <1>4, <1>6, <2>1
    <2>3. s.anyOf # <<>> => \E k \in DOMAIN s.anyOf : True(s.anyOf[k])
      BY <1>2, <1>4, <1>6, <2>1
    <2>4. \A k \in DOMAIN s.negated : ~True(s.negated[k])
      BY <1>2, <1>4, <1>6, <2>1
    <2>5. object => \A trigger \in DOMAIN s.depends \cap present : True(s.depends[trigger])
      BY <1>2, <1>4, <1>6, <2>1
    <2>6. {k \in DOMAIN s.oneOf : True(s.oneOf[k])} = {k \in DOMAIN s.oneOf : Here(s.oneOf[k])}
      BY <1>4, <2>1
    <2> QED BY <1>2, <1>3, <1>6, <2>2, <2>3, <2>4, <2>5, <2>6
  <1> QED BY <1>5, <1>6 DEF present, object

-----------------------------------------------------------------------------
(* Closed shapes: the names allowed, or a keyspace, and what is required.  *)
ClosedShapes ==
    [allowed : SUBSET Names, finite : BOOLEAN, keyspace : SUBSET Names, required : SUBSET Names,
     objects : BOOLEAN, others : BOOLEAN]

(* Two closed shapes meet in the names that both accept.                   *)
LEMMA MeetClosedFacts ==
    ASSUME NEW a \in ClosedShapes, NEW b \in ClosedShapes
    PROVE  LET m == MeetClosed(a, b)
           IN  /\ m \in ClosedShapes
               /\ \A n : KeyspaceAccepts(m, n) <=> KeyspaceAccepts(a, n) /\ KeyspaceAccepts(b, n)
               /\ m.required = a.required \cup b.required /\ m.allowed \subseteq a.allowed \cup b.allowed
               /\ (m.objects <=> a.objects /\ b.objects) /\ (m.others <=> a.others /\ b.others)
  <1> DEFINE allowed == {n \in a.allowed \cup b.allowed : KeyspaceAccepts(a, n) /\ KeyspaceAccepts(b, n)}
             m == MeetClosed(a, b)
  <1>1. /\ a.allowed \in SUBSET Names /\ a.finite \in BOOLEAN /\ a.keyspace \in SUBSET Names
        /\ a.required \in SUBSET Names /\ a.objects \in BOOLEAN /\ a.others \in BOOLEAN
        /\ b.allowed \in SUBSET Names /\ b.finite \in BOOLEAN /\ b.keyspace \in SUBSET Names
        /\ b.required \in SUBSET Names /\ b.objects \in BOOLEAN /\ b.others \in BOOLEAN
    BY DEF ClosedShapes
  <1>2. allowed \in SUBSET Names /\ allowed \subseteq a.allowed \cup b.allowed
    BY <1>1
  <1>3. m = [allowed |-> allowed, finite |-> a.finite \/ b.finite, keyspace |-> a.keyspace \cap b.keyspace,
             required |-> a.required \cup b.required,
             objects |-> a.objects /\ b.objects, others |-> a.others /\ b.others]
    BY DEF MeetClosed
  <1>4. /\ a.keyspace \cap b.keyspace \in SUBSET Names /\ a.required \cup b.required \in SUBSET Names
        /\ (a.finite \/ b.finite) \in BOOLEAN /\ (a.objects /\ b.objects) \in BOOLEAN
        /\ (a.others /\ b.others) \in BOOLEAN
    BY <1>1
  <1> HIDE DEF allowed, m
  <1>5. m \in ClosedShapes
    BY <1>2, <1>3, <1>4 DEF ClosedShapes
  <1>6. /\ m.allowed = allowed /\ (m.finite <=> a.finite \/ b.finite) /\ m.keyspace = a.keyspace \cap b.keyspace
        /\ m.required = a.required \cup b.required
        /\ (m.objects <=> a.objects /\ b.objects) /\ (m.others <=> a.others /\ b.others)
    BY <1>3
  <1>7. \A n : KeyspaceAccepts(m, n) <=> KeyspaceAccepts(a, n) /\ KeyspaceAccepts(b, n)
    <2> TAKE n
    <2>1. KeyspaceAccepts(m, n) <=> IF m.finite THEN n \in m.allowed ELSE n \in m.keyspace
      BY DEF KeyspaceAccepts
    <2>2. KeyspaceAccepts(a, n) <=> IF a.finite THEN n \in a.allowed ELSE n \in a.keyspace
      BY DEF KeyspaceAccepts
    <2>3. KeyspaceAccepts(b, n) <=> IF b.finite THEN n \in b.allowed ELSE n \in b.keyspace
      BY DEF KeyspaceAccepts
    <2>4. n \in allowed <=> (n \in a.allowed \/ n \in b.allowed) /\ KeyspaceAccepts(a, n) /\ KeyspaceAccepts(b, n)
      BY DEF allowed
    <2>5. CASE m.finite
      BY <1>6, <2>1, <2>2, <2>3, <2>4, <2>5
    <2>6. CASE ~m.finite
      BY <1>6, <2>1, <2>2, <2>3, <2>6
    <2> QED BY <2>5, <2>6
  <1> QED BY <1>2, <1>5, <1>6, <1>7 DEF m

(* g meets the closed shapes of s one after the other.                     *)
MeetsClosedTo(g, s, base) ==
    /\ g[0] = base /\ FoldLeft(MeetClosed, base, s) = g[Len(s)]
    /\ \A k \in 0 .. Len(s) - 1 : g[k + 1] = MeetClosed(g[k], s[k + 1])

(* Closed shapes are met from the first.                                   *)
LEMMA MeetClosedSteps ==
    ASSUME NEW B, NEW C, NEW base, NEW s \in Seq(B), base \in C,
           \A c \in C, b \in B : MeetClosed(c, b) \in C
    PROVE  \E g : MeetsClosedTo(g, s, base)
  <1> DEFINE n == Len(s)
             D == SUBSET (1 .. n)
             start == base
             Step(c, b) == MeetClosed(c, b)
             IsIt(k) == k = [S \in D |-> IF S = {} THEN start
                                         ELSE Step(k[S \ {Max(S)}], s[Max(S)])]
             c == CHOOSE k : IsIt(k)
             H == [p \in C \X B |-> Step(p[1], p[2])]
  <1>1. n \in Nat /\ DOMAIN s = 1 .. n /\ \A k \in 1 .. n : s[k] \in B
    BY LenProperties, ElementOfSeq
  <1>2. FoldLeft(MeetClosed, base, s) = c[1 .. n]
    BY <1>1 DEF FoldLeft, MapThenFoldSet
  <1>3. start \in C /\ \A e \in C, b \in B : Step(e, b) \in C
    OBVIOUS
  <1> HIDE DEF start, Step
  <1>4. H \in [C \X B -> C]
    BY <1>3
  <1>5. PICK f \in [D -> C] : FoldsOver(n, f, start, H, s, C)
    <2> HIDE DEF H, n
    <2> QED BY <1>1, <1>3, <1>4, FoldBy
  <1>6. IsIt(c)
    <2>1. IsIt(f)
      BY <1>1, <1>5 DEF FoldsOver
    <2> HIDE DEF IsIt
    <2> QED BY <2>1
  <1> HIDE DEF c
  <1> DEFINE g == [k \in 0 .. n |-> c[1 .. k]]
  <1>7. g[0] = start
    <2>1. 1 .. 0 = {} /\ {} \in D /\ 0 \in 0 .. n
      BY <1>1
    <2> QED BY <1>6, <2>1
  <1>8. ASSUME NEW k \in 0 .. n - 1
        PROVE  g[k + 1] = Step(g[k], s[k + 1])
    <2>1. /\ 1 .. k + 1 \in D /\ 1 .. k + 1 # {} /\ Max(1 .. k + 1) = k + 1
          /\ (1 .. k + 1) \ {k + 1} = 1 .. k
      BY <1>1, UpToHere
    <2>2. c[1 .. k + 1] = Step(c[1 .. k], s[k + 1])
      BY <1>6, <2>1
    <2>3. g[k + 1] = c[1 .. k + 1] /\ g[k] = c[1 .. k]
      BY <1>1
    <2> QED BY <2>2, <2>3
  <1>9. FoldLeft(MeetClosed, base, s) = g[n]
    BY <1>1, <1>2
  <1> HIDE DEF g
  <1>10. MeetsClosedTo(g, s, base)
    BY <1>7, <1>8, <1>9 DEF start, Step, MeetsClosedTo
  <1> QED BY <1>10

(* A schema's own keywords make a closed shape.                            *)
LEMMA LocallyClosedFacts ==
    ASSUME NEW b, HasKeywords(b)
    PROVE  LET a == LocallyClosed(b)
           IN  /\ a \in ClosedShapes
               /\ (a.objects <=> AcceptsObjects(b)) /\ (a.others <=> AcceptsOthers(b))
               /\ a.allowed \subseteq DOMAIN b.props
               /\ AcceptsObjects(b) =>
                    /\ a.required = b.required
                    /\ \A n \in Names : KeyspaceAccepts(a, n) <=>
                                          (b.additional = FalseValue => n \in ClosedNames(b))
  <1> DEFINE a == LocallyClosed(b)
             finite == b.additional = FalseValue /\ DOMAIN b.patterns = {}
             keyspace == IF b.additional = FalseValue THEN ClosedNames(b) ELSE Names
  <1>1. /\ DOMAIN b.props \in SUBSET Names /\ b.required \in SUBSET Names
        /\ \A p \in DOMAIN b.patterns : p \in SUBSET Names
    BY DEF HasKeywords, IsMap
  <1>2. keyspace \in SUBSET Names
    BY <1>1 DEF ClosedNames
  <1>3. AcceptsOthers(b) \in BOOLEAN /\ finite \in BOOLEAN
    BY DEF AcceptsOthers
  <1>4. CASE ~AcceptsObjects(b)
    <2>1. a = [allowed |-> {}, finite |-> TRUE, keyspace |-> {}, required |-> {},
               objects |-> FALSE, others |-> AcceptsOthers(b)]
      BY <1>4 DEF LocallyClosed
    <2>2. {} \in SUBSET Names
      OBVIOUS
    <2> HIDE DEF a
    <2>3. a \in ClosedShapes
      BY <1>3, <2>1, <2>2 DEF ClosedShapes
    <2>4. ~a.objects /\ (a.others <=> AcceptsOthers(b)) /\ a.allowed = {}
      BY <2>1
    <2> QED BY <1>4, <2>3, <2>4 DEF a
  <1>5. CASE AcceptsObjects(b)
    <2>1. a = [allowed |-> DOMAIN b.props, finite |-> finite, keyspace |-> keyspace,
               required |-> b.required, objects |-> TRUE, others |-> AcceptsOthers(b)]
      BY <1>5 DEF LocallyClosed
    <2> HIDE DEF a, keyspace, finite
    <2>2. a \in ClosedShapes
      BY <1>1, <1>2, <1>3, <2>1 DEF ClosedShapes
    <2>3. /\ a.objects /\ (a.others <=> AcceptsOthers(b)) /\ a.required = b.required
          /\ a.allowed = DOMAIN b.props /\ (a.finite <=> finite) /\ a.keyspace = keyspace
      BY <2>1
    <2>4. ASSUME NEW n \in Names
          PROVE  KeyspaceAccepts(a, n) <=> (b.additional = FalseValue => n \in ClosedNames(b))
      <3>1. KeyspaceAccepts(a, n) <=> IF finite THEN n \in DOMAIN b.props ELSE n \in keyspace
        BY <2>3 DEF KeyspaceAccepts
      <3>2. finite => ClosedNames(b) = DOMAIN b.props
        BY DEF finite, ClosedNames
      <3> QED BY <3>1, <3>2 DEF finite, keyspace
    <2> QED BY <1>5, <2>2, <2>3, <2>4 DEF a
  <1> QED BY <1>4, <1>5

(* The closed shape of a conjunction accepts what all of its parts do.     *)
LEMMA ClosedShapeFacts ==
    ASSUME NEW s, IsSchema(s), ClosedShape(s) # None
    PROVE  LET a == ClosedShape(s)
           IN  /\ a \in ClosedShapes
               /\ a.objects <=> \A p \in AndParts(s) : AcceptsObjects(p)
               /\ a.others <=> \A p \in AndParts(s) : AcceptsOthers(p)
               /\ \A n \in a.allowed : \E p \in AndParts(s) : n \in DOMAIN p.props
               /\ a.objects =>
                    /\ a.required = UNION {p.required : p \in AndParts(s)}
                    /\ \A n \in Names : KeyspaceAccepts(a, n) <=>
                         \A p \in AndParts(s) : p.additional = FalseValue => n \in ClosedNames(p)
  <1> DEFINE a == ClosedShape(s)
             q == s.allOf
             N == Len(q)
             f == [k \in DOMAIN q |-> LocallyClosed(q[k])]
             base == LocallyClosed(s)
             Upto(k) == {s} \cup {q[j] : j \in 1 .. k}
             Fits(c, P) ==
               /\ c \in ClosedShapes
               /\ c.objects <=> \A p \in P : AcceptsObjects(p)
               /\ c.others <=> \A p \in P : AcceptsOthers(p)
               /\ \A n \in c.allowed : \E p \in P : n \in DOMAIN p.props
               /\ c.objects =>
                    /\ c.required = UNION {p.required : p \in P}
                    /\ \A n \in Names : KeyspaceAccepts(c, n) <=>
                         \A p \in P : p.additional = FalseValue => n \in ClosedNames(p)
  <1>1. a = FoldLeft(MeetClosed, base, f)
    BY DEF ClosedShape
  <1>2. /\ N \in Nat /\ DOMAIN q = 1 .. N /\ \A k \in 1 .. N : HasKeywords(q[k])
        /\ ToSet(q) = {q[k] : k \in 1 .. N} /\ HasKeywords(s)
    BY BranchFacts DEF IsSchema
  <1>3. \A b : HasKeywords(b) => Fits(LocallyClosed(b), {b})
    BY LocallyClosedFacts
  <1>4. /\ base \in ClosedShapes /\ \A k \in 1 .. N : f[k] = LocallyClosed(q[k]) /\ f[k] \in ClosedShapes
    BY <1>2, LocallyClosedFacts
  <1>5. f \in Seq(ClosedShapes) /\ Len(f) = N
    <2>1. f = [k \in 1 .. N |-> f[k]]
      BY <1>2
    <2> HIDE DEF f, N
    <2>2. f \in [1 .. N -> ClosedShapes]
      BY <1>4, <2>1
    <2> QED BY <1>2, <2>2
  <1>6. PICK g : MeetsClosedTo(g, f, base)
    <2>1. \A x \in ClosedShapes, y \in ClosedShapes : MeetClosed(x, y) \in ClosedShapes
      BY MeetClosedFacts
    <2> HIDE DEF f, base
    <2> QED BY <1>4, <1>5, <2>1, MeetClosedSteps
  <1> DEFINE K == {k \in 0 .. N : Fits(g[k], Upto(k))}
  <1> HIDE DEF Fits
  <1>7. 0 \in K
    <2>1. Upto(0) = {s} /\ 0 \in 0 .. N
      BY <1>2
    <2>2. g[0] = LocallyClosed(s)
      BY <1>6 DEF MeetsClosedTo
    <2> QED BY <1>2, <1>3, <2>1, <2>2
  <1>8. ASSUME NEW k \in 0 .. N - 1, k \in K
        PROVE  k + 1 \in K
    <2>1. k + 1 \in 1 .. N /\ k + 1 \in 0 .. N
      BY <1>2
    <2>2. g[k + 1] = MeetClosed(g[k], f[k + 1])
      BY <1>5, <1>6 DEF MeetsClosedTo
    <2>3. Fits(g[k], Upto(k)) /\ Fits(f[k + 1], {q[k + 1]})
      BY <1>2, <1>3, <1>4, <1>8, <2>1
    <2>4. Upto(k + 1) = Upto(k) \cup {q[k + 1]}
      <3>1. 1 .. k + 1 = (1 .. k) \cup {k + 1}
        BY <2>1
      <3> QED BY <3>1
    <2> HIDE DEF Upto, f
    <2>5. ASSUME NEW x, NEW y, NEW P, NEW Q, Fits(x, P), Fits(y, Q)
          PROVE  Fits(MeetClosed(x, y), P \cup Q)
      <3> DEFINE m == MeetClosed(x, y)
      <3>1. x \in ClosedShapes /\ y \in ClosedShapes
        BY <2>5 DEF Fits
      <3>2. /\ m \in ClosedShapes
            /\ \A n : KeyspaceAccepts(m, n) <=> KeyspaceAccepts(x, n) /\ KeyspaceAccepts(y, n)
            /\ m.required = x.required \cup y.required /\ m.allowed \subseteq x.allowed \cup y.allowed
            /\ (m.objects <=> x.objects /\ y.objects) /\ (m.others <=> x.others /\ y.others)
        BY <3>1, MeetClosedFacts
      <3> HIDE DEF m
      <3>3. /\ m.objects <=> \A p \in P \cup Q : AcceptsObjects(p)
            /\ m.others <=> \A p \in P \cup Q : AcceptsOthers(p)
            /\ \A n \in m.allowed : \E p \in P \cup Q : n \in DOMAIN p.props
        BY <2>5, <3>2 DEF Fits
      <3>4. ASSUME m.objects
            PROVE  /\ m.required = UNION {p.required : p \in P \cup Q}
                   /\ \A n \in Names : KeyspaceAccepts(m, n) <=>
                        \A p \in P \cup Q : p.additional = FalseValue => n \in ClosedNames(p)
        <4>1. /\ x.required = UNION {p.required : p \in P} /\ y.required = UNION {p.required : p \in Q}
              /\ \A n \in Names : KeyspaceAccepts(x, n) <=>
                   \A p \in P : p.additional = FalseValue => n \in ClosedNames(p)
              /\ \A n \in Names : KeyspaceAccepts(y, n) <=>
                   \A p \in Q : p.additional = FalseValue => n \in ClosedNames(p)
          BY <2>5, <3>2, <3>4 DEF Fits
        <4>2. UNION {p.required : p \in P \cup Q} = (UNION {p.required : p \in P}) \cup UNION {p.required : p \in Q}
          OBVIOUS
        <4> QED BY <3>2, <4>1, <4>2
      <3> QED BY <3>2, <3>3, <3>4 DEF Fits, m
    <2> QED BY <2>1, <2>2, <2>3, <2>4, <2>5
  <1> HIDE DEF K
  <1>9. \A k \in 0 .. N : k \in K
    BY <1>2, <1>7, <1>8, HoldsUpTo
  <1>10. Fits(g[N], Upto(N))
    <2>1. N \in 0 .. N
      BY <1>2
    <2> QED BY <1>9, <2>1 DEF K
  <1>11. Upto(N) = AndParts(s)
    BY <1>2 DEF AndParts
  <1>12. a = g[N]
    BY <1>1, <1>5, <1>6 DEF MeetsClosedTo
  <1> QED BY <1>10, <1>11, <1>12 DEF Fits

-----------------------------------------------------------------------------
(* A conjunction means what all of its schemas accept.                     *)
LEMMA ConjunctionMeans ==
    ASSUME NEW S
    PROVE  /\ \A x : x \in Meaning(Conjunction(S)) <=> x \in Values /\ \A i \in S : x \in i
           /\ \A T : \A x : x \in Meaning(T \cup Conjunction(S)) <=> x \in Meaning(T) /\ \A i \in S : x \in i
  BY DEF Meaning, Conjunction, TrueValue

(* The schemas for a name that a schema has by its keywords.               *)
LEMMA SchemasForFacts ==
    ASSUME NEW b, NEW n
    PROVE  /\ n \in DOMAIN b.props => b.props[n] \in SchemasFor(b, n)
           /\ \A p \in DOMAIN b.patterns : n \in p => b.patterns[p] \in SchemasFor(b, n)
           /\ b.additional # None /\ n \notin DOMAIN b.props /\ ~MatchesPattern(b, n)
                => b.additional \in SchemasFor(b, n)
           /\ \A i \in SchemasFor(b, n) :
                \/ n \in DOMAIN b.props /\ i = b.props[n]
                \/ \E p \in DOMAIN b.patterns : n \in p /\ i = b.patterns[p]
                \/ /\ b.additional # None /\ n \notin DOMAIN b.props /\ ~MatchesPattern(b, n)
                   /\ i = b.additional
  <1> DEFINE matching == {p \in DOMAIN b.patterns : n \in p}
             A == {b.props[m] : m \in DOMAIN b.props \cap {n}}
             B == {b.patterns[p] : p \in matching}
             C == IF b.additional = None \/ n \in DOMAIN b.props \/ matching # {}
                  THEN {} ELSE {b.additional}
  <1>1. SchemasFor(b, n) = (A \cup B) \cup C
    BY DEF SchemasFor
  <1>2. \A i : i \in A <=> n \in DOMAIN b.props /\ i = b.props[n]
    OBVIOUS
  <1>3. \A i : i \in B <=> \E p \in DOMAIN b.patterns : n \in p /\ i = b.patterns[p]
    OBVIOUS
  <1>4. matching # {} <=> MatchesPattern(b, n)
    BY DEF MatchesPattern
  <1>5. \A i : i \in C <=> /\ b.additional # None /\ n \notin DOMAIN b.props /\ ~MatchesPattern(b, n)
                           /\ i = b.additional
    <2> HIDE DEF matching
    <2> QED BY <1>4
  <1> HIDE DEF A, B, C
  <1>6. \A p \in DOMAIN b.patterns : n \in p => b.patterns[p] \in B
    BY <1>3
  <1>7. n \in DOMAIN b.props => b.props[n] \in A
    BY <1>2
  <1> QED BY <1>1, <1>2, <1>3, <1>5, <1>6, <1>7

(* The values of an object that a schema's keywords accept.                *)
LEMMA LocalValues ==
    ASSUME NEW b, HasKeywords(b), NEW v \in Instances, HoldsLocally(b, v), NEW n \in DOMAIN v.values
    PROVE  /\ v.object /\ n \in Names /\ v.values[n] \in Values
           /\ "object" \in b.types /\ b.required \subseteq DOMAIN v.values
           /\ b.names # None => n \in b.names
           /\ \A i \in SchemasFor(b, n) : v.values[n] \in i
           /\ n \in DOMAIN b.props => v.values[n] \in b.props[n]
           /\ \A p \in DOMAIN b.patterns : n \in p => v.values[n] \in b.patterns[p]
           /\ b.additional = FalseValue => n \in DOMAIN b.props \/ MatchesPattern(b, n)
           /\ b.additional = FalseValue => n \in ClosedNames(b)
  <1>1. v.object
    BY ValueFacts DEF NotAnObject
  <1>2. /\ "object" \in b.types /\ b.required \subseteq DOMAIN v.values
        /\ b.names # None => n \in b.names
        /\ \A i \in SchemasFor(b, n) : v.values[n] \in i
    BY <1>1 DEF HoldsLocally
  <1>3. n \in Names /\ v.values[n] \in Values
    BY <1>1, ValueFacts
  <1>4. n \in DOMAIN b.props => v.values[n] \in b.props[n]
    BY <1>2, SchemasForFacts
  <1>5. \A p \in DOMAIN b.patterns : n \in p => v.values[n] \in b.patterns[p]
    BY <1>2, SchemasForFacts
  <1>6. b.additional = FalseValue => n \in DOMAIN b.props \/ MatchesPattern(b, n)
    BY <1>1, ClosedObject DEF MatchesPattern
  <1>7. b.additional = FalseValue => n \in ClosedNames(b)
    BY <1>6 DEF MatchesPattern, ClosedNames
  <1> QED BY <1>1, <1>2, <1>3, <1>4, <1>5, <1>6, <1>7

(* The keys and values of an object, as the key rule reads the schema.     *)
LEMMA KeysHold ==
    ASSUME NEW b, HasKeywords(b), NEW v \in Instances, HoldsLocally(b, v), NEW n \in DOMAIN v.values
    PROVE  AllowsKey(b, n) /\ v.values[n] \in Meaning(KeyTerm(b, n))
  <1>1. /\ b.names # None => n \in b.names
        /\ \A i \in SchemasFor(b, n) : v.values[n] \in i
        /\ b.additional = FalseValue => n \in DOMAIN b.props \/ MatchesPattern(b, n)
        /\ v.values[n] \in Values
    BY LocalValues
  <1>2. IsFalse(AdditionalTerm(b)) => b.additional = FalseValue
    BY DEF IsFalse, AdditionalTerm, Conjunction
  <1>3. AllowsKey(b, n)
    BY <1>1, <1>2 DEF AllowsKey
  <1>4. KeyTerm(b, n) = Conjunction(SchemasFor(b, n))
    BY <1>3 DEF KeyTerm
  <1>5. v.values[n] \in Meaning(Conjunction(SchemasFor(b, n)))
    BY <1>1, ConjunctionMeans
  <1> QED BY <1>3, <1>4, <1>5

(* The parts of a conjunction are written down.                            *)
LEMMA AndPartFacts ==
    ASSUME NEW s, IsSchema(s)
    PROVE  \A p \in AndParts(s) : HasKeywords(p)
  <1>1. HasKeywords(s) /\ \A k \in DOMAIN s.allOf : HasKeywords(s.allOf[k])
    BY PartFacts
  <1> QED BY <1>1 DEF AndParts, ToSet

(* The parts of a conjunction all accept what it accepts.                  *)
LEMMA PartsHold ==
    ASSUME NEW s, IsSchema(s), NEW v, Holds(s, v)
    PROVE  \A p \in AndParts(s) : HoldsLocally(p, v) /\ HasKeywords(p)
  <1>1. HoldsLocally(s, v) /\ \A k \in DOMAIN s.allOf : HoldsLocally(s.allOf[k], v)
    BY HoldsFacts
  <1>2. ToSet(s.allOf) = {s.allOf[k] : k \in DOMAIN s.allOf}
    BY DEF ToSet
  <1>3. HasKeywords(s) /\ \A k \in DOMAIN s.allOf : HasKeywords(s.allOf[k])
    BY PartFacts
  <1> QED BY <1>1, <1>2, <1>3 DEF AndParts

(* The term of a property, and the schemas it is made of.                  *)
LEMMA PropertyTermFacts ==
    ASSUME NEW parts, NEW n, \A p \in parts : HasKeywords(p)
    PROVE  LET t == PropertyTerm(parts, n)
           IN  /\ t = None <=> \A p \in parts : n \notin DOMAIN p.props
               /\ t # None => \A x : x \in Meaning(t) <=>
                                x \in Values /\ \A p \in parts : n \in DOMAIN p.props => x \in p.props[n]
  <1> DEFINE S == {p.props[n] : p \in {q \in parts : n \in DOMAIN q.props}}
             t == PropertyTerm(parts, n)
  <1>1. t = IF S = {} THEN None ELSE Conjunction(S)
    BY DEF PropertyTerm
  <1>2. S = {} <=> \A p \in parts : n \notin DOMAIN p.props
    OBVIOUS
  <1>3. \A i \in S : i \in SUBSET Values
    BY DEF HasKeywords, IsMap
  <1>4. \A x : (\A i \in S : x \in i) <=> \A p \in parts : n \in DOMAIN p.props => x \in p.props[n]
    OBVIOUS
  <1> HIDE DEF S, t
  <1>5. Conjunction(S) # None
    <2>1. Conjunction(S) \in SUBSET SUBSET Values
      BY <1>3 DEF Conjunction
    <2> QED BY <2>1, NoTermAssumption
  <1>6. S # {} => t = Conjunction(S)
    BY <1>1
  <1>7. S # {} => \A x : x \in Meaning(t) <=> x \in Values /\ \A i \in S : x \in i
    <2>1. \A x : x \in Meaning(Conjunction(S)) <=> x \in Values /\ \A i \in S : x \in i
      BY ConjunctionMeans
    <2> QED BY <1>6, <2>1
  <1> QED BY <1>1, <1>2, <1>4, <1>5, <1>6, <1>7 DEF t

(* The term of a name in a closed object.                                  *)
LEMMA ClosedTermFacts ==
    ASSUME NEW s, NEW n, \A p \in AndParts(s) : HasKeywords(p), ClosedTerm(s, n) # None
    PROVE  \A x \in Values : x \in Meaning(ClosedTerm(s, n)) <=>
             \A p \in AndParts(s) :
               /\ n \in DOMAIN p.props => x \in p.props[n]
               /\ \A t \in DOMAIN p.patterns : n \in t => x \in p.patterns[t]
  <1> DEFINE M == UNION {{p.patterns[t] : t \in {u \in DOMAIN p.patterns : n \in u}} : p \in AndParts(s)}
             property == PropertyTerm(AndParts(s), n)
  <1>1. ClosedTerm(s, n) = (IF property = None THEN {} ELSE property) \cup Conjunction(M)
    BY DEF ClosedTerm
  <1>2. \A x : (\A i \in M : x \in i) <=>
          \A p \in AndParts(s) : \A t \in DOMAIN p.patterns : n \in t => x \in p.patterns[t]
    OBVIOUS
  <1>3. /\ property = None <=> \A p \in AndParts(s) : n \notin DOMAIN p.props
        /\ property # None => \A x : x \in Meaning(property) <=>
              x \in Values /\ \A p \in AndParts(s) : n \in DOMAIN p.props => x \in p.props[n]
    BY PropertyTermFacts
  <1> HIDE DEF M, property
  <1> DEFINE T == IF property = None THEN {} ELSE property
  <1>4. \A x \in Values : x \in Meaning(T) <=> \A p \in AndParts(s) : n \in DOMAIN p.props => x \in p.props[n]
    <2>1. CASE property = None
      <3>1. T = {} /\ \A p \in AndParts(s) : n \notin DOMAIN p.props
        BY <1>3, <2>1
      <3>2. \A x \in Values : x \in Meaning({})
        BY DEF Meaning
      <3> QED BY <3>1, <3>2
    <2>2. CASE property # None
      <3>1. T = property
        BY <2>2
      <3> HIDE DEF T
      <3> QED BY <1>3, <2>2, <3>1
    <2> QED BY <2>1, <2>2
  <1> HIDE DEF T
  <1>5. \A x : x \in Meaning(T \cup Conjunction(M)) <=> x \in Meaning(T) /\ \A i \in M : x \in i
    BY ConjunctionMeans
  <1>6. ClosedTerm(s, n) = T \cup Conjunction(M)
    BY <1>1 DEF T
  <1> QED BY <1>2, <1>4, <1>5, <1>6

(* What the compiler derives of the values of a schema's objects holds.    *)
LEMMA ValuesHold ==
    ASSUME NEW s, IsSchema(s), NEW v \in Instances, Holds(s, v), NEW n \in DOMAIN v.values
    PROVE  /\ AllowsKey(s, n) /\ v.values[n] \in Meaning(KeyTerm(s, n))
           /\ ValueTerm(s, n) # None => v.values[n] \in Meaning(ValueTerm(s, n))
           /\ NamesShape(s) # None => n \in NamesShape(s).keyspace
           /\ ClosedShape(s) # None =>
                /\ KeyspaceAccepts(ClosedShape(s), n)
                /\ ClosedTerm(s, n) # None => v.values[n] \in Meaning(ClosedTerm(s, n))
  <1> DEFINE P == AndParts(s)
  <1>1. \A p \in P : HoldsLocally(p, v) /\ HasKeywords(p)
    BY PartsHold
  <1>2. s \in P
    BY DEF AndParts
  <1>3. AllowsKey(s, n) /\ v.values[n] \in Meaning(KeyTerm(s, n))
    BY <1>1, <1>2, KeysHold
  <1>4. /\ n \in Names /\ v.values[n] \in Values
        /\ \A p \in P : /\ p.names # None => n \in p.names
                        /\ n \in DOMAIN p.props => v.values[n] \in p.props[n]
                        /\ \A t \in DOMAIN p.patterns : n \in t => v.values[n] \in p.patterns[t]
                        /\ p.additional = FalseValue => n \in ClosedNames(p)
                        /\ "object" \in p.types
    BY <1>1, <1>2, LocalValues
  <1>5. ValueTerm(s, n) # None => v.values[n] \in Meaning(ValueTerm(s, n))
    <2>1. ValueTerm(s, n) = PropertyTerm(P, n)
      BY DEF ValueTerm
    <2> QED BY <1>1, <1>4, <2>1, PropertyTermFacts
  <1>6. NamesShape(s) # None => n \in NamesShape(s).keyspace
    <2>1. SUFFICES ASSUME NamesShape(s) # None PROVE n \in NamesShape(s).keyspace
      OBVIOUS
    <2>2. NamesShape(s).keyspace = {m \in Names : \A p \in P : m \in LocalKeyspace(p)}
      BY <2>1 DEF NamesShape
    <2>3. \A p \in P : n \in LocalKeyspace(p)
      BY <1>4 DEF LocalKeyspace
    <2> QED BY <1>4, <2>2, <2>3
  <1>7. ASSUME ClosedShape(s) # None
        PROVE  /\ KeyspaceAccepts(ClosedShape(s), n)
               /\ ClosedTerm(s, n) # None => v.values[n] \in Meaning(ClosedTerm(s, n))
    <2>1. \A p \in P : AcceptsObjects(p)
      BY <1>4 DEF AcceptsObjects
    <2>2. KeyspaceAccepts(ClosedShape(s), n)
      BY <1>4, <1>7, <2>1, ClosedShapeFacts
    <2>3. ClosedTerm(s, n) # None => v.values[n] \in Meaning(ClosedTerm(s, n))
      BY <1>1, <1>4, ClosedTermFacts
    <2> QED BY <2>2, <2>3
  <1> QED BY <1>3, <1>5, <1>6, <1>7

-----------------------------------------------------------------------------
(* The question, and what the compiler derived of its schemas, stay.       *)
FactsInv ==
    /\ query \in Queries
    /\ facts = [lhs |-> FactsOf(query.lhs), rhs |-> FactsOf(query.rhs)]

(* What the proof has at hand of both sides.                               *)
LEMMA FactsOfSchemas ==
    ASSUME FactsInv
    PROVE  /\ IsSchema(lhs) /\ IsSchema(rhs) /\ lhs \in Schemas /\ rhs \in Schemas
           /\ facts.lhs = FactsOf(lhs) /\ facts.rhs = FactsOf(rhs)
           /\ InstancesOf[lhs] = Accepted(lhs) /\ InstancesOf[rhs] = Accepted(rhs)
  <1>1. /\ IsSchema(lhs) /\ IsSchema(rhs) /\ lhs \in Schemas /\ rhs \in Schemas
        /\ facts.lhs = FactsOf(lhs) /\ facts.rhs = FactsOf(rhs)
    BY QueriesAssumption DEF FactsInv, lhs, rhs, Schemas
  <1> QED BY <1>1 DEF InstancesOf, Accepted

(* No action changes the question or what was derived.                     *)
LEMMA FactsStep ==
    ASSUME FactsInv, [Next]_vars
    PROVE  FactsInv'
  <1>1. UNCHANGED <<query, facts>>
    BY DEF Next, vars, ProveCount, ProvePresence, ProveValues, ProveKeys, ProveNames, ProveClosed,
           ProveValue, ValuesIncluded
  <1> QED BY <1>1 DEF FactsInv

(* The question and what was derived of it are there in every state.       *)
LEMMA FactsStay == Spec => []FactsInv
  <1>1. Init => FactsInv
    BY DEF Init, FactsInv
  <1> QED BY <1>1, FactsStep, PTL DEF Spec

(* What the compiler derives of a schema holds of its objects.             *)
LEMMA FactsHoldOf ==
    ASSUME NEW s \in Schemas, IsSchema(s)
    PROVE  FactsHold[s]
  <1>1. \A v : v \in InstancesOf[s] <=> v \in Instances /\ Holds(s, v)
    BY DEF InstancesOf
  <1>2. CountsBound(s)
    <2> DEFINE shape == CountShape(s)
               Admitted(v) == IF v.object THEN Counts(shape.intervals, Cardinality(DOMAIN v.values))
                              ELSE shape.others
    <2>1. SUFFICES ASSUME shape # None
                   PROVE  /\ \A v \in InstancesOf[s] : Admitted(v)
                          /\ shape.exact => \A v \in Instances : Admitted(v) => v \in InstancesOf[s]
      BY DEF CountsBound
    <2>2. /\ \A v \in Instances : /\ v \in Accepted(s) => Admits(shape, SizeOf[v])
                                  /\ shape.exact /\ Admits(shape, SizeOf[v]) => v \in Accepted(s)
      BY <2>1, CountShapeBounds DEF Bounds
    <2>3. \A v \in Instances : Admits(shape, SizeOf[v]) <=> Admitted(v)
      <3>1. ASSUME NEW v \in Instances PROVE Admits(shape, SizeOf[v]) <=> Admitted(v)
        <4>1. CASE v.object
          BY <4>1, ValueFacts DEF Admits
        <4>2. CASE ~v.object
          BY <4>2, ValueFacts DEF Admits
        <4> QED BY <4>1, <4>2
      <3> QED BY <3>1
    <2>4. \A v : v \in InstancesOf[s] <=> v \in Instances /\ v \in Accepted(s)
      BY <1>1 DEF Accepted
    <2> HIDE DEF shape, Admitted
    <2> QED BY <2>2, <2>3, <2>4
  <1>3. PresenceBounds(s)
    BY <1>1, PresenceHolds DEF PresenceBounds
  <1>4. ValuesBound(s)
    BY <1>1, ValuesHold DEF ValuesBound
  <1> QED BY <1>2, <1>3, <1>4 DEF FactsHold

(* FactsBoundTheirSchemas, for every question, any names and any values:   *)
(* what the compiler derives of an object schema (compiler/domains/objects *)
(* .py: counts, presence, values, keys, names and closed objects) leaves   *)
(* out no object that the schema accepts; and an exact count shape, or a   *)
(* presence without values, holds no more than those.                      *)
THEOREM FactsBound == Spec => []FactsBoundTheirSchemas
  <1>1. FactsInv => FactsBoundTheirSchemas
    BY FactsOfSchemas, FactsHoldOf DEF FactsBoundTheirSchemas
  <1> QED BY <1>1, FactsStay, PTL

-----------------------------------------------------------------------------
(* A schema that is a conjunction of the keywords of its parts.            *)
IsConjunction(s) ==
    /\ s.anyOf = <<>> /\ s.oneOf = <<>> /\ s.negated = <<>> /\ DOMAIN s.depends = {}
    /\ \A p \in AndParts(s) : DOMAIN p.needs = {}

(* What a value needs to be accepted by a conjunction.                     *)
LEMMA ConjunctionHolds ==
    ASSUME NEW s, IsConjunction(s), NEW v, \A p \in AndParts(s) : HoldsLocally(p, v)
    PROVE  Holds(s, v)
  <1>1. s \in AndParts(s) /\ \A k \in DOMAIN s.allOf : s.allOf[k] \in AndParts(s)
    BY DEF AndParts, ToSet
  <1>2. DOMAIN s.negated = {}
    BY DEF IsConjunction
  <1>3. DependentsHold(s, v) /\ OneOfHolds(s, v)
    BY DEF IsConjunction, DependentsHold, OneOfHolds
  <1> QED BY <1>1, <1>2, <1>3, HoldsFacts DEF IsConjunction

(* What the parts of a schema say of each of its values.                   *)
LEMMA PartsNeed ==
    ASSUME NEW s, IsSchema(s), NEW v \in Instances, Holds(s, v)
    PROVE  /\ v.object => \A p \in AndParts(s) : AcceptsObjects(p) /\ p.required \subseteq DOMAIN v.values
           /\ ~v.object => \A p \in AndParts(s) : AcceptsOthers(p)
  <1>1. \A p \in AndParts(s) : HoldsLocally(p, v)
    BY PartsHold
  <1> QED BY <1>1 DEF HoldsLocally, AcceptsObjects, AcceptsOthers

(* Other values need the type alone.                                       *)
LEMMA OthersHold ==
    ASSUME NEW s, IsConjunction(s), NEW v, ~v.object, \A p \in AndParts(s) : AcceptsOthers(p)
    PROVE  Holds(s, v)
  <1>1. \A p \in AndParts(s) : HoldsLocally(p, v)
    BY DEF HoldsLocally, AcceptsOthers
  <1> QED BY <1>1, ConjunctionHolds

(* What the keywords of a part ask of an object.                           *)
PartHolds(p, v) ==
    /\ AcceptsObjects(p) /\ p.required \subseteq DOMAIN v.values
    /\ Cardinality(DOMAIN v.values) >= LeastProperties(p)
    /\ p.max # None => Cardinality(DOMAIN v.values) <= p.max
    /\ p.names # None => DOMAIN v.values \subseteq p.names
    /\ \A n \in DOMAIN v.values : \A i \in SchemasFor(p, n) : v.values[n] \in i

(* A conjunction accepts what all its parts accept.                        *)
LEMMA ObjectsHold ==
    ASSUME NEW s, IsConjunction(s), NEW v, v.object, \A p \in AndParts(s) : PartHolds(p, v)
    PROVE  Holds(s, v)
  <1>1. ASSUME NEW p \in AndParts(s) PROVE HoldsLocally(p, v)
    <2>1. PartHolds(p, v) /\ DOMAIN p.needs = {}
      BY DEF IsConjunction
    <2> QED BY <2>1 DEF PartHolds, HoldsLocally, AcceptsObjects, LeastProperties
  <1> QED BY <1>1, ConjunctionHolds

(* Keywords that a fragment does not have are absent from all parts.       *)
LEMMA FragmentFacts ==
    ASSUME NEW s, NEW keywords, AllIn(s, keywords)
    PROVE  \A p \in AndParts(s) : Keywords(p) \subseteq keywords
  BY DEF AllIn, AndParts, ToSet

(* A schema without the other applicators is a conjunction.                *)
LEMMA ConjunctionFragment ==
    ASSUME NEW s, NEW keywords, AllIn(s, keywords),
           {"dependentRequired", "dependentSchemas", "anyOf", "oneOf", "not"} \cap keywords = {}
    PROVE  IsConjunction(s)
  <1>1. \A p \in AndParts(s) : Keywords(p) \subseteq keywords
    BY FragmentFacts
  <1>2. s \in AndParts(s)
    BY DEF AndParts
  <1>3. \A p \in AndParts(s) : "dependentRequired" \notin Keywords(p)
    BY <1>1
  <1>4. \A p \in AndParts(s) : DOMAIN p.needs = {}
    BY <1>3, KeywordFacts
  <1>5. /\ "dependentSchemas" \notin Keywords(s) /\ "anyOf" \notin Keywords(s)
        /\ "oneOf" \notin Keywords(s) /\ "not" \notin Keywords(s)
    BY <1>1, <1>2
  <1>6. DOMAIN s.depends = {} /\ s.anyOf = <<>> /\ s.oneOf = <<>> /\ s.negated = <<>>
    BY <1>5, KeywordFacts
  <1> QED BY <1>4, <1>6 DEF IsConjunction

(* The values rule: its shape and its terms are all its schemas ask for.   *)
LEMMA ValuesSuffice ==
    ASSUME NEW s, IsSchema(s), ValuesShape(s) # None
    PROVE  /\ IsConjunction(s)
           /\ ValuesShape(s).objects <=> \A p \in AndParts(s) : AcceptsObjects(p)
           /\ ValuesShape(s).others <=> \A p \in AndParts(s) : AcceptsOthers(p)
           /\ ValuesShape(s).required = UNION {p.required : p \in AndParts(s)}
           /\ \A v \in Instances :
                /\ v.object /\ ValuesShape(s).objects /\ ValuesShape(s).required \subseteq DOMAIN v.values
                /\ \A n \in DOMAIN v.values :
                     n \in ValuesShape(s).names => v.values[n] \in Meaning(ValueTerm(s, n))
                => Holds(s, v)
  <1> DEFINE a == ValuesShape(s)
  <1>1. /\ AllIn(s, ValuesKeywords)
        /\ a.objects <=> \A p \in AndParts(s) : AcceptsObjects(p)
        /\ a.others <=> \A p \in AndParts(s) : AcceptsOthers(p)
        /\ a.required = UNION {p.required : p \in AndParts(s)}
        /\ a.names = UNION {DOMAIN p.props : p \in AndParts(s)}
    BY DEF ValuesShape
  <1>2. IsConjunction(s)
    BY <1>1, ConjunctionFragment DEF ValuesKeywords
  <1>3. \A p \in AndParts(s) : HasKeywords(p)
    BY AndPartFacts
  <1>4. ASSUME NEW p \in AndParts(s)
        PROVE  /\ p.min = None /\ p.max = None /\ p.names = None /\ p.additional = None
               /\ DOMAIN p.patterns = {}
    <2>1. Keywords(p) \subseteq ValuesKeywords
      BY <1>1, FragmentFacts
    <2>2. /\ "minProperties" \notin Keywords(p) /\ "maxProperties" \notin Keywords(p)
          /\ "propertyNames" \notin Keywords(p) /\ "additionalProperties" \notin Keywords(p)
          /\ "patternProperties" \notin Keywords(p)
      BY <2>1 DEF ValuesKeywords
    <2> QED BY <2>2, KeywordFacts
  <1> HIDE DEF a
  <1>5. ASSUME NEW v \in Instances, v.object, a.objects, a.required \subseteq DOMAIN v.values,
               \A n \in DOMAIN v.values : n \in a.names => v.values[n] \in Meaning(ValueTerm(s, n))
        PROVE  Holds(s, v)
    <2>1. Cardinality(DOMAIN v.values) \in Nat
      BY <1>5, ValueFacts
    <2>2. ASSUME NEW p \in AndParts(s), NEW n \in DOMAIN v.values, NEW i \in SchemasFor(p, n)
          PROVE  v.values[n] \in i
      <3>1. n \in DOMAIN p.props /\ i = p.props[n]
        BY <1>4, SchemasForFacts
      <3>2. n \in a.names
        BY <1>1, <3>1
      <3>3. v.values[n] \in Meaning(PropertyTerm(AndParts(s), n))
        BY <1>5, <3>2 DEF ValueTerm
      <3>4. PropertyTerm(AndParts(s), n) # None
        BY <1>3, <3>1, PropertyTermFacts
      <3> QED BY <1>3, <3>1, <3>3, <3>4, PropertyTermFacts
    <2>3. ASSUME NEW p \in AndParts(s) PROVE PartHolds(p, v)
      <3>1. AcceptsObjects(p) /\ p.required \subseteq DOMAIN v.values
        BY <1>1, <1>5
      <3>2. LeastProperties(p) = 0
        BY <1>4 DEF LeastProperties
      <3> QED BY <1>4, <2>1, <2>2, <3>1, <3>2 DEF PartHolds
    <2> QED BY <1>2, <1>5, <2>3, ObjectsHold
  <1> QED BY <1>1, <1>2, <1>5 DEF a

-----------------------------------------------------------------------------
(* The names rule: where no value is restricted, the names are enough.     *)
LEMMA NamesSuffice ==
    ASSUME NEW s, IsSchema(s), NamesShape(s) # None
    PROVE  /\ IsConjunction(s)
           /\ NamesShape(s).objects <=> \A p \in AndParts(s) : AcceptsObjects(p)
           /\ NamesShape(s).others <=> \A p \in AndParts(s) : AcceptsOthers(p)
           /\ NamesShape(s).required = UNION {p.required : p \in AndParts(s)}
           /\ \A v \in Instances :
                /\ ~NamesWithValues(s) /\ v.object /\ NamesShape(s).objects
                /\ NamesShape(s).required \subseteq DOMAIN v.values
                /\ DOMAIN v.values \subseteq NamesShape(s).keyspace
                => Holds(s, v)
  <1> DEFINE a == NamesShape(s)
  <1>1. /\ AllIn(s, NamesKeywords)
        /\ \A p \in AndParts(s) : p.additional \in {None, TrueValue, FalseValue}
        /\ a.objects <=> \A p \in AndParts(s) : AcceptsObjects(p)
        /\ a.others <=> \A p \in AndParts(s) : AcceptsOthers(p)
        /\ a.required = UNION {p.required : p \in AndParts(s)}
        /\ a.keyspace = {n \in Names : \A p \in AndParts(s) : n \in LocalKeyspace(p)}
    BY DEF NamesShape
  <1>2. IsConjunction(s)
    BY <1>1, ConjunctionFragment DEF NamesKeywords
  <1>3. \A p \in AndParts(s) : HasKeywords(p)
    BY AndPartFacts
  <1>4. ASSUME NEW p \in AndParts(s) PROVE p.min = None /\ p.max = None
    <2>1. Keywords(p) \subseteq NamesKeywords
      BY <1>1, FragmentFacts
    <2>2. "minProperties" \notin Keywords(p) /\ "maxProperties" \notin Keywords(p)
      BY <2>1 DEF NamesKeywords
    <2> QED BY <2>2, KeywordFacts
  <1> HIDE DEF a
  <1>5. ASSUME NEW v \in Instances, ~NamesWithValues(s), v.object, a.objects,
               a.required \subseteq DOMAIN v.values, DOMAIN v.values \subseteq a.keyspace
        PROVE  Holds(s, v)
    <2>1. Cardinality(DOMAIN v.values) \in Nat /\ v.values \in [DOMAIN v.values -> Values]
      BY <1>5, ValueFacts
    <2>2. ASSUME NEW p \in AndParts(s), NEW n \in DOMAIN v.values
          PROVE  /\ p.names # None => n \in p.names
                 /\ p.additional = FalseValue => n \in ClosedNames(p)
      <3>1. n \in LocalKeyspace(p)
        BY <1>1, <1>5
      <3> QED BY <3>1 DEF LocalKeyspace
    <2>3. ASSUME NEW p \in AndParts(s), NEW n \in DOMAIN v.values, NEW i \in SchemasFor(p, n)
          PROVE  v.values[n] \in i
      <3>1. CASE n \in DOMAIN p.props /\ i = p.props[n]
        <4>1. ~ConstrainsValues(p)
          BY <1>5 DEF NamesWithValues
        <4> QED BY <2>1, <3>1, <4>1 DEF ConstrainsValues, TrueValue
      <3>2. CASE \E t \in DOMAIN p.patterns : n \in t /\ i = p.patterns[t]
        <4>1. \A t \in DOMAIN p.patterns : p.patterns[t] = TrueValue
          BY <1>5 DEF NamesWithValues
        <4> QED BY <2>1, <3>2, <4>1 DEF TrueValue
      <3>3. CASE /\ p.additional # None /\ n \notin DOMAIN p.props /\ ~MatchesPattern(p, n)
                 /\ i = p.additional
        <4>1. n \notin ClosedNames(p)
          BY <3>3 DEF ClosedNames, MatchesPattern
        <4>2. i = TrueValue
          BY <1>1, <2>2, <3>3, <4>1
        <4> QED BY <2>1, <4>2 DEF TrueValue
      <3> QED BY <3>1, <3>2, <3>3, SchemasForFacts
    <2>4. ASSUME NEW p \in AndParts(s) PROVE PartHolds(p, v)
      <3>1. AcceptsObjects(p) /\ p.required \subseteq DOMAIN v.values
        BY <1>1, <1>5
      <3>2. LeastProperties(p) = 0
        BY <1>4 DEF LeastProperties
      <3> QED BY <1>4, <2>1, <2>2, <2>3, <3>1, <3>2 DEF PartHolds
    <2> QED BY <1>2, <1>5, <2>4, ObjectsHold
  <1> QED BY <1>1, <1>2, <1>5 DEF a

(* The key rule: one part, whose terms say all there is to say of values.  *)
LEMMA KeysSuffice ==
    ASSUME NEW s, IsSchema(s), KeyValues(s)
    PROVE  /\ IsConjunction(s) /\ AndParts(s) = {s}
           /\ \A v \in Instances :
                /\ v.object /\ AcceptsObjects(s) /\ s.required \subseteq DOMAIN v.values
                /\ Cardinality(DOMAIN v.values) >= LeastProperties(s)
                /\ s.max # None => Cardinality(DOMAIN v.values) <= s.max
                /\ \A n \in DOMAIN v.values : v.values[n] \in Meaning(KeyTerm(s, n))
                => Holds(s, v)
           /\ ~ConstrainsKeyValues(s) =>
                \A n \in Names : AllowsKey(s, n) => Values \subseteq Meaning(KeyTerm(s, n))
  <1>1. s.allOf = <<>>
    <2>1. "allOf" \notin Keywords(s)
      BY DEF KeyValues, KeyValueKeywords
    <2> QED BY <2>1, KeywordFacts
  <1>2. AndParts(s) = {s} /\ AllIn(s, KeyValueKeywords)
    BY <1>1 DEF AndParts, ToSet, AllIn, KeyValues
  <1>3. IsConjunction(s)
    BY <1>2, ConjunctionFragment DEF KeyValueKeywords
  <1>4. ASSUME NEW v \in Instances, v.object, AcceptsObjects(s), s.required \subseteq DOMAIN v.values,
               Cardinality(DOMAIN v.values) >= LeastProperties(s),
               s.max # None => Cardinality(DOMAIN v.values) <= s.max,
               \A n \in DOMAIN v.values : v.values[n] \in Meaning(KeyTerm(s, n))
        PROVE  Holds(s, v)
    <2>1. ASSUME NEW n \in DOMAIN v.values
          PROVE  AllowsKey(s, n) /\ \A i \in SchemasFor(s, n) : v.values[n] \in i
      <3>1. v.values[n] \in Meaning(KeyTerm(s, n))
        BY <1>4
      <3>2. AllowsKey(s, n)
        BY <3>1 DEF KeyTerm, Meaning, FalseValue
      <3> QED BY <3>1, <3>2, ConjunctionMeans DEF KeyTerm
    <2>2. PartHolds(s, v)
      BY <1>4, <2>1 DEF PartHolds, AllowsKey
    <2> QED BY <1>2, <1>3, <1>4, <2>2, ObjectsHold
  <1>5. ASSUME ~ConstrainsKeyValues(s), NEW n \in Names, AllowsKey(s, n), NEW x \in Values
        PROVE  x \in Meaning(KeyTerm(s, n))
    <2>1. ASSUME NEW i \in SchemasFor(s, n) PROVE x \in i
      <3>1. CASE n \in DOMAIN s.props /\ i = s.props[n]
        BY <1>5, <3>1 DEF ConstrainsKeyValues, ConstrainsValues, TrueValue
      <3>2. CASE \E t \in DOMAIN s.patterns : n \in t /\ i = s.patterns[t]
        BY <1>5, <3>2 DEF ConstrainsKeyValues, TrueValue
      <3>3. CASE s.additional # None /\ i = s.additional
        <4>1. Conjunction({i}) = {}
          BY <1>5, <3>3 DEF ConstrainsKeyValues, IsTrue, AdditionalTerm
        <4> QED BY <1>5, <4>1 DEF Conjunction, TrueValue
      <3> QED BY <3>1, <3>2, <3>3, SchemasForFacts
    <2> QED BY <1>5, <2>1, ConjunctionMeans DEF KeyTerm
  <1> QED BY <1>2, <1>3, <1>4, <1>5

(* A closed object restricts the names with a property or a pattern.       *)
LEMMA ClosedTermThere ==
    ASSUME NEW s, IsSchema(s), NEW n
    PROVE  ClosedTerm(s, n) # None <=>
             \E p \in AndParts(s) : n \in DOMAIN p.props \/ MatchesPattern(p, n)
  <1> DEFINE P == AndParts(s)
             M == UNION {{p.patterns[t] : t \in {u \in DOMAIN p.patterns : n \in u}} : p \in P}
             property == PropertyTerm(P, n)
  <1>1. ClosedTerm(s, n) = IF property = None /\ M = {} THEN None
                           ELSE (IF property = None THEN {} ELSE property) \cup Conjunction(M)
    BY DEF ClosedTerm
  <1>2. \A p \in P : /\ \A t \in DOMAIN p.patterns : p.patterns[t] \in SUBSET Values
                     /\ n \in DOMAIN p.props => p.props[n] \in SUBSET Values
    BY AndPartFacts DEF HasKeywords, IsMap
  <1>3. M # {} <=> \E p \in P : MatchesPattern(p, n)
    BY DEF MatchesPattern
  <1>4. property # None <=> \E p \in P : n \in DOMAIN p.props
    BY AndPartFacts, PropertyTermFacts
  <1>5. Conjunction(M) \in SUBSET SUBSET Values
    BY <1>2 DEF Conjunction
  <1>6. property # None => property \in SUBSET SUBSET Values
    BY <1>2 DEF PropertyTerm, Conjunction
  <1> HIDE DEF M, property
  <1>7. (IF property = None THEN {} ELSE property) \cup Conjunction(M) # None
    <2>1. (IF property = None THEN {} ELSE property) \cup Conjunction(M) \in SUBSET SUBSET Values
      BY <1>5, <1>6
    <2> QED BY <2>1, NoTermAssumption
  <1> QED BY <1>1, <1>3, <1>4, <1>7

(* The closed rule: names, values and the counts of the parts are enough.  *)
LEMMA ClosedSuffice ==
    ASSUME NEW s, IsSchema(s), ClosedShape(s) # None
    PROVE  /\ IsConjunction(s) /\ \A p \in AndParts(s) : Keywords(p) \subseteq ClosedKeywords
           /\ \A v \in Instances :
                /\ v.object /\ ClosedShape(s).objects /\ ClosedShape(s).required \subseteq DOMAIN v.values
                /\ \A n \in DOMAIN v.values :
                     /\ KeyspaceAccepts(ClosedShape(s), n)
                     /\ ClosedTerm(s, n) # None => v.values[n] \in Meaning(ClosedTerm(s, n))
                /\ \A p \in AndParts(s) :
                     /\ Cardinality(DOMAIN v.values) >= LeastProperties(p)
                     /\ p.max # None => Cardinality(DOMAIN v.values) <= p.max
                => Holds(s, v)
  <1> DEFINE a == ClosedShape(s)
  <1>1. /\ AllIn(s, ClosedKeywords)
        /\ \A p \in AndParts(s) : p.additional \in {None, TrueValue, FalseValue}
    BY DEF ClosedShape
  <1>2. IsConjunction(s)
    BY <1>1, ConjunctionFragment DEF ClosedKeywords
  <1>3. \A p \in AndParts(s) : Keywords(p) \subseteq ClosedKeywords
    BY <1>1, FragmentFacts
  <1>4. \A p \in AndParts(s) : HasKeywords(p)
    BY AndPartFacts
  <1>5. /\ a.objects => \A p \in AndParts(s) : AcceptsObjects(p)
        /\ a.objects =>
             /\ a.required = UNION {p.required : p \in AndParts(s)}
             /\ \A n \in Names : KeyspaceAccepts(a, n) <=>
                         \A p \in AndParts(s) : p.additional = FalseValue => n \in ClosedNames(p)
    BY ClosedShapeFacts
  <1> HIDE DEF a
  <1>6. ASSUME NEW v \in Instances, v.object, a.objects, a.required \subseteq DOMAIN v.values,
               \A n \in DOMAIN v.values :
                     /\ KeyspaceAccepts(a, n)
                     /\ ClosedTerm(s, n) # None => v.values[n] \in Meaning(ClosedTerm(s, n)),
               \A p \in AndParts(s) :
                     /\ Cardinality(DOMAIN v.values) >= LeastProperties(p)
                     /\ p.max # None => Cardinality(DOMAIN v.values) <= p.max
        PROVE  Holds(s, v)
    <2>1. v.values \in [DOMAIN v.values -> Values] /\ DOMAIN v.values \subseteq Names
      BY <1>6, ValueFacts
    <2>2. ASSUME NEW p \in AndParts(s), NEW n \in DOMAIN v.values, NEW i \in SchemasFor(p, n)
          PROVE  v.values[n] \in i
      <3>1. ASSUME ClosedTerm(s, n) # None
            PROVE  /\ n \in DOMAIN p.props => v.values[n] \in p.props[n]
                   /\ \A t \in DOMAIN p.patterns : n \in t => v.values[n] \in p.patterns[t]
        <4>1. v.values[n] \in Meaning(ClosedTerm(s, n)) /\ v.values[n] \in Values
          BY <1>6, <2>1, <3>1
        <4> QED BY <1>4, <3>1, <4>1, ClosedTermFacts
      <3>2. CASE n \in DOMAIN p.props /\ i = p.props[n]
        <4>1. ClosedTerm(s, n) # None
          BY <3>2, ClosedTermThere
        <4> QED BY <3>1, <3>2, <4>1
      <3>3. CASE \E t \in DOMAIN p.patterns : n \in t /\ i = p.patterns[t]
        <4>1. ClosedTerm(s, n) # None
          BY <3>3, ClosedTermThere DEF MatchesPattern
        <4> QED BY <3>1, <3>3, <4>1
      <3>4. CASE /\ p.additional # None /\ n \notin DOMAIN p.props /\ ~MatchesPattern(p, n)
                 /\ i = p.additional
        <4>1. n \notin ClosedNames(p)
          BY <3>4 DEF ClosedNames, MatchesPattern
        <4>2. i = TrueValue
          BY <1>1, <1>5, <1>6, <2>1, <3>4, <4>1
        <4> QED BY <2>1, <4>2 DEF TrueValue
      <3> QED BY <3>2, <3>3, <3>4, SchemasForFacts
    <2>3. ASSUME NEW p \in AndParts(s) PROVE PartHolds(p, v)
      <3>1. AcceptsObjects(p) /\ p.required \subseteq DOMAIN v.values
        BY <1>5, <1>6
      <3>2. p.names = None
        <4>1. "propertyNames" \notin Keywords(p)
          BY <1>3 DEF ClosedKeywords
        <4> QED BY <4>1, KeywordFacts
      <3> QED BY <1>6, <2>2, <3>1, <3>2 DEF PartHolds
    <2> QED BY <1>2, <1>6, <2>3, ObjectsHold
  <1> QED BY <1>2, <1>3, <1>6 DEF a

-----------------------------------------------------------------------------
(* The counts of a part that accepts objects.                              *)
LEMMA BranchCountsFacts ==
    ASSUME NEW b, HasKeywords(b), AcceptsObjects(b), BranchCounts(b) # None
    PROVE  \A n \in Nat : Counts(BranchCounts(b).intervals, n) =>
             LeastProperties(b) <= n /\ (b.max # None => n <= b.max)
  <1> DEFINE i == Interval(LowOf(b), HighOf(b))
             o == AcceptsOthers(b)
             e == CountsOnly(b)
  <1>1. BranchCounts(b) = Shape({i}, o, e)
    BY DEF BranchCounts, LocalCounts, LowOf, HighOf, CountsOnly
  <1>2. i \in Intervals /\ o \in BOOLEAN /\ e \in BOOLEAN
    BY CountTypes DEF AcceptsOthers, CountsOnly
  <1>3. IsFiniteSet({i}) /\ {i} \in SUBSET Intervals
    BY <1>2, FS_Singleton
  <1>4. /\ LeastProperties(b) \in Nat /\ (b.max # None => b.max \in Nat)
        /\ Cardinality(b.required) \in Nat /\ Cardinality(DOMAIN b.props) \in Nat
        /\ LowOf(b) \in Nat
    BY CountTypes
  <1>5. LeastProperties(b) <= LowOf(b)
    <2> DEFINE m == Cardinality(b.required)
    <2>1. m \in Nat /\ LowOf(b) = Larger(LeastProperties(b), m)
      BY <1>4 DEF LowOf
    <2> HIDE DEF m
    <2> QED BY <1>4, <2>1 DEF Larger
  <1>6. b.max # None => HighOf(b) # None /\ HighOf(b) \in Nat /\ HighOf(b) <= b.max
    <2> DEFINE m == Cardinality(DOMAIN b.props)
    <2>1. m \in Nat /\ m # None /\ (HighOf(b) = b.max \/ HighOf(b) = LowerBound(b.max, m))
      BY <1>4, NoneAssumption DEF HighOf
    <2> HIDE DEF m
    <2> QED BY <1>4, <2>1, NoneAssumption DEF LowerBound
  <1> HIDE DEF o, e
  <1>7. \A c \in Nat \cup {None} :
          Admits(Shape({i}, o, e), c) <=> IF c = None THEN o ELSE \E j \in {i} : InInterval(j, c)
    BY <1>2, <1>3, ShapeFacts
  <1>8. ASSUME NEW n \in Nat, Counts(BranchCounts(b).intervals, n)
        PROVE  InInterval(i, n)
    <2>1. n # None
      BY NoneAssumption
    <2> HIDE DEF i
    <2> QED BY <1>1, <1>7, <1>8, <2>1 DEF Admits
  <1>9. \A n : InInterval(i, n) => LowOf(b) <= n /\ (HighOf(b) # None => n <= HighOf(b))
    BY DEF InInterval, UpTo, Interval
  <1> HIDE DEF i
  <1> QED BY <1>4, <1>5, <1>6, <1>8, <1>9

(* A conjunction has a shape when each part has, and the shape counts what *)
(* all of their shapes do.                                                 *)
LEMMA ConjunctionShape ==
    ASSUME NEW s, IsSchema(s), IsConjunction(s)
    PROVE  /\ CountShape(s) # None <=> \A p \in AndParts(s) : BranchCounts(p) # None
           /\ CountShape(s) # None =>
                \A n \in Nat : Counts(CountShape(s).intervals, n) =>
                  \A p \in AndParts(s) : Counts(BranchCounts(p).intervals, n)
  <1> DEFINE N == Len(s.allOf)
             all == [k \in DOMAIN s.allOf |-> BranchCounts(s.allOf[k])]
             base == FoldLeft(MeetShapes, BranchCounts(s), all)
             none == [k \in DOMAIN s.negated |-> Complement(BranchCounts(s.negated[k]))]
             shape == CountShape(s)
  <1>1. shape = FoldLeft(MeetShapes, base, none)
    BY DEF CountShape, IsConjunction
  <1>2. /\ N \in Nat /\ DOMAIN s.allOf = 1 .. N
        /\ HasKeywords(s) /\ \A k \in 1 .. N : HasKeywords(s.allOf[k])
    BY BranchFacts DEF IsSchema
  <1>3. AndParts(s) = {s} \cup {s.allOf[k] : k \in 1 .. N}
    BY <1>2 DEF AndParts, ToSet
  <1>4. all = [k \in 1 .. N |-> all[k]] /\ \A k \in 1 .. N : all[k] = BranchCounts(s.allOf[k])
    BY <1>2
  <1>5. none = [k \in 1 .. 0 |-> none[k]]
    <2>1. DOMAIN s.negated = {} /\ 1 .. 0 = {}
      BY DEF IsConjunction
    <2> QED BY <2>1
  <1> HIDE DEF N, all, none
  <1>6. \A b : HasKeywords(b) => BranchCounts(b) \in GoodShapes
    BY BranchCountsBound, GoodShapesFacts
  <1>7. BranchCounts(s) \in GoodShapes /\ \A k \in 1 .. N : all[k] \in GoodShapes
    BY <1>2, <1>4, <1>6
  <1>8. /\ base \in GoodShapes
        /\ base # None <=> BranchCounts(s) # None /\ \A k \in 1 .. N : all[k] # None
        /\ base # None =>
             \A n \in Nat : Counts(base.intervals, n) =>
               Counts(BranchCounts(s).intervals, n) /\ \A k \in 1 .. N : Counts(all[k].intervals, n)
    BY <1>2, <1>4, <1>7, MeetAllCounts
  <1> HIDE DEF base, shape
  <1>9. /\ shape # None <=> base # None
        /\ shape # None => \A n \in Nat : Counts(shape.intervals, n) => Counts(base.intervals, n)
    <2>1. \A k \in 1 .. 0 : none[k] \in GoodShapes /\ none[k] # None
      OBVIOUS
    <2> QED BY <1>1, <1>5, <1>8, <2>1, MeetAllCounts
  <1> QED BY <1>3, <1>4, <1>8, <1>9 DEF shape

(* The keywords the count shapes read give a shape, never none.            *)
LEMMA LocalCountsThere ==
    ASSUME NEW b, HasKeywords(b)
    PROVE  LocalCounts(b) # None
  <1> DEFINE i == Interval(LowOf(b), HighOf(b))
             o == AcceptsOthers(b)
             e == CountsOnly(b)
  <1>1. LocalCounts(b) = IF AcceptsObjects(b) THEN Shape({i}, o, e) ELSE Shape({}, o, TRUE)
    BY DEF LocalCounts, LowOf, HighOf, CountsOnly
  <1>2. i \in Intervals /\ o \in BOOLEAN /\ e \in BOOLEAN
    BY CountTypes DEF AcceptsOthers, CountsOnly
  <1>3. IsFiniteSet({i}) /\ {i} \in SUBSET Intervals
    BY <1>2, FS_Singleton
  <1>4. IsFiniteSet({}) /\ {} \in SUBSET Intervals
    BY FS_EmptySet
  <1> HIDE DEF i, o, e
  <1>5. Shape({i}, o, e) # None
    BY <1>2, <1>3, ShapeFacts
  <1>6. Shape({}, o, TRUE) # None
    BY <1>2, <1>4, ShapeFacts
  <1> QED BY <1>1, <1>5, <1>6

(* A conjunction of the counting keywords has a count shape.               *)
LEMMA CountShapeThere ==
    ASSUME NEW s, IsSchema(s), IsConjunction(s), AllIn(s, CountKeywords)
    PROVE  CountShape(s) # None
  <1>1. \A p \in AndParts(s) : Keywords(p) \subseteq CountKeywords
    BY FragmentFacts
  <1>2. \A p \in AndParts(s) : HasKeywords(p)
    BY AndPartFacts
  <1>3. \A p \in AndParts(s) : BranchCounts(p) # None
    BY <1>1, <1>2, LocalCountsThere DEF BranchCounts
  <1> QED BY <1>3, ConjunctionShape

(* What a conjunction's shape counts, each of its parts allows.            *)
LEMMA ConjunctionCounts ==
    ASSUME NEW s, IsSchema(s), IsConjunction(s), CountShape(s) # None,
           \A p \in AndParts(s) : AcceptsObjects(p)
    PROVE  /\ CountShape(s) \in Shapes /\ Apart(CountShape(s).intervals)
           /\ \A n \in Nat : Counts(CountShape(s).intervals, n) =>
                \A p \in AndParts(s) : LeastProperties(p) <= n /\ (p.max # None => n <= p.max)
  <1>1. Bounds(CountShape(s), Accepted(s), Instances, SizeOf)
    BY CountShapeBounds
  <1>2. CountShape(s) \in Shapes /\ Apart(CountShape(s).intervals)
    BY <1>1 DEF Bounds
  <1>3. \A p \in AndParts(s) : HasKeywords(p)
    BY AndPartFacts
  <1>4. ASSUME NEW n \in Nat, Counts(CountShape(s).intervals, n), NEW p \in AndParts(s)
        PROVE  LeastProperties(p) <= n /\ (p.max # None => n <= p.max)
    <2>1. HasKeywords(p) /\ BranchCounts(p) # None /\ Counts(BranchCounts(p).intervals, n)
      BY <1>3, <1>4, ConjunctionShape
    <2> QED BY <2>1, BranchCountsFacts
  <1> QED BY <1>2, <1>4

(* Where no count of the left is below the least of the right, nor above   *)
(* its greatest, the left's objects have as many properties as the parts   *)
(* of the right allow.                                                     *)
LEMMA CountsKept ==
    ASSUME NEW l, NEW r, IsSchema(l), IsSchema(r), IsConjunction(r),
           \A p \in AndParts(r) : AcceptsObjects(p),
           CountShape(r) # None, CountShape(r).intervals # <<>>,
           CountLower(CountShape(r)) <= CountLower(CountShape(l)),
           NEW v \in Instances, v.object, Holds(l, v), NEW p \in AndParts(r)
    PROVE  /\ Cardinality(DOMAIN v.values) >= LeastProperties(p)
           /\ \/ CountUpper(CountShape(r)) = None
              \/ CountUpper(CountShape(l)) # None /\ CountUpper(CountShape(l)) <= CountUpper(CountShape(r))
              => (p.max # None => Cardinality(DOMAIN v.values) <= p.max)
  <1> DEFINE a == CountShape(l)
             b == CountShape(r)
             n == Cardinality(DOMAIN v.values)
  <1>1. n \in Nat /\ SizeOf[v] = n /\ n # None
    BY ValueFacts
  <1>2. b \in Shapes /\ Apart(b.intervals)
        /\ \A m \in Nat : Counts(b.intervals, m) => LeastProperties(p) <= m /\ (p.max # None => m <= p.max)
    BY ConjunctionCounts
  <1>3. LeastProperties(p) \in Nat /\ (p.max # None => p.max \in Nat)
    <2>1. HasKeywords(p)
      BY AndPartFacts
    <2> QED BY <2>1, CountTypes
  <1>4. a # None => /\ a \in Shapes /\ Apart(a.intervals) /\ Counts(a.intervals, n) /\ a.intervals # <<>>
    <2>1. Bounds(a, Accepted(l), Instances, SizeOf)
      BY CountShapeBounds
    <2>2. v \in Accepted(l)
      BY DEF Accepted
    <2>3. a # None => a \in Shapes /\ Apart(a.intervals) /\ Admits(a, n)
      BY <1>1, <2>1, <2>2 DEF Bounds
    <2> HIDE DEF a, n
    <2> QED BY <1>1, <2>3 DEF Admits, Counts
  <1>5. b # None /\ b.intervals # <<>>
    OBVIOUS
  <1>6. CountLower(b) <= CountLower(a)
    OBVIOUS
  <1>7. CountLower(b) = LeastCount(b) /\ CountUpper(b) = GreatestCount(b)
    BY <1>5 DEF CountLower, CountUpper
  <1> HIDE DEF a, b, n
  <1>8. /\ LeastCount(b) \in Nat /\ Counts(b.intervals, LeastCount(b))
        /\ GreatestCount(b) = None => \A i \in Nat : \E m \in Nat : i <= m /\ Counts(b.intervals, m)
        /\ GreatestCount(b) # None => GreatestCount(b) \in Nat /\ Counts(b.intervals, GreatestCount(b))
    BY <1>2, <1>5, EndsFacts
  <1>9. CountLower(a) \in Nat /\ CountLower(a) <= n
    <2>1. CASE a = None
      BY <1>1, <2>1 DEF CountLower
    <2>2. CASE a # None
      <3>1. LeastCount(a) \in Nat /\ LeastCount(a) <= n
        BY <1>1, <1>4, <2>2, EndsFacts
      <3> QED BY <2>2, <3>1 DEF CountLower
    <2> QED BY <2>1, <2>2
  <1>10. n >= LeastProperties(p)
    <2>1. LeastProperties(p) <= LeastCount(b)
      BY <1>2, <1>8
    <2> QED BY <1>1, <1>3, <1>6, <1>7, <1>8, <1>9, <2>1
  <1>11. ASSUME CountUpper(b) = None, p.max # None PROVE FALSE
    <2>1. p.max + 1 \in Nat
      BY <1>3, <1>11
    <2>2. PICK m \in Nat : p.max + 1 <= m /\ Counts(b.intervals, m)
      BY <1>7, <1>8, <1>11, <2>1
    <2>3. m <= p.max
      BY <1>2, <1>11, <2>2
    <2> QED BY <1>3, <1>11, <2>2, <2>3
  <1>12. ASSUME CountUpper(b) # None, CountUpper(a) # None, CountUpper(a) <= CountUpper(b), p.max # None
         PROVE  n <= p.max
    <2>1. a # None
      BY <1>12 DEF CountUpper
    <2>2. CountUpper(a) = GreatestCount(a) /\ GreatestCount(a) \in Nat /\ n <= GreatestCount(a)
      <3>1. CountUpper(a) = GreatestCount(a)
        BY <1>4, <2>1 DEF CountUpper
      <3> QED BY <1>1, <1>4, <1>12, <2>1, <3>1, EndsFacts
    <2>3. GreatestCount(b) \in Nat /\ GreatestCount(b) <= p.max
      BY <1>2, <1>7, <1>8, <1>12
    <2> QED BY <1>1, <1>3, <1>7, <1>12, <2>2, <2>3
  <1> QED BY <1>10, <1>11, <1>12 DEF a, b, n

-----------------------------------------------------------------------------
(* Sets of names that differ in names which are not mentioned.             *)
Alike(p, q, mentioned) ==
    p \cap mentioned = q \cap mentioned /\ (p \subseteq mentioned <=> q \subseteq mentioned)

HasSize(b, n) == n >= LeastProperties(b) /\ (b.max # None => n <= b.max)

(* A part of a schema tells them apart by their number alone.              *)
LEMMA LocallyAlike ==
    ASSUME NEW b, NEW p, NEW q, NEW mentioned, LocalNames(b) \subseteq mentioned,
           Alike(p, q, mentioned), LocallyPresent(b, TRUE, p), HasSize(b, Cardinality(q))
    PROVE  LocallyPresent(b, TRUE, q)
  <1>1. /\ AcceptsObjects(b) /\ b.required \subseteq p
        /\ b.additional = FalseValue => p \subseteq DOMAIN b.props
        /\ \A trigger \in DOMAIN b.needs \cap p : b.needs[trigger] \subseteq p
    BY DEF LocallyPresent
  <1>2. /\ b.required \subseteq mentioned /\ DOMAIN b.props \subseteq mentioned
        /\ DOMAIN b.needs \subseteq mentioned
        /\ \A trigger \in DOMAIN b.needs : b.needs[trigger] \subseteq mentioned
    BY DEF LocalNames
  <1>3. \A n \in mentioned : n \in p <=> n \in q
    BY DEF Alike
  <1>4. b.required \subseteq q
    BY <1>1, <1>2, <1>3
  <1>5. b.additional = FalseValue => q \subseteq DOMAIN b.props
    BY <1>1, <1>2, <1>3 DEF Alike
  <1>6. \A trigger \in DOMAIN b.needs \cap q : b.needs[trigger] \subseteq q
    BY <1>1, <1>2, <1>3
  <1> QED BY <1>1, <1>4, <1>5, <1>6 DEF LocallyPresent, HasSize

(* A schema accepts both, if its parts allow both numbers.                 *)
LEMMA AcceptsAlike ==
    ASSUME NEW s, IsSchema(s), NEW mentioned, PresenceNamesOf(s) \subseteq mentioned,
           NEW p, NEW q, Alike(p, q, mentioned), AcceptsPresent(s, TRUE, p),
           \A b \in Parts(s) \ ToSet(s.negated) : HasSize(b, Cardinality(p)) => HasSize(b, Cardinality(q)),
           \A b \in ToSet(s.negated) : HasSize(b, Cardinality(q)) => HasSize(b, Cardinality(p)),
           s.oneOf = <<>> \/ Cardinality(p) = Cardinality(q)
    PROVE  AcceptsPresent(s, TRUE, q)
  <1> DEFINE In(b) == LocallyPresent(b, TRUE, p)
             Out(b) == LocallyPresent(b, TRUE, q)
  <1>1. \A b \in Parts(s) : LocalNames(b) \subseteq mentioned
    BY DEF PresenceNamesOf
  <1>2. \A b : /\ In(b) => HasSize(b, Cardinality(p))
               /\ Out(b) => HasSize(b, Cardinality(q))
    BY DEF LocallyPresent, HasSize
  <1>3. Alike(q, p, mentioned)
    BY DEF Alike
  <1>4. \A b \in Parts(s) : /\ In(b) /\ HasSize(b, Cardinality(q)) => Out(b)
                            /\ Out(b) /\ HasSize(b, Cardinality(p)) => In(b)
    BY <1>1, <1>3, LocallyAlike
  <1>5. /\ s \in Parts(s)
        /\ \A r \in {s.allOf, s.anyOf, s.oneOf, s.negated} : \A k \in DOMAIN r : r[k] \in Parts(s)
        /\ \A k \in DOMAIN s.negated : s.negated[k] \in ToSet(s.negated)
        /\ \A trigger \in DOMAIN s.depends : s.depends[trigger] \in Parts(s)
    BY PartFacts
  <1>6. /\ In(s)
        /\ \A k \in DOMAIN s.allOf : In(s.allOf[k])
        /\ s.anyOf # <<>> => \E k \in DOMAIN s.anyOf : In(s.anyOf[k])
        /\ s.oneOf # <<>> => Cardinality({k \in DOMAIN s.oneOf : In(s.oneOf[k])}) = 1
        /\ \A k \in DOMAIN s.negated : ~In(s.negated[k])
        /\ \A trigger \in DOMAIN s.depends \cap p : In(s.depends[trigger])
    BY PresentFacts
  <1>7. \A trigger \in DOMAIN s.depends : trigger \in p <=> trigger \in q
    BY DEF PresenceNamesOf, Alike
  <1> HIDE DEF In, Out
  <1>8. \A b \in ToSet(s.negated) : ~In(b)
    BY <1>6 DEF ToSet
  <1>9. \A b \in Parts(s) : In(b) => Out(b)
    BY <1>2, <1>4, <1>8
  <1>10. \A k \in DOMAIN s.negated : ~Out(s.negated[k])
    BY <1>2, <1>4, <1>5, <1>6
  <1>11. s.oneOf # <<>> => Cardinality({k \in DOMAIN s.oneOf : Out(s.oneOf[k])}) = 1
    <2>1. SUFFICES ASSUME s.oneOf # <<>>
                   PROVE  Cardinality({k \in DOMAIN s.oneOf : Out(s.oneOf[k])}) = 1
      OBVIOUS
    <2>2. \A b \in Parts(s) : In(b) <=> Out(b)
      BY <1>2, <1>4, <2>1
    <2>3. {k \in DOMAIN s.oneOf : Out(s.oneOf[k])} = {k \in DOMAIN s.oneOf : In(s.oneOf[k])}
      BY <1>5, <2>2
    <2> QED BY <1>6, <2>1, <2>3
  <1>12. /\ Out(s)
         /\ \A k \in DOMAIN s.allOf : Out(s.allOf[k])
         /\ s.anyOf # <<>> => \E k \in DOMAIN s.anyOf : Out(s.anyOf[k])
         /\ \A trigger \in DOMAIN s.depends \cap q : Out(s.depends[trigger])
    BY <1>5, <1>6, <1>7, <1>9
  <1>13. AcceptsPresent(s, TRUE, q) <=>
           /\ Out(s)
           /\ \A k \in DOMAIN s.allOf : Out(s.allOf[k])
           /\ s.anyOf # <<>> => \E k \in DOMAIN s.anyOf : Out(s.anyOf[k])
           /\ s.oneOf # <<>> => Cardinality({k \in DOMAIN s.oneOf : Out(s.oneOf[k])}) = 1
           /\ \A k \in DOMAIN s.negated : ~Out(s.negated[k])
           /\ \A trigger \in DOMAIN s.depends \cap q : Out(s.depends[trigger])
    BY PresentFacts DEF Out
  <1> QED BY <1>10, <1>11, <1>12, <1>13

(* A set has a subset of each smaller size.                                *)
LEMMA SubsetOfSize ==
    ASSUME NEW F, NEW m \in Nat, ~IsFiniteSet(F) \/ m <= Cardinality(F)
    PROVE  \E G \in SUBSET F : IsFiniteSet(G) /\ Cardinality(G) = m
  <1> DEFINE K == {k \in 0 .. m : \E G \in SUBSET F : IsFiniteSet(G) /\ Cardinality(G) = k}
  <1>1. 0 \in K
    <2>1. IsFiniteSet({}) /\ Cardinality({}) = 0
      BY FS_EmptySet
    <2>2. {} \in SUBSET F /\ 0 \in 0 .. m
      OBVIOUS
    <2> QED BY <2>1, <2>2
  <1>2. ASSUME NEW k \in 0 .. m - 1, k \in K
        PROVE  k + 1 \in K
    <2>1. PICK G \in SUBSET F : IsFiniteSet(G) /\ Cardinality(G) = k
      BY <1>2
    <2>2. PICK x \in F : x \notin G
      <3>1. G # F
        BY <1>2, <2>1
      <3> QED BY <3>1
    <2>3. IsFiniteSet(G \cup {x}) /\ Cardinality(G \cup {x}) = k + 1
      BY <2>1, <2>2, FS_AddElement
    <2>4. G \cup {x} \in SUBSET F /\ k + 1 \in 0 .. m
      OBVIOUS
    <2> QED BY <2>3, <2>4
  <1> HIDE DEF K
  <1>3. \A k \in 0 .. m : k \in K
    BY <1>1, <1>2, HoldsUpTo
  <1>4. m \in K
    <2>1. m \in 0 .. m
      OBVIOUS
    <2> QED BY <1>3, <2>1
  <1> QED BY <1>4 DEF K

(* Names that are not mentioned can be replaced by as many of a set F, or  *)
(* by fewer.                                                               *)
LEMMA AlikeNames ==
    ASSUME NEW p, IsFiniteSet(p), NEW mentioned, NEW F, F \cap mentioned = {},
           NEW k \in Nat, k <= Cardinality(p \ mentioned), k = 0 <=> p \subseteq mentioned,
           ~IsFiniteSet(F) \/ k <= Cardinality(F)
    PROVE  \E q \in SUBSET (mentioned \cup F) :
             /\ Alike(p, q, mentioned) /\ Cardinality(q) \in Nat /\ Cardinality(q) <= Cardinality(p)
             /\ k = Cardinality(p \ mentioned) => Cardinality(q) = Cardinality(p)
  <1>1. PICK G \in SUBSET F : IsFiniteSet(G) /\ Cardinality(G) = k
    BY SubsetOfSize
  <1> DEFINE old == p \cap mentioned
             q == old \cup G
  <1>2. /\ IsFiniteSet(old) /\ IsFiniteSet(p \ mentioned)
        /\ Cardinality(p \ mentioned) = Cardinality(p) - Cardinality(old)
    BY FS_Intersection, FS_Difference
  <1>3. Cardinality(old) \in Nat /\ Cardinality(p) \in Nat /\ Cardinality(p \ mentioned) \in Nat
    BY <1>2, FS_CardinalityType
  <1>4. old \cap G = {}
    OBVIOUS
  <1>5. IsFiniteSet(old \cup G)
        /\ Cardinality(old \cup G) = Cardinality(old) + Cardinality(G) - Cardinality(old \cap G)
    BY <1>1, <1>2, FS_Union
  <1>6. Cardinality(old \cap G) = 0
    BY <1>4, FS_EmptySet
  <1>7. Cardinality(q) = Cardinality(old) + k
    BY <1>1, <1>3, <1>5, <1>6
  <1>8. Alike(p, q, mentioned)
    <2>1. p \cap mentioned = q \cap mentioned
      OBVIOUS
    <2>2. G = {} <=> k = 0
      BY <1>1, FS_EmptySet
    <2>3. q \subseteq mentioned <=> G = {}
      OBVIOUS
    <2> QED BY <2>1, <2>2, <2>3 DEF Alike
  <1>9. q \in SUBSET (mentioned \cup F)
    OBVIOUS
  <1> HIDE DEF old, q
  <1>10. /\ Cardinality(q) \in Nat /\ Cardinality(q) <= Cardinality(p)
         /\ k = Cardinality(p \ mentioned) => Cardinality(q) = Cardinality(p)
    BY <1>2, <1>3, <1>7
  <1> QED BY <1>8, <1>9, <1>10

-----------------------------------------------------------------------------
(* Results that prove nothing.                                             *)
IsOutcome(o) ==
    /\ o.status \in {"unsupported", "exhausted", "true", "false", "certified"}
    /\ (o.witness # None) = (o.status = "false")
NoProof(o) == IsOutcome(o) /\ o.status # "true"

(* Which results prove: one only.                                          *)
LEMMA OutcomeFacts ==
    /\ NoProof(Unsupported) /\ NoProof(Exhausted) /\ NoProof(Certified)
    /\ IsOutcome(ProvedTrue) /\ ProvedTrue.status = "true"
    /\ \A v : NoProof(Validated(v))
    /\ ~NoProof(ProvedTrue) /\ Ask.status = "ask"
    /\ \A others \in BOOLEAN : IncludedUnlessOthers(others) = IF others THEN Unsupported ELSE ProvedTrue
  BY DEF NoProof, IsOutcome, Unsupported, Exhausted, Certified, ProvedTrue, Validated, Result, Ask,
         IncludedUnlessOthers

Included == Accepted(lhs) \subseteq Accepted(rhs)

(* The count rule proves what its two shapes show.                         *)
LEMMA CountResultsFacts ==
    ASSUME NEW o \in CountResults
    PROVE  \/ NoProof(o)
           \/ /\ o = ProvedTrue /\ None \notin {facts.lhs.counts, facts.rhs.counts}
              /\ ShapeWithin(facts.lhs.counts, facts.rhs.counts)
              /\ ~facts.lhs.counts.others /\ facts.rhs.counts.exact
  <1> DEFINE l == facts.lhs.counts
             r == facts.rhs.counts
             empty == Validated(ObjectOf(NoValues))
             ByCount(n) == IF CountWitness(n) # None THEN Validated(CountWitness(n))
                           ELSE Validated(CountWitness(CountNotIn(l, r)))
             counted == {ByCount(n) : n \in UncoveredCounts(l, r)}
  <1>1. o \in IF LeastProperties(rhs) > 0 /\ empty # Unsupported THEN {empty}
              ELSE IF None \in {l, r} THEN {Unsupported}
              ELSE IF l.others /\ ~r.others THEN {Validated(NotAnObject)}
              ELSE IF ~Affords(1) THEN {Exhausted}
              ELSE IF ~ShapeWithin(l, r) THEN counted
              ELSE IF ~l.others /\ r.exact THEN {ProvedTrue}
              ELSE {Unsupported}
    BY DEF CountResults
  <1>2. \A n : NoProof(ByCount(n))
    BY OutcomeFacts
  <1>3. \A c \in counted : NoProof(c)
    BY <1>2
  <1> HIDE DEF counted, empty
  <1> QED BY <1>1, <1>3, OutcomeFacts DEF empty

(* The count rule proves only inclusions.                                  *)
LEMMA CountRuleSound ==
    ASSUME FactsInv, NEW o \in CountResults
    PROVE  IsOutcome(o) /\ (o.status = "true" => Included)
  <1>1. SUFFICES ASSUME o = ProvedTrue PROVE Included
    BY CountResultsFacts, OutcomeFacts DEF NoProof
  <1> DEFINE l == CountShape(lhs)
             r == CountShape(rhs)
  <1>2. l # None /\ r # None /\ ShapeWithin(l, r) /\ ~l.others /\ r.exact
    <2>1. ~NoProof(o)
      BY <1>1, OutcomeFacts
    <2>2. facts.lhs.counts = l /\ facts.rhs.counts = r
      BY FactsOfSchemas DEF FactsOf
    <2> QED BY <2>1, <2>2, CountResultsFacts
  <1>3. Bounds(l, Accepted(lhs), Instances, SizeOf) /\ Bounds(r, Accepted(rhs), Instances, SizeOf)
    BY FactsOfSchemas, CountShapeBounds
  <1> HIDE DEF l, r
  <1>4. l \in Shapes /\ r \in Shapes
    BY <1>2, <1>3 DEF Bounds
  <1>5. ASSUME NEW v \in Accepted(lhs)
        PROVE  v \in Accepted(rhs)
    <2>1. v \in Instances /\ Admits(l, SizeOf[v])
      BY <1>2, <1>3 DEF Bounds, Accepted
    <2>2. SizeOf[v] \in Nat /\ SizeOf[v] # None
      <3>1. v.object
        BY <1>2, <2>1, ValueFacts DEF Admits
      <3> QED BY <2>1, <3>1, ValueFacts
    <2>3. PICK k \in DOMAIN l.intervals : InInterval(l.intervals[k], SizeOf[v])
      BY <2>1, <2>2 DEF Admits, Counts
    <2>4. l.intervals \in Seq(Intervals) /\ r.intervals \in Seq(Intervals)
      BY <1>4 DEF Shapes
    <2>5. l.intervals[k] \in Intervals /\ CoveredBy(l.intervals[k], r.intervals)
      BY <1>2, <2>4 DEF ShapeWithin
    <2>6. Counts(r.intervals, SizeOf[v])
      BY <2>2, <2>3, <2>4, <2>5, CoveredByFacts
    <2>7. Admits(r, SizeOf[v])
      BY <2>2, <2>6 DEF Admits
    <2> QED BY <1>2, <1>3, <2>1, <2>7 DEF Bounds
  <1> QED BY <1>5 DEF Included

(* A question about values is proved only when the values are included.    *)
LEMMA ChildProofFacts ==
    ASSUME NEW l, NEW r
    PROVE  /\ IsOutcome(ChildProof(l, r))
           /\ ChildProof(l, r).status = "true" =>
                None \notin {l, r} /\ Meaning(l) \subseteq Meaning(r)
  <1> DEFINE other == (Meaning(l) \ Meaning(r)) \ {Null}
             x == CHOOSE y \in other : TRUE
  <1>1. ChildProof(l, r) =
          IF None \in {l, r} THEN Unsupported
          ELSE IF IsFalse(l) \/ IsTrue(r) \/ l = r THEN ProvedTrue
          ELSE IF (l \cup r) \cap query.draining # {} THEN Exhausted
          ELSE IF (l \cup r) \cap query.hard # {} THEN Unsupported
          ELSE IF Meaning(l) \subseteq Meaning(r) THEN ProvedTrue
          ELSE IF r \cap query.certified # {} THEN Certified
          ELSE IF other = {} THEN Unsupported ELSE Result("false", x)
    BY DEF ChildProof
  <1>2. IsFalse(l) \/ IsTrue(r) \/ l = r => Meaning(l) \subseteq Meaning(r)
    BY DEF IsFalse, IsTrue, FalseValue, Meaning
  <1>3. other # {} => IsOutcome(Result("false", x))
    <2>1. other # {} => x \in Values
      BY DEF Meaning
    <2> HIDE DEF x
    <2> QED BY <2>1, NoneIsNoValue DEF IsOutcome, Result
  <1> HIDE DEF other, x
  <1> QED BY <1>1, <1>2, <1>3, OutcomeFacts DEF NoProof, Result

(* The values rule: its plan, and what its obligations leave.              *)
LEMMA ValuesPlanFacts ==
    ASSUME FactsInv
    PROVE  LET l == ValuesShape(lhs)
               r == ValuesShape(rhs)
           IN  \/ NoProof(ValuesPlan)
               \/ /\ None \notin {l, r} /\ ~l.objects /\ ~l.others /\ ValuesPlan = ProvedTrue
               \/ /\ None \notin {l, r} /\ (l.others => r.others) /\ r.objects
                  /\ r.required \subseteq l.required /\ ValuesPlan = Ask
  <1> DEFINE l == ValuesShape(lhs)
             r == ValuesShape(rhs)
  <1>1. facts.lhs.values = l /\ facts.rhs.values = r
    BY FactsOfSchemas DEF FactsOf
  <1>2. ValuesPlan =
          IF None \in {l, r} THEN Unsupported
          ELSE IF l.others /\ ~r.others THEN Validated(NotAnObject)
          ELSE IF ~l.objects THEN IncludedUnlessOthers(l.others)
          ELSE IF ~r.objects \/ ~(r.required \subseteq l.required)
          THEN Validated(ValuesWitness(NoValues))
          ELSE Ask
    BY <1>1 DEF ValuesPlan
  <1>3. l # None => l.others \in BOOLEAN
    BY DEF ValuesShape
  <1> HIDE DEF l, r
  <1> QED BY <1>2, <1>3, OutcomeFacts DEF l, r

(* What an obligation claims.                                              *)
Settled(o) == None \notin {o.left, o.right} /\ Meaning(o.left) \subseteq Meaning(o.right)

(* The values rule proves only inclusions, and asks enough.                *)
LEMMA ValuesRuleSound ==
    ASSUME FactsInv
    PROVE  /\ ValuesPlan # Ask => IsOutcome(ValuesPlan) /\ (ValuesPlan.status = "true" => Included)
           /\ ValuesPlan = Ask /\ (\A o \in ValuesObligations : Settled(o)) => Included
  <1> DEFINE l == ValuesShape(lhs)
             r == ValuesShape(rhs)
  <1>1. IsSchema(lhs) /\ IsSchema(rhs)
    BY FactsOfSchemas
  <1>2. Ask # ProvedTrue /\ ~NoProof(Ask)
    BY OutcomeFacts DEF NoProof, IsOutcome, Ask, ProvedTrue, Result
  <1>3. CASE NoProof(ValuesPlan)
    BY <1>2, <1>3 DEF NoProof
  <1>4. CASE None \notin {l, r} /\ ~l.objects /\ ~l.others /\ ValuesPlan = ProvedTrue
    <2>1. ASSUME NEW v \in Accepted(lhs) PROVE FALSE
      <3>1. v \in Instances /\ Holds(lhs, v) /\ v.object \in BOOLEAN
        BY ValueFacts DEF Accepted
      <3>2. /\ v.object => \A p \in AndParts(lhs) : AcceptsObjects(p)
            /\ ~v.object => \A p \in AndParts(lhs) : AcceptsOthers(p)
        BY <1>1, <3>1, PartsNeed
      <3> QED BY <1>1, <1>4, <3>1, <3>2, ValuesSuffice
    <2> QED BY <1>2, <1>4, <2>1, OutcomeFacts DEF Included
  <1>5. CASE /\ None \notin {l, r} /\ (l.others => r.others) /\ r.objects
             /\ r.required \subseteq l.required /\ ValuesPlan = Ask
    <2>1. ASSUME \A o \in ValuesObligations : Settled(o),
                 NEW v \in Accepted(lhs)
          PROVE  v \in Accepted(rhs)
      <3>1. v \in Instances /\ Holds(lhs, v) /\ v.object \in BOOLEAN
        BY ValueFacts DEF Accepted
      <3>2. /\ v.object => \A p \in AndParts(lhs) : AcceptsObjects(p) /\ p.required \subseteq DOMAIN v.values
            /\ ~v.object => \A p \in AndParts(lhs) : AcceptsOthers(p)
        BY <1>1, <3>1, PartsNeed
      <3>3. CASE ~v.object
        <4>1. \A p \in AndParts(rhs) : AcceptsOthers(p)
          BY <1>1, <1>5, <3>2, <3>3, ValuesSuffice
        <4>2. IsConjunction(rhs)
          BY <1>1, <1>5, ValuesSuffice
        <4>3. Holds(rhs, v)
          BY <3>3, <4>1, <4>2, OthersHold
        <4> QED BY <3>1, <4>3 DEF Accepted
      <3>4. CASE v.object
        <4>1. r.required \subseteq DOMAIN v.values
          <5>1. l.required = UNION {p.required : p \in AndParts(lhs)}
            BY <1>1, <1>5, ValuesSuffice
          <5> QED BY <1>5, <3>2, <3>4, <5>1
        <4>2. ASSUME NEW n \in DOMAIN v.values, n \in r.names
              PROVE  v.values[n] \in Meaning(ValueTerm(rhs, n))
          <5>0. v.values[n] \in Values
            BY <3>1, <3>4, ValueFacts
          <5>1. CASE IsTrue(ValueTerm(rhs, n))
            BY <5>0, <5>1 DEF IsTrue, Meaning
          <5>2. CASE ~IsTrue(ValueTerm(rhs, n))
            <6> DEFINE o == Obligation(n, ValueTerm(lhs, n), ValueTerm(rhs, n))
            <6>1. o \in ValuesObligations
              <7>1. n \in {m \in facts.rhs.values.names : ~IsTrue(ValueTerm(rhs, m))}
                BY <4>2, <5>2, FactsOfSchemas DEF FactsOf
              <7> QED BY <7>1 DEF ValuesObligations
            <6>2. o.left = ValueTerm(lhs, n) /\ o.right = ValueTerm(rhs, n)
              BY DEF Obligation
            <6> HIDE DEF o
            <6>3. /\ ValueTerm(lhs, n) # None
                  /\ Meaning(ValueTerm(lhs, n)) \subseteq Meaning(ValueTerm(rhs, n))
              BY <2>1, <6>1, <6>2 DEF Settled
            <6>4. v.values[n] \in Meaning(ValueTerm(lhs, n))
              BY <1>1, <3>1, <6>3, ValuesHold
            <6> QED BY <6>3, <6>4
          <5> QED BY <5>1, <5>2
        <4>3. Holds(rhs, v)
          BY <1>1, <1>5, <3>1, <3>4, <4>1, <4>2, ValuesSuffice
        <4> QED BY <3>1, <4>3 DEF Accepted
      <3> QED BY <3>1, <3>3, <3>4
    <2> QED BY <1>2, <1>5, <2>1 DEF Included
  <1> QED BY <1>3, <1>4, <1>5, ValuesPlanFacts

-----------------------------------------------------------------------------
(* An object has no more properties than the upper bound of its schema.    *)
LEMMA WithinUpper ==
    ASSUME NEW s, IsSchema(s), CountUpper(CountShape(s)) # None, NEW v \in Accepted(s), v.object
    PROVE  CountUpper(CountShape(s)) \in Nat /\ Cardinality(DOMAIN v.values) <= CountUpper(CountShape(s))
  <1> DEFINE a == CountShape(s)
             n == Cardinality(DOMAIN v.values)
  <1>1. v \in Instances /\ n \in Nat /\ SizeOf[v] = n /\ n # None
    BY ValueFacts DEF Accepted
  <1>2. a # None /\ a.intervals # <<>> /\ CountUpper(a) = GreatestCount(a)
    BY DEF CountUpper
  <1>3. a \in Shapes /\ Apart(a.intervals) /\ Counts(a.intervals, n)
    <2>1. Bounds(a, Accepted(s), Instances, SizeOf)
      BY CountShapeBounds
    <2>2. a \in Shapes /\ Apart(a.intervals) /\ Admits(a, n)
      BY <1>1, <1>2, <2>1 DEF Bounds
    <2> HIDE DEF a, n
    <2> QED BY <1>1, <2>2 DEF Admits
  <1>4. CountUpper(a) # None
    OBVIOUS
  <1> HIDE DEF a, n
  <1>5. GreatestCount(a) \in Nat /\ n <= GreatestCount(a)
    BY <1>1, <1>2, <1>3, <1>4, EndsFacts
  <1> QED BY <1>2, <1>5 DEF a, n

(* The presence rule proves from the sets of names alone.                  *)
LEMMA DependentResultsFacts ==
    ASSUME NEW o \in DependentResults
    PROVE  NoProof(o)
  <1>1. \A trigger, name : NoProof(DependentResult(trigger, name))
    BY OutcomeFacts DEF DependentResult
  <1> QED BY <1>1 DEF DependentResults

(* The presence rule proves when no presence is rejected.                  *)
LEMMA PresenceResultsFacts ==
    ASSUME NEW o \in PresenceResults
    PROVE  \/ NoProof(o)
           \/ /\ o = ProvedTrue /\ facts.lhs.presence /\ facts.rhs.presence
              /\ AcceptsPresent(lhs, FALSE, {}) => AcceptsPresent(rhs, FALSE, {})
              /\ RejectedPresences = {} /\ ProductProves(Cardinality(ProductNames))
  <1> DEFINE alone == {Validated(PresenceWitness({n})) : n \in LoneNames}
             rejected == {Validated(PresenceWitness(p)) : p \in RejectedPresences}
             size == Cardinality(ProductNames)
  <1>1. \A c \in alone \cup rejected : NoProof(c)
    BY OutcomeFacts
  <1>2. o \in DependentResults \/ o \in alone \/ o \in ProductResults
    BY DEF PresenceResults
  <1>3. CASE o \in ProductResults
    <2>1. o \in IF ~facts.lhs.presence \/ ~facts.rhs.presence THEN {Unsupported}
                ELSE IF size > query.horizon \/ ~Affords(Larger(size, 1)) THEN {Exhausted}
                ELSE IF AcceptsPresent(lhs, FALSE, {}) /\ ~AcceptsPresent(rhs, FALSE, {})
                THEN {Validated(NotAnObject)}
                ELSE IF RejectedPresences # {} THEN rejected
                ELSE IF ProductProves(size) THEN {ProvedTrue}
                ELSE {Unsupported}
      BY <1>3 DEF ProductResults
    <2> DEFINE tooMuch == size > query.horizon \/ ~Affords(Larger(size, 1))
    <2>2. o \in IF ~facts.lhs.presence \/ ~facts.rhs.presence THEN {Unsupported}
                ELSE IF tooMuch THEN {Exhausted}
                ELSE IF AcceptsPresent(lhs, FALSE, {}) /\ ~AcceptsPresent(rhs, FALSE, {})
                THEN {Validated(NotAnObject)}
                ELSE IF RejectedPresences # {} THEN rejected
                ELSE IF ProductProves(size) THEN {ProvedTrue}
                ELSE {Unsupported}
      BY <2>1
    <2> HIDE DEF tooMuch, rejected, size
    <2> QED BY <1>1, <2>2, OutcomeFacts DEF size
  <1> QED BY <1>1, <1>2, <1>3, DependentResultsFacts

(* The closed left side mentions all names of its objects.                 *)
LEMMA ClosedNamesMentioned ==
    ASSUME NEW s, IsSchema(s), ClosedShape(s) # None, ClosedShape(s).finite, NEW v \in Accepted(s), v.object
    PROVE  DOMAIN v.values \subseteq PresenceNamesOf(s)
  <1>1. v \in Instances /\ Holds(s, v)
    BY DEF Accepted
  <1>2. ASSUME NEW n \in DOMAIN v.values
        PROVE  n \in PresenceNamesOf(s)
    <2>1. n \in ClosedShape(s).allowed
      BY <1>1, ValuesHold DEF KeyspaceAccepts
    <2>2. PICK p \in AndParts(s) : n \in DOMAIN p.props
      BY <2>1, ClosedShapeFacts
    <2>3. p \in Parts(s)
      BY DEF Parts, AndParts, Branches
    <2>4. n \in LocalNames(p)
      BY <2>2 DEF LocalNames
    <2> QED BY <2>3, <2>4 DEF PresenceNamesOf
  <1> QED BY <1>2

(* A schema that bounds no count lets its parts have any.                  *)
LEMMA UnboundedParts ==
    ASSUME NEW s, IsSchema(s), NEW b \in Parts(s)
    PROVE  /\ LeastProperties(b) \in Nat /\ (b.max # None => b.max \in Nat)
           /\ ~PresenceBoundsCount(s) => \A n \in Nat : HasSize(b, n)
  <1>1. HasKeywords(b)
    <2>1. \A q \in {s.allOf, s.anyOf, s.oneOf, s.negated} : AreBranches(q)
      BY DEF IsSchema
    <2>2. \A q \in {s.allOf, s.anyOf, s.oneOf, s.negated} : \A c \in ToSet(q) : HasKeywords(c)
      BY <2>1 DEF AreBranches, IsBranch
    <2> QED BY <2>2 DEF Parts, Branches, DependentBranches, IsSchema, IsBranch
  <1>2. LeastProperties(b) \in Nat /\ (b.max # None => b.max \in Nat)
    BY <1>1, CountTypes
  <1> QED BY <1>2 DEF PresenceBoundsCount, BoundsCount, HasSize

-----------------------------------------------------------------------------
(* What it means to reject, or to have a set of names looked at.           *)
LEMMA LookedAt ==
    ASSUME RejectedPresences = {}, NEW q \in SUBSET ProductNames, AcceptsPresent(lhs, TRUE, q)
    PROVE  AcceptsPresent(rhs, TRUE, q)
  BY DEF RejectedPresences

(* The fresh names the rule chooses.                                       *)
LEMMA FreshNames ==
    ASSUME FactsInv, Presence(lhs), Presence(rhs), ~ClosedWorld, kSubset(FreshCount, Fresh) # {}
    PROVE  \E F : /\ ProductNames = MentionedNames \cup F
                  /\ F \cap MentionedNames = {}
                  /\ Cardinality(F) = FreshCount /\ FreshCount # 0
  <1> DEFINE F == CHOOSE fresh \in kSubset(FreshCount, Fresh) : TRUE
  <1>1. F \in kSubset(FreshCount, Fresh)
    OBVIOUS
  <1>2. F \subseteq Fresh /\ Cardinality(F) = FreshCount
    BY <1>1 DEF kSubset
  <1>3. ProductNames = MentionedNames \cup F
    BY DEF ProductNames
  <1>4. Fresh \cap MentionedNames = {}
    BY QueriesAssumption DEF FactsInv, MentionedNames, lhs, rhs
  <1>5. FreshCount # 0
    <2>1. \A x : Larger(1, x) # 0
      BY DEF Larger
    <2> QED BY <2>1 DEF FreshCount
  <1> HIDE DEF F
  <1> QED BY <1>2, <1>3, <1>4, <1>5

(* In an open world, names no schema mentions differ in number only.       *)
LEMMA OpenWorldLooked ==
    ASSUME FactsInv, Presence(lhs), Presence(rhs), ~ClosedWorld, kSubset(FreshCount, Fresh) # {},
           RejectedPresences = {},
           NEW p, IsFiniteSet(p), AcceptsPresent(lhs, TRUE, p),
           \/ /\ lhs.oneOf = <<>> /\ rhs.oneOf = <<>>
              /\ ~PresenceBoundsCount(lhs) /\ ~PresenceBoundsCountAbove(rhs)
           \/ FreshCount \in Nat => Cardinality(p) <= FreshCount
    PROVE  AcceptsPresent(rhs, TRUE, p)
  <1> DEFINE named == MentionedNames
  <1>1. PICK F : /\ ProductNames = named \cup F /\ F \cap named = {}
                 /\ Cardinality(F) = FreshCount /\ FreshCount # 0
    BY FreshNames
  <1>2. PresenceNamesOf(lhs) \subseteq named /\ PresenceNamesOf(rhs) \subseteq named
        /\ IsSchema(lhs) /\ IsSchema(rhs)
    BY FactsOfSchemas DEF MentionedNames
  <1> HIDE DEF named
  <1> DEFINE size == Cardinality(p \ named)
  <1>3. Cardinality(p) \in Nat /\ size \in Nat /\ size <= Cardinality(p)
        /\ (size = 0 <=> p \subseteq named)
    <2>1. IsFiniteSet(p \ named) /\ size <= Cardinality(p)
      BY FS_Subset
    <2>2. Cardinality(p) \in Nat /\ size \in Nat
      BY <2>1, FS_CardinalityType
    <2>3. size = 0 <=> p \ named = {}
      BY <2>1, FS_EmptySet
    <2> QED BY <2>1, <2>2, <2>3
  <1> HIDE DEF size
  <1>4. IsFiniteSet(F) => Cardinality(F) \in Nat
    BY FS_CardinalityType
  <1>5. CASE FreshCount \in Nat => Cardinality(p) <= FreshCount
    <2>1. ~IsFiniteSet(F) \/ size <= Cardinality(F)
      BY <1>1, <1>3, <1>4, <1>5
    <2>2. PICK q \in SUBSET (named \cup F) : Alike(p, q, named) /\ Cardinality(q) = Cardinality(p)
      <3>1. size = Cardinality(p \ named)
        BY DEF size
      <3>2. ASSUME NEW k \in Nat, k = size
            PROVE  \E q \in SUBSET (named \cup F) :
                     Alike(p, q, named) /\ (k = Cardinality(p \ named) => Cardinality(q) = Cardinality(p))
        <4>1. /\ k <= Cardinality(p \ named) /\ (k = 0 <=> p \subseteq named)
              /\ ~IsFiniteSet(F) \/ k <= Cardinality(F)
          BY <1>3, <2>1, <3>1, <3>2
        <4> QED BY <1>1, <4>1, AlikeNames
      <3> QED BY <1>3, <3>1, <3>2
    <2>3. AcceptsPresent(lhs, TRUE, q)
      BY <1>2, <2>2, AcceptsAlike
    <2>4. AcceptsPresent(rhs, TRUE, q)
      BY <1>1, <2>2, <2>3, LookedAt
    <2>5. Alike(q, p, named)
      BY <2>2 DEF Alike
    <2> QED BY <1>2, <2>2, <2>4, <2>5, AcceptsAlike
  <1>6. CASE /\ lhs.oneOf = <<>> /\ rhs.oneOf = <<>>
             /\ ~PresenceBoundsCount(lhs) /\ ~PresenceBoundsCountAbove(rhs)
    <2> DEFINE k == IF p \subseteq named THEN 0 ELSE 1
    <2>1. /\ k \in Nat /\ k <= size /\ (k = 0 <=> p \subseteq named)
          /\ ~IsFiniteSet(F) \/ k <= Cardinality(F)
      BY <1>1, <1>3, <1>4
    <2> HIDE DEF k
    <2>2. PICK q \in SUBSET (named \cup F) :
            Alike(p, q, named) /\ Cardinality(q) \in Nat /\ Cardinality(q) <= Cardinality(p)
      BY <1>1, <2>1, AlikeNames DEF size
    <2>3. \A b \in Parts(lhs) : HasSize(b, Cardinality(q)) /\ HasSize(b, Cardinality(p))
      BY <1>2, <1>3, <1>6, <2>2, UnboundedParts
    <2>4. \A b \in ToSet(lhs.negated) : b \in Parts(lhs)
      BY DEF Parts
    <2>5. AcceptsPresent(lhs, TRUE, q)
      BY <1>2, <1>6, <2>2, <2>3, <2>4, AcceptsAlike
    <2>6. AcceptsPresent(rhs, TRUE, q)
      BY <1>1, <2>2, <2>5, LookedAt
    <2>7. Alike(q, p, named)
      BY <2>2 DEF Alike
    <2>8. ASSUME NEW b \in Parts(rhs) \ ToSet(rhs.negated), HasSize(b, Cardinality(q))
          PROVE  HasSize(b, Cardinality(p))
      <3>1. LeastProperties(b) \in Nat /\ b.max = None
        BY <1>2, <1>6, UnboundedParts DEF PresenceBoundsCountAbove
      <3> QED BY <1>3, <2>2, <2>8, <3>1 DEF HasSize
    <2>9. ASSUME NEW b \in ToSet(rhs.negated), HasSize(b, Cardinality(p))
          PROVE  HasSize(b, Cardinality(q))
      <3>1. b \in Parts(rhs)
        BY DEF Parts
      <3>2. LeastProperties(b) \in Nat /\ ~(LeastProperties(b) > 0) /\ (b.max # None => b.max \in Nat)
        BY <1>2, <1>6, <3>1, UnboundedParts DEF PresenceBoundsCountAbove
      <3> QED BY <1>3, <2>2, <2>9, <3>2 DEF HasSize
    <2> QED BY <1>2, <1>6, <2>6, <2>7, <2>8, <2>9, AcceptsAlike
  <1> QED BY <1>5, <1>6

(* The presence rule proves only inclusions, if it sees all names and      *)
(* counts.                                                                 *)
LEMMA PresenceRuleSound ==
    ASSUME FactsInv, NEW o \in PresenceResults
    PROVE  IsOutcome(o) /\ (o.status = "true" /\ PresenceSeesAll => Included)
  <1>1. SUFFICES ASSUME o = ProvedTrue, PresenceSeesAll PROVE Included
    BY PresenceResultsFacts, OutcomeFacts DEF NoProof
  <1>2. /\ facts.lhs.presence /\ facts.rhs.presence
        /\ AcceptsPresent(lhs, FALSE, {}) => AcceptsPresent(rhs, FALSE, {})
        /\ RejectedPresences = {} /\ ProductProves(Cardinality(ProductNames))
    BY <1>1, PresenceResultsFacts, OutcomeFacts
  <1>3. /\ IsSchema(lhs) /\ IsSchema(rhs) /\ Presence(lhs) /\ Presence(rhs)
        /\ facts.lhs = FactsOf(lhs) /\ facts.rhs = FactsOf(rhs)
        /\ facts.lhs.counts = CountShape(lhs) /\ facts.lhs.closed = ClosedShape(lhs)
    BY <1>2, FactsOfSchemas DEF FactsOf
  <1>4. /\ ClosedWorld \/ kSubset(FreshCount, Fresh) # {}
        /\ \/ ProductIsComplete
           \/ /\ LeftUpper # None /\ ~NegatesValues(lhs) /\ lhs.oneOf = <<>>
              /\ ~PresenceIgnoresValues(rhs) /\ LeftUpper <= FreshCount
    BY <1>1, <1>2 DEF PresenceSeesAll, ProductProves
  <1>5. ~NegatesValues(lhs) /\ ~PresenceIgnoresValues(rhs)
    BY <1>4 DEF ProductIsComplete
  <1>6. ASSUME NEW v \in Accepted(lhs)
        PROVE  v \in Accepted(rhs)
    <2>1. v \in Instances /\ Holds(lhs, v) /\ v.object \in BOOLEAN
      BY ValueFacts DEF Accepted
    <2>2. ASSUME v.object
          PROVE  AcceptsPresent(lhs, TRUE, DOMAIN v.values) => AcceptsPresent(rhs, TRUE, DOMAIN v.values)
      <3>1. IsFiniteSet(DOMAIN v.values) /\ Cardinality(DOMAIN v.values) \in Nat
        BY <2>1, <2>2, ValueFacts
      <3>2. CASE ClosedWorld
        <4>1. DOMAIN v.values \subseteq PresenceNamesOf(lhs)
          BY <1>3, <2>2, <3>2, ClosedNamesMentioned DEF ClosedWorld
        <4>2. DOMAIN v.values \in SUBSET ProductNames
          BY <3>2, <4>1 DEF ProductNames, MentionedNames
        <4> QED BY <1>2, <4>2, LookedAt
      <3>3. CASE ~ClosedWorld
        <4>1. \/ /\ lhs.oneOf = <<>> /\ rhs.oneOf = <<>>
                 /\ ~PresenceBoundsCount(lhs) /\ ~PresenceBoundsCountAbove(rhs)
              \/ FreshCount \in Nat => Cardinality(DOMAIN v.values) <= FreshCount
          <5>1. CASE ProductIsComplete
            BY <3>3, <5>1 DEF ProductIsComplete
          <5>2. CASE LeftUpper # None /\ LeftUpper <= FreshCount
            <6>1. LeftUpper = CountUpper(CountShape(lhs))
              BY <1>3 DEF LeftUpper
            <6>2. LeftUpper \in Nat /\ Cardinality(DOMAIN v.values) <= LeftUpper
              BY <1>3, <2>2, <5>2, <6>1, WithinUpper
            <6> QED BY <3>1, <5>2, <6>2
          <5> QED BY <1>4, <5>1, <5>2
        <4>2. kSubset(FreshCount, Fresh) # {}
          BY <1>4, <3>3
        <4> QED BY <1>2, <1>3, <3>1, <3>3, <4>1, <4>2, OpenWorldLooked
      <3> QED BY <3>2, <3>3
    <2>3. lhs.oneOf = <<>>
      <3>1. CASE ClosedWorld
        BY <1>3, <3>1, ClosedSuffice DEF ClosedWorld, IsConjunction
      <3>2. CASE ~ClosedWorld
        BY <1>4, <3>2 DEF ProductIsComplete
      <3> QED BY <3>1, <3>2
    <2>4. CASE v.object
      <3>1. AcceptsPresent(lhs, TRUE, DOMAIN v.values)
        BY <1>3, <1>5, <2>1, <2>3, <2>4, PresenceHolds
      <3>2. AcceptsPresent(rhs, TRUE, DOMAIN v.values)
        BY <2>2, <2>4, <3>1
      <3>3. Holds(rhs, v)
        BY <1>3, <1>5, <2>1, <2>4, <3>2, PresenceHolds
      <3> QED BY <2>1, <3>3 DEF Accepted
    <2>5. CASE ~v.object
      <3>1. v.object = FALSE /\ DOMAIN v.values = {}
        BY <2>1, <2>5, ValueFacts DEF NotAnObject
      <3>2. AcceptsPresent(lhs, FALSE, {})
        BY <1>3, <1>5, <2>1, <2>3, <3>1, PresenceHolds
      <3>3. AcceptsPresent(rhs, v.object, DOMAIN v.values)
        BY <1>2, <3>1, <3>2
      <3>4. Holds(rhs, v)
        BY <1>3, <1>5, <2>1, <3>3, PresenceHolds
      <3> QED BY <2>1, <3>4 DEF Accepted
    <2> QED BY <2>1, <2>4, <2>5
  <1> QED BY <1>6 DEF Included

-----------------------------------------------------------------------------
(* A conjunction's objects have the names its parts require.               *)
LEMMA RequiredPresent ==
    ASSUME NEW s, IsSchema(s), NEW required, required = UNION {p.required : p \in AndParts(s)},
           NEW v \in Accepted(s), v.object
    PROVE  required \subseteq DOMAIN v.values
  <1>1. v \in Instances /\ Holds(s, v)
    BY DEF Accepted
  <1> QED BY <1>1, PartsNeed

(* The names rule proves when names are included and values free.          *)
LEMMA NamesResultsFacts ==
    ASSUME NEW o \in NamesResults
    PROVE  \/ NoProof(o)
           \/ /\ o = ProvedTrue /\ ~NamesWithValues(rhs)
              /\ facts.lhs.names # None /\ facts.rhs.names # None
              /\ NamesIncluded(facts.lhs.names, facts.rhs.names) /\ facts.lhs.names.others # TRUE
  <1> DEFINE l == facts.lhs.names
             r == facts.rhs.names
             lone == {n \in InterestingNames(lhs) \ r.keyspace : PresenceAnswer(lhs, TRUE, {n}) = TRUE}
             alone == {Validated(Nulls({n})) : n \in lone}
             extra == {Repaired(l.required \cup {n}) : n \in l.keyspace \ r.keyspace}
  <1>1. o \in
          IF NamesWithValues(rhs) \/ r = None THEN {Unsupported}
          ELSE IF l = None
          THEN IF r.objects /\ lone # {} THEN alone ELSE {Unsupported}
          ELSE IF NamesIncluded(l, r) THEN {IncludedUnlessOthers(l.others)}
          ELSE IF l.others /\ ~r.others THEN {Validated(NotAnObject)}
          ELSE IF ~r.objects \/ ~(r.required \subseteq l.required) THEN {Repaired(l.required)}
          ELSE extra
    BY DEF NamesResults
  <1>2. \A names : NoProof(Repaired(names))
    BY OutcomeFacts DEF Repaired
  <1>3. \A c \in alone \cup extra : NoProof(c)
    BY <1>2, OutcomeFacts
  <1>4. IncludedUnlessOthers(l.others) = Unsupported
        \/ (IncludedUnlessOthers(l.others) = ProvedTrue /\ l.others # TRUE)
    BY DEF IncludedUnlessOthers
  <1> HIDE DEF l, r, lone, alone, extra
  <1> QED BY <1>1, <1>2, <1>3, <1>4, OutcomeFacts DEF l, r

(* The names rule proves only inclusions.                                  *)
LEMMA NamesRuleSound ==
    ASSUME FactsInv, NEW o \in NamesResults
    PROVE  IsOutcome(o) /\ (o.status = "true" => Included)
  <1>1. SUFFICES ASSUME o = ProvedTrue PROVE Included
    BY NamesResultsFacts, OutcomeFacts DEF NoProof
  <1> DEFINE l == NamesShape(lhs)
             r == NamesShape(rhs)
  <1>2. IsSchema(lhs) /\ IsSchema(rhs) /\ facts.lhs.names = l /\ facts.rhs.names = r
    BY FactsOfSchemas DEF FactsOf
  <1>3. ~NamesWithValues(rhs) /\ l # None /\ r # None /\ NamesIncluded(l, r) /\ l.others # TRUE
    <2>1. ~NoProof(o)
      BY <1>1, OutcomeFacts
    <2> QED BY <1>2, <2>1, NamesResultsFacts
  <1>4. /\ l.objects <=> \A p \in AndParts(lhs) : AcceptsObjects(p)
        /\ l.others <=> \A p \in AndParts(lhs) : AcceptsOthers(p)
        /\ l.required = UNION {p.required : p \in AndParts(lhs)}
    BY <1>2, <1>3, NamesSuffice
  <1>5. ASSUME NEW v \in Accepted(lhs)
        PROVE  v \in Accepted(rhs)
    <2>1. v \in Instances /\ Holds(lhs, v) /\ v.object \in BOOLEAN
      BY ValueFacts DEF Accepted
    <2>2. v.object
      <3>1. l.others \in BOOLEAN
        BY <1>3 DEF NamesShape
      <3>2. ~v.object => \A p \in AndParts(lhs) : AcceptsOthers(p)
        BY <1>2, <2>1, PartsNeed
      <3> HIDE DEF l
      <3> QED BY <1>3, <1>4, <2>1, <3>1, <3>2
    <2>3. l.objects
      BY <1>2, <1>4, <2>1, <2>2, PartsNeed
    <2>4. l.required \subseteq DOMAIN v.values
      BY <1>2, <1>4, <2>2, RequiredPresent
    <2>5. DOMAIN v.values \subseteq l.keyspace
      BY <1>2, <1>3, <2>1, ValuesHold
    <2>6. r.objects /\ r.required \subseteq DOMAIN v.values /\ DOMAIN v.values \subseteq r.keyspace
      <3> HIDE DEF l, r
      <3>1. NamesInhabited(l)
        BY <2>3, <2>4, <2>5 DEF NamesInhabited
      <3>2. r.objects /\ r.required \subseteq l.required /\ l.keyspace \subseteq r.keyspace
        BY <1>3, <3>1 DEF NamesIncluded
      <3> QED BY <2>4, <2>5, <3>2
    <2>7. Holds(rhs, v)
      BY <1>2, <1>3, <2>1, <2>2, <2>6, NamesSuffice
    <2> QED BY <2>1, <2>7 DEF Accepted
  <1> QED BY <1>5 DEF Included

-----------------------------------------------------------------------------
(* What the key rule may conclude before it asks about values.             *)
KeysAsk ==
    /\ facts.lhs.keys /\ facts.rhs.keys
    /\ AcceptsOthers(lhs) => AcceptsOthers(rhs)
    /\ AcceptsObjects(rhs)

(* No direct question proves anything.                                     *)
LEMMA DirectResultsFacts ==
    ASSUME NEW o \in DirectResults
    PROVE  NoProof(o) \/ o = Ask
  <1> DEFINE tried == {DirectResult(n) : n \in UNION DirectLanguages} \ {Ask}
  <1>1. \A n : NoProof(DirectResult(n)) \/ DirectResult(n) = Ask
    BY OutcomeFacts DEF DirectResult
  <1>2. \A c \in tried : NoProof(c) \/ c = Ask
    BY <1>1
  <1>3. o \in tried \/ o = Ask
    BY DEF DirectResults
  <1> QED BY <1>2, <1>3

(* A right side free of values is proved only without an upper bound.      *)
LEMMA NoValuesResultsFacts ==
    ASSUME NEW o \in NoValuesResults
    PROVE  NoProof(o) \/ (o = ProvedTrue /\ RightUpper = None /\ ~AcceptsOthers(lhs))
  <1> DEFINE violating == {Validated(Materialized(Slots(names), NoValues)) : names \in ViolatingNames}
  <1>1. \A c \in violating : NoProof(c)
    BY OutcomeFacts
  <1>2. AcceptsOthers(lhs) \in BOOLEAN
    BY DEF AcceptsOthers
  <1>3. o \in IF RightUpper # None
              THEN IF ViolatingNames = {} THEN {Unsupported} ELSE violating
              ELSE IF facts.rhs.presence /\ PresenceBoundsCount(rhs) THEN {Unsupported}
              ELSE {IncludedUnlessOthers(AcceptsOthers(lhs))}
    BY DEF NoValuesResults
  <1> HIDE DEF violating
  <1> QED BY <1>1, <1>2, <1>3, OutcomeFacts

(* When no name outside the right was found, the rule proves or asks.      *)
LEMMA KeyspaceResultsFacts ==
    ASSUME NEW o \in KeyspaceResults
    PROVE  \/ NoProof(o) \/ o = Ask
           \/ /\ o = ProvedTrue /\ None \in KeyspaceNames /\ ~ConstrainsKeyValues(rhs)
              /\ RightUpper = None /\ ~AcceptsOthers(lhs)
  <1>1. PICK name \in KeyspaceNames :
          o \in IF name # None THEN {Validated(KeySkeleton(name))}
                ELSE IF ~ConstrainsKeyValues(rhs) THEN NoValuesResults
                ELSE UNION {ObligationResults(outcome) : outcome \in DirectResults}
    BY DEF KeyspaceResults
  <1>2. CASE name # None
    BY <1>1, <1>2, OutcomeFacts
  <1>3. CASE name = None /\ ~ConstrainsKeyValues(rhs)
    BY <1>1, <1>3, NoValuesResultsFacts
  <1>4. CASE name = None /\ ConstrainsKeyValues(rhs)
    <2>1. PICK outcome \in DirectResults : o \in ObligationResults(outcome)
      BY <1>1, <1>4
    <2>2. NoProof(outcome) \/ outcome = Ask
      BY DirectResultsFacts
    <2> QED BY <2>1, <2>2, OutcomeFacts DEF ObligationResults
  <1> QED BY <1>2, <1>3, <1>4

(* The key rule proves for an uninhabited left or a right side free of     *)
(* values, and asks else.                                                  *)
LEMMA KeysResultsFacts ==
    ASSUME NEW o \in KeysResults
    PROVE  \/ NoProof(o)
           \/ /\ o = ProvedTrue /\ ~AcceptsOthers(lhs) /\ facts.lhs.keys /\ facts.rhs.keys
              /\ ~AcceptsObjects(lhs) \/ ~(lhs.required \subseteq facts.lhs.allowed)
           \/ /\ o = ProvedTrue /\ KeysAsk /\ None \in KeyspaceNames
              /\ ~ConstrainsKeyValues(rhs) /\ RightUpper = None /\ ~AcceptsOthers(lhs)
           \/ o = Ask /\ KeysAsk
  <1> DEFINE omitting == {Validated(v) : v \in OmissionWitnesses}
             uninhabited == ~AcceptsObjects(lhs) \/ ~(lhs.required \subseteq facts.lhs.allowed)
             refuted == ~AcceptsObjects(rhs) \/ (Missing # {} /\ OnlyRequired)
  <1>1. \A c \in omitting \cup DependencyResults : NoProof(c)
    BY OutcomeFacts DEF DependencyResults
  <1>2. AcceptsOthers(lhs) \in BOOLEAN
    BY DEF AcceptsOthers
  <1>3. \/ o \in DependencyResults \cup omitting
        \/ o \in {Unsupported, Exhausted, Validated(NotAnObject), Validated(KeyWitness(NoValues))}
        \/ /\ facts.lhs.keys /\ facts.rhs.keys /\ uninhabited
           /\ o = IncludedUnlessOthers(AcceptsOthers(lhs))
        \/ /\ facts.lhs.keys /\ facts.rhs.keys /\ ~(AcceptsOthers(lhs) /\ ~AcceptsOthers(rhs))
           /\ ~refuted /\ o \in KeyspaceResults
    BY DEF KeysResults
  <1>4. \A c \in {Unsupported, Exhausted, Validated(NotAnObject), Validated(KeyWitness(NoValues))} : NoProof(c)
    BY OutcomeFacts
  <1> HIDE DEF omitting, uninhabited
  <1>5. CASE o \in DependencyResults \cup omitting
    BY <1>1, <1>5
  <1>6. CASE /\ facts.lhs.keys /\ facts.rhs.keys /\ uninhabited
             /\ o = IncludedUnlessOthers(AcceptsOthers(lhs))
    BY <1>2, <1>6, OutcomeFacts DEF uninhabited
  <1>7. CASE /\ facts.lhs.keys /\ facts.rhs.keys /\ ~(AcceptsOthers(lhs) /\ ~AcceptsOthers(rhs))
             /\ ~refuted /\ o \in KeyspaceResults
    <2>1. KeysAsk
      BY <1>7 DEF KeysAsk
    <2> QED BY <1>7, <2>1, KeyspaceResultsFacts
  <1> QED BY <1>3, <1>4, <1>5, <1>6, <1>7

(* Both sides' facts of keys.                                              *)
LEMMA KeyFacts ==
    ASSUME FactsInv
    PROVE  \A n \in Names :
             /\ facts.lhs.terms[n] = KeyTerm(lhs, n) /\ facts.rhs.terms[n] = KeyTerm(rhs, n)
             /\ n \in facts.lhs.allowed <=> AllowsKey(lhs, n)
             /\ n \in facts.rhs.allowed <=> AllowsKey(rhs, n)
  <1>1. facts.lhs = FactsOf(lhs) /\ facts.rhs = FactsOf(rhs)
    BY FactsOfSchemas
  <1>2. \A s : /\ FactsOf(s).terms = [n \in Names |-> KeyTerm(s, n)]
               /\ FactsOf(s).allowed = {n \in Names : AllowsKey(s, n)}
    BY DEF FactsOf
  <1>3. \A s : \A n \in Names :
          FactsOf(s).terms[n] = KeyTerm(s, n) /\ (n \in FactsOf(s).allowed <=> AllowsKey(s, n))
    BY <1>2
  <1>4. \A n \in Names :
          /\ facts.lhs.terms[n] = FactsOf(lhs).terms[n] /\ facts.rhs.terms[n] = FactsOf(rhs).terms[n]
          /\ n \in facts.lhs.allowed <=> n \in FactsOf(lhs).allowed
          /\ n \in facts.rhs.allowed <=> n \in FactsOf(rhs).allowed
    BY <1>1
  <1>5. SUFFICES ASSUME NEW n \in Names
                 PROVE  /\ facts.lhs.terms[n] = KeyTerm(lhs, n) /\ facts.rhs.terms[n] = KeyTerm(rhs, n)
                        /\ n \in facts.lhs.allowed <=> AllowsKey(lhs, n)
                        /\ n \in facts.rhs.allowed <=> AllowsKey(rhs, n)
    OBVIOUS
  <1>6. /\ FactsOf(lhs).terms[n] = KeyTerm(lhs, n) /\ (n \in FactsOf(lhs).allowed <=> AllowsKey(lhs, n))
        /\ FactsOf(rhs).terms[n] = KeyTerm(rhs, n) /\ (n \in FactsOf(rhs).allowed <=> AllowsKey(rhs, n))
    BY <1>3
  <1> QED BY <1>4, <1>6

(* An object of the left side, as its keys see it.                         *)
LEMMA LeftObject ==
    ASSUME FactsInv, NEW v \in Accepted(lhs)
    PROVE  /\ v \in Instances /\ v.object \in BOOLEAN /\ IsSchema(lhs) /\ IsSchema(rhs)
           /\ ~v.object => AcceptsOthers(lhs) /\ v = NotAnObject
           /\ v.object =>
                /\ AcceptsObjects(lhs) /\ lhs.required \subseteq DOMAIN v.values
                /\ DOMAIN v.values \subseteq Names /\ Cardinality(DOMAIN v.values) \in Nat
                /\ Cardinality(DOMAIN v.values) >= LeastProperties(lhs)
                /\ lhs.max # None => Cardinality(DOMAIN v.values) <= lhs.max
                /\ \A n \in DOMAIN v.values :
                     /\ v.values[n] \in Values
                     /\ AllowsKey(lhs, n) /\ v.values[n] \in Meaning(KeyTerm(lhs, n))
  <1>1. v \in Instances /\ Holds(lhs, v) /\ v.object \in BOOLEAN /\ (~v.object => v = NotAnObject)
    BY ValueFacts DEF Accepted
  <1>2. IsSchema(lhs) /\ IsSchema(rhs)
    BY FactsOfSchemas
  <1>3. HoldsLocally(lhs, v)
    BY <1>1, HoldsFacts
  <1>4. ~v.object => AcceptsOthers(lhs)
    BY <1>3 DEF HoldsLocally, AcceptsOthers
  <1>5. v.object =>
          /\ AcceptsObjects(lhs) /\ lhs.required \subseteq DOMAIN v.values
          /\ lhs.min # None => Cardinality(DOMAIN v.values) >= lhs.min
          /\ lhs.max # None => Cardinality(DOMAIN v.values) <= lhs.max
    BY <1>3 DEF HoldsLocally, AcceptsObjects
  <1>6. v.object => /\ DOMAIN v.values \subseteq Names /\ Cardinality(DOMAIN v.values) \in Nat
                    /\ \A n \in DOMAIN v.values : v.values[n] \in Values
    BY <1>1, ValueFacts
  <1>7. v.object => Cardinality(DOMAIN v.values) >= LeastProperties(lhs)
    BY <1>5, <1>6 DEF LeastProperties
  <1>8. \A n \in DOMAIN v.values : AllowsKey(lhs, n) /\ v.values[n] \in Meaning(KeyTerm(lhs, n))
    BY <1>1, <1>2, ValuesHold
  <1> QED BY <1>1, <1>2, <1>4, <1>5, <1>6, <1>7, <1>8

-----------------------------------------------------------------------------
(* Enough of an object for the right side of the key rule.                 *)
LEMMA KeysSufficeRight ==
    ASSUME FactsInv, KeyValues(rhs), AcceptsObjects(rhs), Missing = {},
           NEW v \in Accepted(lhs), v.object,
           Cardinality(DOMAIN v.values) >= LeastProperties(rhs),
           rhs.max # None => Cardinality(DOMAIN v.values) <= rhs.max,
           \A n \in DOMAIN v.values : v.values[n] \in Meaning(KeyTerm(rhs, n))
    PROVE  v \in Accepted(rhs)
  <1>1. v \in Instances /\ lhs.required \subseteq DOMAIN v.values /\ IsSchema(rhs)
    BY LeftObject
  <1>2. rhs.required \subseteq DOMAIN v.values
    BY <1>1 DEF Missing
  <1>3. Holds(rhs, v)
    BY <1>1, <1>2, KeysSuffice
  <1> QED BY <1>1, <1>3 DEF Accepted

(* Values other than objects are accepted if the right accepts any.        *)
LEMMA NotObjectsIncluded ==
    ASSUME FactsInv, NEW v \in Accepted(lhs), ~v.object, AcceptsOthers(lhs) => AcceptsOthers(rhs),
           IsConjunction(rhs), AndParts(rhs) = {rhs}
    PROVE  v \in Accepted(rhs)
  <1>1. AcceptsOthers(rhs) /\ v \in Instances
    BY LeftObject
  <1>2. Holds(rhs, v)
    BY <1>1, OthersHold
  <1> QED BY <1>1, <1>2 DEF Accepted

(* No name of the left is outside the right, if no keyspace name was found *)
(* and none can have been missed.                                          *)
LEMMA KeyspaceIncluded ==
    ASSUME FactsInv, None \in KeyspaceNames, ~ConstrainsKeyValues(rhs),
           \/ None \in {lhs.names, rhs.names} \/ DOMAIN lhs.patterns = {}
           \/ ~IsFalse(AdditionalTerm(lhs)),
           NEW n \in Names, AllowsKey(lhs, n)
    PROVE  AllowsKey(rhs, n)
  <1> DEFINE outside == Names \ rhs.names
             declared == ((DOMAIN lhs.props \cup lhs.required) \cap facts.lhs.allowed) \ facts.rhs.allowed
             found == {m \in outside \cap facts.lhs.allowed : MatchesPattern(lhs, m)}
             missed == \A p \in DOMAIN lhs.patterns :
                          p \cap outside = {} \/ ~(p \cap outside \subseteq facts.lhs.allowed)
             open == IF IsFalse(AdditionalTerm(lhs)) THEN {}
                     ELSE (IF lhs.names = None THEN Names ELSE lhs.names) \cap outside
  <1>1. KeyspaceNames =
          IF declared # {} THEN declared
          ELSE IF rhs.names = None THEN {None}
          ELSE found \cup IF ~missed THEN {} ELSE IF open # {} THEN open ELSE {None}
    BY DEF KeyspaceNames
  <1>2. None \notin Names /\ facts.lhs.allowed \subseteq Names
    BY NoneIsNoValue, FactsOfSchemas DEF FactsOf
  <1>3. None \notin declared /\ None \notin found /\ None \notin open
    <2>1. declared \subseteq Names /\ found \subseteq Names /\ open \subseteq Names
      BY <1>2
    <2> QED BY <1>2, <2>1
  <1>4. declared = {} /\ (rhs.names = None \/ (missed /\ open = {}))
    <2> HIDE DEF declared, found, open, missed
    <2> QED BY <1>1, <1>3
  <1>5. /\ n \in facts.lhs.allowed
        /\ n \in facts.rhs.allowed <=> AllowsKey(rhs, n)
        /\ \A m \in Names : m \in facts.lhs.allowed <=> AllowsKey(lhs, m)
    BY KeyFacts
  <1>6. ~IsFalse(AdditionalTerm(rhs))
    BY DEF ConstrainsKeyValues, IsTrue, IsFalse
  <1>7. SUFFICES ASSUME rhs.names # None, n \notin rhs.names PROVE FALSE
    BY <1>6 DEF AllowsKey
  <1>8. ~AllowsKey(rhs, n) /\ n \in outside
    BY <1>7 DEF AllowsKey
  <1>9. lhs.names # None => n \in lhs.names
    BY DEF AllowsKey
  <1>10. CASE ~IsFalse(AdditionalTerm(lhs))
    BY <1>4, <1>7, <1>8, <1>9, <1>10
  <1>11. CASE IsFalse(AdditionalTerm(lhs)) /\ n \in DOMAIN lhs.props
    BY <1>4, <1>5, <1>8, <1>11
  <1>12. CASE IsFalse(AdditionalTerm(lhs)) /\ n \notin DOMAIN lhs.props
    <2>1. PICK p \in DOMAIN lhs.patterns : n \in p
      BY <1>12 DEF AllowsKey, MatchesPattern
    <2>2. lhs.names = None
      BY <1>7, <1>12, <2>1
    <2>3. p \cap outside \subseteq facts.lhs.allowed
      <3>1. ASSUME NEW m \in p \cap outside PROVE m \in facts.lhs.allowed
        <4>1. AllowsKey(lhs, m)
          BY <2>2 DEF AllowsKey, MatchesPattern
        <4> QED BY <1>5, <4>1
      <3> QED BY <3>1
    <2> QED BY <1>4, <1>7, <1>8, <2>1, <2>3
  <1> QED BY <1>10, <1>11, <1>12

(* What the key rule proves without asking is included.                    *)
LEMMA KeysProvedSound ==
    ASSUME FactsInv, NEW o \in KeysResults, o # Ask
    PROVE  IsOutcome(o) /\ (o.status = "true" /\ KeysSeeAll => Included)
  <1>1. SUFFICES ASSUME o = ProvedTrue, KeysSeeAll PROVE Included
    BY KeysResultsFacts, OutcomeFacts DEF NoProof
  <1>2. /\ IsSchema(lhs) /\ IsSchema(rhs)
        /\ facts.lhs.keys <=> KeyValues(lhs)
        /\ facts.rhs.keys <=> KeyValues(rhs)
        /\ facts.lhs.counts = CountShape(lhs) /\ facts.rhs.counts = CountShape(rhs)
    BY FactsOfSchemas DEF FactsOf
  <1>3. ~NoProof(o)
    BY <1>1, OutcomeFacts
  <1>4. CASE /\ ~AcceptsOthers(lhs)
             /\ ~AcceptsObjects(lhs) \/ ~(lhs.required \subseteq facts.lhs.allowed)
    <2>1. ASSUME NEW v \in Accepted(lhs) PROVE FALSE
      <3>1. v.object
        BY <1>4, LeftObject
      <3>2. AcceptsObjects(lhs) /\ lhs.required \subseteq DOMAIN v.values
            /\ DOMAIN v.values \subseteq Names /\ \A n \in DOMAIN v.values : AllowsKey(lhs, n)
        BY <3>1, LeftObject
      <3>3. \A n \in DOMAIN v.values : n \in facts.lhs.allowed
        BY <3>2, KeyFacts
      <3> QED BY <1>4, <3>2, <3>3
    <2> QED BY <2>1 DEF Included
  <1>5. CASE /\ KeysAsk /\ None \in KeyspaceNames
             /\ ~ConstrainsKeyValues(rhs) /\ RightUpper = None /\ ~AcceptsOthers(lhs)
    <2>1. /\ Missing = {} /\ CountsReachBelow /\ KeyValues(rhs) /\ AcceptsObjects(rhs)
          /\ \/ None \in {lhs.names, rhs.names} \/ DOMAIN lhs.patterns = {}
             \/ ~IsFalse(AdditionalTerm(lhs))
      BY <1>1, <1>2, <1>5 DEF KeysSeeAll, KeysAsk
    <2>2. IsConjunction(rhs) /\ AndParts(rhs) = {rhs}
      BY <1>2, <2>1, KeysSuffice
    <2>3. CountShape(rhs) # None
      <3>1. rhs.allOf = <<>>
        BY <2>1, KeywordFacts DEF KeyValues, KeyValueKeywords
      <3>2. Keywords(rhs) \subseteq CountKeywords
        BY <2>1 DEF KeyValues, KeyValueKeywords, CountKeywords
      <3>3. AllIn(rhs, CountKeywords)
        BY <3>1, <3>2 DEF AllIn
      <3> QED BY <1>2, <2>2, <3>3, CountShapeThere
    <2>4. /\ CountShape(rhs).intervals # <<>>
          /\ CountLower(CountShape(rhs)) <= CountLower(CountShape(lhs))
          /\ CountUpper(CountShape(rhs)) = None
      BY <1>2, <1>5, <2>1 DEF CountsReachBelow, RightUpper
    <2>5. ASSUME NEW v \in Accepted(lhs) PROVE v \in Accepted(rhs)
      <3>1. v \in Instances /\ v.object /\ Holds(lhs, v)
        BY <1>5, LeftObject DEF Accepted
      <3>2. /\ Cardinality(DOMAIN v.values) >= LeastProperties(rhs)
            /\ rhs.max # None => Cardinality(DOMAIN v.values) <= rhs.max
        BY <1>2, <2>1, <2>2, <2>3, <2>4, <3>1, CountsKept
      <3>3. ASSUME NEW n \in DOMAIN v.values PROVE v.values[n] \in Meaning(KeyTerm(rhs, n))
        <4>1. n \in Names /\ v.values[n] \in Values /\ AllowsKey(lhs, n)
          BY <3>1, LeftObject
        <4>2. AllowsKey(rhs, n)
          BY <1>5, <2>1, <4>1, KeyspaceIncluded
        <4> QED BY <1>2, <1>5, <2>1, <4>1, <4>2, KeysSuffice
      <3> QED BY <2>1, <3>1, <3>2, <3>3, KeysSufficeRight
    <2> QED BY <2>5 DEF Included
  <1> QED
    <2>1. \/ /\ ~AcceptsOthers(lhs)
             /\ ~AcceptsObjects(lhs) \/ ~(lhs.required \subseteq facts.lhs.allowed)
          \/ /\ KeysAsk /\ None \in KeyspaceNames
             /\ ~ConstrainsKeyValues(rhs) /\ RightUpper = None /\ ~AcceptsOthers(lhs)
      BY <1>3, KeysResultsFacts
    <2> QED BY <1>4, <1>5, <2>1

-----------------------------------------------------------------------------
(* What the key rule requires of counts once its values are included.      *)
CountsRemain == (rhs.min # None \/ rhs.max # None) => CountsDirectlySatisfied

(* Names that match the same languages have the same schemas.              *)
LEMMA SameClass ==
    ASSUME NEW s, NEW n, NEW m, n \notin DOMAIN s.props, m \notin DOMAIN s.props,
           \A p \in DOMAIN s.patterns : m \in p <=> n \in p,
           s.names # None => (m \in s.names <=> n \in s.names)
    PROVE  (AllowsKey(s, m) <=> AllowsKey(s, n)) /\ KeyTerm(s, m) = KeyTerm(s, n)
  <1>1. {p \in DOMAIN s.patterns : m \in p} = {p \in DOMAIN s.patterns : n \in p}
    OBVIOUS
  <1>2. DOMAIN s.props \cap {n} = {} /\ DOMAIN s.props \cap {m} = {}
    OBVIOUS
  <1>3. SchemasFor(s, m) = SchemasFor(s, n)
    BY <1>1, <1>2 DEF SchemasFor
  <1>4. MatchesPattern(s, m) <=> MatchesPattern(s, n)
    BY DEF MatchesPattern
  <1>5. AllowsKey(s, m) <=> AllowsKey(s, n)
    BY <1>4 DEF AllowsKey
  <1> QED BY <1>3, <1>5 DEF KeyTerm

Like(n) ==
    {m \in Names \ Declared :
        /\ \A p \in Patterns : m \in p <=> n \in p
        /\ \A s \in {lhs, rhs} : s.names # None => (m \in s.names <=> n \in s.names)}
Representative(n) == CHOOSE m \in Like(n) : TRUE

(* The obligations of the key rule, with their representatives.            *)
LEMMA KeyObligationsAre ==
    KeyObligations =
      {o \in {Obligation(n, facts.lhs.terms[n], facts.rhs.terms[n]) :
                 n \in Declared \cup {Representative(n) : n \in Names \ Declared}} :
          o.name \in facts.lhs.allowed /\ ~IsTrue(o.right)}
  BY DEF KeyObligations, Representative, Like

(* The representative of a name has its schemas on both sides.             *)
LEMMA Represented ==
    ASSUME NEW n \in Names \ Declared
    PROVE  /\ Representative(n) \in Names \ Declared
           /\ \A s \in {lhs, rhs} :
                /\ AllowsKey(s, Representative(n)) <=> AllowsKey(s, n)
                /\ KeyTerm(s, Representative(n)) = KeyTerm(s, n)
  <1>1. n \in Like(n)
    BY DEF Like
  <1>2. Representative(n) \in Like(n)
    BY <1>1 DEF Representative
  <1> DEFINE m == Representative(n)
  <1> HIDE DEF m
  <1>3. m \in Like(n)
    BY <1>2 DEF m
  <1>4. /\ m \in Names \ Declared /\ \A p \in Patterns : m \in p <=> n \in p
        /\ \A s \in {lhs, rhs} : s.names # None => (m \in s.names <=> n \in s.names)
    BY <1>3 DEF Like
  <1>5. ASSUME NEW s \in {lhs, rhs}
        PROVE  (AllowsKey(s, m) <=> AllowsKey(s, n)) /\ KeyTerm(s, m) = KeyTerm(s, n)
    <2>1. n \notin DOMAIN s.props /\ m \notin DOMAIN s.props
      BY <1>4 DEF Declared
    <2>2. \A p \in DOMAIN s.patterns : m \in p <=> n \in p
      BY <1>4 DEF Patterns
    <2>3. s.names # None => (m \in s.names <=> n \in s.names)
      BY <1>4
    <2> QED BY <2>1, <2>2, <2>3, SameClass
  <1> QED BY <1>4, <1>5 DEF m

(* The value of an allowed name is in the term the right has for it.       *)
LEMMA ObligationsReach ==
    ASSUME FactsInv, \A o \in KeyObligations : Settled(o),
           NEW n \in Names, AllowsKey(lhs, n), NEW x \in Meaning(KeyTerm(lhs, n))
    PROVE  x \in Meaning(KeyTerm(rhs, n))
  <1>1. x \in Values
    BY DEF Meaning
  <1>2. ASSUME NEW m \in Declared \cup {Representative(k) : k \in Names \ Declared},
               m \in Names, AllowsKey(lhs, m), x \in Meaning(KeyTerm(lhs, m))
        PROVE  x \in Meaning(KeyTerm(rhs, m))
    <2> DEFINE o == Obligation(m, facts.lhs.terms[m], facts.rhs.terms[m])
    <2>1. facts.lhs.terms[m] = KeyTerm(lhs, m) /\ facts.rhs.terms[m] = KeyTerm(rhs, m)
          /\ m \in facts.lhs.allowed
      BY <1>2, KeyFacts
    <2>2. o.name = m /\ o.left = KeyTerm(lhs, m) /\ o.right = KeyTerm(rhs, m)
      BY <2>1 DEF Obligation
    <2>3. CASE IsTrue(KeyTerm(rhs, m))
      BY <1>1, <2>3 DEF IsTrue, Meaning
    <2>4. CASE ~IsTrue(KeyTerm(rhs, m))
      <3>1. o \in {Obligation(k, facts.lhs.terms[k], facts.rhs.terms[k]) :
                     k \in Declared \cup {Representative(k) : k \in Names \ Declared}}
        BY <1>2
      <3> HIDE DEF o
      <3>2. o \in KeyObligations
        BY <2>1, <2>2, <2>4, <3>1, KeyObligationsAre
      <3> QED BY <1>2, <2>2, <3>2 DEF Settled
    <2> QED BY <2>3, <2>4
  <1>3. CASE n \in Declared
    BY <1>2, <1>3
  <1>4. CASE n \notin Declared
    <2>1. n \in Names \ Declared
      BY <1>4
    <2>2. /\ Representative(n) \in Names
          /\ AllowsKey(lhs, Representative(n)) <=> AllowsKey(lhs, n)
          /\ KeyTerm(lhs, Representative(n)) = KeyTerm(lhs, n)
          /\ KeyTerm(rhs, Representative(n)) = KeyTerm(rhs, n)
      BY <2>1, Represented
    <2>3. Representative(n) \in {Representative(k) : k \in Names \ Declared}
      BY <2>1
    <2> QED BY <1>2, <2>2, <2>3
  <1> QED BY <1>3, <1>4

(* What the key rule asks suffices.                                        *)
LEMMA KeysAskedSound ==
    ASSUME FactsInv, KeysAsk, KeysSeeAll, CountsRemain, \A o \in KeyObligations : Settled(o)
    PROVE  Included
  <1>1. /\ IsSchema(lhs) /\ IsSchema(rhs) /\ KeyValues(rhs) /\ AcceptsObjects(rhs)
        /\ AcceptsOthers(lhs) => AcceptsOthers(rhs)
    BY FactsOfSchemas DEF FactsOf, KeysAsk
  <1>2. Missing = {}
    BY DEF KeysSeeAll, KeysAsk
  <1>3. IsConjunction(rhs) /\ AndParts(rhs) = {rhs}
    BY <1>1, KeysSuffice
  <1>4. HasKeywords(lhs) /\ HasKeywords(rhs)
    BY <1>1 DEF IsSchema
  <1>5. ASSUME NEW v \in Accepted(lhs) PROVE v \in Accepted(rhs)
    <2>1. v.object \in BOOLEAN
      BY LeftObject
    <2>2. CASE ~v.object
      BY <1>1, <1>3, <2>2, NotObjectsIncluded
    <2>3. CASE v.object
      <3> DEFINE size == Cardinality(DOMAIN v.values)
      <3>1. /\ size \in Nat /\ size >= LeastProperties(lhs) /\ (lhs.max # None => size <= lhs.max)
            /\ LeastProperties(lhs) \in Nat /\ LeastProperties(rhs) \in Nat
            /\ (lhs.max # None => lhs.max \in Nat) /\ (rhs.max # None => rhs.max \in Nat)
        BY <1>4, <2>3, LeftObject, CountTypes
      <3>2. size >= LeastProperties(rhs) /\ (rhs.max # None => size <= rhs.max)
        <4> HIDE DEF size
        <4>1. CASE rhs.min # None \/ rhs.max # None
          BY <3>1, <4>1 DEF CountsRemain, CountsDirectlySatisfied
        <4>2. CASE rhs.min = None /\ rhs.max = None
          BY <3>1, <4>2 DEF LeastProperties
        <4> QED BY <4>1, <4>2
      <3>3. ASSUME NEW n \in DOMAIN v.values PROVE v.values[n] \in Meaning(KeyTerm(rhs, n))
        <4>1. n \in Names /\ AllowsKey(lhs, n) /\ v.values[n] \in Meaning(KeyTerm(lhs, n))
          BY <2>3, LeftObject
        <4> QED BY <4>1, ObligationsReach
      <3> QED BY <1>1, <1>2, <2>3, <3>2, <3>3, KeysSufficeRight
    <2> QED BY <2>1, <2>2, <2>3
  <1> QED BY <1>5 DEF Included

-----------------------------------------------------------------------------
(* What the closed rule knows before it asks about values.                 *)
ClosedAsk ==
    LET l == facts.lhs.closed
        r == facts.rhs.closed
    IN  /\ l # None /\ r # None
        /\ l.others => r.others
        /\ r.objects /\ r.required \subseteq l.required
        /\ KeyspaceSatisfies(l, r)

OpenProved ==
    /\ RightUpper = None
    /\ \A p \in AndParts(rhs) : DOMAIN p.props = {} /\ DOMAIN p.patterns = {}

(* An open left side is proved only when the right declares nothing.       *)
LEMMA OpenKeyspaceFacts ==
    ASSUME NEW o \in OpenKeyspaceResults, facts.lhs.closed.others \in BOOLEAN
    PROVE  NoProof(o) \/ (o = ProvedTrue /\ OpenProved /\ ~facts.lhs.closed.others)
  <1> DEFINE violating == {Validated(ClosedWitness(names, NoValues)) : names \in ViolatingNames}
  <1>1. \A c \in violating : NoProof(c)
    BY OutcomeFacts
  <1>2. o \in IF RightUpper # None
              THEN IF ViolatingNames = {} THEN {Unsupported} ELSE violating
              ELSE IF \E p \in AndParts(rhs) : DOMAIN p.props # {} \/ DOMAIN p.patterns # {} THEN {Unsupported}
              ELSE {IncludedUnlessOthers(facts.lhs.closed.others)}
    BY DEF OpenKeyspaceResults
  <1> HIDE DEF violating
  <1> QED BY <1>1, <1>2, OutcomeFacts DEF OpenProved

(* The closed rule proves an uninhabited or an open left side, and asks    *)
(* else.                                                                   *)
LEMMA ClosedResultsFacts ==
    ASSUME FactsInv, NEW o \in ClosedResults
    PROVE  \/ NoProof(o)
           \/ /\ o = ProvedTrue /\ facts.lhs.closed # None /\ facts.rhs.closed # None
              /\ ~ClosedInhabited(facts.lhs.closed) /\ ~facts.lhs.closed.others
           \/ /\ o = ProvedTrue /\ ClosedAsk /\ ~facts.lhs.closed.finite
              /\ OpenProved /\ ~facts.lhs.closed.others
           \/ o = Ask /\ ClosedAsk /\ facts.lhs.closed.finite
  <1> DEFINE l == facts.lhs.closed
             r == facts.rhs.closed
             outside == {n \in l.allowed : l.finite /\ ~KeyspaceAccepts(r, n)}
             beyond == {Validated(ClosedWitness({n}, NoValues)) : n \in outside}
  <1>1. o \in
          IF None \in {l, r} THEN {Unsupported}
          ELSE IF l.others /\ ~r.others THEN {Validated(NotAnObject)}
          ELSE IF ~ClosedInhabited(l) THEN {IncludedUnlessOthers(l.others)}
          ELSE IF ~r.objects \/ ~(r.required \subseteq l.required)
          THEN {Validated(ClosedWitness({}, NoValues))}
          ELSE IF ~KeyspaceSatisfies(l, r)
          THEN IF outside = {} THEN {Unsupported} ELSE beyond
          ELSE IF l.finite THEN {Ask} ELSE OpenKeyspaceResults
    BY DEF ClosedResults
  <1>2. l # None => l.others \in BOOLEAN /\ l.finite \in BOOLEAN
    <2>1. IsSchema(lhs) /\ l = ClosedShape(lhs)
      BY FactsOfSchemas DEF FactsOf
    <2> HIDE DEF l
    <2> QED BY <2>1, ClosedShapeFacts DEF ClosedShapes
  <1>3. \A c \in beyond : NoProof(c)
    BY OutcomeFacts
  <1>4. CASE None \in {l, r} \/ (l.others /\ ~r.others) \/ ~ClosedInhabited(l)
    <2> HIDE DEF l, r, outside, beyond
    <2>1. \/ o \in {Unsupported, Validated(NotAnObject)}
          \/ None \notin {l, r} /\ ~ClosedInhabited(l) /\ o = IncludedUnlessOthers(l.others)
      BY <1>1, <1>4
    <2> QED BY <1>2, <2>1, OutcomeFacts DEF l, r
  <1>5. CASE ~(None \in {l, r} \/ (l.others /\ ~r.others) \/ ~ClosedInhabited(l))
    <2>1. \/ o = Validated(ClosedWitness({}, NoValues))
          \/ o = Unsupported \/ o \in beyond
          \/ /\ r.objects /\ r.required \subseteq l.required /\ KeyspaceSatisfies(l, r)
             /\ \/ l.finite /\ o = Ask
                \/ ~l.finite /\ o \in OpenKeyspaceResults
      <3> HIDE DEF l, r, outside, beyond
      <3> QED BY <1>1, <1>5
    <2>2. CASE /\ r.objects /\ r.required \subseteq l.required /\ KeyspaceSatisfies(l, r)
               /\ \/ l.finite /\ o = Ask
                  \/ ~l.finite /\ o \in OpenKeyspaceResults
      <3>1. ClosedAsk
        BY <1>5, <2>2 DEF ClosedAsk
      <3>2. ~l.finite => NoProof(o) \/ (o = ProvedTrue /\ OpenProved /\ ~l.others)
        BY <1>2, <1>5, <2>2, OpenKeyspaceFacts
      <3> QED BY <2>2, <3>1, <3>2
    <2>3. CASE \/ o = Validated(ClosedWitness({}, NoValues))
               \/ o = Unsupported \/ o \in beyond
      BY <1>3, <2>3, OutcomeFacts
    <2> QED BY <2>1, <2>2, <2>3
  <1> QED BY <1>4, <1>5

(* What the closed rule has at hand of both sides.                         *)
LEMMA ClosedFacts ==
    ASSUME FactsInv
    PROVE  /\ IsSchema(lhs) /\ IsSchema(rhs)
           /\ facts.lhs.closed = ClosedShape(lhs) /\ facts.rhs.closed = ClosedShape(rhs)
           /\ facts.lhs.counts = CountShape(lhs) /\ facts.rhs.counts = CountShape(rhs)
  BY FactsOfSchemas DEF FactsOf

(* The names of an object of the left are in its keyspace.                 *)
LEMMA ClosedLeft ==
    ASSUME FactsInv, ClosedShape(lhs) # None, NEW v \in Accepted(lhs)
    PROVE  /\ ~v.object => ClosedShape(lhs).others
           /\ v.object =>
                /\ ClosedShape(lhs).objects /\ ClosedShape(lhs).required \subseteq DOMAIN v.values
                /\ \A n \in DOMAIN v.values :
                     /\ KeyspaceAccepts(ClosedShape(lhs), n)
                     /\ ClosedTerm(lhs, n) # None => v.values[n] \in Meaning(ClosedTerm(lhs, n))
  <1>1. IsSchema(lhs) /\ v \in Instances /\ Holds(lhs, v) /\ v.object \in BOOLEAN
    BY LeftObject DEF Accepted
  <1>2. ~v.object => ClosedShape(lhs).others
    BY <1>1, PartsNeed, ClosedShapeFacts
  <1>3. v.object => ClosedShape(lhs).objects
    BY <1>1, PartsNeed, ClosedShapeFacts
  <1>4. v.object => ClosedShape(lhs).required \subseteq DOMAIN v.values
    <2>1. v.object => ClosedShape(lhs).required = UNION {p.required : p \in AndParts(lhs)}
      BY <1>1, <1>3, ClosedShapeFacts
    <2> QED BY <1>1, <2>1, RequiredPresent
  <1>5. \A n \in DOMAIN v.values :
          /\ KeyspaceAccepts(ClosedShape(lhs), n)
          /\ ClosedTerm(lhs, n) # None => v.values[n] \in Meaning(ClosedTerm(lhs, n))
    BY <1>1, ValuesHold
  <1> QED BY <1>2, <1>3, <1>4, <1>5

(* Enough of its values for the right side of the closed rule.             *)
LEMMA ClosedSufficeRight ==
    ASSUME FactsInv, ClosedAsk, CountsReachBelow,
           RightUpper = None \/ CountsReachAbove,
           NEW v \in Accepted(lhs), v.object,
           \A n \in DOMAIN v.values :
              ClosedTerm(rhs, n) # None => v.values[n] \in Meaning(ClosedTerm(rhs, n))
    PROVE  v \in Accepted(rhs)
  <1> DEFINE l == ClosedShape(lhs)
             r == ClosedShape(rhs)
  <1>1. /\ IsSchema(lhs) /\ IsSchema(rhs) /\ l # None /\ r # None /\ (l.others => r.others) /\ r.objects
        /\ r.required \subseteq l.required /\ KeyspaceSatisfies(l, r)
        /\ v \in Instances /\ Holds(lhs, v)
    BY ClosedFacts DEF ClosedAsk, Accepted
  <1>2. l.required \subseteq DOMAIN v.values /\ \A n \in DOMAIN v.values : KeyspaceAccepts(l, n)
    BY <1>1, ClosedLeft
  <1>3. ASSUME NEW n \in DOMAIN v.values PROVE KeyspaceAccepts(r, n)
    <2>1. KeyspaceAccepts(l, n)
      BY <1>2
    <2> HIDE DEF l, r
    <2> QED BY <1>1, <2>1 DEF KeyspaceSatisfies, KeyspaceAccepts
  <1>4. IsConjunction(rhs) /\ \A p \in AndParts(rhs) : Keywords(p) \subseteq ClosedKeywords
    BY <1>1, ClosedSuffice
  <1>5. /\ \A p \in AndParts(rhs) : AcceptsObjects(p)
        /\ AcceptsObjects(rhs)
    BY <1>1, ClosedShapeFacts DEF AndParts
  <1>6. CountShape(rhs) # None
    <2>1. ClosedKeywords \subseteq CountKeywords
      BY DEF ClosedKeywords, CountKeywords
    <2>2. AllIn(rhs, ClosedKeywords)
      BY <1>1 DEF ClosedShape
    <2>3. AllIn(rhs, CountKeywords)
      BY <2>1, <2>2 DEF AllIn
    <2> QED BY <1>1, <1>4, <2>3, CountShapeThere
  <1>7. /\ CountShape(rhs).intervals # <<>>
        /\ CountLower(CountShape(rhs)) <= CountLower(CountShape(lhs))
    BY <1>5, ClosedFacts DEF CountsReachBelow
  <1>8. \/ CountUpper(CountShape(rhs)) = None
        \/ /\ CountUpper(CountShape(lhs)) # None
           /\ CountUpper(CountShape(lhs)) <= CountUpper(CountShape(rhs))
    BY ClosedFacts DEF CountsReachAbove, RightUpper, LeftUpper
  <1>9. ASSUME NEW p \in AndParts(rhs)
        PROVE  /\ Cardinality(DOMAIN v.values) >= LeastProperties(p)
               /\ p.max # None => Cardinality(DOMAIN v.values) <= p.max
    BY <1>1, <1>4, <1>5, <1>6, <1>7, <1>8, CountsKept
  <1>10. r.required \subseteq DOMAIN v.values
    BY <1>1, <1>2
  <1>11. Holds(rhs, v)
    BY <1>1, <1>3, <1>9, <1>10, ClosedSuffice
  <1> QED BY <1>1, <1>11 DEF Accepted

(* What the closed rule proves without asking is included.                 *)
LEMMA ClosedProvedSound ==
    ASSUME FactsInv, NEW o \in ClosedResults, o # Ask
    PROVE  IsOutcome(o) /\ (o.status = "true" /\ ClosedSeesAll => Included)
  <1>1. SUFFICES ASSUME o = ProvedTrue, ClosedSeesAll PROVE Included
    BY ClosedResultsFacts, OutcomeFacts DEF NoProof
  <1>2. ~NoProof(o)
    BY <1>1, OutcomeFacts
  <1>3. CASE /\ facts.lhs.closed # None /\ facts.rhs.closed # None
             /\ ~ClosedInhabited(facts.lhs.closed) /\ ~facts.lhs.closed.others
    <2>1. ASSUME NEW v \in Accepted(lhs) PROVE FALSE
      <3>1. v.object \in BOOLEAN /\ facts.lhs.closed = ClosedShape(lhs)
        BY LeftObject, ClosedFacts
      <3>2. v.object
        BY <1>3, <3>1, ClosedLeft
      <3> QED BY <1>3, <3>1, <3>2, ClosedLeft DEF ClosedInhabited
    <2> QED BY <2>1 DEF Included
  <1>4. CASE ClosedAsk /\ OpenProved /\ ~facts.lhs.closed.others
    <2>1. CountsReachBelow
      BY <1>1, <1>4 DEF ClosedSeesAll, ClosedAsk
    <2>2. ASSUME NEW v \in Accepted(lhs) PROVE v \in Accepted(rhs)
      <3>1. v.object
        BY <1>4, LeftObject, ClosedLeft, ClosedFacts DEF ClosedAsk
      <3>2. ASSUME NEW n \in DOMAIN v.values PROVE ClosedTerm(rhs, n) = None
        <4>1. \A p \in AndParts(rhs) : n \notin DOMAIN p.props /\ ~MatchesPattern(p, n)
          BY <1>4 DEF OpenProved, MatchesPattern
        <4> QED BY <4>1, ClosedFacts, ClosedTermThere
      <3> QED BY <1>4, <2>1, <3>1, <3>2, ClosedSufficeRight DEF OpenProved
    <2> QED BY <2>2 DEF Included
  <1> QED BY <1>1, <1>2, <1>3, <1>4, ClosedResultsFacts, OutcomeFacts

(* What the closed rule asks suffices.                                     *)
LEMMA ClosedAskedSound ==
    ASSUME FactsInv, ClosedAsk, facts.lhs.closed.finite, ClosedSeesAll,
           \A o \in ClosedObligations : Settled(o)
    PROVE  Included
  <1>1. CountsReachBelow /\ CountsReachAbove
    BY DEF ClosedSeesAll, ClosedAsk
  <1>2. ASSUME NEW v \in Accepted(lhs) PROVE v \in Accepted(rhs)
    <2>1. v.object \in BOOLEAN /\ v \in Instances
      BY LeftObject
    <2>2. CASE ~v.object
      <3>1. ClosedShape(rhs).others
        BY <2>2, ClosedLeft, ClosedFacts DEF ClosedAsk
      <3>2. \A p \in AndParts(rhs) : AcceptsOthers(p)
        BY <3>1, ClosedFacts, ClosedShapeFacts DEF ClosedAsk
      <3>3. Holds(rhs, v)
        BY <2>2, <3>2, OthersHold, ClosedFacts, ClosedSuffice DEF ClosedAsk
      <3> QED BY <2>1, <3>3 DEF Accepted
    <2>3. CASE v.object
      <3>1. ASSUME NEW n \in DOMAIN v.values, ClosedTerm(rhs, n) # None
            PROVE  v.values[n] \in Meaning(ClosedTerm(rhs, n))
        <4>1. v.values[n] \in Values
          BY <2>3, LeftObject
        <4>2. CASE IsTrue(ClosedTerm(rhs, n))
          BY <4>1, <4>2 DEF IsTrue, Meaning
        <4>3. CASE ~IsTrue(ClosedTerm(rhs, n))
          <5> DEFINE o == Obligation(n, ClosedTerm(lhs, n), ClosedTerm(rhs, n))
          <5>1. n \in facts.lhs.closed.allowed
            BY <2>3, ClosedLeft, ClosedFacts DEF ClosedAsk, KeyspaceAccepts
          <5>2. o \in ClosedObligations
            BY <3>1, <4>3, <5>1 DEF ClosedObligations, Obligation
          <5>3. o.left = ClosedTerm(lhs, n) /\ o.right = ClosedTerm(rhs, n)
            BY DEF Obligation
          <5> HIDE DEF o
          <5>4. ClosedTerm(lhs, n) # None /\ Meaning(ClosedTerm(lhs, n)) \subseteq Meaning(ClosedTerm(rhs, n))
            BY <5>2, <5>3 DEF Settled
          <5>5. v.values[n] \in Meaning(ClosedTerm(lhs, n))
            BY <2>3, <3>1, <5>4, ClosedLeft, ClosedFacts DEF ClosedAsk
          <5> QED BY <5>4, <5>5
        <4> QED BY <4>2, <4>3
      <3> QED BY <1>1, <2>3, <3>1, ClosedSufficeRight
    <2> QED BY <2>1, <2>2, <2>3
  <1> QED BY <1>2 DEF Included

-----------------------------------------------------------------------------
(* A finite set of obligations is asked in some order.                     *)
LEMMA SetInOrder ==
    ASSUME NEW S, IsFiniteSet(S)
    PROVE  SetToSeq(S) \in Seq(S) /\ ToSet(SetToSeq(S)) = S
  <1> DEFINE n == Cardinality(S)
             f == SetToSeq(S)
  <1>1. n \in Nat /\ ExistsBijection(1 .. n, S)
    BY FS_CardinalityType
  <1>2. PICK b : b \in Bijection(1 .. n, S)
    BY <1>1 DEF ExistsBijection
  <1>3. b \in [1 .. n -> S] /\ IsInjective(b)
    BY <1>2 DEF Bijection, Injection, IsInjective
  <1>4. f \in [1 .. n -> S] /\ IsInjective(f)
    BY <1>3 DEF SetToSeq
  <1> HIDE DEF f
  <1>5. f \in Injection(1 .. n, S)
    BY <1>4 DEF Injection, IsInjective
  <1>6. IsFiniteSet(1 .. n) /\ Cardinality(1 .. n) = n
    BY <1>1, FS_Interval
  <1>7. f \in Surjection(1 .. n, S)
    BY <1>5, <1>6, FS_Injection
  <1>8. \A x \in S : \E k \in 1 .. n : f[k] = x
    BY <1>7 DEF Surjection
  <1>9. f \in Seq(S)
    BY <1>1, <1>4
  <1>10. ToSet(f) = S
    BY <1>4, <1>8 DEF ToSet
  <1> QED BY <1>9, <1>10 DEF f

(* An image of a finite set is finite.                                     *)
LEMMA FiniteImage ==
    ASSUME NEW S, IsFiniteSet(S), NEW T, NEW f \in [S -> T]
    PROVE  IsFiniteSet({f[x] : x \in S})
  <1> DEFINE R == {f[x] : x \in S}
  <1>1. f \in Surjection(S, R)
    BY DEF Surjection
  <1> QED BY <1>1, FS_Surjection

(* The names a schema declares are finitely many.                          *)
LEMMA FinitelyDeclared ==
    ASSUME NEW s, IsSchema(s)
    PROVE  /\ IsFiniteSet(UNION {DOMAIN p.props : p \in AndParts(s)})
           /\ UNION {DOMAIN p.props : p \in AndParts(s)} \subseteq Names
           /\ IsFiniteSet(DOMAIN s.props) /\ IsFiniteSet(s.required) /\ IsFiniteSet(DOMAIN s.patterns)
           /\ DOMAIN s.props \cup s.required \subseteq Names
  <1>1. \A p \in AndParts(s) :
          /\ IsFiniteSet(DOMAIN p.props) /\ IsFiniteSet(p.required) /\ IsFiniteSet(DOMAIN p.patterns)
          /\ DOMAIN p.props \cup p.required \subseteq Names
    BY AndPartFacts DEF HasKeywords, IsMap
  <1>2. s \in AndParts(s)
    BY DEF AndParts
  <1>3. IsFiniteSet(AndParts(s))
    <2>1. AreBranches(s.allOf)
      BY DEF IsSchema
    <2>2. IsFiniteSet(ToSet(s.allOf))
      BY <2>1, BranchFacts
    <2>3. IsFiniteSet({s})
      BY FS_Singleton
    <2>4. IsFiniteSet({s} \cup ToSet(s.allOf))
      BY <2>2, <2>3, FS_Union
    <2> QED BY <2>4 DEF AndParts
  <1> DEFINE f == [p \in AndParts(s) |-> DOMAIN p.props]
             T == {f[p] : p \in AndParts(s)}
  <1>4. IsFiniteSet(T)
    <2>1. f \in [AndParts(s) -> SUBSET Names]
      BY <1>1
    <2> HIDE DEF f
    <2> QED BY <1>3, <2>1, FiniteImage
  <1>5. T = {DOMAIN p.props : p \in AndParts(s)}
    OBVIOUS
  <1>6. \A d \in T : IsFiniteSet(d)
    BY <1>1, <1>5
  <1>7. IsFiniteSet(UNION T)
    BY <1>4, <1>6, FS_UNION
  <1> HIDE DEF T
  <1> QED BY <1>1, <1>2, <1>5, <1>7

(* Obligations: finitely many, about names, and with a right side.         *)
WellPut(S) == IsFiniteSet(S) /\ \A o \in S : o.name \in Names /\ o.right # None

(* What there is one of for each of finitely many is finite.               *)
LEMMA FinitelyPut ==
    ASSUME NEW N, IsFiniteSet(N), NEW S, NEW f, f = [n \in N |-> f[n]],
           S \subseteq {f[n] : n \in N}
    PROVE  IsFiniteSet(S)
  <1> DEFINE R == {f[n] : n \in N}
  <1>1. f \in Surjection(N, R)
    BY DEF Surjection
  <1>2. IsFiniteSet(R)
    BY <1>1, FS_Surjection
  <1> QED BY <1>2, FS_Subset

(* The obligations of the values rule are well put.                        *)
LEMMA ValuesWellPut ==
    ASSUME FactsInv, facts.rhs.values # None
    PROVE  WellPut(ValuesObligations)
  <1> DEFINE N == UNION {DOMAIN p.props : p \in AndParts(rhs)}
             f == [n \in N |-> Obligation(n, ValueTerm(lhs, n), ValueTerm(rhs, n))]
  <1>1. IsSchema(rhs) /\ facts.rhs.values = ValuesShape(rhs)
    BY FactsOfSchemas DEF FactsOf
  <1>2. facts.rhs.values.names = N
    BY <1>1 DEF ValuesShape
  <1>3. ASSUME NEW o \in ValuesObligations
        PROVE  \E n \in N : o = f[n]
    BY <1>2 DEF ValuesObligations
  <1>4. IsFiniteSet(N) /\ N \subseteq Names
    BY <1>1, FinitelyDeclared
  <1>5. \A n \in N : f[n].name = n /\ f[n].right # None
    <2>1. \A n \in N : ValueTerm(rhs, n) # None
      <3>1. \A p \in AndParts(rhs) : HasKeywords(p)
        BY <1>1, AndPartFacts
      <3> QED BY <3>1, PropertyTermFacts DEF ValueTerm
    <2> HIDE DEF N
    <2> QED BY <2>1 DEF Obligation
  <1>6. f = [n \in N |-> f[n]]
    OBVIOUS
  <1> HIDE DEF f, N
  <1>7. ValuesObligations \subseteq {f[n] : n \in N}
    BY <1>3
  <1>8. IsFiniteSet(ValuesObligations)
    BY <1>4, <1>6, <1>7, FinitelyPut
  <1> QED BY <1>3, <1>4, <1>5, <1>8 DEF WellPut

(* The obligations of the closed rule are well put.                        *)
LEMMA ClosedWellPut ==
    ASSUME FactsInv, facts.lhs.closed # None
    PROVE  WellPut(ClosedObligations)
  <1> DEFINE N == facts.lhs.closed.allowed
             f == [n \in N |-> Obligation(n, ClosedTerm(lhs, n), ClosedTerm(rhs, n))]
  <1>1. IsSchema(lhs) /\ facts.lhs.closed = ClosedShape(lhs)
    BY ClosedFacts
  <1>2. N \subseteq UNION {DOMAIN p.props : p \in AndParts(lhs)}
    BY <1>1, ClosedShapeFacts
  <1>3. IsFiniteSet(N) /\ N \subseteq Names
    <2> HIDE DEF N
    <2> QED BY <1>1, <1>2, FinitelyDeclared, FS_Subset
  <1>4. ASSUME NEW o \in ClosedObligations
        PROVE  (\E n \in N : o = f[n]) /\ o.right # None
    BY DEF ClosedObligations
  <1>5. \A n \in N : f[n].name = n
    BY DEF Obligation
  <1>6. f = [n \in N |-> f[n]]
    OBVIOUS
  <1> HIDE DEF f, N
  <1>7. ClosedObligations \subseteq {f[n] : n \in N}
    BY <1>4
  <1>8. IsFiniteSet(ClosedObligations)
    BY <1>3, <1>6, <1>7, FinitelyPut
  <1> QED BY <1>3, <1>4, <1>5, <1>8 DEF WellPut

(* There are no more representatives than sets of languages.               *)
LEMMA FinitelyRepresented ==
    ASSUME FactsInv
    PROVE  /\ IsFiniteSet(Declared \cup {Representative(n) : n \in Names \ Declared})
           /\ Declared \cup {Representative(n) : n \in Names \ Declared} \subseteq Names
  <1> DEFINE R == {Representative(n) : n \in Names \ Declared}
             L == Patterns \cup {lhs.names, rhs.names}
             All == L \ {None}
             At(names) == {m \in Names \ Declared : {p \in All : m \in p} = names}
             g == [names \in SUBSET All |-> CHOOSE m \in At(names) : TRUE]
  <1>1. IsSchema(lhs) /\ IsSchema(rhs)
    BY FactsOfSchemas
  <1>2. IsFiniteSet(Declared) /\ Declared \subseteq Names
    <2>1. IsFiniteSet(DOMAIN lhs.props \cup DOMAIN rhs.props)
      BY <1>1, FinitelyDeclared, FS_Union
    <2>2. IsFiniteSet(lhs.required \cup rhs.required)
      BY <1>1, FinitelyDeclared, FS_Union
    <2>3. IsFiniteSet((DOMAIN lhs.props \cup DOMAIN rhs.props) \cup (lhs.required \cup rhs.required))
      BY <2>1, <2>2, FS_Union
    <2>4. Declared = (DOMAIN lhs.props \cup DOMAIN rhs.props) \cup (lhs.required \cup rhs.required)
      BY DEF Declared
    <2>5. Declared \subseteq Names
      BY <1>1, FinitelyDeclared DEF Declared
    <2> QED BY <2>3, <2>4, <2>5
  <1>3. IsFiniteSet(All)
    <2>1. IsFiniteSet(Patterns)
      BY <1>1, FinitelyDeclared, FS_Union DEF Patterns
    <2>2. IsFiniteSet({lhs.names}) /\ IsFiniteSet({rhs.names})
      BY FS_Singleton
    <2>3. IsFiniteSet({lhs.names} \cup {rhs.names})
      BY <2>2, FS_Union
    <2>4. {lhs.names} \cup {rhs.names} = {lhs.names, rhs.names}
      OBVIOUS
    <2>5. IsFiniteSet(L)
      BY <2>1, <2>3, <2>4, FS_Union
    <2> QED BY <2>5, FS_Subset
  <1>4. IsFiniteSet(SUBSET All)
    BY <1>3, FS_SUBSET
  <1>5. ASSUME NEW n \in Names \ Declared
        PROVE  Representative(n) \in {g[names] : names \in SUBSET All}
    <2> DEFINE names == {p \in All : n \in p}
    <2>1. \A m : m \in Like(n) <=> m \in At(names)
      <3>1. ASSUME NEW m PROVE m \in Like(n) <=> m \in At(names)
        <4>1. m \in At(names) <=> m \in Names \ Declared /\ \A p \in All : m \in p <=> n \in p
          OBVIOUS
        <4>2. (\A p \in All : m \in p <=> n \in p) <=>
                /\ \A p \in Patterns : m \in p <=> n \in p
                /\ \A s \in {lhs, rhs} : s.names # None => (m \in s.names <=> n \in s.names)
          <5>1. \A p \in Patterns : p # None
            <6>1. Patterns \subseteq SUBSET Names
              BY <1>1 DEF Patterns, IsSchema, HasKeywords, IsMap
            <6> QED BY <6>1, NoTermAssumption
          <5> QED BY <5>1
        <4> QED BY <4>1, <4>2 DEF Like
      <3> QED BY <3>1
    <2>2. Like(n) = At(names)
      BY <2>1
    <2>3. names \in SUBSET All
      OBVIOUS
    <2>4. Representative(n) = g[names]
      BY <2>2, <2>3 DEF Representative
    <2> QED BY <2>3, <2>4
  <1>6. IsFiniteSet({g[names] : names \in SUBSET All})
    <2>1. g = [names \in SUBSET All |-> g[names]]
      OBVIOUS
    <2> HIDE DEF g, All
    <2> QED BY <1>4, <2>1, FinitelyPut
  <1>7. R \subseteq {g[names] : names \in SUBSET All}
    <2> HIDE DEF g, All
    <2> QED BY <1>5
  <1>8. R \subseteq Names
    BY Represented
  <1>9. IsFiniteSet(R)
    <2> HIDE DEF g, All, R
    <2> QED BY <1>6, <1>7, FS_Subset
  <1>10. IsFiniteSet(Declared \cup R)
    BY <1>2, <1>9, FS_Union
  <1> QED BY <1>2, <1>8, <1>10

(* There is a term for every key.                                          *)
LEMMA KeyTermThere ==
    ASSUME NEW s, HasKeywords(s), NEW n
    PROVE  KeyTerm(s, n) # None
  <1>1. SchemasFor(s, n) \subseteq SUBSET Values
    BY SchemasForFacts DEF HasKeywords, IsMap
  <1>2. KeyTerm(s, n) \in SUBSET SUBSET Values
    BY <1>1 DEF KeyTerm, Conjunction, FalseValue
  <1> QED BY <1>2, NoTermAssumption

(* The obligations of the key rule are well put.                           *)
LEMMA KeysWellPut ==
    ASSUME FactsInv
    PROVE  WellPut(KeyObligations)
  <1> DEFINE N == Declared \cup {Representative(n) : n \in Names \ Declared}
             f == [n \in N |-> Obligation(n, facts.lhs.terms[n], facts.rhs.terms[n])]
  <1>1. IsFiniteSet(N) /\ N \subseteq Names
    BY FinitelyRepresented
  <1>2. ASSUME NEW o \in KeyObligations PROVE \E n \in N : o = f[n]
    BY KeyObligationsAre
  <1>3. ASSUME NEW n \in N PROVE f[n].name = n /\ f[n].right # None
    <2>1. n \in Names /\ f[n] = Obligation(n, facts.lhs.terms[n], facts.rhs.terms[n])
      BY <1>1
    <2>2. facts.rhs.terms[n] = KeyTerm(rhs, n) /\ HasKeywords(rhs)
      BY <2>1, KeyFacts, FactsOfSchemas DEF IsSchema
    <2>3. facts.rhs.terms[n] # None
      BY <2>2, KeyTermThere
    <2> QED BY <2>1, <2>3 DEF Obligation
  <1>4. f = [n \in N |-> f[n]]
    OBVIOUS
  <1> HIDE DEF f, N
  <1>5. KeyObligations \subseteq {f[n] : n \in N}
    BY <1>2
  <1>6. IsFiniteSet(KeyObligations)
    BY <1>1, <1>4, <1>5, FinitelyPut
  <1> QED BY <1>1, <1>2, <1>3, <1>6 DEF WellPut

-----------------------------------------------------------------------------
(* A proof of the inclusion may be trusted where the rules see all.        *)
Sound == RulesSeeAll => Included

AskingPhases == {"values child", "keys child", "closed child"}
RulePhases == {"count", "presence", "values", "keys", "names", "closed", "done"}

(* What is left to ask suffices.                                           *)
Pending ==
    (\A o \in ToSet(todo) : Settled(o)) /\ (phase = "keys child" => CountsRemain) => Sound

SoundInv ==
    /\ FactsInv
    /\ phase \in RulePhases \cup AskingPhases
    /\ IsOutcome(result)
    /\ result.status = "true" => phase = "done" /\ Sound
    /\ todo \in Seq(ToSet(todo))
    /\ todo # <<>> => Asking
    /\ \A o \in ToSet(todo) : o.name \in Names /\ o.right # None
    /\ Asking => Pending

(* The question stays, and with it what is true of it.                     *)
LEMMA SoundStays ==
    ASSUME UNCHANGED <<query, facts>>
    PROVE  (Sound' <=> Sound) /\ (CountsRemain' <=> CountsRemain) /\ FactsInv' = FactsInv
  <1>1. /\ lhs' = lhs /\ rhs' = rhs /\ facts' = facts /\ query' = query
        /\ LeftUpper' = LeftUpper /\ RightUpper' = RightUpper
        /\ ClosedWorld' = ClosedWorld /\ MentionedNames' = MentionedNames
        /\ Missing' = Missing /\ CountsReachBelow' = CountsReachBelow
    BY DEF lhs, rhs, LeftUpper, RightUpper, ClosedWorld, MentionedNames, Missing, CountsReachBelow
  <1>2. FreshCount' = FreshCount /\ CountsReachAbove' = CountsReachAbove
        /\ ProductIsComplete' = ProductIsComplete
    BY <1>1 DEF FreshCount, CountsReachAbove, ProductIsComplete
  <1>3. PresenceSeesAll' = PresenceSeesAll
    BY <1>1, <1>2 DEF PresenceSeesAll
  <1>4. KeysSeeAll' = KeysSeeAll /\ ClosedSeesAll' = ClosedSeesAll
    BY <1>1, <1>2 DEF KeysSeeAll, ClosedSeesAll
  <1>5. RulesSeeAll' = RulesSeeAll
    BY <1>3, <1>4 DEF RulesSeeAll
  <1>6. Included' = Included
    BY <1>1 DEF Included
  <1>7. CountsRemain' = CountsRemain
    BY <1>1 DEF CountsRemain, CountsDirectlySatisfied
  <1>8. FactsInv' = FactsInv
    BY DEF FactsInv
  <1> QED BY <1>5, <1>6, <1>7, <1>8 DEF Sound

(* The empty sequence asks nothing.                                        *)
LEMMA NothingToAsk == <<>> \in Seq(ToSet(<<>>)) /\ \A o \in ToSet(<<>>) : FALSE
  BY DEF ToSet

(* A sequence is one of its own elements.                                  *)
LEMMA SequenceOfItsOwn ==
    ASSUME NEW T, NEW s \in Seq(T)
    PROVE  s \in Seq(ToSet(s))
  <1>1. Len(s) \in Nat /\ DOMAIN s = 1 .. Len(s) /\ s = [k \in 1 .. Len(s) |-> s[k]]
    BY LenProperties
  <1>2. \A k \in 1 .. Len(s) : s[k] \in ToSet(s)
    BY <1>1 DEF ToSet
  <1>3. s \in [1 .. Len(s) -> ToSet(s)]
    BY <1>1, <1>2
  <1> QED BY <1>1, <1>3

(* A rule that concludes keeps the invariant.                              *)
LEMMA ConcludeStep ==
    ASSUME SoundInv, phase # "done", UNCHANGED <<query, facts>>,
           NEW outcome, NEW next \in RulePhases, Conclude(outcome, next),
           IsOutcome(outcome), outcome.status = "true" => Sound
    PROVE  SoundInv'
  <1>1. todo' = <<>> /\ IF outcome = Unsupported THEN phase' = next /\ result' = result
                        ELSE phase' = "done" /\ result' = outcome
    BY DEF Conclude
  <1>2. IsOutcome(result) /\ result.status # "true"
    BY DEF SoundInv
  <1>3. FactsInv' /\ (Sound' <=> Sound)
    BY SoundStays DEF SoundInv
  <1>4. phase' \in RulePhases /\ ~Asking'
    BY <1>1 DEF RulePhases, Asking
  <1>5. IsOutcome(result)' /\ (result'.status = "true" => phase' = "done" /\ Sound')
    BY <1>1, <1>2, <1>3
  <1>6. todo' \in Seq(ToSet(todo')) /\ \A o \in ToSet(todo') : FALSE
    BY <1>1, NothingToAsk
  <1> QED BY <1>1, <1>3, <1>4, <1>5, <1>6 DEF SoundInv

(* A rule that asks keeps the invariant, if what it asks suffices.         *)
LEMMA AskStep ==
    ASSUME SoundInv, phase # "done", UNCHANGED <<query, facts, result>>,
           NEW S, WellPut(S), todo' = SetToSeq(S), phase' \in AskingPhases,
           (\A o \in S : Settled(o)) /\ (phase' = "keys child" => CountsRemain) => Sound
    PROVE  SoundInv'
  <1>1. todo' \in Seq(S) /\ ToSet(todo') = S
    BY SetInOrder DEF WellPut
  <1>2. FactsInv' /\ (Sound' <=> Sound) /\ (CountsRemain' <=> CountsRemain)
    BY SoundStays DEF SoundInv
  <1>3. Asking'
    BY DEF Asking, AskingPhases
  <1>4. IsOutcome(result)' /\ result'.status # "true"
    BY DEF SoundInv
  <1>5. Pending'
    BY <1>1, <1>2 DEF Pending
  <1>6. \A o \in ToSet(todo') : o.name \in Names /\ o.right # None
    BY <1>1 DEF WellPut
  <1> QED BY <1>1, <1>2, <1>3, <1>4, <1>5, <1>6 DEF SoundInv

(* A rule that asks: its outcome concludes, or its obligations are put.    *)
LEMMA RuleStep ==
    ASSUME SoundInv, phase # "done", UNCHANGED <<query, facts>>,
           NEW outcome, NEW next \in RulePhases, NEW child \in AskingPhases, NEW S,
           ConcludeOrAsk(outcome, S, child, next),
           outcome # Ask => IsOutcome(outcome) /\ (outcome.status = "true" => Sound),
           outcome = Ask => WellPut(S),
           outcome = Ask /\ (\A o \in S : Settled(o)) /\ (child = "keys child" => CountsRemain) => Sound
    PROVE  SoundInv'
  <1>1. CASE outcome = Ask
    <2>1. phase' = child /\ todo' = SetToSeq(S) /\ UNCHANGED result
      BY <1>1 DEF ConcludeOrAsk
    <2>2. (\A o \in S : Settled(o)) /\ (phase' = "keys child" => CountsRemain) => Sound
      BY <1>1, <2>1
    <2> QED BY <1>1, <2>1, <2>2, AskStep
  <1>2. CASE outcome # Ask
    <2>1. Conclude(outcome, next)
      BY <1>2 DEF ConcludeOrAsk
    <2> QED BY <1>2, <2>1, ConcludeStep
  <1> QED BY <1>1, <1>2

(* The result of one obligation settles it when it is true.                *)
LEMMA ValueResultFacts ==
    ASSUME NEW o
    PROVE  IsOutcome(ValueResult(o)) /\ (ValueResult(o).status = "true" => Settled(o))
  <1>1. IsOutcome(ChildProof(o.left, o.right))
        /\ (ChildProof(o.left, o.right).status = "true" => Settled(o))
    BY ChildProofFacts DEF Settled
  <1> DEFINE proof == ChildProof(o.left, o.right)
             v == ObjectWith(Given(o.name, proof.witness))
  <1>2. ValueResult(o) =
          IF proof.status # "false" THEN proof
          ELSE IF v = None \/ (phase = "closed child" /\ Validated(v) = Unsupported) THEN Certified
          ELSE Validated(v)
    BY DEF ValueResult
  <1> HIDE DEF proof, v
  <1>3. IsOutcome(proof) /\ (proof.status = "true" => Settled(o))
    BY <1>1 DEF proof
  <1> QED BY <1>2, <1>3, OutcomeFacts DEF NoProof

(* The invariant holds at first.                                           *)
LEMMA SoundInit == Init => SoundInv
  <1> SUFFICES ASSUME Init PROVE SoundInv
    OBVIOUS
  <1>1. FactsInv /\ phase = "count" /\ todo = <<>> /\ result = Unsupported
    BY DEF Init, FactsInv
  <1>2. IsOutcome(result) /\ result.status # "true"
    BY <1>1, OutcomeFacts DEF NoProof
  <1>3. ~Asking /\ phase \in RulePhases
    BY <1>1 DEF Asking, RulePhases
  <1> QED BY <1>1, <1>2, <1>3, NothingToAsk DEF SoundInv

(* Every action keeps the invariant.                                       *)
LEMMA SoundStep ==
    ASSUME SoundInv, [Next]_vars
    PROVE  SoundInv'
  <1>0. FactsInv /\ (Included => Sound)
    BY DEF SoundInv, Sound
  <1>1. CASE ProveCount
    <2>1. PICK outcome \in CountResults : Conclude(outcome, "presence")
      BY <1>1 DEF ProveCount
    <2>2. phase # "done" /\ UNCHANGED <<query, facts>> /\ "presence" \in RulePhases
      BY <1>1 DEF ProveCount, RulePhases
    <2> QED BY <1>0, <2>1, <2>2, CountRuleSound, ConcludeStep
  <1>2. CASE ProvePresence
    <2>1. PICK outcome \in PresenceResults : Conclude(outcome, "values")
      BY <1>2 DEF ProvePresence
    <2>2. phase # "done" /\ UNCHANGED <<query, facts>> /\ "values" \in RulePhases
      BY <1>2 DEF ProvePresence, RulePhases
    <2>3. IsOutcome(outcome) /\ (outcome.status = "true" => Sound)
      BY <1>0, PresenceRuleSound DEF Sound, RulesSeeAll
    <2> QED BY <2>1, <2>2, <2>3, ConcludeStep
  <1>3. CASE ProveValues
    <2>1. /\ ConcludeOrAsk(ValuesPlan, ValuesObligations, "values child", "keys")
          /\ phase # "done" /\ UNCHANGED <<query, facts>>
          /\ "keys" \in RulePhases /\ "values child" \in AskingPhases
      BY <1>3 DEF ProveValues, RulePhases, AskingPhases
    <2>2. ValuesPlan # Ask => IsOutcome(ValuesPlan) /\ (ValuesPlan.status = "true" => Sound)
      BY <1>0, ValuesRuleSound
    <2>3. ValuesPlan = Ask => WellPut(ValuesObligations)
      <3>1. ValuesPlan = Ask => facts.rhs.values # None
        BY OutcomeFacts DEF ValuesPlan, Ask, Unsupported, Result
      <3> QED BY <1>0, <3>1, ValuesWellPut
    <2>4. ValuesPlan = Ask /\ (\A o \in ValuesObligations : Settled(o)) => Sound
      BY <1>0, ValuesRuleSound
    <2> QED BY <2>1, <2>2, <2>3, <2>4, RuleStep
  <1>4. CASE ProveKeys
    <2>1. PICK outcome \in KeysResults : ConcludeOrAsk(outcome, KeyObligations, "keys child", "names")
      BY <1>4 DEF ProveKeys
    <2>2. /\ phase # "done" /\ UNCHANGED <<query, facts>>
          /\ "names" \in RulePhases /\ "keys child" \in AskingPhases
      BY <1>4 DEF ProveKeys, RulePhases, AskingPhases
    <2>3. outcome # Ask => IsOutcome(outcome) /\ (outcome.status = "true" => Sound)
      BY <1>0, KeysProvedSound DEF Sound, RulesSeeAll
    <2>4. outcome = Ask => KeysAsk
      BY KeysResultsFacts, OutcomeFacts DEF NoProof, IsOutcome, Ask, ProvedTrue, Result
    <2>5. outcome = Ask /\ (\A o \in KeyObligations : Settled(o)) /\ CountsRemain => Sound
      BY <1>0, <2>4, KeysAskedSound DEF Sound, RulesSeeAll
    <2>6. WellPut(KeyObligations)
      BY <1>0, KeysWellPut
    <2> QED BY <2>1, <2>2, <2>3, <2>5, <2>6, RuleStep
  <1>5. CASE ProveNames
    <2>1. PICK outcome \in NamesResults : Conclude(outcome, "closed")
      BY <1>5 DEF ProveNames
    <2>2. phase # "done" /\ UNCHANGED <<query, facts>> /\ "closed" \in RulePhases
      BY <1>5 DEF ProveNames, RulePhases
    <2> QED BY <1>0, <2>1, <2>2, NamesRuleSound, ConcludeStep
  <1>6. CASE ProveClosed
    <2>1. PICK outcome \in ClosedResults : ConcludeOrAsk(outcome, ClosedObligations, "closed child", "done")
      BY <1>6 DEF ProveClosed
    <2>2. /\ phase # "done" /\ UNCHANGED <<query, facts>>
          /\ "done" \in RulePhases /\ "closed child" \in AskingPhases
      BY <1>6 DEF ProveClosed, RulePhases, AskingPhases
    <2>3. outcome # Ask => IsOutcome(outcome) /\ (outcome.status = "true" => Sound)
      BY <1>0, ClosedProvedSound DEF Sound, RulesSeeAll
    <2>4. outcome = Ask => ClosedAsk /\ facts.lhs.closed.finite
      BY <1>0, ClosedResultsFacts, OutcomeFacts DEF NoProof, IsOutcome, Ask, ProvedTrue, Result
    <2>5. outcome = Ask /\ (\A o \in ClosedObligations : Settled(o)) => Sound
      BY <1>0, <2>4, ClosedAskedSound DEF Sound, RulesSeeAll
    <2>6. outcome = Ask => WellPut(ClosedObligations)
      BY <1>0, <2>4, ClosedWellPut DEF ClosedAsk
    <2> QED BY <2>1, <2>2, <2>3, <2>5, <2>6, RuleStep
  <1>7. CASE ProveValue
    <2> DEFINE outcome == ValueResult(Head(todo))
    <2>1. /\ Asking /\ todo # <<>> /\ UNCHANGED <<query, facts>>
          /\ IF outcome.status = "true" THEN todo' = Tail(todo) /\ phase' = phase /\ result' = result
             ELSE Conclude(outcome, NextRule)
      BY <1>7 DEF ProveValue
    <2>2. IsOutcome(outcome) /\ (outcome.status = "true" => Settled(Head(todo)))
      BY ValueResultFacts
    <2>3. phase # "done" /\ NextRule \in RulePhases
      BY <2>1 DEF Asking, NextRule, RulePhases
    <2> HIDE DEF outcome
    <2>4. CASE outcome.status # "true"
      BY <2>1, <2>2, <2>3, <2>4, ConcludeStep
    <2>5. CASE outcome.status = "true"
      <3>1. todo' = Tail(todo) /\ phase' = phase /\ result' = result
        BY <2>1, <2>5
      <3>2. /\ todo' \in Seq(ToSet(todo')) /\ ToSet(todo') \subseteq ToSet(todo)
            /\ \A o \in ToSet(todo) : o = Head(todo) \/ o \in ToSet(todo')
        <4>1. todo \in Seq(ToSet(todo))
          BY DEF SoundInv
        <4>2. Tail(todo) \in Seq(ToSet(todo)) /\ ToSet(todo) = {Head(todo)} \cup ToSet(Tail(todo))
          BY <2>1, <4>1, HeadAndTail
        <4>3. todo' \in Seq(ToSet(todo))
          BY <3>1, <4>2
        <4>4. todo' \in Seq(ToSet(todo'))
          BY <4>3, SequenceOfItsOwn
        <4> QED BY <3>1, <4>2, <4>4
      <3>3. FactsInv' /\ (Sound' <=> Sound) /\ (CountsRemain' <=> CountsRemain)
        BY <2>1, SoundStays DEF SoundInv
      <3>4. IsOutcome(result)' /\ result'.status # "true" /\ phase' \in RulePhases \cup AskingPhases
        BY <2>3, <3>1 DEF SoundInv
      <3>5. Asking'
        BY <2>1, <3>1 DEF Asking
      <3>6. Pending'
        <4>1. Pending
          BY <2>1 DEF SoundInv
        <4> QED BY <2>2, <2>5, <3>1, <3>2, <3>3, <4>1 DEF Pending
      <3>7. \A o \in ToSet(todo') : o.name \in Names /\ o.right # None
        BY <3>2 DEF SoundInv
      <3> QED BY <3>2, <3>3, <3>4, <3>5, <3>6, <3>7 DEF SoundInv
    <2> QED BY <2>4, <2>5
  <1>8. CASE ValuesIncluded
    <2> DEFINE outcome == IF phase = "keys child" /\ (rhs.min # None \/ rhs.max # None)
                             /\ ~CountsDirectlySatisfied
                          THEN Unsupported ELSE ProvedTrue
    <2>1. Asking /\ todo = <<>> /\ UNCHANGED <<query, facts>> /\ Conclude(outcome, NextRule)
      BY <1>8 DEF ValuesIncluded
    <2>2. phase # "done" /\ NextRule \in RulePhases
      BY <2>1 DEF Asking, NextRule, RulePhases
    <2>3. outcome = ProvedTrue => (phase = "keys child" => CountsRemain)
      BY OutcomeFacts DEF CountsRemain, NoProof
    <2>4. outcome = ProvedTrue => Sound
      <3>1. Pending
        BY <2>1 DEF SoundInv
      <3> HIDE DEF outcome
      <3> QED BY <2>1, <2>3, <3>1, NothingToAsk DEF Pending
    <2>5. IsOutcome(outcome) /\ (outcome.status = "true" => Sound)
      <3>1. outcome = Unsupported \/ outcome = ProvedTrue
        OBVIOUS
      <3> HIDE DEF outcome
      <3> QED BY <2>4, <3>1, OutcomeFacts DEF NoProof
    <2> HIDE DEF outcome
    <2> QED BY <2>1, <2>2, <2>5, ConcludeStep
  <1>9. CASE UNCHANGED vars
    <2>1. /\ UNCHANGED <<query, facts>> /\ todo' = todo /\ phase' = phase /\ result' = result
      BY <1>9 DEF vars
    <2>2. FactsInv' /\ (Sound' <=> Sound) /\ (CountsRemain' <=> CountsRemain)
      BY <2>1, SoundStays DEF SoundInv
    <2>3. (Asking' <=> Asking) /\ (Pending' <=> Pending)
      BY <2>1, <2>2 DEF Asking, Pending
    <2> QED BY <2>1, <2>2, <2>3 DEF SoundInv
  <1> QED BY <1>1, <1>2, <1>3, <1>4, <1>5, <1>6, <1>7, <1>8, <1>9 DEF Next

(* The invariant holds throughout.                                         *)
LEMMA SoundAlways == Spec => []SoundInv
  BY SoundInit, SoundStep, PTL DEF Spec

(* The result and what is left to ask have the shape the rules expect.     *)
THEOREM TypesHold == Spec => []TypeOK
  <1>1. SoundInv => TypeOK
    <2> SUFFICES ASSUME SoundInv PROVE TypeOK
      OBVIOUS
    <2>1. phase \in RulePhases \cup AskingPhases /\ IsOutcome(result) /\ (todo # <<>> => Asking)
      BY DEF SoundInv
    <2>2. todo # <<>> => todo[1] \in ToSet(todo)
      <3> DEFINE T == ToSet(todo)
      <3>1. todo \in Seq(T)
        BY DEF SoundInv
      <3>2. todo # <<>> => 1 \in DOMAIN todo
        <4> HIDE DEF T
        <4> QED BY <3>1
      <3> QED BY <3>2 DEF ToSet
    <2>3. todo # <<>> => todo[1].name \in Names /\ None # todo[1].right
      BY <2>2 DEF SoundInv
    <2> QED BY <2>1, <2>3 DEF TypeOK, RulePhases, AskingPhases, IsOutcome
  <1> QED BY <1>1, SoundAlways, PTL

(* Where the rules see all, what is proved included is: no instance of the *)
(* left schema is rejected by the right (prover/difference_objects.py, the *)
(* proofs of all six rules).                                               *)
THEOREM InclusionsSound == Spec => [](RulesSeeAll => InclusionsAreSound)
  <1>1. SoundInv => (RulesSeeAll => InclusionsAreSound)
    <2> SUFFICES ASSUME SoundInv, RulesSeeAll, phase = "done", result.status = "true"
                 PROVE  InstancesOf[lhs] \subseteq InstancesOf[rhs]
      BY DEF InclusionsAreSound
    <2>1. FactsInv /\ Included
      BY DEF SoundInv, Sound
    <2> QED BY <2>1, FactsOfSchemas DEF Included
  <1> QED BY <1>1, SoundAlways, PTL
=============================================================================

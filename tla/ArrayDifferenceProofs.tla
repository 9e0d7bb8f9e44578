------------------------ MODULE ArrayDifferenceProofs ------------------------
(***************************************************************************)
(* Proofs about the rules for types and arrays, for every question, every  *)
(* set of other types and arrays of every length: a shape bounds what its  *)
(* schema accepts, the matches of contains are bounded by slots and        *)
(* lengths, and what a rule proves follows from the shapes and the answers *)
(* about items.                                                            *)
(***************************************************************************)
EXTENDS ArrayDifference, CommonLemmas

-----------------------------------------------------------------------------
(* Arrays and the lengths of a schema.                                     *)

(* The arrays, of every length; and those the keywords of a schema accept. *)
Arrays == {Array(t) : t \in Seq(Items)}
SizeOf == [v \in Arrays |-> Len(v.items)]
AcceptedLocally(b) == {v \in Arrays : HoldsLocally(b, v)}

(* Arrays have items and a length.                                         *)
LEMMA ValueFacts ==
    /\ \A v \in Arrays :
         /\ IsArray(v) /\ v.type = "array"
         /\ v.items \in Seq(Items) /\ v = Array(v.items)
         /\ Len(v.items) \in Nat /\ DOMAIN v.items = 1 .. Len(v.items)
         /\ \A k \in 1 .. Len(v.items) : v.items[k] \in Items
         /\ SizeOf[v] = Len(v.items) /\ SizeOf[v] # None
    /\ SizeOf \in Sizes(Arrays)
    /\ \A v \in Values : IF IsArray(v) THEN v \in Arrays
                         ELSE \E type \in OtherTypes : v = Other(type)
  <1>1. ASSUME NEW v \in Arrays
        PROVE  /\ IsArray(v) /\ v.type = "array"
               /\ v.items \in Seq(Items) /\ v = Array(v.items)
               /\ Len(v.items) \in Nat /\ DOMAIN v.items = 1 .. Len(v.items)
               /\ \A k \in 1 .. Len(v.items) : v.items[k] \in Items
               /\ SizeOf[v] = Len(v.items) /\ SizeOf[v] # None
    <2>1. PICK t \in Seq(Items) : v = Array(t)
      BY DEF Arrays
    <2>2. v.type = "array" /\ v.items = t
      BY <2>1 DEF Array
    <2>3. Len(t) \in Nat /\ DOMAIN t = 1 .. Len(t) /\ \A k \in 1 .. Len(t) : t[k] \in Items
      OBVIOUS
    <2>4. SizeOf[v] = Len(t) /\ Len(t) # None
      BY <2>2, <2>3, NoneAssumption DEF SizeOf
    <2> QED BY <2>1, <2>2, <2>3, <2>4 DEF IsArray
  <1>2. SizeOf \in Sizes(Arrays)
    BY <1>1 DEF SizeOf, Sizes
  <1>3. ASSUME NEW v \in Values
        PROVE  IF IsArray(v) THEN v \in Arrays ELSE \E type \in OtherTypes : v = Other(type)
    <2>1. CASE \E type \in OtherTypes : v = Other(type)
      BY <2>1, TypesAssumption DEF IsArray, Other
    <2>2. ASSUME NEW n \in 0 .. ArraysUpTo, NEW t \in [1 .. n -> Items], v = Array(t)
          PROVE  v \in Arrays
      <3>1. n \in Nat
        BY BoundAssumption
      <3> QED BY <2>2, <3>1 DEF Arrays
    <2>3. v \in Arrays => IsArray(v)
      BY <1>1
    <2> QED BY <2>1, <2>2, <2>3 DEF Values
  <1> QED BY <1>1, <1>2, <1>3

(* How many of the items of an array match: never more than there are.     *)
LEMMA MatchesFacts ==
    ASSUME NEW t \in Seq(Items), NEW i
    PROVE  /\ Matches(t, i) \in 0 .. Len(t)
           /\ IsFiniteSet({k \in DOMAIN t : t[k] \in i})
           /\ (\A k \in 1 .. Len(t) : t[k] \in i) => Matches(t, i) = Len(t)
           /\ i = {} => Matches(t, i) = 0
           /\ \A S \in SUBSET (1 .. Len(t)) :
                 (\A k \in S : t[k] \in i) => IsFiniteSet(S) /\ Cardinality(S) <= Matches(t, i)
           /\ \A S \in SUBSET (1 .. Len(t)) :
                 (\A k \in 1 .. Len(t) : t[k] \in i => k \in S) => Matches(t, i) <= Cardinality(S)
  <1> DEFINE n == Len(t)
             M == {k \in DOMAIN t : t[k] \in i}
  <1>1. n \in Nat /\ DOMAIN t = 1 .. n
    OBVIOUS
  <1> HIDE DEF n
  <1>2. IsFiniteSet(1 .. n) /\ Cardinality(1 .. n) = n
    BY <1>1, FS_Interval
  <1>3. M \in SUBSET (1 .. n) /\ Matches(t, i) = Cardinality(M)
    BY <1>1 DEF Matches
  <1>4. \A S \in SUBSET (1 .. n) : IsFiniteSet(S) /\ Cardinality(S) \in Nat /\ Cardinality(S) <= n
    BY <1>2, FS_Subset, FS_CardinalityType
  <1>5. Matches(t, i) \in 0 .. n
    BY <1>1, <1>3, <1>4
  <1>6. ASSUME \A k \in 1 .. n : t[k] \in i
        PROVE  Matches(t, i) = n
    <2>1. M = 1 .. n
      BY <1>1, <1>6
    <2> QED BY <1>2, <1>3, <2>1
  <1>7. ASSUME i = {}
        PROVE  Matches(t, i) = 0
    <2>1. M = {}
      BY <1>7
    <2> QED BY <1>3, <2>1, FS_EmptySet
  <1>8. ASSUME NEW S \in SUBSET (1 .. n), \A k \in S : t[k] \in i
        PROVE  IsFiniteSet(S) /\ Cardinality(S) <= Matches(t, i)
    <2>1. S \in SUBSET M
      BY <1>1, <1>8
    <2> QED BY <1>3, <1>4, <2>1, FS_Subset
  <1>9. ASSUME NEW S \in SUBSET (1 .. n), \A k \in 1 .. n : t[k] \in i => k \in S
        PROVE  Matches(t, i) <= Cardinality(S)
    <2>1. M \in SUBSET S
      BY <1>1, <1>9
    <2> QED BY <1>3, <1>4, <2>1, FS_Subset
  <1>10. IsFiniteSet(M)
    BY <1>3, <1>4
  <1> QED BY <1>5, <1>6, <1>7, <1>8, <1>9, <1>10 DEF n

(* The keywords of a schema, whatever its branches.                        *)
LEMMA KeywordFacts ==
    ASSUME NEW X, NEW b \in Keywords(X)
    PROVE  /\ b.types \in SUBSET Types
           /\ b.min \in Nat \/ b.min = None
           /\ b.max \in Nat \/ b.max = None
           /\ b.maxContains \in Nat \/ b.maxContains = None
           /\ LeastMatches(b) \in Nat
           /\ Len(b.prefix) \in Nat /\ \A k \in 1 .. Len(b.prefix) : b.prefix[k] \in SUBSET Items
           /\ DOMAIN b.prefix = 1 .. Len(b.prefix)
           /\ b.tail \in SUBSET Items \/ b.tail = None
           /\ b.contains \in SUBSET Items \/ b.contains = None
           /\ b.unique \in BOOLEAN
           /\ TrueItem # None /\ FalseItem # None /\ TrueItem # FalseItem
           /\ None \notin Int
           /\ ClosedAt(b) = IF b.tail = FalseItem THEN Len(b.prefix) ELSE None
           /\ UpperLength(b) \in Nat \/ UpperLength(b) = None
           /\ \A n \in Nat : (UpperLength(b) = None \/ n <= UpperLength(b))
                <=> /\ b.max # None => n <= b.max
                    /\ b.tail = FalseItem => n <= Len(b.prefix)
  <1>1. /\ b.types \in SUBSET Types
        /\ b.min \in Nat \/ b.min = None
        /\ b.max \in Nat \/ b.max = None
        /\ b.minContains \in Nat \/ b.minContains = None
        /\ b.maxContains \in Nat \/ b.maxContains = None
        /\ b.prefix \in Seq(SUBSET Items)
        /\ b.tail \in SUBSET Items \/ b.tail = None
        /\ b.contains \in SUBSET Items \/ b.contains = None
        /\ b.unique \in BOOLEAN
    BY DEF Keywords
  <1>2. Len(b.prefix) \in Nat /\ \A k \in 1 .. Len(b.prefix) : b.prefix[k] \in SUBSET Items
    BY <1>1
  <1>3. DOMAIN b.prefix = 1 .. Len(b.prefix)
    BY <1>1
  <1>4. LeastMatches(b) \in Nat
    BY <1>1 DEF LeastMatches
  <1>5. TrueItem # None /\ FalseItem # None /\ TrueItem # FalseItem
    BY NoSchemaAssumption, NullAssumption DEF TrueItem, FalseItem
  <1>6. None \notin Int
    BY NoneAssumption
  <1>7. ClosedAt(b) = IF b.tail = FalseItem THEN Len(b.prefix) ELSE None
    BY DEF ClosedAt
  <1>8. UpperLength(b) = IF b.max = None THEN ClosedAt(b) ELSE IF ClosedAt(b) = None THEN b.max
                         ELSE IF b.max < ClosedAt(b) THEN b.max ELSE ClosedAt(b)
    BY DEF UpperLength, LowerBound
  <1>9. UpperLength(b) \in Nat \/ UpperLength(b) = None
    BY <1>1, <1>2, <1>7, <1>8
  <1>10. ASSUME NEW n \in Nat
         PROVE  (UpperLength(b) = None \/ n <= UpperLength(b))
                <=> /\ b.max # None => n <= b.max
                    /\ b.tail = FalseItem => n <= Len(b.prefix)
    <2>1. CASE b.tail = FalseItem
      BY <2>1, <1>1, <1>2, <1>6, <1>7, <1>8
    <2>2. CASE b.tail # FalseItem
      BY <2>2, <1>1, <1>2, <1>6, <1>7, <1>8
    <2> QED BY <2>1, <2>2
  <1> QED BY <1>1, <1>2, <1>3, <1>4, <1>5, <1>6, <1>7, <1>9, <1>10

(* An array that a schema accepts is not longer than the schema's bound.   *)
LEMMA WithinUpperLength ==
    ASSUME NEW X, NEW b \in Keywords(X), NEW t \in Seq(Items),
           b.max # None => Len(t) <= b.max,
           \A k \in DOMAIN t : t[k] \in ItemSchemaAt(b, k)
    PROVE  UpperLength(b) = None \/ Len(t) <= UpperLength(b)
  <1>1. Len(b.prefix) \in Nat /\ Len(t) \in Nat /\ DOMAIN t = 1 .. Len(t)
    BY KeywordFacts
  <1>2. ASSUME b.tail = FalseItem
        PROVE  Len(t) <= Len(b.prefix)
    <2>1. SUFFICES ASSUME Len(t) > Len(b.prefix) PROVE FALSE
      BY <1>1
    <2>2. Len(t) \in DOMAIN t /\ ~(Len(t) <= Len(b.prefix))
      BY <1>1, <2>1
    <2>3. b.tail # None
      BY <1>2, KeywordFacts
    <2>4. ItemSchemaAt(b, Len(t)) = {}
      BY <2>2, <2>3, <1>2 DEF ItemSchemaAt, FalseItem
    <2> QED BY <2>2, <2>4
  <1> QED BY <1>1, <1>2, KeywordFacts

(* A shape bounds the arrays it is built for.                              *)
LEMMA BuiltShapeBounds ==
    ASSUME NEW S \in SUBSET Intervals, IsFiniteSet(S), NEW o \in BOOLEAN, NEW e \in BOOLEAN, NEW Y,
           \A v \in Arrays : v \in Y => \E i \in S : InInterval(i, Len(v.items)),
           \A v \in Arrays : e /\ (\E i \in S : InInterval(i, Len(v.items))) => v \in Y
    PROVE  Bounds(Shape(S, o, e), Y, Arrays, SizeOf)
  <1> DEFINE a == Shape(S, o, e)
  <1>1. /\ a \in Shapes /\ a # None /\ Apart(a.intervals)
        /\ a.exact <=> e
        /\ \A c \in Nat \cup {None} :
             Admits(a, c) <=> IF c = None THEN o ELSE \E i \in S : InInterval(i, c)
    BY ShapeFacts
  <1> HIDE DEF a
  <1>2. ASSUME NEW v \in Arrays
        PROVE  /\ v \in Y => Admits(a, SizeOf[v])
               /\ a.exact /\ Admits(a, SizeOf[v]) => v \in Y
    <2>1. SizeOf[v] = Len(v.items) /\ SizeOf[v] # None /\ Len(v.items) \in Nat
      BY ValueFacts
    <2> QED BY <1>1, <2>1
  <1>3. Bounds(a, Y, Arrays, SizeOf)
    BY <1>1, <1>2 DEF Bounds
  <1> QED BY <1>3 DEF a

(* A contains that no array meets, and one that asks for matches.          *)
Unmet(b) ==
    b.contains # None /\ IF b.contains = FalseItem THEN LeastMatches(b) > 0
                         ELSE UpperLength(b) # None /\ UpperLength(b) < LeastMatches(b)

(* A contains whose matches count; the lengths that the keywords allow.    *)
Counted(b) == b.contains \notin {None, FalseItem}
LowOf(b) ==
    LET low == IF b.min = None THEN 0 ELSE b.min
    IN  IF Counted(b) THEN Larger(low, LeastMatches(b)) ELSE low
HighOf(b) ==
    IF b.contains = TrueItem THEN LowerBound(UpperLength(b), b.maxContains) ELSE UpperLength(b)

(* The lengths of a schema's own keywords, by their three cases.           *)
LEMMA LocalLengthsIs ==
    ASSUME NEW b
    PROVE  LocalLengths(b) =
             IF "array" \notin b.types THEN Shape({}, OthersThanArrays(b.types), TRUE)
             ELSE IF Unmet(b)
             THEN Shape({}, OthersThanArrays(b.types), OnlyLengths(b, UpperLength(b)))
             ELSE Shape({Interval(LowOf(b), HighOf(b))}, OthersThanArrays(b.types),
                        OnlyLengths(b, HighOf(b)))
  BY DEF LocalLengths, Unmet, LowOf, HighOf, Counted

(* The bounds the compiler puts on lengths say what the keywords say.      *)
LEMMA LengthBoundsOf ==
    ASSUME NEW X, NEW b \in Keywords(X)
    PROVE  /\ LowOf(b) \in Nat /\ (HighOf(b) \in Nat \/ HighOf(b) = None)
           /\ \A n \in Nat : InInterval(Interval(LowOf(b), HighOf(b)), n)
                <=> /\ b.min # None => b.min <= n
                    /\ b.contains # None /\ b.contains # FalseItem => LeastMatches(b) <= n
                    /\ UpperLength(b) = None \/ n <= UpperLength(b)
                    /\ b.contains = TrueItem /\ b.maxContains # None => n <= b.maxContains
  <1>1. /\ b.min \in Nat \/ b.min = None
        /\ b.maxContains \in Nat \/ b.maxContains = None
        /\ LeastMatches(b) \in Nat
        /\ UpperLength(b) \in Nat \/ UpperLength(b) = None
        /\ None \notin Int
    BY KeywordFacts
  <1> DEFINE low == IF b.min = None THEN 0 ELSE b.min
             least == LeastMatches(b)
             upper == UpperLength(b)
  <1>2. LowOf(b) = IF b.contains # None /\ b.contains # FalseItem
                   THEN IF low < least THEN least ELSE low ELSE low
    BY DEF LowOf, Counted, Larger
  <1>3. HighOf(b) = IF b.contains = TrueItem
                    THEN IF upper = None THEN b.maxContains ELSE IF b.maxContains = None THEN upper
                         ELSE IF upper < b.maxContains THEN upper ELSE b.maxContains
                    ELSE upper
    BY DEF HighOf, LowerBound
  <1> HIDE DEF least, upper
  <1>4. least \in Nat /\ (upper \in Nat \/ upper = None)
    BY <1>1 DEF least, upper
  <1>5. LowOf(b) \in Nat
    BY <1>1, <1>2, <1>4
  <1>6. HighOf(b) \in Nat \/ HighOf(b) = None
    BY <1>1, <1>3, <1>4
  <1>7. \A n : InInterval(Interval(LowOf(b), HighOf(b)), n)
                 <=> LowOf(b) <= n /\ (HighOf(b) = None \/ n <= HighOf(b))
    BY DEF InInterval, Interval, UpTo
  <1>8. \A n \in Nat : LowOf(b) <= n
          <=> /\ b.min # None => b.min <= n
              /\ b.contains # None /\ b.contains # FalseItem => least <= n
    BY <1>1, <1>2, <1>4
  <1>9. \A n \in Nat : (HighOf(b) = None \/ n <= HighOf(b))
          <=> /\ upper = None \/ n <= upper
              /\ b.contains = TrueItem /\ b.maxContains # None => n <= b.maxContains
    BY <1>1, <1>3, <1>4
  <1> QED BY <1>5, <1>6, <1>7, <1>8, <1>9 DEF least, upper

(* An array that a schema accepts has a length within the schema's bounds, *)
(* and none is accepted if contains cannot be met.                         *)
LEMMA AcceptedLengths ==
    ASSUME NEW X, NEW b \in Keywords(X), NEW v \in AcceptedLocally(b)
    PROVE  /\ "array" \in b.types /\ ~Unmet(b)
           /\ InInterval(Interval(LowOf(b), HighOf(b)), Len(v.items))
  <1> DEFINE t == v.items
             n == Len(t)
             m == Matches(t, b.contains)
  <1>1. v \in Arrays /\ HoldsLocally(b, v)
    BY DEF AcceptedLocally
  <1>2. t \in Seq(Items) /\ n \in Nat
    BY <1>1, ValueFacts
  <1>3. /\ "array" \in b.types
        /\ b.min # None => n >= b.min
        /\ b.max # None => n <= b.max
        /\ \A k \in DOMAIN t : t[k] \in ItemSchemaAt(b, k)
        /\ b.contains # None =>
              /\ m >= LeastMatches(b)
              /\ b.maxContains # None => m <= b.maxContains
    BY <1>1, ValueFacts DEF HoldsLocally
  <1>4. UpperLength(b) = None \/ n <= UpperLength(b)
    BY <1>2, <1>3, WithinUpperLength
  <1>5. /\ m \in 0 .. n
        /\ b.contains = {} => m = 0
        /\ b.contains = TrueItem => m = n
    <2>1. m \in 0 .. n /\ (b.contains = {} => m = 0)
      BY <1>2, MatchesFacts
    <2>2. ASSUME b.contains = TrueItem PROVE m = n
      <3>1. \A k \in 1 .. n : t[k] \in Items
        BY <1>2
      <3> QED BY <1>2, <2>2, <3>1, MatchesFacts DEF TrueItem
    <2> QED BY <2>1, <2>2
  <1> HIDE DEF t, n, m
  <1>6. /\ LeastMatches(b) \in Nat /\ (UpperLength(b) \in Nat \/ UpperLength(b) = None)
        /\ b.min \in Nat \/ b.min = None
        /\ b.maxContains \in Nat \/ b.maxContains = None
        /\ TrueItem # None
    BY KeywordFacts
  <1>7. ~Unmet(b)
    BY <1>2, <1>3, <1>4, <1>5, <1>6 DEF Unmet, FalseItem
  <1>8. InInterval(Interval(LowOf(b), HighOf(b)), n)
    BY <1>2, <1>3, <1>4, <1>5, <1>6, LengthBoundsOf
  <1> QED BY <1>3, <1>7, <1>8 DEF n, t

(* An array of a length within the bounds is accepted, if the schema says  *)
(* nothing but lengths.                                                    *)
LEMMA LengthsAreAccepted ==
    ASSUME NEW X, NEW b \in Keywords(X), "array" \in b.types, ~Unmet(b),
           OnlyLengths(b, HighOf(b)), NEW v \in Arrays,
           InInterval(Interval(LowOf(b), HighOf(b)), Len(v.items))
    PROVE  v \in AcceptedLocally(b)
  <1> DEFINE t == v.items
             n == Len(t)
             m == Matches(t, b.contains)
             least == LeastMatches(b)
             high == HighOf(b)
  <1>1. t \in Seq(Items) /\ n \in Nat /\ DOMAIN t = 1 .. n /\ \A k \in 1 .. n : t[k] \in Items
    BY ValueFacts
  <1>2. /\ least \in Nat /\ (UpperLength(b) \in Nat \/ UpperLength(b) = None)
        /\ b.min \in Nat \/ b.min = None
        /\ b.max \in Nat \/ b.max = None
        /\ b.maxContains \in Nat \/ b.maxContains = None
        /\ TrueItem # None /\ FalseItem # None /\ TrueItem # FalseItem
        /\ Len(b.prefix) \in Nat /\ DOMAIN b.prefix = 1 .. Len(b.prefix)
        /\ b.contains \in SUBSET Items \/ b.contains = None
        /\ None \notin Int
    BY KeywordFacts
  <1>3. /\ b.min # None => b.min <= n
        /\ b.contains # None /\ b.contains # FalseItem => least <= n
        /\ UpperLength(b) = None \/ n <= UpperLength(b)
        /\ b.contains = TrueItem /\ b.maxContains # None => n <= b.maxContains
    BY <1>1, LengthBoundsOf
  <1>4. /\ b.max # None => n <= b.max
        /\ b.tail = FalseItem => n <= Len(b.prefix)
    BY <1>1, <1>3, KeywordFacts
  <1>5. /\ ~b.unique
        /\ b.contains # None => BooleanItem(b.contains) \/ ContainsIsALength(b, high)
        /\ \A k \in DOMAIN b.prefix : b.prefix[k] = TrueItem
        /\ b.tail # None => BooleanItem(b.tail)
    BY DEF OnlyLengths, ConstrainsItems
  <1>6. \A k \in DOMAIN t : t[k] \in ItemSchemaAt(b, k)
    <2>1. ASSUME NEW k \in DOMAIN t PROVE t[k] \in ItemSchemaAt(b, k)
      <3>1. k \in 1 .. n /\ t[k] \in TrueItem
        BY <1>1 DEF TrueItem
      <3>2. CASE k <= Len(b.prefix)
        BY <1>2, <1>5, <3>1, <3>2 DEF ItemSchemaAt
      <3>3. CASE ~(k <= Len(b.prefix))
        <4>1. b.tail # FalseItem
          BY <1>1, <1>2, <1>4, <3>1, <3>3
        <4>2. b.tail = None \/ b.tail = TrueItem
          BY <1>5, <4>1 DEF BooleanItem
        <4> QED BY <3>1, <3>3, <4>2 DEF ItemSchemaAt
      <3> QED BY <3>2, <3>3
    <2> QED BY <2>1
  <1>7. ASSUME b.contains # None
        PROVE  m >= least /\ (b.maxContains # None => m <= b.maxContains)
    <2>1. CASE b.contains = TrueItem
      <3>1. m = n
        BY <1>1, <2>1, MatchesFacts DEF TrueItem
      <3> QED BY <1>1, <1>2, <1>3, <2>1, <3>1
    <2>2. CASE b.contains = FalseItem
      <3>1. m = 0
        BY <1>1, <2>2, MatchesFacts DEF FalseItem
      <3>2. least = 0
        BY <1>2, <1>7, <2>2 DEF Unmet
      <3> QED BY <1>2, <3>1, <3>2
    <2>3. CASE b.contains # TrueItem /\ b.contains # FalseItem
      <3>1. ContainsIsALength(b, high) /\ high = UpperLength(b)
        BY <1>5, <1>7, <2>3 DEF BooleanItem, HighOf
      <3>2. high # None /\ ~(high < least)
        BY <1>7, <2>3, <3>1 DEF Unmet, ContainsIsALength
      <3>3. least = 0 /\ high = 0
        BY <3>1, <3>2 DEF ContainsIsALength
      <3>4. n = 0
        BY <1>1, <1>2, <1>3, <3>1, <3>3
      <3>5. m = 0
        <4>1. m \in 0 .. n
          BY <1>1, MatchesFacts
        <4> QED BY <3>4, <4>1
      <3> QED BY <1>2, <3>3, <3>5
    <2> QED BY <2>1, <2>2, <2>3
  <1>8. HoldsLocally(b, v)
    <2>1. b.min # None => n >= b.min
      BY <1>1, <1>2, <1>3
    <2>2. v.type \in b.types
      BY ValueFacts
    <2> QED BY <1>4, <1>5, <1>6, <1>7, <2>1, <2>2 DEF HoldsLocally
  <1> QED BY <1>8 DEF AcceptedLocally

(* The lengths the compiler derives of a schema bound what it accepts.     *)
LEMMA LocalLengthsBound ==
    ASSUME NEW X, NEW b \in Keywords(X)
    PROVE  Bounds(LocalLengths(b), AcceptedLocally(b), Arrays, SizeOf)
  <1> DEFINE o == OthersThanArrays(b.types)
             i == Interval(LowOf(b), HighOf(b))
             low == OnlyLengths(b, UpperLength(b))
             only == OnlyLengths(b, HighOf(b))
  <1>2. \A v \in Arrays : v \in AcceptedLocally(b) =>
          "array" \in b.types /\ ~Unmet(b) /\ InInterval(i, Len(v.items))
    BY AcceptedLengths
  <1>3. "array" \in b.types /\ ~Unmet(b) /\ only =>
          \A v \in Arrays : InInterval(i, Len(v.items)) => v \in AcceptedLocally(b)
    BY LengthsAreAccepted
  <1>4. {} \in SUBSET Intervals /\ IsFiniteSet({})
    BY FS_EmptySet
  <1>5. {i} \in SUBSET Intervals /\ IsFiniteSet({i})
    <2>1. LowOf(b) \in Nat /\ (HighOf(b) \in Int \/ HighOf(b) = None)
      <3>1. LowOf(b) \in Nat /\ (HighOf(b) \in Nat \/ HighOf(b) = None)
        BY LengthBoundsOf
      <3> QED BY <3>1
    <2>2. i \in Intervals
      BY <2>1 DEF Interval, Intervals
    <2> QED BY <2>2, FS_Singleton
  <1>6. o \in BOOLEAN /\ only \in BOOLEAN /\ low \in BOOLEAN /\ TRUE \in BOOLEAN
    BY DEF OnlyLengths, OthersThanArrays
  <1>7. LocalLengths(b) =
             IF "array" \notin b.types THEN Shape({}, o, TRUE)
             ELSE IF Unmet(b) THEN Shape({}, o, low)
             ELSE Shape({i}, o, only)
    BY LocalLengthsIs
  <1> HIDE DEF o, i, low, only
  <1>8. CASE "array" \notin b.types
    <2>1. Bounds(Shape({}, o, TRUE), AcceptedLocally(b), Arrays, SizeOf)
      BY <1>2, <1>4, <1>6, <1>8, BuiltShapeBounds
    <2> QED BY <1>7, <1>8, <2>1
  <1>9. CASE "array" \in b.types /\ Unmet(b)
    <2>1. Bounds(Shape({}, o, low), AcceptedLocally(b), Arrays, SizeOf)
      BY <1>2, <1>4, <1>6, <1>9, BuiltShapeBounds
    <2> QED BY <1>7, <1>9, <2>1
  <1>10. CASE "array" \in b.types /\ ~Unmet(b)
    <2>1. Bounds(Shape({i}, o, only), AcceptedLocally(b), Arrays, SizeOf)
      BY <1>2, <1>3, <1>5, <1>6, <1>10, BuiltShapeBounds
    <2> QED BY <1>7, <1>10, <2>1
  <1> QED BY <1>8, <1>9, <1>10

(* So does the shape of a branch, where one may be built.                  *)
LEMMA LocalShapeBounds ==
    ASSUME NEW X, NEW b \in Keywords(X), NEW allow
    PROVE  Bounds(LocalShape(b, allow), AcceptedLocally(b), Arrays, SizeOf)
  BY LocalLengthsBound DEF LocalShape, Bounds

(* The values of V that a schema and its branches have, if each schema b   *)
(* has the values Own[b].                                                  *)
Combined(s, V, Own) ==
    {v \in V : /\ v \in Own[s]
               /\ \A k \in DOMAIN s.allOf : v \in Own[s.allOf[k]]
               /\ s.anyOf # <<>> => \E k \in DOMAIN s.anyOf : v \in Own[s.anyOf[k]]
               /\ \A k \in DOMAIN s.negated : v \notin Own[s.negated[k]]}

(* The length shape of a schema bounds what it has, if the shapes of its   *)
(* own keywords and of its branches do.                                    *)
LEMMA CombinedBounds ==
    ASSUME NEW s \in Schemas, NEW allow, NEW V, NEW size \in Sizes(V), NEW Own,
           \A b \in {s} \cup Branches :
              Own[b] \in SUBSET V /\ Bounds(LocalShape(b, allow), Own[b], V, size)
    PROVE  Bounds(LengthShape(s, allow), Combined(s, V, Own), V, size)
  <1> DEFINE Of(branches) == [k \in DOMAIN branches |-> LocalShape(branches[k], allow)]
             Sets(branches) == [k \in DOMAIN branches |-> Own[branches[k]]]
             not == [k \in DOMAIN s.negated |-> Complement(LocalShape(s.negated[k], allow))]
             Outside == [k \in DOMAIN s.negated |-> V \ Own[s.negated[k]]]
             own == Own[s]
             all == FoldLeft(MeetShapes, LocalShape(s, allow), Of(s.allOf))
             any == FoldLeft(JoinShapes, NothingShape, Of(s.anyOf))
             both == IF s.anyOf = <<>> THEN all ELSE MeetShapes(all, any)
             allSet == {v \in own : \A k \in 1 .. Len(s.allOf) : v \in Sets(s.allOf)[k]}
             anySet == {} \cup UNION {Sets(s.anyOf)[k] : k \in 1 .. Len(s.anyOf)}
             bothSet == IF s.anyOf = <<>> THEN allSet ELSE allSet \cap anySet
             set == {v \in bothSet : \A k \in 1 .. Len(s.negated) : v \in Outside[k]}
  <1>1. size \in Sizes(V)
    OBVIOUS
  <1>2. /\ s.allOf \in Seq(Branches) /\ s.anyOf \in Seq(Branches) /\ s.negated \in Seq(Branches)
        /\ s \in Keywords(Seq(Branches))
    BY DEF Schemas, Keywords
  <1>3. ASSUME NEW q \in Seq(Branches)
        PROVE  /\ Len(q) \in Nat /\ DOMAIN q = 1 .. Len(q)
               /\ Of(q) = [k \in 1 .. Len(q) |-> Of(q)[k]]
               /\ \A k \in 1 .. Len(q) : /\ q[k] \in Branches
                                         /\ Bounds(Of(q)[k], Sets(q)[k], V, size)
    <2>1. Len(q) \in Nat /\ DOMAIN q = 1 .. Len(q) /\ \A k \in 1 .. Len(q) : q[k] \in Branches
      OBVIOUS
    <2>2. ASSUME NEW k \in 1 .. Len(q)
          PROVE  Bounds(Of(q)[k], Sets(q)[k], V, size)
      <3>1. Bounds(LocalShape(q[k], allow), Own[q[k]], V, size)
        BY <2>1
      <3> QED BY <2>1, <3>1
    <2>3. Of(q) = [k \in 1 .. Len(q) |-> Of(q)[k]]
      BY <2>1
    <2> QED BY <2>1, <2>2, <2>3
  <1>4. Bounds(all, allSet, V, size)
    <2> DEFINE q == s.allOf
               f == Of(q)
               Y == Sets(q)
               N == Len(q)
    <2>1. /\ N \in Nat /\ f = [k \in 1 .. N |-> f[k]]
          /\ \A k \in 1 .. N : Bounds(f[k], Y[k], V, size)
      BY <1>2, <1>3
    <2>2. Bounds(LocalShape(s, allow), own, V, size)
      OBVIOUS
    <2> HIDE DEF f, Y, N, own
    <2>3. Bounds(FoldLeft(MeetShapes, LocalShape(s, allow), f), {v \in own : \A k \in 1 .. N : v \in Y[k]}, V, size)
      BY <1>1, <2>1, <2>2, MeetAllBounds
    <2> QED BY <2>3 DEF f, Y, N
  <1>5. Bounds(any, anySet, V, size)
    <2> DEFINE q == s.anyOf
               f == Of(q)
               Y == Sets(q)
               N == Len(q)
    <2>1. /\ N \in Nat /\ f = [k \in 1 .. N |-> f[k]]
          /\ \A k \in 1 .. N : Bounds(f[k], Y[k], V, size)
      BY <1>2, <1>3
    <2>2. Bounds(NothingShape, {}, V, size)
      <3> DEFINE a == Shape({}, FALSE, TRUE)
      <3>1. /\ a \in Shapes /\ Apart(a.intervals)
            /\ \A c \in Nat \cup {None} : ~Admits(a, c)
        BY FS_EmptySet, ShapeFacts
      <3> HIDE DEF a
      <3>2. Bounds(a, {}, V, size)
        BY <3>1 DEF Bounds, Sizes
      <3> QED BY <3>2 DEF NothingShape, a
    <2> HIDE DEF f, Y, N
    <2>3. Bounds(FoldLeft(JoinShapes, NothingShape, f), {} \cup UNION {Y[k] : k \in 1 .. N}, V, size)
      BY <1>1, <2>1, <2>2, JoinAllBounds
    <2> QED BY <2>3 DEF f, Y, N
  <1>6. Bounds(both, bothSet, V, size)
    <2>1. CASE s.anyOf = <<>>
      BY <1>4, <2>1
    <2>2. CASE s.anyOf # <<>>
      <3> HIDE DEF all, any, allSet, anySet
      <3>1. Bounds(MeetShapes(all, any), allSet \cap anySet, V, size)
        BY <1>1, <1>4, <1>5, MeetBounds
      <3> QED BY <2>2, <3>1
    <2> QED BY <2>1, <2>2
  <1>7. Bounds(FoldLeft(MeetShapes, both, not), set, V, size)
    <2> DEFINE N == Len(s.negated)
    <2>1. N \in Nat /\ DOMAIN s.negated = 1 .. N
      BY <1>2, <1>3
    <2>2. ASSUME NEW k \in 1 .. N
          PROVE  Bounds(not[k], Outside[k], V, size)
      <3>1. Bounds(Of(s.negated)[k], Sets(s.negated)[k], V, size)
        BY <1>2, <1>3
      <3>2. Bounds(LocalShape(s.negated[k], allow), Own[s.negated[k]], V, size)
        BY <2>1, <3>1
      <3>3. Bounds(Complement(LocalShape(s.negated[k], allow)), V \ Own[s.negated[k]], V, size)
        BY <1>1, <3>2, ComplementBounds
      <3> QED BY <2>1, <3>3
    <2>3. not = [k \in 1 .. N |-> not[k]]
      BY <2>1
    <2> HIDE DEF N, not, Outside, both, bothSet
    <2>4. Bounds(FoldLeft(MeetShapes, both, not), {v \in bothSet : \A k \in 1 .. N : v \in Outside[k]}, V, size)
      BY <1>1, <1>6, <2>1, <2>2, <2>3, MeetAllBounds
    <2> QED BY <2>4 DEF N
  <1>8. LengthShape(s, allow) = FoldLeft(MeetShapes, both, not)
    BY DEF LengthShape
  <1>9. set = Combined(s, V, Own)
    <2>1. /\ DOMAIN s.allOf = 1 .. Len(s.allOf) /\ DOMAIN s.anyOf = 1 .. Len(s.anyOf)
          /\ DOMAIN s.negated = 1 .. Len(s.negated)
          /\ own \in SUBSET V
      BY <1>2, <1>3
    <2>2. \A v : v \in allSet <=> v \in Own[s] /\ \A k \in DOMAIN s.allOf : v \in Own[s.allOf[k]]
      BY <2>1
    <2>3. \A v : v \in anySet <=> \E k \in DOMAIN s.anyOf : v \in Own[s.anyOf[k]]
      <3> DEFINE q == s.anyOf
                 Y == Sets(q)
      <3>1. \A k \in DOMAIN q : Y[k] = Own[q[k]]
        OBVIOUS
      <3>2. anySet = UNION {Y[k] : k \in DOMAIN q}
        BY <2>1
      <3> HIDE DEF Y, anySet, q
      <3>3. \A v : v \in anySet <=> \E k \in DOMAIN q : v \in Own[q[k]]
        BY <3>1, <3>2
      <3> QED BY <3>3 DEF q
    <2>4. \A k \in DOMAIN s.negated : \A v \in V : v \in Outside[k] <=> v \notin Own[s.negated[k]]
      OBVIOUS
    <2>5. own = Own[s]
      OBVIOUS
    <2> HIDE DEF allSet, anySet, Outside, own
    <2> QED BY <2>1, <2>2, <2>3, <2>4, <2>5 DEF Combined
  <1> QED BY <1>7, <1>8, <1>9

(* The length shape of a schema bounds the arrays it accepts.              *)
LEMMA LengthShapeBounds ==
    ASSUME NEW s \in Schemas, NEW allow
    PROVE  Bounds(LengthShape(s, allow), {v \in Arrays : Holds(s, v)}, Arrays, SizeOf)
  <1> DEFINE Own == [b \in {s} \cup Branches |-> AcceptedLocally(b)]
  <1>1. ASSUME NEW b \in {s} \cup Branches
        PROVE  Own[b] \in SUBSET Arrays /\ Bounds(LocalShape(b, allow), Own[b], Arrays, SizeOf)
    <2>1. s \in Keywords(Seq(Branches)) /\ (b \in Branches => b \in Keywords({<<>>}))
      BY DEF Schemas, Branches
    <2>2. Bounds(LocalShape(b, allow), AcceptedLocally(b), Arrays, SizeOf)
      BY <2>1, LocalShapeBounds
    <2> QED BY <2>2 DEF AcceptedLocally
  <1>2. SizeOf \in Sizes(Arrays)
    BY ValueFacts
  <1>3. \A b \in {s} \cup Branches : Own[b] = AcceptedLocally(b)
    OBVIOUS
  <1> HIDE DEF Own
  <1>4. Bounds(LengthShape(s, allow), Combined(s, Arrays, Own), Arrays, SizeOf)
    BY <1>1, <1>2, CombinedBounds
  <1>5. Combined(s, Arrays, Own) = {v \in Arrays : Holds(s, v)}
    <2>1. \A b \in {s} \cup Branches : \A v \in Arrays : v \in Own[b] <=> HoldsLocally(b, v)
      BY <1>3 DEF AcceptedLocally
    <2>2. ASSUME NEW q \in {s.allOf, s.anyOf, s.negated}, NEW k \in DOMAIN q
          PROVE  q[k] \in Branches
      <3>1. q \in Seq(Branches)
        BY DEF Schemas, Keywords
      <3> QED BY <3>1
    <2>3. ASSUME NEW v \in Arrays
          PROVE  v \in Combined(s, Arrays, Own) <=> Holds(s, v)
      BY <2>1, <2>2 DEF Combined, Holds
    <2> QED BY <2>3 DEF Combined
  <1> QED BY <1>4, <1>5

(* The types of a schema without negations are all in its length shape.    *)
LEMMA LengthShapeHasOthers ==
    ASSUME NEW s \in Schemas, NEW allow, LengthShape(s, allow) # None, s.negated = <<>>,
           NEW type \in OtherTypes, Holds(s, Other(type))
    PROVE  LengthShape(s, allow).others
  <1> DEFINE v == Other(type)
             V == {v}
             size == [x \in V |-> None]
             Own == [b \in {s} \cup Branches |-> IF OthersThanArrays(b.types) THEN V ELSE {}]
  <1>1. size \in Sizes(V) /\ size[v] = None
    BY DEF Sizes
  <1>2. ASSUME NEW b \in {s} \cup Branches
        PROVE  Own[b] \in SUBSET V /\ Bounds(LocalShape(b, allow), Own[b], V, size)
    <2>1. Own[b] \in SUBSET V /\ (v \in Own[b] <=> OthersThanArrays(b.types))
      OBVIOUS
    <2>2. CASE LocalShape(b, allow) = None
      BY <2>1, <2>2 DEF Bounds
    <2>3. CASE LocalShape(b, allow) # None
      <3> DEFINE a == LocalShape(b, allow)
      <3>1. a = LocalLengths(b)
        BY <2>3 DEF LocalShape
      <3>2. a.others = OthersThanArrays(b.types)
        <4>1. \A S, o, e : Shape(S, o, e).others = o
          BY DEF Shape
        <4> HIDE DEF a, Own
        <4> QED BY <3>1, <4>1, LocalLengthsIs
      <3>3. s \in Keywords(Seq(Branches)) /\ (b \in Branches => b \in Keywords({<<>>}))
        BY DEF Schemas, Branches
      <3>4. Bounds(a, AcceptedLocally(b), Arrays, SizeOf)
        BY <3>3, LocalShapeBounds
      <3>5. a \in Shapes /\ Apart(a.intervals)
        BY <2>3, <3>4 DEF Bounds
      <3>6. Admits(a, size[v]) <=> v \in Own[b]
        BY <1>1, <2>1, <3>2 DEF Admits
      <3> HIDE DEF a, v, size, Own
      <3>7. Bounds(a, Own[b], {v}, size)
        BY <3>5, <3>6 DEF Bounds
      <3> QED BY <2>1, <3>7 DEF a
    <2> QED BY <2>2, <2>3
  <1>3. \A b \in {s} \cup Branches : OthersThanArrays(b.types) => v \in Own[b]
    OBVIOUS
  <1> HIDE DEF Own, size
  <1>4. Bounds(LengthShape(s, allow), Combined(s, V, Own), V, size)
    BY <1>1, <1>2, CombinedBounds
  <1>5. v \in Combined(s, V, Own)
    <2>1. \A b \in {s} \cup Branches : HoldsLocally(b, v) => v \in Own[b]
      <3>1. v.type # "array" /\ v.type = type
        BY TypesAssumption DEF Other
      <3> HIDE DEF v
      <3> QED BY <1>3, <3>1 DEF HoldsLocally, OthersThanArrays
    <2>2. s.allOf \in Seq(Branches) /\ s.anyOf \in Seq(Branches)
      BY DEF Schemas, Keywords
    <2>3. /\ \A k \in DOMAIN s.allOf : s.allOf[k] \in Branches
          /\ \A k \in DOMAIN s.anyOf : s.anyOf[k] \in Branches
      BY <2>2
    <2>4. DOMAIN s.negated = {} /\ v \in V
      OBVIOUS
    <2> HIDE DEF v, V
    <2>5. /\ HoldsLocally(s, v)
          /\ \A k \in DOMAIN s.allOf : HoldsLocally(s.allOf[k], v)
          /\ s.anyOf # <<>> => \E k \in DOMAIN s.anyOf : HoldsLocally(s.anyOf[k], v)
      BY DEF Holds, v
    <2>6. /\ v \in Own[s]
          /\ \A k \in DOMAIN s.allOf : v \in Own[s.allOf[k]]
          /\ s.anyOf # <<>> => \E k \in DOMAIN s.anyOf : v \in Own[s.anyOf[k]]
      BY <2>1, <2>3, <2>5
    <2> QED BY <2>4, <2>6 DEF Combined
  <1>6. Admits(LengthShape(s, allow), size[v])
    BY <1>4, <1>5 DEF Bounds
  <1> QED BY <1>1, <1>6 DEF Admits

-----------------------------------------------------------------------------
(* What the compiler derives.                                              *)

(* What a schema accepts: its arrays, and the types of its other values.   *)
Accepted(s) == {v \in Arrays : Holds(s, v)}
OtherValues == {Other(type) : type \in OtherTypes}

(* A value of another type is told by its type alone.                      *)
LEMMA OtherFacts ==
    \A type \in OtherTypes :
      /\ Other(type).type = type /\ type # "array" /\ type \in Types
      /\ \A b : HoldsLocally(b, Other(type)) <=> type \in b.types
  BY TypesAssumption DEF Other, HoldsLocally, IsArray, Types

(* The branches of a schema have keywords of their own.                    *)
LEMMA BranchFacts ==
    ASSUME NEW s \in Schemas, NEW q \in {s.allOf, s.anyOf, s.negated}, NEW k \in DOMAIN q
    PROVE  q[k] \in Branches /\ q[k] \in Keywords({<<>>}) /\ q[k] \in AllBranches(s)
  <1>1. s.allOf \in Seq(Branches) /\ s.anyOf \in Seq(Branches) /\ s.negated \in Seq(Branches)
    BY DEF Schemas, Keywords
  <1> DEFINE a == s.allOf
             b == s.anyOf
             c == s.negated
             all == a \o b \o c
  <1>2. q[k] \in Branches
    BY <1>1
  <1>3. \E j \in DOMAIN all : all[j] = q[k]
    <2>1. k \in 1 .. Len(q) /\ Len(a) \in Nat /\ Len(b) \in Nat /\ Len(c) \in Nat
      BY <1>1
    <2> HIDE DEF a, b, c
    <2>2. a \in Seq(Branches) /\ b \in Seq(Branches) /\ c \in Seq(Branches)
      BY <1>1 DEF a, b, c
    <2>3. /\ DOMAIN all = 1 .. Len(a) + Len(b) + Len(c)
          /\ \A j \in 1 .. Len(a) : all[j] = a[j]
          /\ \A j \in 1 .. Len(b) : all[Len(a) + j] = b[j]
          /\ \A j \in 1 .. Len(c) : all[Len(a) + Len(b) + j] = c[j]
      BY <2>1, <2>2
    <2> HIDE DEF all
    <2>4. CASE q = a
      <3>1. k \in DOMAIN all
        BY <2>1, <2>3, <2>4
      <3> QED BY <2>1, <2>3, <2>4, <3>1
    <2>5. CASE q = b
      <3>1. Len(a) + k \in DOMAIN all
        BY <2>1, <2>3, <2>5
      <3> QED BY <2>1, <2>3, <2>5, <3>1
    <2>6. CASE q = c
      <3>1. Len(a) + Len(b) + k \in DOMAIN all
        BY <2>1, <2>3, <2>6
      <3> QED BY <2>1, <2>3, <2>6, <3>1
    <2> QED BY <2>4, <2>5, <2>6 DEF a, b, c
  <1> QED BY <1>2, <1>3 DEF Branches, AllBranches, ToSet

(* Where nothing but types decides, they do.                               *)
LEMMA OnlyTypesDecide ==
    ASSUME NEW X, NEW b \in Keywords(X), OnlyTypes(b), NEW v \in Arrays \cup OtherValues
    PROVE  HoldsLocally(b, v) <=> v.type \in b.types
  <1>1. CASE v \in OtherValues
    BY <1>1, OtherFacts DEF OtherValues
  <1>2. CASE v \in Arrays
    <2>1. b.prefix = <<>> /\ b.tail = None /\ b.contains = None /\ b.min = None /\ b.max = None
          /\ ~b.unique
      BY DEF OnlyTypes, HasItems, HasContains, HasLengths
    <2>2. \A k \in DOMAIN v.items : v.items[k] \in Items /\ k \in 1 .. Len(v.items)
      BY <1>2, ValueFacts
    <2>3. Len(b.prefix) = 0
      BY <2>1
    <2>4. \A k \in DOMAIN v.items : v.items[k] \in ItemSchemaAt(b, k)
      BY <2>1, <2>2, <2>3 DEF ItemSchemaAt, TrueItem
    <2> QED BY <2>1, <2>4 DEF HoldsLocally
  <1> QED BY <1>1, <1>2

(* The types of a schema hold that of each value it accepts.               *)
LEMMA TypesHold ==
    ASSUME NEW s \in Schemas, TypeShape(s) # None, NEW v \in Arrays \cup OtherValues, Holds(s, v)
    PROVE  v.type \in TypeShape(s)
  <1>1. \A k \in DOMAIN s.negated : OnlyTypes(s.negated[k]) => v.type \notin s.negated[k].types
    <2>1. ASSUME NEW k \in DOMAIN s.negated, OnlyTypes(s.negated[k])
          PROVE  v.type \notin s.negated[k].types
      <3>1. ~HoldsLocally(s.negated[k], v)
        BY DEF Holds
      <3>2. s.negated[k] \in Keywords({<<>>})
        BY BranchFacts
      <3> QED BY <2>1, <3>1, <3>2, OnlyTypesDecide
    <2> QED BY <2>1
  <1>2. /\ v.type \in s.types
        /\ \A k \in DOMAIN s.allOf : v.type \in s.allOf[k].types
        /\ s.anyOf # <<>> => \E k \in DOMAIN s.anyOf : v.type \in s.anyOf[k].types
    BY DEF Holds, HoldsLocally
  <1> QED BY <1>1, <1>2 DEF TypeShape

(* A schema that says nothing but types accepts all values of its types.   *)
LEMMA TypesSuffice ==
    ASSUME NEW s \in Schemas, TypeShape(s) # None, TypesComplete(s),
           NEW v \in Arrays \cup OtherValues, v.type \in TypeShape(s)
    PROVE  Holds(s, v)
  <1>1. /\ v.type \in s.types
        /\ \A k \in DOMAIN s.allOf : v.type \in s.allOf[k].types
        /\ s.anyOf # <<>> => \E k \in DOMAIN s.anyOf : v.type \in s.anyOf[k].types
        /\ \A k \in DOMAIN s.negated :
              OnlyTypes(s.negated[k]) => v.type \notin s.negated[k].types
    BY DEF TypeShape
  <1>2. ASSUME NEW q \in {s.allOf, s.anyOf, s.negated}, NEW k \in DOMAIN q
        PROVE  OnlyTypes(q[k]) /\ (HoldsLocally(q[k], v) <=> v.type \in q[k].types)
    <2>1. OnlyTypes(q[k]) /\ q[k] \in Keywords({<<>>})
      BY BranchFacts DEF TypesComplete
    <2> QED BY <2>1, OnlyTypesDecide
  <1>3. HoldsLocally(s, v)
    <2>1. s \in Keywords(Seq(Branches)) /\ OnlyTypes(s)
      BY DEF Schemas, TypesComplete
    <2> QED BY <1>1, <2>1, OnlyTypesDecide
  <1> QED BY <1>1, <1>2, <1>3 DEF Holds

(* The lengths kept of a left side and of a right side bound the arrays it *)
(* accepts, and have its other values, if it negates nothing.              *)
LEMMA LengthsBound ==
    ASSUME NEW s \in Schemas
    PROVE  /\ Bounds(LeftLengths(s), Accepted(s), Arrays, SizeOf)
           /\ Bounds(RightLengths(s), Accepted(s), Arrays, SizeOf)
           /\ \A type \in OtherTypes : s.negated = <<>> /\ Holds(s, Other(type)) =>
                /\ LeftLengths(s) # None => LeftLengths(s).others
                /\ RightLengths(s) # None => RightLengths(s).others
  <1>1. \A allow : Bounds(LengthShape(s, allow), Accepted(s), Arrays, SizeOf)
    BY LengthShapeBounds DEF Accepted
  <1>2. ASSUME NEW type \in OtherTypes, s.negated = <<>>, Holds(s, Other(type)), NEW allow,
               LengthShape(s, allow) # None
        PROVE  LengthShape(s, allow).others
    BY <1>2, LengthShapeHasOthers
  <1>3. CASE LengthShape(s, TRUE) # None
    BY <1>1, <1>2, <1>3 DEF LeftLengths, RightLengths
  <1>4. CASE LengthShape(s, TRUE) = None
    <2> DEFINE i == Interval(0, None)
               o == OthersThanArrays(TypeShape(s))
    <2>1. LeftLengths(s) = IF TypeShape(s) # None /\ "array" \in TypeShape(s)
                           THEN Shape({i}, o, FALSE) ELSE None
      BY <1>4 DEF LeftLengths
    <2>2. {i} \in SUBSET Intervals /\ IsFiniteSet({i})
      <3>1. i \in Intervals
        BY DEF Interval, Intervals
      <3> QED BY <3>1, FS_Singleton
    <2>3. \A v \in Arrays : \E j \in {i} : InInterval(j, Len(v.items))
      BY ValueFacts DEF InInterval, Interval, UpTo
    <2>4. o \in BOOLEAN
      BY DEF OthersThanArrays
    <2>5. ASSUME NEW type \in OtherTypes, Holds(s, Other(type)), TypeShape(s) # None
          PROVE  Shape({i}, o, FALSE).others
      <3>1. type \in TypeShape(s) /\ type # "array"
        BY <2>5, TypesHold, OtherFacts DEF OtherValues
      <3>2. o
        BY <3>1 DEF OthersThanArrays
      <3> HIDE DEF o, i
      <3> QED BY <3>2 DEF Shape
    <2> HIDE DEF i, o
    <2>6. Bounds(Shape({i}, o, FALSE), Accepted(s), Arrays, SizeOf)
      BY <2>2, <2>3, <2>4, BuiltShapeBounds
    <2>7. Bounds(LeftLengths(s), Accepted(s), Arrays, SizeOf)
      BY <2>1, <2>6 DEF Bounds
    <2> QED BY <2>1, <2>5, <2>7, <1>1, <1>2 DEF RightLengths
  <1> QED BY <1>3, <1>4

(* A shape that bounds a schema says what the property asks of it.         *)
LEMMA BoundsAreShapeBounds ==
    ASSUME NEW a, NEW s, Bounds(a, Accepted(s), Arrays, SizeOf),
           \A type \in OtherTypes :
              s.negated = <<>> /\ Holds(s, Other(type)) => (a # None => a.others)
    PROVE  ShapeBounds(a, s)
  <1>1. ASSUME a # None, NEW v \in Values, IsArray(v)
        PROVE  /\ Holds(s, v) => Counts(a.intervals, Len(v.items))
               /\ a.exact /\ Counts(a.intervals, Len(v.items)) => Holds(s, v)
    <2>1. v \in Arrays /\ (Holds(s, v) <=> v \in Accepted(s))
      BY <1>1, ValueFacts DEF Accepted
    <2>2. /\ v \in Accepted(s) => Admits(a, SizeOf[v])
          /\ a.exact /\ Admits(a, SizeOf[v]) => v \in Accepted(s)
      BY <1>1, <2>1 DEF Bounds
    <2>3. Admits(a, SizeOf[v]) <=> Counts(a.intervals, Len(v.items))
      BY <2>1, ValueFacts DEF Admits
    <2> QED BY <2>1, <2>2, <2>3
  <1>2. ASSUME a # None, NEW v \in Values, ~IsArray(v), s.negated = <<>>, Holds(s, v)
        PROVE  a.others
    BY <1>2, ValueFacts
  <1> QED BY <1>1, <1>2 DEF ShapeBounds

(* So do the types.                                                        *)
LEMMA TypesAreTypesBound ==
    ASSUME NEW s \in Schemas
    PROVE  TypesBound(TypeShape(s), TypesComplete(s), s)
  <1>1. \A v \in Values : v \in Arrays \cup OtherValues
    BY ValueFacts DEF OtherValues
  <1> QED BY <1>1, TypesHold, TypesSuffice DEF TypesBound

-----------------------------------------------------------------------------
(* The question, and what the compiler derived of its schemas, stay.       *)
FactsInv ==
    /\ query \in Queries
    /\ facts = [lhs |-> FactsOf(query.lhs), rhs |-> FactsOf(query.rhs)]

(* What the proof has at hand of both sides.                               *)
LEMMA FactsOfSchemas ==
    ASSUME FactsInv
    PROVE  /\ lhs \in Schemas /\ rhs \in Schemas
           /\ facts.lhs.types = TypeShape(lhs) /\ facts.rhs.types = TypeShape(rhs)
           /\ facts.lhs.onlyTypes = TypesComplete(lhs)
           /\ facts.rhs.onlyTypes = TypesComplete(rhs)
           /\ facts.lhs.lengths = LeftLengths(lhs) /\ facts.rhs.lengths = LeftLengths(rhs)
           /\ facts.lhs.plain = RightLengths(lhs) /\ facts.rhs.plain = RightLengths(rhs)
           /\ facts.lhs.distinct = LeftUniqueness(lhs)
           /\ facts.rhs.asksDistinct = RightUniqueness(rhs)
           /\ Lengths = LeftLengths(lhs)
  BY QueriesAssumption DEF FactsInv, FactsOf, lhs, rhs, Lengths

(* No action changes the question or what was derived.                     *)
LEMMA FactsStep ==
    ASSUME FactsInv, [Next]_vars
    PROVE  FactsInv'
  <1>1. UNCHANGED <<query, facts>>
    BY DEF Next, vars, ProveType, ProveLength, ProveUniqueness, ProveContains,
           ProveContainsExpanded, PlanItems, ProveItem, ItemsIncluded
  <1> QED BY <1>1 DEF FactsInv

(* The question and what was derived of it are there in every state.       *)
LEMMA FactsStay == Spec => []FactsInv
  <1>1. Init => FactsInv
    BY DEF Init, FactsInv
  <1> QED BY <1>1, FactsStep, PTL DEF Spec

(* ShapesBoundTheirSchemas, for every question, over arrays of every       *)
(* length and any set of other types: the lengths that the compiler        *)
(* derives of a schema, with its branches and negations                    *)
(* (compiler/domains/arrays.py), leave out no array the schema accepts,    *)
(* and no other type where nothing is negated; they hold no other array if *)
(* they are called exact.  The types it derives (types.py) leave out none, *)
(* and hold no others if the schema is nothing but types.                  *)
THEOREM ShapesBound == Spec => []ShapesBoundTheirSchemas
  <1>1. FactsInv => ShapesBoundTheirSchemas
    <2>1. SUFFICES ASSUME FactsInv PROVE ShapesBoundTheirSchemas
      OBVIOUS
    <2>2. /\ ShapeBounds(LeftLengths(lhs), lhs)
          /\ ShapeBounds(LeftLengths(rhs), rhs)
          /\ ShapeBounds(RightLengths(rhs), rhs)
      BY <2>1, FactsOfSchemas, LengthsBound, BoundsAreShapeBounds
    <2>3. /\ TypesBound(TypeShape(lhs), TypesComplete(lhs), lhs)
          /\ TypesBound(TypeShape(rhs), TypesComplete(rhs), rhs)
      BY <2>1, FactsOfSchemas, TypesAreTypesBound
    <2> QED BY <2>1, <2>2, <2>3, FactsOfSchemas DEF ShapesBoundTheirSchemas
  <1> QED BY <1>1, FactsStay, PTL

-----------------------------------------------------------------------------
(* Matches of contains.                                                    *)

(* What is read off a shape of the counts it has.                          *)
LEMMA CountFacts ==
    ASSUME NEW a, Apart(a.intervals), NEW n \in Nat, Counts(a.intervals, n)
    PROVE  /\ LeastCount(a) \in Nat /\ LeastCount(a) <= n
           /\ GreatestCount(a) = None \/ (GreatestCount(a) \in Nat /\ n <= GreatestCount(a))
           /\ \A index \in Nat : index < n => CountReaching(a, index) # None
  <1> DEFINE s == a.intervals
             N == Len(s)
  <1>1. /\ N \in Nat /\ DOMAIN s = 1 .. N /\ (s = <<>> <=> N = 0)
        /\ \A k \in 1 .. N :
             /\ s[k].low \in Nat
             /\ s[k].high = None \/ (s[k].high \in Nat /\ s[k].low <= s[k].high)
             /\ \A j \in 1 .. N : j < k => s[j].high \in Nat /\ s[j].high + 1 < s[k].low
    BY ApartFacts
  <1>2. PICK h \in 1 .. N : InInterval(s[h], n)
    BY ApartFacts
  <1>3. /\ LeastCount(a) = IF s = <<>> THEN 0 ELSE s[1].low
        /\ GreatestCount(a) = IF s = <<>> THEN 0 ELSE s[N].high
    BY DEF LeastCount, GreatestCount
  <1>4. \A index : CountReaching(a, index) =
          LET long == {k \in DOMAIN s : UpTo(s[k], Larger(s[k].low, index + 1))}
              first == CHOOSE k \in long : \A j \in long : k <= j
          IN  IF long = {} THEN None ELSE Larger(s[first].low, index + 1)
    BY DEF CountReaching
  <1> HIDE DEF s, N
  <1>5. s[h].low <= n /\ (s[h].high = None \/ n <= s[h].high)
    BY <1>2 DEF InInterval, UpTo
  <1>6. s # <<>> /\ 1 \in 1 .. N /\ N \in 1 .. N
    BY <1>1, <1>2
  <1>7. LeastCount(a) \in Nat /\ LeastCount(a) <= n
    <2>1. s[1].low \in Nat /\ s[h].low \in Nat
      BY <1>1, <1>6
    <2>2. CASE h = 1
      BY <1>3, <1>5, <1>6, <2>1, <2>2
    <2>3. CASE h # 1
      <3>1. 1 < h
        BY <1>1, <2>3
      <3>2. s[1].high \in Nat /\ s[1].high + 1 < s[h].low
        BY <1>1, <1>6, <3>1
      <3>3. s[1].low <= s[1].high
        BY <1>1, <1>6, <3>2, NoneAssumption
      <3> QED BY <1>3, <1>5, <1>6, <2>1, <3>2, <3>3
    <2> QED BY <2>2, <2>3
  <1>8. GreatestCount(a) = None \/ (GreatestCount(a) \in Nat /\ n <= GreatestCount(a))
    <2>1. GreatestCount(a) = s[N].high
      BY <1>3, <1>6
    <2>2. s[N].high = None \/ (s[N].high \in Nat /\ s[N].low <= s[N].high)
      BY <1>1, <1>6
    <2>3. CASE h = N
      BY <1>5, <2>1, <2>2, <2>3
    <2>4. CASE h # N
      <3>1. h < N
        BY <1>1, <2>4
      <3>2. s[h].high \in Nat /\ s[h].high + 1 < s[N].low /\ s[N].low \in Nat
        BY <1>1, <1>6, <3>1
      <3>3. s[h].high # None
        BY <3>2, NoneAssumption
      <3> QED BY <1>5, <2>1, <2>2, <3>2, <3>3
    <2> QED BY <2>3, <2>4
  <1>9. ASSUME NEW index \in Nat, index < n
        PROVE  CountReaching(a, index) # None
    <2> DEFINE long == {k \in DOMAIN s : UpTo(s[k], Larger(s[k].low, index + 1))}
               first == CHOOSE k \in long : \A j \in long : k <= j
    <2>1. h \in long
      <3>1. Larger(s[h].low, index + 1) <= n /\ Larger(s[h].low, index + 1) \in Nat
        BY <1>1, <1>5, <1>9 DEF Larger
      <3>2. s[h].high = None \/ s[h].high \in Nat
        BY <1>1
      <3> QED BY <1>1, <1>5, <3>1, <3>2 DEF UpTo
    <2>2. first \in long
      <3>1. long \in SUBSET Nat /\ long # {}
        BY <1>1, <2>1
      <3> HIDE DEF long
      <3>2. \E k \in long : \A j \in long : k <= j
        BY <3>1, LeastNatural
      <3> QED BY <3>2
    <2>3. first \in 1 .. N
      BY <2>2, <1>1
    <2>4. CountReaching(a, index) = Larger(s[first].low, index + 1)
      BY <1>4, <2>1
    <2> HIDE DEF long, first
    <2>5. Larger(s[first].low, index + 1) \in Nat
      BY <1>1, <2>3 DEF Larger
    <2> QED BY <2>4, <2>5, NoneAssumption
  <1> QED BY <1>7, <1>8, <1>9

(* Positions counted from 0.                                               *)
LEMMA IndexedMatches ==
    ASSUME NEW t \in Seq(Items), NEW i, NEW S \in SUBSET (0 .. Len(t) - 1)
    PROVE  /\ IsFiniteSet(S) /\ Cardinality(S) \in Nat
           /\ (\A k \in S : t[k + 1] \in i) => Cardinality(S) <= Matches(t, i)
           /\ (\A k \in 0 .. Len(t) - 1 : t[k + 1] \in i => k \in S) => Matches(t, i) <= Cardinality(S)
  <1> DEFINE n == Len(t)
             T == {k + 1 : k \in S}
             f == [k \in S |-> k + 1]
  <1>1. n \in Nat /\ \A k \in S : k \in Nat /\ k < n
    BY SMT
  <1>2. T \in SUBSET (1 .. n)
    BY <1>1
  <1>3. IsFiniteSet(S)
    <2>1. IsFiniteSet(0 .. n - 1)
      BY <1>1, FS_Interval
    <2> QED BY <2>1, FS_Subset
  <1>4. f \in Bijection(S, T)
    <2>1. f \in [S -> T]
      OBVIOUS
    <2>2. \A x, y \in S : f[x] = f[y] => x = y
      BY <1>1
    <2>3. \A y \in T : \E x \in S : f[x] = y
      OBVIOUS
    <2> HIDE DEF f, T
    <2> QED BY <2>1, <2>2, <2>3 DEF Bijection, Injection, Surjection, IsInjective
  <1>5. IsFiniteSet(T) /\ Cardinality(T) = Cardinality(S)
    <2>1. ExistsBijection(S, T)
      BY <1>4 DEF ExistsBijection
    <2> HIDE DEF T
    <2> QED BY <1>3, <2>1, FS_Bijection
  <1>6. (\A k \in S : t[k + 1] \in i) => \A k \in T : t[k] \in i
    OBVIOUS
  <1>7. (\A k \in 0 .. n - 1 : t[k + 1] \in i => k \in S) => \A k \in 1 .. n : t[k] \in i => k \in T
    <2>1. ASSUME \A k \in 0 .. n - 1 : t[k + 1] \in i => k \in S,
                 NEW k \in 1 .. n, t[k] \in i
          PROVE  k \in T
      <3>1. k - 1 \in 0 .. n - 1 /\ (k - 1) + 1 = k
        BY <1>1
      <3>2. k - 1 \in S
        BY <2>1, <3>1
      <3> QED BY <3>1, <3>2
    <2> QED BY <2>1
  <1> HIDE DEF T, f
  <1>8. /\ (\A k \in T : t[k] \in i) => Cardinality(T) <= Matches(t, i)
        /\ (\A k \in 1 .. n : t[k] \in i => k \in T) => Matches(t, i) <= Cardinality(T)
    BY <1>2, MatchesFacts
  <1>9. Cardinality(S) \in Nat
    BY <1>3, FS_CardinalityType
  <1> QED BY <1>3, <1>5, <1>6, <1>7, <1>8, <1>9

(* An item schema that is proved included in another is; one said to have  *)
(* no match in common has none.                                            *)
LEMMA ItemAnswers ==
    ASSUME NEW l \in SUBSET Items, NEW r \in SUBSET Items
    PROVE  /\ Proved(l, r) => l \subseteq r
           /\ NoMatch(l, r) => l \cap r = {}
  <1>1. Proved(l, r) => l \subseteq r
    BY DEF Proved, ItemProof, FalseItem, TrueItem, ProvedTrue, Exhausted, Unsupported, Result
  <1>2. NoMatch(l, r) => l \cap r = {}
    BY DEF NoMatch, FalseItem
  <1> QED BY <1>1, <1>2

(* An array of the left side: its items, and what is known of its length.  *)
LEMMA LeftArrays ==
    ASSUME FactsInv, NEW v \in Arrays, Holds(lhs, v)
    PROVE  /\ v.items \in Seq(Items) /\ Len(v.items) \in Nat
           /\ DOMAIN v.items = 1 .. Len(v.items)
           /\ \A k \in 0 .. Len(v.items) - 1 :
                /\ k \in Nat /\ v.items[k + 1] \in Items
                /\ v.items[k + 1] \in ItemAt(lhs, k) /\ ItemAt(lhs, k) \in SUBSET Items
           /\ Lengths # None => /\ Lengths \in Shapes /\ Apart(Lengths.intervals)
                                /\ Counts(Lengths.intervals, Len(v.items))
           /\ lhs.contains # None =>
                /\ Matches(v.items, lhs.contains) >= LeastMatches(lhs)
                /\ lhs.maxContains # None => Matches(v.items, lhs.contains) <= lhs.maxContains
           /\ "array" \in lhs.types
           /\ lhs.unique => AllDistinct(v.items)
           /\ lhs.max # None => Len(v.items) <= lhs.max
           /\ UpperLength(lhs) = None \/ Len(v.items) <= UpperLength(lhs)
  <1> DEFINE t == v.items
             n == Len(t)
  <1>1. t \in Seq(Items) /\ n \in Nat /\ DOMAIN t = 1 .. n /\ \A k \in 1 .. n : t[k] \in Items
    BY ValueFacts
  <1>2. lhs \in Keywords(Seq(Branches))
    BY FactsOfSchemas DEF Schemas
  <1>3. HoldsLocally(lhs, v)
    BY DEF Holds
  <1>4. /\ \A k \in DOMAIN t : t[k] \in ItemSchemaAt(lhs, k)
        /\ lhs.contains # None =>
                /\ Matches(v.items, lhs.contains) >= LeastMatches(lhs)
                /\ lhs.maxContains # None => Matches(v.items, lhs.contains) <= lhs.maxContains
        /\ "array" \in lhs.types
        /\ lhs.unique => AllDistinct(v.items)
        /\ lhs.max # None => Len(v.items) <= lhs.max
    BY <1>3, ValueFacts DEF HoldsLocally
  <1>5. UpperLength(lhs) = None \/ Len(v.items) <= UpperLength(lhs)
    BY <1>1, <1>2, <1>4, WithinUpperLength
  <1>6. ASSUME NEW k \in 0 .. n - 1
        PROVE  /\ k \in Nat /\ t[k + 1] \in Items
               /\ t[k + 1] \in ItemAt(lhs, k) /\ ItemAt(lhs, k) \in SUBSET Items
    <2>1. k \in Nat /\ k + 1 \in 1 .. n
      BY <1>1
    <2>2. Len(lhs.prefix) \in Nat
      BY <1>2, KeywordFacts
    <2>3. ItemAt(lhs, k) = ItemSchemaAt(lhs, k + 1)
      <3>1. k < Len(lhs.prefix) <=> k + 1 <= Len(lhs.prefix)
        BY <2>1, <2>2
      <3> QED BY <3>1 DEF ItemAt, ItemSchemaAt, HasTail
    <2>4. ItemAt(lhs, k) \in SUBSET Items
      <3>1. \A j \in 1 .. Len(lhs.prefix) : lhs.prefix[j] \in SUBSET Items
        BY <1>2, KeywordFacts
      <3>2. k < Len(lhs.prefix) => k + 1 \in 1 .. Len(lhs.prefix)
        BY <2>1, <2>2
      <3>3. lhs.tail \in SUBSET Items \/ lhs.tail = None
        BY <1>2, KeywordFacts
      <3> QED BY <3>1, <3>2, <3>3 DEF ItemAt, HasTail, TrueItem
    <2> QED BY <1>1, <1>4, <2>1, <2>3, <2>4
  <1>7. ASSUME Lengths # None
        PROVE  /\ Lengths \in Shapes /\ Apart(Lengths.intervals)
               /\ Counts(Lengths.intervals, n)
    <2>1. Bounds(Lengths, Accepted(lhs), Arrays, SizeOf)
      BY FactsOfSchemas, LengthsBound
    <2>2. v \in Accepted(lhs)
      BY DEF Accepted
    <2>3. SizeOf[v] = n /\ SizeOf[v] # None
      BY ValueFacts
    <2> HIDE DEF n, t
    <2> QED BY <1>7, <2>1, <2>2, <2>3 DEF Bounds, Admits
  <1> QED BY <1>1, <1>4, <1>5, <1>6, <1>7

(* Where a left array has an item, the prover knows of a length.           *)
LEMMA ReachedIndexes ==
    ASSUME FactsInv, Lengths # None, NEW v \in Arrays, Holds(lhs, v),
           NEW k \in 0 .. Len(v.items) - 1
    PROVE  Reaching(k) # None
  <1>1. /\ Apart(Lengths.intervals) /\ Counts(Lengths.intervals, Len(v.items))
        /\ Len(v.items) \in Nat
    BY LeftArrays
  <1>2. k \in Nat /\ k < Len(v.items)
    BY <1>1
  <1>3. CountReaching(Lengths, k) # None
    BY <1>1, <1>2, CountFacts
  <1> QED BY <1>3 DEF Reaching

(* No left array has fewer matches than are guaranteed.                    *)
LEMMA GuaranteedHolds ==
    ASSUME FactsInv, Lengths # None, NEW c \in SUBSET Items,
           NEW v \in Arrays, Holds(lhs, v)
    PROVE  /\ GuaranteedMatches(c) \in Nat
           /\ GuaranteedMatches(c) <= Matches(v.items, c)
  <1> DEFINE t == v.items
             n == Len(t)
             m == Matches(t, c)
             own == IF lhs.contains # None /\ Proved(lhs.contains, c) THEN LeastContains(lhs) ELSE 0
             required == LeastCount(Lengths)
             start == TailStart(lhs)
             slots == {k \in 0 .. required - 1 :
                          (HasTail(lhs) => k < start) /\ Proved(ItemAt(lhs, k), c)}
             tailed == HasTail(lhs) /\ ~TailClosed(lhs) /\ required > start /\ Proved(lhs.tail, c)
             tail == IF tailed THEN required - start ELSE 0
             last == IF tailed THEN start .. required - 1 ELSE {}
  <1>1. /\ t \in Seq(Items) /\ n \in Nat
        /\ \A k \in 0 .. n - 1 :
                /\ k \in Nat /\ t[k + 1] \in ItemAt(lhs, k) /\ ItemAt(lhs, k) \in SUBSET Items
        /\ Apart(Lengths.intervals) /\ Counts(Lengths.intervals, n)
        /\ lhs.contains # None => Matches(t, lhs.contains) >= LeastMatches(lhs)
    BY LeftArrays
  <1>2. required \in Nat /\ required <= n
    BY <1>1, CountFacts
  <1>3. lhs \in Keywords(Seq(Branches))
    BY FactsOfSchemas DEF Schemas
  <1>4. start \in Nat /\ LeastMatches(lhs) \in Nat
    BY <1>3, KeywordFacts DEF TailStart
  <1>5. own \in Nat /\ own <= m
    <2>1. m \in 0 .. n
      BY <1>1, MatchesFacts
    <2>2. CASE lhs.contains # None /\ Proved(lhs.contains, c)
      <3>1. lhs.contains \in SUBSET Items
        BY <1>3, <2>2, KeywordFacts
      <3>2. lhs.contains \subseteq c
        BY <2>2, <3>1, ItemAnswers
      <3> DEFINE M == {k \in DOMAIN t : t[k] \in lhs.contains}
      <3>3. M \in SUBSET (1 .. n) /\ (\A k \in M : t[k] \in c) /\ Cardinality(M) = Matches(t, lhs.contains)
        BY <1>1, <3>2 DEF Matches
      <3> HIDE DEF M
      <3>4. Cardinality(M) <= m
        BY <1>1, <3>3, MatchesFacts
      <3>5. Matches(t, lhs.contains) \in 0 .. n
        BY <1>1, MatchesFacts
      <3> QED BY <1>1, <1>4, <2>1, <2>2, <3>3, <3>4, <3>5 DEF LeastContains
    <2>3. CASE ~(lhs.contains # None /\ Proved(lhs.contains, c))
      BY <2>1, <2>3
    <2> QED BY <2>2, <2>3
  <1>6. /\ slots \in SUBSET (0 .. n - 1) /\ last \in SUBSET (0 .. n - 1)
        /\ slots \cap last = {} /\ slots \cup last \in SUBSET (0 .. n - 1)
    <2> HIDE DEF required, start, n
    <2>1. slots \in SUBSET (0 .. n - 1)
      BY <1>1, <1>2
    <2>2. last \in SUBSET (0 .. n - 1)
      BY <1>1, <1>2, <1>4
    <2>3. slots \cap last = {}
      <3>1. ASSUME NEW k \in slots, k \in last PROVE FALSE
        <4>1. tailed /\ k \in start .. required - 1
          BY <3>1
        <4>2. k < start /\ k >= start
          BY <3>1, <4>1
        <4> QED BY <1>2, <1>4, <4>1, <4>2
      <3> QED BY <3>1
    <2> QED BY <2>1, <2>2, <2>3
  <1>7. \A k \in slots \cup last : t[k + 1] \in c
    <2>1. ASSUME NEW k \in slots PROVE t[k + 1] \in c
      <3>1. k \in 0 .. n - 1 /\ Proved(ItemAt(lhs, k), c)
        BY <1>6
      <3>2. ItemAt(lhs, k) \in SUBSET Items /\ t[k + 1] \in ItemAt(lhs, k)
        BY <1>1, <3>1
      <3> QED BY <3>1, <3>2, ItemAnswers
    <2>2. ASSUME NEW k \in last PROVE t[k + 1] \in c
      <3>1. k \in 0 .. n - 1 /\ tailed /\ k \in start .. required - 1
        BY <1>6
      <3>2. k >= start
        BY <1>2, <1>4, <3>1
      <3>3. ItemAt(lhs, k) = lhs.tail
        <4>1. ~(k < Len(lhs.prefix))
          BY <1>4, <3>1, <3>2 DEF TailStart
        <4> QED BY <3>1, <4>1 DEF ItemAt
      <3>4. lhs.tail \in SUBSET Items /\ t[k + 1] \in lhs.tail
        BY <1>1, <3>1, <3>3
      <3> QED BY <3>1, <3>4, ItemAnswers
    <2> QED BY <2>1, <2>2
  <1>8. tail = Cardinality(last)
    <2>1. CASE tailed
      <3>1. Cardinality(start .. required - 1) = IF start > required - 1 THEN 0 ELSE required - 1 - start + 1
        <4> HIDE DEF required, start
        <4>1. start \in Int /\ required - 1 \in Int
          BY <1>2, <1>4
        <4> QED BY <4>1, FS_Interval
      <3> HIDE DEF required, start
      <3> QED BY <1>2, <1>4, <2>1, <3>1
    <2>2. CASE ~tailed
      BY <2>2, FS_EmptySet
    <2> QED BY <2>1, <2>2
  <1>9. GuaranteedMatches(c) = Larger(own, Cardinality(slots) + tail)
    BY DEF GuaranteedMatches
  <1> HIDE DEF own, required, start, slots, tailed, tail, last, n, m
  <1>10. IsFiniteSet(slots) /\ IsFiniteSet(last) /\ Cardinality(slots) \in Nat /\ Cardinality(last) \in Nat
    BY <1>1, <1>6, IndexedMatches DEF n
  <1>11. Cardinality(slots \cup last) = Cardinality(slots) + Cardinality(last)
    <2>1. Cardinality(slots \cup last)
            = Cardinality(slots) + Cardinality(last) - Cardinality(slots \cap last)
      BY <1>10, FS_Union
    <2>2. slots \cap last = {}
      BY <1>6
    <2>3. Cardinality(slots \cap last) = 0
      BY <2>2, FS_EmptySet
    <2> QED BY <1>10, <2>1, <2>3
  <1>12. Cardinality(slots \cup last) <= m
    BY <1>1, <1>6, <1>7, IndexedMatches DEF n, m
  <1>13. m \in Nat
    <2>1. m \in 0 .. n
      BY <1>1, MatchesFacts DEF m, n
    <2> QED BY <2>1, <1>1
  <1> QED BY <1>5, <1>8, <1>9, <1>10, <1>11, <1>12, <1>13 DEF Larger, m

(* No left array has more matches than the slots that may match.           *)
LEMMA SlotsHold ==
    ASSUME FactsInv, Lengths # None, NEW c \in SUBSET Items,
           NEW v \in Arrays, Holds(lhs, v),
           NEW bound \in Nat, \A k \in 0 .. Len(v.items) - 1 : v.items[k + 1] \in c => k < bound
    PROVE  MatchableSlots(c, bound) \in Nat /\ Matches(v.items, c) <= MatchableSlots(c, bound)
  <1> DEFINE t == v.items
             n == Len(t)
             S == {k \in 0 .. bound - 1 : Reaching(k) # None /\ ~NoMatch(ItemAt(lhs, k), c)}
             R == S \cap (0 .. n - 1)
  <1>1. /\ t \in Seq(Items) /\ n \in Nat
        /\ \A k \in 0 .. n - 1 :
                /\ k \in Nat /\ t[k + 1] \in ItemAt(lhs, k) /\ ItemAt(lhs, k) \in SUBSET Items
    BY LeftArrays
  <1>2. ASSUME NEW k \in 0 .. n - 1, t[k + 1] \in c
        PROVE  k \in R
    <2>1. k \in 0 .. bound - 1
      BY <1>1, <1>2
    <2>2. Reaching(k) # None
      BY ReachedIndexes
    <2>3. ~NoMatch(ItemAt(lhs, k), c)
      <3>1. ItemAt(lhs, k) \in SUBSET Items /\ ItemAt(lhs, k) \cap c # {}
        BY <1>1, <1>2
      <3>2. NoMatch(ItemAt(lhs, k), c) => ItemAt(lhs, k) \cap c = {}
        BY <3>1, ItemAnswers
      <3> QED BY <3>1, <3>2
    <2> QED BY <2>1, <2>2, <2>3
  <1>3. Matches(t, c) <= Cardinality(R)
    <2>1. R \in SUBSET (0 .. n - 1)
      OBVIOUS
    <2> HIDE DEF R
    <2> QED BY <1>1, <1>2, <2>1, IndexedMatches
  <1>4. IsFiniteSet(S)
    <2>1. IsFiniteSet(0 .. bound - 1)
      BY FS_Interval
    <2>2. S \in SUBSET (0 .. bound - 1)
      OBVIOUS
    <2> HIDE DEF S
    <2> QED BY <2>1, <2>2, FS_Subset
  <1>5. Cardinality(R) <= Cardinality(S) /\ Cardinality(S) \in Nat /\ Cardinality(R) \in Nat
    <2>1. R \in SUBSET S
      OBVIOUS
    <2> HIDE DEF R, S
    <2> QED BY <1>4, <2>1, FS_Subset, FS_CardinalityType
  <1>6. Matches(t, c) \in Nat
    <2>1. Matches(t, c) \in 0 .. n
      BY <1>1, MatchesFacts
    <2> QED BY <1>1, <2>1
  <1>7. MatchableSlots(c, bound) = Cardinality(S)
    BY DEF MatchableSlots
  <1> HIDE DEF S, R
  <1> QED BY <1>3, <1>5, <1>6, <1>7

(* Nor more than the prefix slots, and the tail as far as lengths go,      *)
(* allow.                                                                  *)
LEMMA StructuralHolds ==
    ASSUME FactsInv, Lengths # None, NEW c \in SUBSET Items,
           NEW v \in Arrays, Holds(lhs, v)
    PROVE  \/ StructuralMatches(c) = None
           \/ StructuralMatches(c) \in Nat /\ Matches(v.items, c) <= StructuralMatches(c)
  <1> DEFINE t == v.items
             n == Len(t)
             start == TailStart(lhs)
             longest == GreatestCount(Lengths)
  <1>1. /\ t \in Seq(Items) /\ n \in Nat
        /\ \A k \in 0 .. n - 1 :
                /\ k \in Nat /\ t[k + 1] \in ItemAt(lhs, k) /\ ItemAt(lhs, k) \in SUBSET Items
        /\ Apart(Lengths.intervals) /\ Counts(Lengths.intervals, n)
    BY LeftArrays
  <1>2. lhs \in Keywords(Seq(Branches))
    BY FactsOfSchemas DEF Schemas
  <1>3. start \in Nat
    BY <1>2, KeywordFacts DEF TailStart
  <1>4. CASE HasTail(lhs) /\ (TailClosed(lhs) \/ NoMatch(lhs.tail, c))
    <2>1. lhs.tail \in SUBSET Items
      BY <1>2, <1>4, KeywordFacts DEF HasTail
    <2>2. ASSUME NEW k \in 0 .. n - 1, t[k + 1] \in c, ~(k < start)
          PROVE  FALSE
      <3>1. ItemAt(lhs, k) = lhs.tail
        BY <1>4, <2>2 DEF ItemAt, TailStart
      <3>2. t[k + 1] \in lhs.tail
        BY <1>1, <3>1
      <3>3. NoMatch(lhs.tail, c) => lhs.tail \cap c = {}
        BY <2>1, ItemAnswers
      <3>4. lhs.tail \cap c # {}
        BY <2>2, <3>2
      <3> QED BY <1>4, <3>3, <3>4 DEF TailClosed, FalseItem
    <2>3. StructuralMatches(c) = MatchableSlots(c, start)
      BY <1>4 DEF StructuralMatches
    <2>4. MatchableSlots(c, start) \in Nat /\ Matches(t, c) <= MatchableSlots(c, start)
      <3>1. \A k \in 0 .. n - 1 : t[k + 1] \in c => k < start
        BY <2>2
      <3> HIDE DEF start
      <3> QED BY <1>3, <3>1, SlotsHold
    <2> QED BY <2>3, <2>4
  <1>5. CASE ~(HasTail(lhs) /\ (TailClosed(lhs) \/ NoMatch(lhs.tail, c)))
    <2>1. StructuralMatches(c) = IF longest = None \/ BeyondHorizon(longest) THEN None
                                 ELSE MatchableSlots(c, longest)
      BY <1>5 DEF StructuralMatches
    <2>2. CASE longest = None \/ BeyondHorizon(longest)
      BY <2>1, <2>2
    <2>3. CASE ~(longest = None \/ BeyondHorizon(longest))
      <3>1. longest \in Nat /\ n <= longest
        BY <1>1, <2>3, CountFacts
      <3>2. \A k \in 0 .. n - 1 : t[k + 1] \in c => k < longest
        <4> HIDE DEF longest, n
        <4> QED BY <1>1, <3>1
      <3>3. MatchableSlots(c, longest) \in Nat /\ Matches(t, c) <= MatchableSlots(c, longest)
        <4> HIDE DEF longest
        <4> QED BY <3>1, <3>2, SlotsHold
      <3> QED BY <2>1, <2>3, <3>3
    <2> QED BY <2>2, <2>3
  <1> QED BY <1>4, <1>5

(* No left array has more matches than are possible.                       *)
LEMMA PossibleHolds ==
    ASSUME FactsInv, Lengths # None, NEW c \in SUBSET Items,
           NEW v \in Arrays, Holds(lhs, v)
    PROVE  \/ PossibleMatches(c) = None
           \/ PossibleMatches(c) \in Nat /\ Matches(v.items, c) <= PossibleMatches(c)
  <1> DEFINE t == v.items
             n == Len(t)
             m == Matches(t, c)
             g == GreatestCount(Lengths)
             s == StructuralMatches(c)
             own == IF lhs.contains # None /\ lhs.maxContains # None /\ Proved(c, lhs.contains)
                    THEN lhs.maxContains ELSE None
  <1>1. /\ t \in Seq(Items) /\ n \in Nat /\ DOMAIN t = 1 .. n
        /\ Apart(Lengths.intervals) /\ Counts(Lengths.intervals, n)
        /\ lhs.contains # None /\ lhs.maxContains # None => Matches(t, lhs.contains) <= lhs.maxContains
    BY LeftArrays
  <1>2. lhs \in Keywords(Seq(Branches))
    BY FactsOfSchemas DEF Schemas
  <1>3. m \in Nat /\ m <= n
    <2>1. m \in 0 .. n
      BY <1>1, MatchesFacts
    <2> QED BY <1>1, <2>1
  <1>4. g = None \/ (g \in Nat /\ m <= g)
    <2>1. g = None \/ (g \in Nat /\ n <= g)
      BY <1>1, CountFacts
    <2> HIDE DEF g, m, n
    <2> QED BY <1>1, <1>3, <2>1
  <1>5. s = None \/ (s \in Nat /\ m <= s)
    BY StructuralHolds
  <1>6. own = None \/ (own \in Nat /\ m <= own)
    <2>1. SUFFICES ASSUME lhs.contains # None, lhs.maxContains # None, Proved(c, lhs.contains)
                   PROVE  lhs.maxContains \in Nat /\ m <= lhs.maxContains
      OBVIOUS
    <2>2. lhs.contains \in SUBSET Items /\ lhs.maxContains \in Nat
      BY <1>2, <2>1, KeywordFacts
    <2>3. c \subseteq lhs.contains
      BY <2>1, <2>2, ItemAnswers
    <2> DEFINE M == {k \in DOMAIN t : t[k] \in c}
    <2>4. M \in SUBSET (1 .. n) /\ (\A k \in M : t[k] \in lhs.contains) /\ Cardinality(M) = m
      BY <1>1, <2>3 DEF Matches
    <2> HIDE DEF M
    <2>5. Cardinality(M) <= Matches(t, lhs.contains)
      BY <1>1, <2>4, MatchesFacts
    <2>6. Matches(t, lhs.contains) \in 0 .. n
      BY <1>1, MatchesFacts
    <2> HIDE DEF m, n
    <2> QED BY <1>1, <1>3, <2>1, <2>2, <2>4, <2>5, <2>6
  <1>7. PossibleMatches(c) = LowerBound(g, LowerBound(s, own))
    BY DEF PossibleMatches
  <1> HIDE DEF g, s, own, m
  <1>8. LowerBound(s, own) = None \/ (LowerBound(s, own) \in Nat /\ m <= LowerBound(s, own))
    BY <1>3, <1>5, <1>6 DEF LowerBound
  <1>9. LowerBound(g, LowerBound(s, own)) = None
        \/ (LowerBound(g, LowerBound(s, own)) \in Nat /\ m <= LowerBound(g, LowerBound(s, own)))
    BY <1>3, <1>4, <1>8 DEF LowerBound
  <1> QED BY <1>7, <1>9 DEF m

(* In the fragment the left side is arrays only, and the prover knows      *)
(* their lengths.                                                          *)
LEMMA ContainsFragment ==
    ASSUME FactsInv, InContainsFragment
    PROVE  /\ Lengths # None /\ rhs.contains \in SUBSET Items /\ rhs.contains # None
           /\ \A v \in Values : Holds(lhs, v) => v \in Arrays
           /\ rhs \in Keywords(Seq(Branches))
  <1>1. lhs \in Schemas /\ rhs \in Keywords(Seq(Branches)) /\ Lengths = LeftLengths(lhs)
    BY FactsOfSchemas DEF Schemas
  <1>2. rhs.contains # None /\ TypeShape(lhs) = {"array"} /\ TypeShape(lhs) # None
    <2>1. rhs.contains # None /\ TypeShape(lhs) = {"array"}
      BY FactsOfSchemas DEF InContainsFragment, ArraysOnly
    <2>2. {"array"} \in SUBSET Types
      BY DEF Types
    <2> QED BY <2>1, <2>2, NoSchemaAssumption
  <1>3. rhs.contains \in SUBSET Items
    BY <1>1, <1>2, KeywordFacts
  <1>4. Lengths # None
    <2> DEFINE i == Interval(0, None)
               o == OthersThanArrays(TypeShape(lhs))
    <2>1. Shape({i}, o, FALSE) # None
      <3>1. {i} \in SUBSET Intervals /\ IsFiniteSet({i})
        <4>1. i \in Intervals
          BY DEF Interval, Intervals
        <4> QED BY <4>1, FS_Singleton
      <3>2. o \in BOOLEAN /\ FALSE \in BOOLEAN
        BY DEF OthersThanArrays
      <3> HIDE DEF i, o
      <3> QED BY <3>1, <3>2, ShapeFacts
    <2> QED BY <1>1, <1>2, <2>1 DEF LeftLengths
  <1>5. ASSUME NEW v \in Values, Holds(lhs, v)
        PROVE  v \in Arrays
    <2>1. v \in Arrays \/ v \in OtherValues
      BY ValueFacts DEF OtherValues
    <2>2. CASE v \in OtherValues
      <3>1. v.type \in TypeShape(lhs)
        BY <1>1, <1>2, <1>5, <2>2, TypesHold
      <3> QED BY <1>2, <2>2, <3>1, OtherFacts DEF OtherValues
    <2> QED BY <2>1, <2>2
  <1> QED BY <1>1, <1>2, <1>3, <1>4, <1>5

(* MatchBoundsHold: no array of the left side has fewer items that match    *)
(* the right contains than the prover takes as guaranteed, nor more than it *)
(* takes as possible (difference_arrays.py, the plan for contains).         *)
THEOREM MatchBounds == Spec => []MatchBoundsHold
  <1>1. FactsInv => MatchBoundsHold
    <2>1. SUFFICES ASSUME FactsInv, InContainsFragment, NEW v \in Values, Holds(lhs, v)
                   PROVE  /\ GuaranteedMatches(rhs.contains) <= Matches(v.items, rhs.contains)
                          /\ PossibleMatches(rhs.contains) # None =>
                               Matches(v.items, rhs.contains) <= PossibleMatches(rhs.contains)
      BY DEF MatchBoundsHold
    <2>2. v \in Arrays /\ Lengths # None /\ rhs.contains \in SUBSET Items
      BY <2>1, ContainsFragment
    <2> QED BY <2>1, <2>2, GuaranteedHolds, PossibleHolds
  <1> QED BY <1>1, FactsStay, PTL

-----------------------------------------------------------------------------
(* The rules.                                                              *)

(* What is proved included, of a query: its arrays.                        *)
SoundFor(q) == \A v \in Arrays : Holds(q.lhs, v) => Holds(q.rhs, v)

(* A candidate that is checked never proves.                               *)
LEMMA ValidatedStatus ==
    \A v : Validated(v).status \in {"false", "unsupported"}
  BY DEF Validated, Unsupported, Result

(* The statuses of the results.                                            *)
LEMMA Statuses ==
    /\ Exhausted.status = "exhausted" /\ Unsupported.status = "unsupported"
    /\ ProvedTrue.status = "true"
    /\ \A s, v : Result(s, v).status = s
  BY DEF Exhausted, Unsupported, ProvedTrue, Result

(* A shape within another counts no length the other does not.             *)
LEMMA WithinFacts ==
    ASSUME NEW a \in Shapes, NEW b \in Shapes, ShapeWithin(a, b),
           NEW n \in Nat, Counts(a.intervals, n)
    PROVE  Counts(b.intervals, n)
  <1>1. PICK k \in DOMAIN a.intervals : InInterval(a.intervals[k], n)
    BY DEF Counts
  <1>2. a.intervals \in Seq(Intervals) /\ b.intervals \in Seq(Intervals)
    BY DEF Shapes
  <1>3. a.intervals[k] \in Intervals
    BY <1>2
  <1>4. CoveredBy(a.intervals[k], b.intervals)
    BY DEF ShapeWithin
  <1> QED BY <1>1, <1>2, <1>3, <1>4, CoveredByFacts

(* A schema without branches is what its own keywords say.                 *)
LEMMA PlainHolds ==
    ASSUME NEW s, ~Compound(s), NEW v, HoldsLocally(s, v)
    PROVE  Holds(s, v)
  <1>1. s.allOf = <<>> /\ s.anyOf = <<>> /\ s.negated = <<>>
    BY DEF Compound
  <1>2. DOMAIN s.allOf = {} /\ DOMAIN s.negated = {}
    BY <1>1
  <1> QED BY <1>1, <1>2 DEF Holds

(* A length that differs is checked as a counterexample, and never proves. *)
LEMMA ByLengthStatus ==
    ASSUME NEW n
    PROVE  ByLength(n).status \in {"exhausted", "false", "unsupported"}
  BY ValidatedStatus, Statuses DEF ByLength

(* The rule about lengths: the right side is exactly its lengths.          *)
LEMMA LengthsSound ==
    ASSUME FactsInv, NEW r \in LengthResults, r.status = "true"
    PROVE  SoundFor(query)
  <1> DEFINE right == facts.rhs.plain
             against == IF right = None THEN facts.rhs.lengths ELSE right
  <1>1. LengthResults =
          IF None \in {Lengths, against} THEN {Unsupported}
          ELSE IF Lengths.others /\ ~against.others THEN {Validated(AnotherValue)}
          ELSE IF ~ShapeWithin(Lengths, against)
          THEN IF SolverUnits(against) > query.work THEN {Exhausted}
               ELSE {ByLength(n) : n \in WitnessLengths(against)}
          ELSE IF right # None /\ ~Lengths.others /\ right.exact /\ RightIsDistinct
          THEN {ProvedTrue}
          ELSE {Unsupported}
    BY DEF LengthResults
  <1> HIDE DEF right, against
  <1>2. /\ Lengths # None /\ ShapeWithin(Lengths, against)
        /\ right # None /\ ~Lengths.others /\ right.exact
    BY <1>1, ValidatedStatus, Statuses, ByLengthStatus
  <1>3. against = right
    BY <1>2 DEF against
  <1>4. Bounds(right, Accepted(rhs), Arrays, SizeOf) /\ Bounds(Lengths, Accepted(lhs), Arrays, SizeOf)
    BY FactsOfSchemas, LengthsBound DEF right
  <1>5. ASSUME NEW v \in Arrays, Holds(lhs, v) PROVE Holds(rhs, v)
    <2>1. v \in Accepted(lhs)
      BY <1>5 DEF Accepted
    <2>2. /\ Lengths \in Shapes /\ right \in Shapes /\ Admits(Lengths, SizeOf[v])
          /\ Admits(right, SizeOf[v]) => v \in Accepted(rhs)
      BY <1>2, <1>4, <2>1 DEF Bounds
    <2>3. SizeOf[v] \in Nat /\ SizeOf[v] # None
      BY <1>2, <2>2, ValueFacts DEF Admits
    <2>4. Counts(Lengths.intervals, SizeOf[v])
      BY <2>2, <2>3 DEF Admits
    <2>5. Counts(right.intervals, SizeOf[v])
      BY <1>2, <1>3, <2>2, <2>3, <2>4, WithinFacts
    <2>6. v \in Accepted(rhs)
      BY <2>2, <2>3, <2>5 DEF Admits
    <2> QED BY <2>6 DEF Accepted
  <1> QED BY <1>5 DEF SoundFor, lhs, rhs

(* At most one item is distinct from the others.                           *)
LEMMA ShortIsDistinct ==
    ASSUME NEW t \in Seq(Items), Len(t) <= 1
    PROVE  AllDistinct(t)
  <1>1. Len(t) \in Nat /\ DOMAIN t = 1 .. Len(t)
    OBVIOUS
  <1>2. CASE Len(t) = 0
    <2>1. ToSet(t) = {}
      BY <1>1, <1>2 DEF ToSet
    <2> QED BY <1>2, <2>1, FS_EmptySet DEF AllDistinct
  <1>3. CASE Len(t) = 1
    <2>1. ToSet(t) = {t[1]}
      BY <1>1, <1>3 DEF ToSet
    <2> QED BY <1>3, <2>1, FS_Singleton DEF AllDistinct
  <1> QED BY <1>1, <1>2, <1>3

(* The rule about uniqueness.                                              *)
LEMMA UniquenessSound ==
    ASSUME FactsInv, UniquenessResult.status = "true"
    PROVE  SoundFor(query)
  <1> DEFINE l == facts.lhs.distinct
             r == facts.rhs.asksDistinct
  <1>1. l = LeftUniqueness(lhs) /\ r = RightUniqueness(rhs)
    BY FactsOfSchemas
  <1> HIDE DEF l, r
  <1>2. /\ r # None /\ l # None
        /\ \/ ~l.array
           \/ l.array /\ r.array /\ (~r.requires \/ l.guarantees) /\ r.complete
    BY ValidatedStatus, Statuses DEF UniquenessResult, l, r
  <1>3. /\ l.array <=> "array" \in lhs.types
        /\ l.guarantees <=> "array" \notin lhs.types \/ lhs.unique \/ AtMostOne(lhs)
    BY <1>1, <1>2 DEF LeftUniqueness, Uniqueness
  <1>4. r.complete => /\ ~Compound(rhs) /\ ~HasContains(rhs) /\ ~HasItems(rhs) /\ ~HasLengths(rhs)
                      /\ r.array <=> "array" \in rhs.types
                      /\ r.requires <=> rhs.unique
    BY <1>1, <1>2 DEF RightUniqueness, Uniqueness
  <1>5. ASSUME NEW v \in Arrays, Holds(lhs, v) PROVE Holds(rhs, v)
    <2>3. /\ v.items \in Seq(Items) /\ Len(v.items) \in Nat /\ "array" \in lhs.types
          /\ lhs.unique => AllDistinct(v.items)
          /\ UpperLength(lhs) = None \/ Len(v.items) <= UpperLength(lhs)
      BY <1>5, LeftArrays
    <2>4. l.array /\ r.array /\ (~r.requires \/ l.guarantees) /\ r.complete
      BY <1>2, <1>3, <2>3
    <2>5. rhs.unique => AllDistinct(v.items)
      <3>1. ASSUME AtMostOne(lhs) PROVE AllDistinct(v.items)
        <4>1. lhs \in Keywords(Seq(Branches))
          BY FactsOfSchemas DEF Schemas
        <4>2. UpperLength(lhs) \in Nat /\ UpperLength(lhs) <= 1
          BY <3>1, <4>1, KeywordFacts DEF AtMostOne
        <4>3. Len(v.items) <= 1
          BY <2>3, <4>2, NoneAssumption
        <4> QED BY <2>3, <4>3, ShortIsDistinct
      <3> QED BY <1>3, <1>4, <2>3, <2>4, <3>1
    <2>6. /\ rhs.min = None /\ rhs.max = None /\ rhs.contains = None /\ rhs.tail = None
          /\ rhs.prefix = <<>> /\ "array" \in rhs.types /\ ~Compound(rhs)
      BY <1>4, <2>4 DEF HasContains, HasItems, HasLengths
    <2>7. \A k \in DOMAIN v.items : v.items[k] \in ItemSchemaAt(rhs, k)
      <3>1. \A k \in 1 .. Len(v.items) : v.items[k] \in Items /\ ~(k <= 0)
        BY <2>3
      <3>2. Len(rhs.prefix) = 0
        BY <2>6
      <3> QED BY <2>3, <2>6, <3>1, <3>2 DEF ItemSchemaAt, TrueItem
    <2>8. HoldsLocally(rhs, v)
      BY <2>5, <2>6, <2>7, ValueFacts DEF HoldsLocally
    <2> QED BY <2>6, <2>8, PlainHolds
  <1> QED BY <1>5 DEF SoundFor, lhs, rhs

(* A step of the plan for contains never proves.                           *)
NoProof(step) == step = None \/ step.status # "true"

(* What a step returns when it does not apply, is out of work or has a     *)
(* candidate.                                                              *)
LEMMA NoProofResults ==
    NoProof(None) /\ NoProof(Exhausted) /\ \A v : NoProof(Validated(v))
  BY ValidatedStatus, Statuses DEF NoProof

(* None of the steps of the plan proves.                                   *)
LEMMA StepsDoNotProve ==
    /\ NoProof(EmptyArray) /\ NoProof(OwnItem) /\ \A g : NoProof(TooManyMatches(g))
    /\ NoProof(TooFewMatches) /\ NoProof(FewestOwnMatches)
    /\ NoProof(TooManyForeignMatches) /\ NoProof(OneMatchTooMany)
  <1>1. NoProof(EmptyArray)
    BY NoProofResults DEF EmptyArray
  <1>2. NoProof(OwnItem)
    BY NoProofResults DEF OwnItem
  <1>3. \A g : NoProof(TooManyMatches(g))
    BY NoProofResults DEF TooManyMatches
  <1>4. NoProof(TooFewMatches)
    BY NoProofResults DEF TooFewMatches
  <1>5. NoProof(FewestOwnMatches)
    BY NoProofResults DEF FewestOwnMatches
  <1>6. NoProof(TooManyForeignMatches)
    BY NoProofResults DEF TooManyForeignMatches
  <1>7. NoProof(OneMatchTooMany)
    BY NoProofResults DEF OneMatchTooMany
  <1> QED BY <1>1, <1>2, <1>3, <1>4, <1>5, <1>6, <1>7

(* The first step that applies is one of the steps.                        *)
LEMMA FirstStepNoProof ==
    ASSUME NEW n \in Nat, NEW steps, DOMAIN steps = 1 .. n, \A k \in 1 .. n : NoProof(steps[k])
    PROVE  NoProof(FirstStep(steps))
  <1> DEFINE apply == {k \in DOMAIN steps : steps[k] # None}
             first == CHOOSE k \in apply : \A j \in apply : k <= j
  <1>1. FirstStep(steps) = IF apply = {} THEN None ELSE steps[first]
    BY DEF FirstStep
  <1>2. CASE apply = {}
    BY <1>1, <1>2, NoProofResults
  <1>3. CASE apply # {}
    <2>1. apply \in SUBSET Nat /\ apply \in SUBSET (1 .. n)
      OBVIOUS
    <2> HIDE DEF apply
    <2>2. \E k \in apply : \A j \in apply : k <= j
      BY <1>3, <2>1, LeastNatural
    <2>3. first \in apply
      BY <2>2
    <2> QED BY <1>1, <1>3, <2>1, <2>3
  <1> QED BY <1>2, <1>3

(* The rule about contains, by the bounds on the matches.                  *)
LEMMA ContainsSound ==
    ASSUME FactsInv, NEW expanded, ContainsResult(expanded).status = "true"
    PROVE  SoundFor(query)
  <1> DEFINE guaranteed == GuaranteedMatches(rhs.contains)
             possible == PossibleMatches(rhs.contains)
             enough == Least = 0 \/ guaranteed >= Least
             few == Most = None \/ (possible # None /\ possible <= Most)
             fourth == IF enough \/ lhs.contains # None THEN None ELSE TooFewMatches
             fifth == IF enough \/ ~expanded THEN None ELSE FewestOwnMatches
             steps == <<EmptyArray, OwnItem, TooManyMatches(guaranteed), fourth, fifth,
                        TooManyForeignMatches, OneMatchTooMany>>
             step == FirstStep(steps)
  <1>1. ContainsResult(expanded) =
          IF ~InContainsFragment THEN Unsupported
          ELSE IF step # None THEN step
          ELSE IF enough /\ few THEN ProvedTrue
          ELSE Result("bounds", None)
    BY DEF ContainsResult
  <1>2. NoProof(step)
    <2>1. NoProof(fourth) /\ NoProof(fifth)
      BY StepsDoNotProve, NoProofResults
    <2> HIDE DEF fourth, fifth, guaranteed
    <2>2. DOMAIN steps = 1 .. 7 /\ \A k \in 1 .. 7 : NoProof(steps[k])
      BY <2>1, StepsDoNotProve
    <2> HIDE DEF steps
    <2> QED BY <2>2, FirstStepNoProof
  <1> HIDE DEF step, enough, few
  <1>3. InContainsFragment /\ enough /\ few
    BY <1>1, <1>2, Statuses DEF NoProof
  <1>4. /\ Lengths # None /\ rhs.contains \in SUBSET Items /\ rhs.contains # None
        /\ rhs \in Keywords(Seq(Branches))
    BY <1>3, ContainsFragment
  <1>5. /\ ~Compound(rhs) /\ rhs.min = None /\ rhs.max = None /\ rhs.prefix = <<>> /\ rhs.tail = None
        /\ ~rhs.unique /\ "array" \in rhs.types
    <2>1. TypeShape(rhs) = {"array"} /\ {"array"} # None
      <3>1. {"array"} \in SUBSET Types
        BY DEF Types
      <3> QED BY <1>3, <3>1, FactsOfSchemas, NoSchemaAssumption DEF InContainsFragment, ArraysOnly
    <2>2. "array" \in rhs.types
      BY <2>1 DEF TypeShape
    <2> QED BY <1>3, <2>2 DEF InContainsFragment, RightContainsFragment, HasLengths, HasItems
  <1>6. LeastMatches(rhs) \in Nat /\ (rhs.maxContains = None \/ rhs.maxContains \in Nat)
    BY <1>4, KeywordFacts
  <1>7. ASSUME NEW v \in Arrays, Holds(lhs, v) PROVE Holds(rhs, v)
    <2> DEFINE m == Matches(v.items, rhs.contains)
    <2>2. v.items \in Seq(Items) /\ Len(v.items) \in Nat /\ DOMAIN v.items = 1 .. Len(v.items)
      BY <1>7, LeftArrays
    <2>3. m \in Nat
      <3>1. m \in 0 .. Len(v.items)
        BY <2>2, MatchesFacts
      <3> QED BY <2>2, <3>1
    <2>4. guaranteed \in Nat /\ guaranteed <= m
      BY <1>4, <1>7, GuaranteedHolds
    <2>5. possible = None \/ (possible \in Nat /\ m <= possible)
      BY <1>4, <1>7, PossibleHolds
    <2> HIDE DEF m, guaranteed, possible
    <2>6. m >= LeastMatches(rhs)
      BY <1>3, <1>6, <2>3, <2>4 DEF enough, Least, LeastContains
    <2>7. rhs.maxContains # None => m <= rhs.maxContains
      BY <1>3, <1>6, <2>3, <2>5 DEF few, Most
    <2>8. \A k \in DOMAIN v.items : v.items[k] \in ItemSchemaAt(rhs, k)
      <3>1. \A k \in 1 .. Len(v.items) : v.items[k] \in Items /\ ~(k <= 0)
        BY <2>2
      <3>2. Len(rhs.prefix) = 0
        BY <1>5
      <3> QED BY <1>5, <2>2, <3>1, <3>2 DEF ItemSchemaAt, TrueItem
    <2>9. HoldsLocally(rhs, v)
      BY <1>5, <2>6, <2>7, <2>8, ValueFacts DEF HoldsLocally, m
    <2> QED BY <1>5, <2>9, PlainHolds
  <1> QED BY <1>7 DEF SoundFor, lhs, rhs

(* The lengths of a schema without branches are those of its own keywords. *)
LEMMA PlainLengths ==
    ASSUME NEW s \in Schemas, ~Compound(s)
    PROVE  LeftLengths(s) = LocalLengths(s) /\ LocalLengths(s) \in Shapes
  <1>1. s.allOf = <<>> /\ s.anyOf = <<>> /\ s.negated = <<>> /\ s \in Keywords(Seq(Branches))
    BY DEF Compound, Schemas
  <1>2. LocalShape(s, TRUE) = LocalLengths(s)
    BY DEF LocalShape
  <1>3. LocalLengths(s) \in Shapes
    <2> DEFINE o == OthersThanArrays(s.types)
               i == Interval(LowOf(s), HighOf(s))
    <2>1. {i} \in SUBSET Intervals /\ IsFiniteSet({i}) /\ {} \in SUBSET Intervals /\ IsFiniteSet({})
      <3>1. LowOf(s) \in Nat /\ (HighOf(s) \in Nat \/ HighOf(s) = None)
        BY <1>1, LengthBoundsOf
      <3>2. i \in Intervals
        BY <3>1 DEF Interval, Intervals
      <3> HIDE DEF i
      <3> QED BY <3>2, FS_Singleton, FS_EmptySet
    <2>2. o \in BOOLEAN /\ TRUE \in BOOLEAN /\ \A u : OnlyLengths(s, u) \in BOOLEAN
      BY DEF OnlyLengths, OthersThanArrays
    <2>3. LocalLengths(s) =
             IF "array" \notin s.types THEN Shape({}, o, TRUE)
             ELSE IF Unmet(s) THEN Shape({}, o, OnlyLengths(s, UpperLength(s)))
             ELSE Shape({i}, o, OnlyLengths(s, HighOf(s)))
      BY LocalLengthsIs
    <2> HIDE DEF o, i
    <2>4. \A e \in BOOLEAN : Shape({}, o, e) \in Shapes /\ Shape({i}, o, e) \in Shapes
      BY <2>1, <2>2, ShapeFacts
    <2> QED BY <2>2, <2>3, <2>4
  <1>4. ASSUME NEW base \in GoodShapes, NEW f, f = [k \in {} |-> f[k]]
        PROVE  FoldLeft(MeetShapes, base, f) = base
    <2>1. f \in Seq(GoodShapes) /\ Len(f) = 0
      <3>1. f \in [1 .. 0 -> GoodShapes]
        BY <1>4
      <3> QED BY <3>1
    <2>2. \A a \in GoodShapes, b \in GoodShapes : MeetShapes(a, b) \in GoodShapes
      BY GoodShapesFacts
    <2>3. PICK g : MeetsTo(g, f, base)
      BY <2>1, <2>2, MeetSteps
    <2> QED BY <2>1, <2>3 DEF MeetsTo
  <1>5. LocalLengths(s) \in GoodShapes
    BY <1>1, LocalLengthsBound, GoodShapesFacts
  <1> DEFINE e == [k \in DOMAIN s.allOf |-> LocalShape(s.allOf[k], TRUE)]
             h == [k \in DOMAIN s.negated |-> Complement(LocalShape(s.negated[k], TRUE))]
  <1>6. e = [k \in {} |-> e[k]] /\ h = [k \in {} |-> h[k]]
    BY <1>1
  <1>7. LengthShape(s, TRUE) = FoldLeft(MeetShapes, FoldLeft(MeetShapes, LocalShape(s, TRUE), e), h)
    BY <1>1 DEF LengthShape
  <1> HIDE DEF e, h
  <1>8. FoldLeft(MeetShapes, LocalLengths(s), e) = LocalLengths(s)
    BY <1>4, <1>5, <1>6
  <1>9. FoldLeft(MeetShapes, LocalLengths(s), h) = LocalLengths(s)
    BY <1>4, <1>5, <1>6
  <1>10. LengthShape(s, TRUE) = LocalLengths(s)
    BY <1>2, <1>7, <1>8, <1>9
  <1> QED BY <1>3, <1>10, NoneAssumption DEF LeftLengths

(* What those lengths say.                                                 *)
LEMMA LocalLengthsSay ==
    ASSUME NEW X, NEW s \in Keywords(X)
    PROVE  \A n \in Nat : Counts(LocalLengths(s).intervals, n) =>
             "array" \in s.types /\ InInterval(Interval(LowOf(s), HighOf(s)), n)
  <1> DEFINE o == OthersThanArrays(s.types)
             i == Interval(LowOf(s), HighOf(s))
  <1>1. {i} \in SUBSET Intervals /\ IsFiniteSet({i}) /\ {} \in SUBSET Intervals /\ IsFiniteSet({})
    <2>1. LowOf(s) \in Nat /\ (HighOf(s) \in Nat \/ HighOf(s) = None)
      BY LengthBoundsOf
    <2>2. i \in Intervals
      BY <2>1 DEF Interval, Intervals
    <2> HIDE DEF i
    <2> QED BY <2>2, FS_Singleton, FS_EmptySet
  <1>2. o \in BOOLEAN /\ TRUE \in BOOLEAN /\ \A u : OnlyLengths(s, u) \in BOOLEAN
    BY DEF OnlyLengths, OthersThanArrays
  <1>3. LocalLengths(s) =
           IF "array" \notin s.types THEN Shape({}, o, TRUE)
           ELSE IF Unmet(s) THEN Shape({}, o, OnlyLengths(s, UpperLength(s)))
           ELSE Shape({i}, o, OnlyLengths(s, HighOf(s)))
    BY LocalLengthsIs
  <1> HIDE DEF o, i
  <1>4. ASSUME NEW S \in {{}, {i}}, NEW e \in BOOLEAN
        PROVE  \A n \in Nat : Counts(Shape(S, o, e).intervals, n) <=> \E j \in S : InInterval(j, n)
    <2> DEFINE a == Shape(S, o, e)
    <2>1. S \in SUBSET Intervals /\ IsFiniteSet(S)
      BY <1>1
    <2>2. \A c \in Nat \cup {None} :
             Admits(a, c) <=> IF c = None THEN o ELSE \E j \in S : InInterval(j, c)
      BY <2>1, <1>2, ShapeFacts
    <2> HIDE DEF a
    <2>3. \A n \in Nat : n # None
      BY NoneAssumption
    <2>4. \A n \in Nat : Counts(a.intervals, n) <=> \E j \in S : InInterval(j, n)
      BY <2>2, <2>3 DEF Admits
    <2> QED BY <2>4 DEF a
  <1>5. {} \in {{}, {i}} /\ {i} \in {{}, {i}}
    OBVIOUS
  <1>6. CASE "array" \notin s.types
    <2>1. LocalLengths(s) = Shape({}, o, TRUE)
      BY <1>3, <1>6
    <2> QED BY <1>2, <1>4, <1>5, <2>1 DEF o
  <1>7. CASE "array" \in s.types /\ Unmet(s)
    <2>1. LocalLengths(s) = Shape({}, o, OnlyLengths(s, UpperLength(s)))
      BY <1>3, <1>7
    <2> QED BY <1>2, <1>4, <1>5, <2>1 DEF o
  <1>8. CASE "array" \in s.types /\ ~Unmet(s)
    <2>1. LocalLengths(s) = Shape({i}, o, OnlyLengths(s, HighOf(s)))
      BY <1>3, <1>8
    <2>2. \A n \in Nat : Counts(Shape({i}, o, OnlyLengths(s, HighOf(s))).intervals, n) <=> \E j \in {i} : InInterval(j, n)
      BY <1>2, <1>4, <1>5
    <2> QED BY <1>8, <2>1, <2>2 DEF o, i
  <1> QED BY <1>6, <1>7, <1>8

-----------------------------------------------------------------------------
(* Indexes in order are the indexes.                                       *)
LEMMA InOrderFacts ==
    ASSUME NEW S \in SUBSET Nat, IsFiniteSet(S)
    PROVE  /\ InOrder(S) \in Seq(S) /\ DOMAIN InOrder(S) = 1 .. Len(InOrder(S))
           /\ \A n \in DOMAIN InOrder(S) : InOrder(S)[n] \in S /\ InOrder(S)[n] \in Nat
           /\ \A x \in S : \E n \in DOMAIN InOrder(S) : InOrder(S)[n] = x
  <1> DEFINE R == {p \in S \X S : p[1] < p[2]}
             N == Cardinality(S)
             t == InOrder(S)
             Key(n) == CHOOSE k \in S : Cardinality({j \in S : j < k}) = n - 1
  <1>1. \A x, y \in S : <<x, y>> \in R <=> x < y
    OBVIOUS
  <1>2. /\ \A x \in S : <<x, x>> \notin R
        /\ \A x, y, z \in S : <<x, y>> \in R /\ <<y, z>> \in R => <<x, z>> \in R
        /\ \A x, y \in S : x = y \/ <<x, y>> \in R \/ <<y, x>> \in R
    <2> HIDE DEF R
    <2>1. \A x \in S : x \in Nat
      OBVIOUS
    <2> QED BY <1>1, <2>1
  <1>3. \A x \in S : {j \in S : j < x} = {y \in S : <<y, x>> \in R}
    <2> HIDE DEF R
    <2> QED BY <1>1
  <1> HIDE DEF R
  <1>4. /\ N \in Nat
        /\ \A x \in S : RankIn(S, R, x) \in 0 .. N - 1
        /\ \A x, y \in S : <<x, y>> \in R => RankIn(S, R, x) < RankIn(S, R, y)
        /\ \A k \in 1 .. N : \E x \in S : RankIn(S, R, x) = k - 1
    BY <1>2, Ranks
  <1>5. \A x \in S : Cardinality({j \in S : j < x}) = RankIn(S, R, x)
    BY <1>3 DEF RankIn
  <1>6. t = [n \in 1 .. N |-> Key(n)]
    BY DEF InOrder
  <1>7. ASSUME NEW n \in 1 .. N
        PROVE  t[n] \in S /\ RankIn(S, R, t[n]) = n - 1
    <2>1. \E k \in S : Cardinality({j \in S : j < k}) = n - 1
      BY <1>4, <1>5
    <2>2. Key(n) \in S /\ Cardinality({j \in S : j < Key(n)}) = n - 1
      BY <2>1
    <2> HIDE DEF Key
    <2>3. t[n] \in S /\ Cardinality({j \in S : j < t[n]}) = n - 1
      BY <1>6, <2>2
    <2> QED BY <1>5, <2>3
  <1> HIDE DEF N, t, Key
  <1>8. t \in Seq(S) /\ Len(t) = N /\ DOMAIN t = 1 .. N
    <2>1. DOMAIN t = 1 .. N /\ t = [n \in 1 .. N |-> t[n]]
      BY <1>6
    <2>2. t \in [1 .. N -> S]
      BY <1>7, <2>1
    <2> QED BY <1>4, <2>2
  <1>9. ASSUME NEW x \in S PROVE \E n \in 1 .. N : t[n] = x
    <2> DEFINE n == RankIn(S, R, x) + 1
    <2>1. n \in 1 .. N /\ n - 1 = RankIn(S, R, x)
      BY <1>4
    <2>2. t[n] \in S /\ RankIn(S, R, t[n]) = RankIn(S, R, x)
      BY <1>7, <2>1
    <2>3. RankIn(S, R, x) \in Nat /\ RankIn(S, R, t[n]) \in Nat
      BY <1>4, <2>2
    <2>4. t[n] = x
      <3> DEFINE y == t[n]
                 p == RankIn(S, R, x)
                 q == RankIn(S, R, y)
      <3>1. y \in S /\ q = p /\ p \in Nat
        BY <2>2, <2>3
      <3>2. (<<x, y>> \in R => p < q) /\ (<<y, x>> \in R => q < p)
        BY <1>4, <3>1
      <3> HIDE DEF p, q, y
      <3>3. <<x, y>> \notin R /\ <<y, x>> \notin R
        BY <3>1, <3>2
      <3>4. x = y
        BY <1>2, <3>1, <3>3
      <3> QED BY <3>4 DEF y
    <2> QED BY <2>1, <2>4
  <1>10. \A n \in 1 .. N : t[n] \in S /\ t[n] \in Nat
    BY <1>7
  <1> QED BY <1>8, <1>9, <1>10 DEF t

(* What the rule about items asks of one index.                            *)
ItemPairs == [index : Nat, left : SUBSET Items, right : SUBSET Items]

(* Items of a schema are item schemas.                                     *)
LEMMA ItemTypes ==
    ASSUME NEW s \in Schemas
    PROVE  /\ \A k \in Nat : ItemAt(s, k) \in SUBSET Items
           /\ s.tail = None \/ s.tail \in SUBSET Items
           /\ Len(s.prefix) \in Nat
  <1>1. s \in Keywords(Seq(Branches))
    BY DEF Schemas
  <1>2. /\ Len(s.prefix) \in Nat /\ \A k \in 1 .. Len(s.prefix) : s.prefix[k] \in SUBSET Items
        /\ s.tail = None \/ s.tail \in SUBSET Items
    BY <1>1, KeywordFacts
  <1>3. ASSUME NEW k \in Nat PROVE ItemAt(s, k) \in SUBSET Items
    <2>1. k < Len(s.prefix) => k + 1 \in 1 .. Len(s.prefix)
      BY <1>2
    <2> QED BY <1>2, <2>1 DEF ItemAt, HasTail, TrueItem
  <1> QED BY <1>2, <1>3

(* A sequence of indexes, each made an obligation.                         *)
LEMMA MappedIndexes ==
    ASSUME NEW S \in SUBSET Nat, IsFiniteSet(S), NEW F, DOMAIN F = Nat, \A k \in S : F[k] \in ItemPairs,
           NEW m, m = [n \in DOMAIN InOrder(S) |-> F[InOrder(S)[n]]]
    PROVE  m \in Seq(ItemPairs) /\ \A k \in S : F[k] \in ToSet(m)
  <1> DEFINE t == InOrder(S)
             N == Len(t)
  <1>1. t \in Seq(S) /\ DOMAIN t = 1 .. N /\ \A x \in S : \E n \in DOMAIN t : t[n] = x
    BY InOrderFacts
  <1>2. N \in Nat /\ \A n \in 1 .. N : t[n] \in S
    BY <1>1
  <1> HIDE DEF t, N
  <1>3. m = [n \in 1 .. N |-> F[t[n]]]
    BY <1>1 DEF t
  <1>4. m \in Seq(ItemPairs) /\ DOMAIN m = 1 .. N
    <2>1. m \in [1 .. N -> ItemPairs]
      BY <1>2, <1>3
    <2> QED BY <1>2, <2>1
  <1>5. ASSUME NEW k \in S PROVE F[k] \in ToSet(m)
    <2>1. PICK n \in 1 .. N : t[n] = k
      BY <1>1
    <2>2. m[n] = F[k]
      BY <1>3, <2>1
    <2> QED BY <1>4, <2>2 DEF ToSet
  <1> QED BY <1>4, <1>5

(* What the rule about items compares: every right slot and the right tail *)
(* with what the left side says of the same index.                         *)
LEMMA ObligationsCover ==
    ASSUME FactsInv
    PROVE  /\ Obligations \in Seq(ItemPairs)
           /\ \A k \in Nat : k < TailStart(rhs) /\ ItemAt(rhs, k) # TrueItem /\ Reachable(k) =>
                Obligation(k, ItemAt(lhs, k), ItemAt(rhs, k)) \in ToSet(Obligations)
           /\ HasTail(rhs) /\ ~TailClosed(rhs) /\ rhs.tail # TrueItem =>
                /\ \A k \in Nat : k >= TailStart(rhs) /\ Reachable(k) /\ k < Len(lhs.prefix) =>
                      Obligation(k, ItemAt(lhs, k), rhs.tail) \in ToSet(Obligations)
                /\ \A k \in Nat : k >= TailStart(rhs) /\ Reachable(k) /\ ~TailClosed(lhs)
                                  /\ k = Larger(TailStart(rhs), Len(lhs.prefix)) =>
                      Obligation(k, ItemAt(lhs, k), rhs.tail) \in ToSet(Obligations)
  <1> DEFINE start == TailStart(rhs)
             before == Len(lhs.prefix)
             m == Larger(start, before)
             slots == {k \in 0 .. start - 1 : ItemAt(rhs, k) # TrueItem /\ Reachable(k)}
             tailBinds == HasTail(rhs) /\ ~TailClosed(rhs) /\ rhs.tail # TrueItem
             under == {k \in start .. before - 1 : Reachable(k)}
             beyond == {k \in {m} : Reachable(k)}
             last == IF TailClosed(lhs) THEN {} ELSE beyond
             F == [k \in Nat |-> Obligation(k, ItemAt(lhs, k), ItemAt(rhs, k))]
             G == [k \in Nat |-> Obligation(k, ItemAt(lhs, k), rhs.tail)]
             first == [n \in DOMAIN InOrder(slots) |-> F[InOrder(slots)[n]]]
             second == [n \in DOMAIN InOrder(under) |-> G[InOrder(under)[n]]]
             third == [n \in DOMAIN InOrder(last) |-> G[InOrder(last)[n]]]
  <1>1. lhs \in Schemas /\ rhs \in Schemas
    BY FactsOfSchemas
  <1>2. start \in Nat /\ before \in Nat /\ m \in Nat
    BY <1>1, ItemTypes DEF TailStart, Larger
  <1>3. /\ slots \in SUBSET Nat /\ IsFiniteSet(slots)
        /\ under \in SUBSET Nat /\ IsFiniteSet(under)
        /\ last \in SUBSET Nat /\ IsFiniteSet(last)
    <2> HIDE DEF start, before, m
    <2>1. slots \in SUBSET (0 .. start - 1) /\ under \in SUBSET (start .. before - 1) /\ last \in SUBSET {m}
      OBVIOUS
    <2>2. IsFiniteSet(0 .. start - 1) /\ IsFiniteSet(start .. before - 1) /\ IsFiniteSet({m})
      <3>1. start - 1 \in Int /\ before - 1 \in Int /\ start \in Int /\ 0 \in Int
        BY <1>2
      <3>2. IsFiniteSet(0 .. start - 1)
        BY <3>1, FS_Interval
      <3>3. IsFiniteSet(start .. before - 1)
        BY <3>1, FS_Interval
      <3> QED BY <3>2, <3>3, FS_Singleton
    <2> HIDE DEF slots, under, last
    <2>3. slots \in SUBSET Nat /\ under \in SUBSET Nat /\ last \in SUBSET Nat
      BY <1>2, <2>1
    <2> QED BY <2>1, <2>2, <2>3, FS_Subset
  <1>4. \A k \in Nat : F[k] \in ItemPairs
    BY <1>1, ItemTypes DEF Obligation, ItemPairs
  <1>5. tailBinds => \A k \in Nat : G[k] \in ItemPairs
    BY <1>1, ItemTypes DEF Obligation, ItemPairs, HasTail
  <1>6. first \in Seq(ItemPairs) /\ \A k \in slots : F[k] \in ToSet(first)
    <2>1. DOMAIN F = Nat
      OBVIOUS
    <2> HIDE DEF F, slots
    <2> QED BY <1>3, <1>4, <2>1, MappedIndexes
  <1>7. ASSUME tailBinds
        PROVE  /\ second \in Seq(ItemPairs) /\ \A k \in under : G[k] \in ToSet(second)
               /\ third \in Seq(ItemPairs) /\ \A k \in last : G[k] \in ToSet(third)
    <2>1. DOMAIN G = Nat /\ \A k \in Nat : G[k] \in ItemPairs
      BY <1>5, <1>7
    <2> HIDE DEF G, under, last
    <2> QED BY <1>3, <2>1, MappedIndexes
  <1>8. Obligations = first \o (IF tailBinds THEN second \o third ELSE <<>>)
    <2>1. first = [n \in DOMAIN InOrder(slots) |->
                     Obligation(InOrder(slots)[n], ItemAt(lhs, InOrder(slots)[n]), ItemAt(rhs, InOrder(slots)[n]))]
      <3>1. \A n \in DOMAIN InOrder(slots) : InOrder(slots)[n] \in Nat
        <4> HIDE DEF slots
        <4> QED BY <1>3, InOrderFacts
      <3> HIDE DEF slots
      <3> QED BY <3>1
    <2>2. second = [n \in DOMAIN InOrder(under) |->
                     Obligation(InOrder(under)[n], ItemAt(lhs, InOrder(under)[n]), rhs.tail)]
      <3>1. \A n \in DOMAIN InOrder(under) : InOrder(under)[n] \in Nat
        <4> HIDE DEF under
        <4> QED BY <1>3, InOrderFacts
      <3> HIDE DEF under
      <3> QED BY <3>1
    <2>3. third = [n \in DOMAIN InOrder(last) |->
                     Obligation(InOrder(last)[n], ItemAt(lhs, InOrder(last)[n]), rhs.tail)]
      <3>1. \A n \in DOMAIN InOrder(last) : InOrder(last)[n] \in Nat
        <4> HIDE DEF last
        <4> QED BY <1>3, InOrderFacts
      <3> HIDE DEF last
      <3> QED BY <3>1
    <2> DEFINE rest == IF TailClosed(lhs) THEN <<>> ELSE InOrder(beyond)
    <2>4. third = [n \in DOMAIN rest |-> Obligation(rest[n], ItemAt(lhs, rest[n]), rhs.tail)]
      <3>1. CASE TailClosed(lhs)
        <4>1. DOMAIN InOrder({}) = {}
          <5>1. Cardinality({}) = 0 /\ 1 .. 0 = {}
            BY FS_EmptySet
          <5> QED BY <5>1 DEF InOrder
        <4>2. last = {} /\ rest = <<>> /\ DOMAIN rest = {}
          BY <3>1
        <4> HIDE DEF last, rest
        <4>3. DOMAIN InOrder(last) = DOMAIN rest
          BY <4>1, <4>2
        <4>4. DOMAIN third = {}
          BY <4>2, <4>3
        <4> QED BY <2>3, <4>1, <4>2
      <3>2. CASE ~TailClosed(lhs)
        <4>1. last = beyond /\ rest = InOrder(beyond)
          BY <3>2
        <4> HIDE DEF last, rest, beyond, third
        <4> QED BY <2>3, <4>1
      <3> QED BY <3>1, <3>2
    <2> HIDE DEF first, second, third
    <2> QED BY <2>1, <2>2, <2>4 DEF Obligations
  <1> HIDE DEF first, second, third
  <1>9. /\ Obligations \in Seq(ItemPairs)
        /\ \A x \in ToSet(first) : x \in ToSet(Obligations)
        /\ tailBinds => \A x \in ToSet(second) \cup ToSet(third) : x \in ToSet(Obligations)
    <2>1. CASE tailBinds
      <3>1. /\ second \o third \in Seq(ItemPairs)
            /\ ToSet(second \o third) = ToSet(second) \cup ToSet(third)
        BY <1>7, <2>1, ConcatSet
      <3>2. Obligations = first \o (second \o third)
        BY <1>8, <2>1
      <3> DEFINE q == second \o third
      <3> HIDE DEF tailBinds, q
      <3>4. q \in Seq(ItemPairs) /\ Obligations = first \o q /\ first \in Seq(ItemPairs)
        BY <1>6, <3>1, <3>2 DEF q
      <3>5. Obligations \in Seq(ItemPairs) /\ ToSet(Obligations) = ToSet(first) \cup ToSet(q)
        BY <3>4, ConcatSet
      <3>3. Obligations \in Seq(ItemPairs) /\ ToSet(Obligations) = ToSet(first) \cup ToSet(second \o third)
        BY <3>5 DEF q
      <3> QED BY <3>1, <3>3
    <2>2. CASE ~tailBinds
      <3>1. Obligations = first \o <<>>
        BY <1>8, <2>2
      <3>2. Obligations = first
        BY <1>6, <3>1
      <3> QED BY <1>6, <2>2, <3>2
    <2> QED BY <2>1, <2>2
  <1>10. ASSUME NEW k \in Nat, k < start, ItemAt(rhs, k) # TrueItem, Reachable(k)
         PROVE  Obligation(k, ItemAt(lhs, k), ItemAt(rhs, k)) \in ToSet(Obligations)
    <2>1. k \in slots
      <3> HIDE DEF start
      <3> QED BY <1>2, <1>10
    <2>2. F[k] \in ToSet(Obligations)
      BY <1>6, <1>9, <2>1
    <2> QED BY <2>2
  <1>11. ASSUME tailBinds, NEW k \in Nat, k >= start, Reachable(k),
                k < before \/ (~TailClosed(lhs) /\ k = m)
         PROVE  Obligation(k, ItemAt(lhs, k), rhs.tail) \in ToSet(Obligations)
    <2>1. k \in under \/ k \in last
      <3> HIDE DEF start, before, m
      <3> QED BY <1>2, <1>11
    <2>2. G[k] \in ToSet(Obligations)
      BY <1>7, <1>9, <1>11, <2>1
    <2> QED BY <2>2
  <1>12. ASSUME tailBinds
         PROVE  /\ \A k \in Nat : k >= start /\ Reachable(k) /\ k < before =>
                      Obligation(k, ItemAt(lhs, k), rhs.tail) \in ToSet(Obligations)
                /\ \A k \in Nat : k >= start /\ Reachable(k) /\ ~TailClosed(lhs) /\ k = m =>
                      Obligation(k, ItemAt(lhs, k), rhs.tail) \in ToSet(Obligations)
    <2>1. ASSUME NEW k \in Nat, k >= start, Reachable(k), k < before
          PROVE  Obligation(k, ItemAt(lhs, k), rhs.tail) \in ToSet(Obligations)
      <3>1. k < before \/ (~TailClosed(lhs) /\ k = m)
        BY <2>1
      <3> HIDE DEF tailBinds, start, before, m, F, G
      <3> QED BY <1>11, <1>12, <2>1, <3>1
    <2>2. ASSUME NEW k \in Nat, k >= start, Reachable(k), ~TailClosed(lhs), k = m
          PROVE  Obligation(k, ItemAt(lhs, k), rhs.tail) \in ToSet(Obligations)
      <3> HIDE DEF tailBinds, start, before, m
      <3> QED BY <1>11, <1>12, <2>2
    <2> HIDE DEF start, before, m
    <2> QED BY <2>1, <2>2
  <1> QED BY <1>9, <1>10, <1>12

(* When the rule about items proves, or goes on to compare items.          *)
LEMMA ItemLengthsCases ==
    ASSUME FactsInv, ItemLengths.status \in {"true", "items"}
    PROVE  /\ ItemsApply
           /\ \/ Lengths.intervals = <<>> /\ ItemLengths.status = "true"
              \/ /\ ShapeWithin(Lengths, facts.rhs.lengths)
                 /\ ItemLengths.status = "true" => Obligations = <<>>
  <1> DEFINE right == facts.rhs.lengths
             length == IF right.intervals = <<>> THEN LeastCount(Lengths) ELSE CountNotIn(Lengths, right)
             short == right.intervals = <<>> \/ ~ShapeWithin(Lengths, right)
  <1>1. ItemLengths =
          IF ~ItemsApply THEN Unsupported
          ELSE IF Lengths.others /\ ~right.others THEN Validated(AnotherValue)
          ELSE IF Lengths.intervals = <<>> THEN ProvedTrue
          ELSE IF short THEN ByLength(length)
          ELSE IF Obligations # <<>> THEN Result("items", None)
          ELSE IF ItemsFragment(rhs, FALSE) THEN ProvedTrue ELSE Unsupported
    BY DEF ItemLengths
  <1> HIDE DEF length
  <1>2. ByLength(length).status \notin {"true", "items"}
    BY ByLengthStatus
  <1>3. \A v : Validated(v).status \notin {"true", "items"}
    BY ValidatedStatus
  <1> DEFINE bound == Lengths.intervals
  <1> HIDE DEF short, right
  <1>4. ItemsApply /\ ~(Lengths.others /\ ~right.others)
    BY <1>1, <1>3, Statuses
  <1>5. bound # <<>> => ~short /\ (ItemLengths.status = "true" => Obligations = <<>>)
    BY <1>1, <1>2, <1>4, Statuses
  <1>6. bound = <<>> => ItemLengths.status = "true"
    BY <1>1, <1>4, Statuses
  <1> QED BY <1>4, <1>5, <1>6 DEF short, right

(* Once every pair of items that the rule compares is included, so are the *)
(* arrays, if the right side is about items alone.                         *)
LEMMA ItemsSound ==
    ASSUME FactsInv, ItemsStandAlone, ItemLengths.status \in {"true", "items"},
           \A o \in ToSet(Obligations) : o.left \subseteq o.right
    PROVE  SoundFor(query)
  <1> DEFINE right == facts.rhs.lengths
             start == TailStart(rhs)
             before == Len(lhs.prefix)
  <1>1. lhs \in Schemas /\ rhs \in Schemas /\ Lengths = LeftLengths(lhs) /\ right = LeftLengths(rhs)
        /\ query \in Queries
    BY FactsOfSchemas DEF FactsInv
  <1>2. ItemsApply /\ (Lengths.intervals = <<>> \/ ShapeWithin(Lengths, right))
    BY ItemLengthsCases
  <1>3. ~Compound(rhs) /\ HasItems(rhs) /\ Lengths # None /\ right # None
    <2>1. ItemsFragment(rhs, TRUE) /\ None \notin {Lengths, right}
      BY <1>2 DEF ItemsApply
    <2>2. PICK k \in 0 .. start : k < start \/ HasTail(rhs)
      BY <1>2 DEF ItemsApply
    <2>3. start \in Nat
      BY <1>1, ItemTypes DEF TailStart
    <2>4. rhs.prefix # <<>> \/ rhs.tail # None
      <3>1. CASE k < start
        <4>1. Len(rhs.prefix) # 0
          BY <2>2, <2>3, <3>1 DEF TailStart
        <4> QED BY <4>1
      <3>2. CASE HasTail(rhs)
        BY <3>2 DEF HasTail
      <3> QED BY <2>2, <3>1, <3>2
    <2> QED BY <2>1, <2>4 DEF ItemsFragment, HasItems
  <1>4. rhs.contains = None /\ ~rhs.unique
    BY <1>1, <1>3 DEF ItemsStandAlone, HasContains, rhs
  <1>5. /\ rhs \in Keywords(Seq(Branches))
        /\ right = LocalLengths(rhs) /\ right \in Shapes
    BY <1>1, <1>3, PlainLengths DEF Schemas
  <1>6. \A n \in Nat : Counts(right.intervals, n) =>
          "array" \in rhs.types /\ InInterval(Interval(LowOf(rhs), HighOf(rhs)), n)
    BY <1>5, LocalLengthsSay
  <1>7. start \in Nat /\ before \in Nat
    BY <1>1, ItemTypes DEF TailStart
  <1> HIDE DEF right
  <1>9. ASSUME NEW v \in Arrays, Holds(lhs, v) PROVE Holds(rhs, v)
    <2> DEFINE t == v.items
               n == Len(t)
    <2>1. /\ t \in Seq(Items) /\ n \in Nat /\ DOMAIN t = 1 .. n
          /\ \A k \in 0 .. n - 1 :
                /\ k \in Nat /\ t[k + 1] \in Items
                /\ t[k + 1] \in ItemAt(lhs, k) /\ ItemAt(lhs, k) \in SUBSET Items
          /\ Lengths \in Shapes /\ Counts(Lengths.intervals, n)
      BY <1>3, <1>9, LeftArrays
    <2>2. Counts(right.intervals, n)
      <3>1. Lengths.intervals # <<>>
        BY <2>1 DEF Counts
      <3> QED BY <1>2, <1>5, <2>1, <3>1, WithinFacts
    <2>3. "array" \in rhs.types /\ InInterval(Interval(LowOf(rhs), HighOf(rhs)), n)
      BY <1>6, <2>1, <2>2
    <2>4. /\ rhs.min # None => rhs.min <= n
          /\ UpperLength(rhs) = None \/ n <= UpperLength(rhs)
      BY <1>5, <2>1, <2>3, LengthBoundsOf
    <2>5. /\ rhs.max # None => n <= rhs.max
          /\ rhs.tail = FalseItem => n <= start
      BY <1>5, <2>1, <2>4, KeywordFacts DEF TailStart
    <2>6. rhs.min \in Nat \/ rhs.min = None
      BY <1>5, KeywordFacts
    <2>7. \A j \in Nat : j < n => Reachable(j)
      <3>1. ASSUME NEW j \in Nat, j < n PROVE Reachable(j)
        <4>1. j \in 0 .. n - 1
          BY <2>1, <3>1
        <4> QED BY <1>3, <1>9, <4>1, ReachedIndexes DEF Reachable
      <3> QED BY <3>1
    <2>8. \A i, l, r : Obligation(i, l, r) \in ToSet(Obligations) => l \subseteq r
      <3>1. \A i, l, r : Obligation(i, l, r).left = l /\ Obligation(i, l, r).right = r
        BY DEF Obligation
      <3> QED BY <3>1
    <2> HIDE DEF n, t, start, before
    <2>9. ASSUME NEW j \in 0 .. n - 1
          PROVE  t[j + 1] \in ItemAt(rhs, j)
      <3>1. j \in Nat /\ j < n /\ t[j + 1] \in ItemAt(lhs, j) /\ t[j + 1] \in Items
        BY <2>1
      <3>2. CASE ItemAt(rhs, j) = TrueItem
        BY <3>1, <3>2 DEF TrueItem
      <3>3. CASE ItemAt(rhs, j) # TrueItem /\ j < start
        <4>1. Obligation(j, ItemAt(lhs, j), ItemAt(rhs, j)) \in ToSet(Obligations)
          BY <2>7, <3>1, <3>3, ObligationsCover DEF start
        <4> QED BY <2>8, <3>1, <4>1
      <3>4. CASE ItemAt(rhs, j) # TrueItem /\ ~(j < start)
        <4>1. HasTail(rhs) /\ ItemAt(rhs, j) = rhs.tail
          BY <3>4 DEF ItemAt, start, TailStart
        <4>2. ~TailClosed(rhs) /\ rhs.tail # TrueItem
          <5>1. rhs.tail # FalseItem
            BY <1>7, <2>1, <2>5, <3>1, <3>4
          <5> QED BY <3>4, <4>1, <5>1 DEF TailClosed
        <4>3. j >= start
          BY <1>7, <3>1, <3>4
        <4>4. CASE j < before
          <5>1. Obligation(j, ItemAt(lhs, j), rhs.tail) \in ToSet(Obligations)
            <6>1. j >= TailStart(rhs) /\ j < Len(lhs.prefix) /\ Reachable(j)
              BY <2>7, <3>1, <4>3, <4>4 DEF start, before
            <6>2. \A k \in Nat : k >= TailStart(rhs) /\ Reachable(k) /\ k < Len(lhs.prefix) =>
                    Obligation(k, ItemAt(lhs, k), rhs.tail) \in ToSet(Obligations)
              BY <4>1, <4>2, ObligationsCover
            <6>3. j \in Nat
              BY <3>1
            <6> QED BY <6>1, <6>2, <6>3
          <5> QED BY <2>8, <3>1, <4>1, <5>1
        <4>5. CASE ~(j < before)
          <5> DEFINE m == Larger(start, before)
          <5>1. m \in Nat /\ m >= start /\ m >= before /\ m <= j
            BY <1>7, <3>1, <4>3, <4>5 DEF Larger
          <5>2. ~TailClosed(lhs)
            <6>1. HasTail(lhs) => ItemAt(lhs, j) = lhs.tail
              BY <4>5 DEF ItemAt, before
            <6>2. FalseItem # None
              BY <1>5, KeywordFacts
            <6> QED BY <3>1, <6>1, <6>2 DEF TailClosed, HasTail, FalseItem
          <5>3. m = Larger(TailStart(rhs), Len(lhs.prefix))
            BY DEF start, before
          <5> HIDE DEF m
          <5>4. ItemAt(lhs, m) = ItemAt(lhs, j)
            <6>1. ~(m < Len(lhs.prefix)) /\ ~(j < Len(lhs.prefix))
              BY <1>7, <4>5, <5>1 DEF before
            <6> QED BY <6>1 DEF ItemAt
          <5>5. Reachable(m)
            <6>1. m < n
              BY <2>1, <3>1, <5>1
            <6> QED BY <2>7, <5>1, <6>1
          <5>6. m >= TailStart(rhs)
            BY <5>1 DEF start
          <5>7. Obligation(m, ItemAt(lhs, m), rhs.tail) \in ToSet(Obligations)
            BY <4>1, <4>2, <5>1, <5>2, <5>3, <5>5, <5>6, ObligationsCover
          <5> QED BY <2>8, <3>1, <4>1, <5>4, <5>7
        <4> QED BY <4>4, <4>5
      <3> QED BY <3>2, <3>3, <3>4
    <2>10. \A k \in DOMAIN t : t[k] \in ItemSchemaAt(rhs, k)
      <3>1. ASSUME NEW k \in DOMAIN t PROVE t[k] \in ItemSchemaAt(rhs, k)
        <4>1. k \in 1 .. n /\ k - 1 \in 0 .. n - 1 /\ (k - 1) + 1 = k /\ k \in Nat
          BY <2>1
        <4>2. t[k] \in ItemAt(rhs, k - 1)
          BY <2>9, <4>1
        <4>3. Len(rhs.prefix) \in Nat /\ (k - 1 < Len(rhs.prefix) <=> k <= Len(rhs.prefix))
          BY <1>1, <4>1, ItemTypes
        <4>4. ItemAt(rhs, k - 1) = ItemSchemaAt(rhs, k)
          BY <4>1, <4>3 DEF ItemAt, ItemSchemaAt, HasTail
        <4> QED BY <4>2, <4>4
      <3> QED BY <3>1
    <2>11. rhs.min # None => n >= rhs.min
      BY <2>1, <2>4, <2>6
    <2>12. HoldsLocally(rhs, v)
      <3>1. v.type = "array"
        BY <1>9, ValueFacts
      <3> QED BY <1>4, <2>3, <2>5, <2>10, <2>11, <3>1 DEF HoldsLocally, n, t
    <2> QED BY <1>3, <2>12, PlainHolds
  <1> QED BY <1>9 DEF SoundFor, lhs, rhs

(* A left side with no arrays.                                             *)
LEMMA NoArraysSound ==
    ASSUME FactsInv, ItemLengths.status = "true", Obligations # <<>>
    PROVE  SoundFor(query)
  <1>1. ItemsApply /\ Lengths.intervals = <<>>
    BY ItemLengthsCases
  <1>2. Lengths # None
    BY <1>1 DEF ItemsApply
  <1>3. ASSUME NEW v \in Arrays, Holds(lhs, v) PROVE FALSE
    <2>1. Counts(Lengths.intervals, Len(v.items))
      BY <1>2, <1>3, LeftArrays
    <2> QED BY <1>1, <2>1 DEF Counts
  <1> QED BY <1>3 DEF SoundFor, lhs

-----------------------------------------------------------------------------
(* The rule about types, and the values of other types.                    *)

(* Of the other types, the right side has the values of all that it has.   *)
OthersSoundFor(q) ==
    \A type \in OtherTypes : Holds(q.lhs, Other(type)) => Holds(q.rhs, Other(type))

(* What the rule about types returns.                                      *)
LEMMA TypeResultsAre ==
    ASSUME FactsInv, NEW outcome \in TypeResults
    PROVE  /\ outcome.status \in {"true", "false", "unsupported"}
           /\ outcome.status = "true" =>
                /\ TypeShape(lhs) # None /\ TypeShape(rhs) # None
                /\ TypeShape(lhs) \subseteq TypeShape(rhs) /\ TypesComplete(rhs)
           /\ TypeShape(lhs) # None /\ TypeShape(rhs) # None /\ outcome.status # "false" =>
                \A type \in TypeShape(lhs) \ TypeShape(rhs) :
                   Validated(AtomValue(type)) = Unsupported
  <1> DEFINE l == facts.lhs.types
             r == facts.rhs.types
             atoms == {Validated(AtomValue(t)) : t \in l \ r} \ {Unsupported}
             built == {Validated(ArrayOfLength(n)) : n \in 0 .. LengthBound} \cup {Unsupported}
  <1>1. TypeResults =
          IF None \in {l, r} THEN {Unsupported}
          ELSE IF l \subseteq r
          THEN {IF facts.rhs.onlyTypes THEN ProvedTrue ELSE Unsupported}
          ELSE IF atoms # {} THEN atoms ELSE built
    BY DEF TypeResults
  <1>2. l = TypeShape(lhs) /\ r = TypeShape(rhs) /\ facts.rhs.onlyTypes = TypesComplete(rhs)
    BY FactsOfSchemas
  <1>3. \A x \in atoms : x.status = "false"
    BY ValidatedStatus DEF Validated, Result
  <1>4. \A x \in built : x.status \in {"false", "unsupported"}
    BY ValidatedStatus, Statuses
  <1>5. atoms = {} => \A type \in l \ r : Validated(AtomValue(type)) = Unsupported
    OBVIOUS
  <1> HIDE DEF l, r, atoms, built
  <1>6. CASE None \in {l, r}
    BY <1>1, <1>2, <1>6, Statuses
  <1>7. CASE None \notin {l, r} /\ l \subseteq r
    BY <1>1, <1>2, <1>7, Statuses
  <1>8. CASE None \notin {l, r} /\ ~(l \subseteq r) /\ atoms # {}
    BY <1>1, <1>3, <1>8
  <1>9. CASE None \notin {l, r} /\ ~(l \subseteq r) /\ atoms = {}
    <2>1. outcome.status \in {"false", "unsupported"}
      BY <1>1, <1>4, <1>9
    <2> QED BY <2>1, <1>2, <1>5, <1>9
  <1> QED BY <1>6, <1>7, <1>8, <1>9

(* The rule about types: what it proves has no array the right rejects.    *)
LEMMA TypesSound ==
    ASSUME FactsInv, NEW outcome \in TypeResults, outcome.status = "true"
    PROVE  SoundFor(query)
  <1>1. /\ TypeShape(lhs) # None /\ TypeShape(rhs) # None
        /\ TypeShape(lhs) \subseteq TypeShape(rhs) /\ TypesComplete(rhs)
    BY TypeResultsAre
  <1>2. lhs \in Schemas /\ rhs \in Schemas
    BY FactsOfSchemas
  <1>3. ASSUME NEW v \in Arrays, Holds(lhs, v) PROVE Holds(rhs, v)
    <2>1. v.type \in TypeShape(rhs)
      BY <1>1, <1>2, <1>3, TypesHold
    <2> QED BY <1>1, <1>2, <2>1, TypesSuffice
  <1> QED BY <1>3 DEF SoundFor, lhs, rhs

(* A type that the right shape has, it accepts, if nothing it negates says *)
(* more of that type.                                                      *)
LEMMA RightTypesHold ==
    ASSUME NEW s \in Schemas, TypeShape(s) # None, NEW type \in OtherTypes, type \in TypeShape(s),
           \A k \in DOMAIN s.negated :
              OnlyTypes(s.negated[k]) \/ s.negated[k].types = {"array"}
    PROVE  Holds(s, Other(type))
  <1>1. /\ type \in s.types
        /\ \A k \in DOMAIN s.allOf : type \in s.allOf[k].types
        /\ s.anyOf # <<>> => \E k \in DOMAIN s.anyOf : type \in s.anyOf[k].types
        /\ \A k \in DOMAIN s.negated :
              OnlyTypes(s.negated[k]) => type \notin s.negated[k].types
    BY DEF TypeShape
  <1>2. \A k \in DOMAIN s.negated : type \notin s.negated[k].types
    BY <1>1, OtherFacts
  <1> QED BY <1>1, <1>2, OtherFacts DEF Holds

(* Unless it refutes, the rule about types leaves no value of another type *)
(* that the right rejects.                                                 *)
LEMMA OthersSound ==
    ASSUME FactsInv, TypesToldIn(query), NEW outcome \in TypeResults, outcome.status # "false"
    PROVE  OthersSoundFor(query)
  <1>1. lhs \in Schemas /\ rhs \in Schemas
    BY FactsOfSchemas
  <1>2. ASSUME NEW type \in OtherTypes, Holds(lhs, Other(type)) PROVE Holds(rhs, Other(type))
    <2>1. type \in lhs.types /\ type # "array"
      BY <1>2, OtherFacts DEF Holds
    <2>2. /\ TypeShape(lhs) # None /\ TypeShape(rhs) # None
          /\ \A k \in DOMAIN rhs.negated :
                OnlyTypes(rhs.negated[k]) \/ rhs.negated[k].types = {"array"}
      BY <2>1 DEF TypesToldIn, lhs, rhs
    <2>3. type \in TypeShape(lhs)
      BY <1>1, <1>2, <2>2, TypesHold, OtherFacts DEF OtherValues
    <2>4. CASE type \in TypeShape(rhs)
      BY <1>1, <2>2, <2>4, RightTypesHold
    <2>5. CASE type \notin TypeShape(rhs)
      <3>1. Validated(AtomValue(type)) = Unsupported
        BY <2>2, <2>3, <2>5, TypeResultsAre
      <3>2. AtomValue(type) = Other(type) /\ Other(type) # None
        BY <2>1, NoneIsNoArrayAssumption DEF AtomValue
      <3> HIDE DEF lhs, rhs
      <3>3. Result("false", Other(type)) # Unsupported
        BY Statuses
      <3> QED BY <1>2, <3>1, <3>2, <3>3 DEF Validated
    <2> QED BY <2>4, <2>5
  <1> QED BY <1>2 DEF OthersSoundFor, lhs, rhs

(* After the rule about types nothing but arrays is left to compare.       *)
OthersInv ==
    phase # "type" => (phase = "done" /\ result.status = "false") \/ OthersSoundFor(query)

(* The other rules do not touch that.                                      *)
LEMMA OthersStep ==
    ASSUME TypesTold, FactsInv, OthersInv, [Next]_vars
    PROVE  OthersInv'
  <1>1. TypesToldIn(query)
    BY DEF FactsInv, TypesTold
  <1>2. CASE ProveType
    <2>1. PICK outcome \in TypeResults : Conclude(outcome, "length")
      BY <1>2 DEF ProveType
    <2>2. UNCHANGED query
      BY <1>2 DEF ProveType
    <2>3. outcome.status = "false" \/ OthersSoundFor(query)
      BY <1>1, OthersSound
    <2>4. CASE OthersSoundFor(query)
      BY <2>2, <2>4 DEF OthersInv
    <2>5. CASE outcome.status = "false"
      BY <2>1, <2>5 DEF Conclude, OthersInv
    <2> QED BY <2>3, <2>4, <2>5
  <1>3. CASE UNCHANGED vars
    BY <1>3 DEF OthersInv, vars
  <1>4. CASE Next /\ ~ProveType
    <2>1. phase \notin {"type", "done"} /\ UNCHANGED query
      BY <1>4 DEF Next, ProveLength, ProveUniqueness, ProveContains, ProveContainsExpanded,
             PlanItems, ProveItem, ItemsIncluded
    <2> QED BY <2>1 DEF OthersInv
  <1> QED BY <1>2, <1>3, <1>4

-----------------------------------------------------------------------------
(* What is proved is right; and while items are compared, what is left of  *)
(* them is enough.                                                         *)
Verdict ==
    /\ result.status = "true" => SoundFor(query)
    /\ phase = "child" =>
         /\ todo \in Seq(ItemPairs)
         /\ (\A o \in ToSet(todo) : o.left \subseteq o.right) => SoundFor(query)

(* The inductive invariant of what is proved.                              *)
SoundInv == FactsInv /\ Verdict

(* A rule that concludes with a result that is right keeps the verdict     *)
(* right.                                                                  *)
LEMMA ConcludeKeeps ==
    ASSUME Verdict, UNCHANGED query, NEW outcome, NEW next, next # "child",
           Conclude(outcome, next), outcome.status = "true" => SoundFor(query)
    PROVE  Verdict'
  BY DEF Verdict, Conclude

(* Every rule keeps the verdict right, under the hypothesis on right       *)
(* sides.                                                                  *)
LEMMA SoundStep ==
    ASSUME ItemsStandAlone, SoundInv, [Next]_vars
    PROVE  SoundInv'
  <1>1. FactsInv'
    BY FactsStep DEF SoundInv
  <1>2. FactsInv /\ Verdict
    BY DEF SoundInv
  <1>11. CASE ProveType
    <2>1. PICK outcome \in TypeResults : Conclude(outcome, "length")
      BY <1>11 DEF ProveType
    <2>2. UNCHANGED query /\ (outcome.status = "true" => SoundFor(query))
      BY <1>2, <1>11, TypesSound DEF ProveType
    <2> QED BY <1>1, <1>2, <2>1, <2>2, ConcludeKeeps DEF SoundInv
  <1>3. CASE ProveLength
    <2>1. PICK outcome \in LengthResults : Conclude(outcome, "uniqueness")
      BY <1>3 DEF ProveLength
    <2>2. UNCHANGED query /\ (outcome.status = "true" => SoundFor(query))
      BY <1>2, <1>3, LengthsSound DEF ProveLength
    <2> QED BY <1>1, <1>2, <2>1, <2>2, ConcludeKeeps DEF SoundInv
  <1>4. CASE ProveUniqueness
    <2>1. UNCHANGED query /\ Conclude(UniquenessResult, "contains")
          /\ (UniquenessResult.status = "true" => SoundFor(query))
      BY <1>2, <1>4, UniquenessSound DEF ProveUniqueness
    <2> QED BY <1>1, <1>2, <2>1, ConcludeKeeps DEF SoundInv
  <1>5. CASE ProveContains
    <2> DEFINE outcome == ContainsResult(FALSE)
    <2>1. UNCHANGED query /\ (outcome.status = "true" => SoundFor(query))
          /\ IF outcome.status # "bounds" THEN Conclude(outcome, "items")
             ELSE /\ phase' = IF query.expensive THEN "expanded" ELSE "items"
                  /\ UNCHANGED result
      BY <1>2, <1>5, ContainsSound DEF ProveContains
    <2> HIDE DEF outcome
    <2>2. CASE outcome.status # "bounds"
      <3>1. Conclude(outcome, "items")
        BY <2>1, <2>2
      <3> QED BY <1>1, <1>2, <2>1, <3>1, ConcludeKeeps DEF SoundInv
    <2>3. CASE outcome.status = "bounds"
      <3>1. phase' # "child" /\ UNCHANGED <<query, result>>
        BY <2>1, <2>3
      <3>2. Verdict'
        BY <1>2, <3>1 DEF Verdict
      <3> QED BY <1>1, <3>2 DEF SoundInv
    <2> QED BY <2>2, <2>3
  <1>6. CASE ProveContainsExpanded
    <2> DEFINE first == ContainsResult(TRUE)
               outcome == IF first.status = "bounds" THEN Unsupported ELSE first
    <2>1. UNCHANGED query /\ Conclude(outcome, "items")
      BY <1>6 DEF ProveContainsExpanded
    <2>2. outcome.status = "true" => SoundFor(query)
      <3>1. first.status = "true" => SoundFor(query)
        BY <1>2, ContainsSound
      <3> HIDE DEF first
      <3> QED BY <3>1, Statuses
    <2> HIDE DEF outcome
    <2> QED BY <1>1, <1>2, <2>1, <2>2, ConcludeKeeps DEF SoundInv
  <1>7. CASE PlanItems
    <2>1. CASE ItemLengths.status = "items"
      <3>1. phase' = "child" /\ todo' = Obligations /\ UNCHANGED <<query, result>>
        BY <1>7, <2>1 DEF PlanItems
      <3>2. Obligations \in Seq(ItemPairs)
        BY <1>2, ObligationsCover
      <3>3. (\A o \in ToSet(Obligations) : o.left \subseteq o.right) => SoundFor(query)
        BY <1>2, <2>1, ItemsSound
      <3>4. Verdict'
        BY <1>2, <3>1, <3>2, <3>3 DEF Verdict
      <3> QED BY <1>1, <3>4 DEF SoundInv
    <2>2. CASE ItemLengths.status # "items"
      <3>1. UNCHANGED query /\ Conclude(ItemLengths, "done")
        BY <1>7, <2>2 DEF PlanItems
      <3>2. ItemLengths.status = "true" => SoundFor(query)
        <4>1. SUFFICES ASSUME ItemLengths.status = "true" PROVE SoundFor(query)
          OBVIOUS
        <4>2. CASE Obligations = <<>>
          <5>1. ToSet(Obligations) = {}
            BY <4>2 DEF ToSet
          <5> QED BY <1>2, <4>1, <5>1, ItemsSound
        <4>3. CASE Obligations # <<>>
          BY <1>2, <4>1, <4>3, NoArraysSound
        <4> QED BY <4>2, <4>3
      <3> QED BY <1>1, <1>2, <3>1, <3>2, ConcludeKeeps DEF SoundInv
    <2> QED BY <2>1, <2>2
  <1>8. CASE ProveItem
    <2> DEFINE o == Head(todo)
               outcome == ItemResult(o)
    <2>1. UNCHANGED query /\ phase = "child" /\ todo # <<>>
      BY <1>8 DEF ProveItem
    <2>2. /\ todo \in Seq(ItemPairs)
          /\ (\A p \in ToSet(todo) : p.left \subseteq p.right) => SoundFor(query)
      BY <1>2, <2>1 DEF Verdict
    <2>3. o \in ItemPairs /\ Tail(todo) \in Seq(ItemPairs) /\ ToSet(todo) = {o} \cup ToSet(Tail(todo))
      BY <2>1, <2>2, HeadAndTail
    <2>4. CASE outcome.status = "true"
      <3>1. todo' = Tail(todo) /\ UNCHANGED <<query, phase, result>>
        BY <1>8, <2>4 DEF ProveItem
      <3>2. Proved(o.left, o.right)
        BY <2>4, ValidatedStatus, Statuses DEF ItemResult, Proved
      <3>3. o.left \subseteq o.right
        <4>1. o.left \in SUBSET Items /\ o.right \in SUBSET Items
          <5> HIDE DEF o
          <5> QED BY <2>3 DEF ItemPairs
        <4> QED BY <3>2, <4>1, ItemAnswers
      <3> HIDE DEF o, outcome
      <3>4. (\A p \in ToSet(Tail(todo)) : p.left \subseteq p.right) => SoundFor(query)
        BY <2>2, <2>3, <3>3
      <3>5. Verdict'
        BY <1>2, <2>3, <3>1, <3>4 DEF Verdict
      <3> QED BY <1>1, <3>5 DEF SoundInv
    <2>5. CASE outcome.status # "true"
      <3>1. Conclude(outcome, "done")
        BY <1>8, <2>5 DEF ProveItem
      <3> HIDE DEF outcome
      <3> QED BY <1>1, <1>2, <2>1, <2>5, <3>1, ConcludeKeeps DEF SoundInv
    <2> QED BY <2>4, <2>5
  <1>9. CASE ItemsIncluded
    <2>1. phase = "child" /\ todo = <<>> /\ phase' = "done" /\ UNCHANGED query
      BY <1>9 DEF ItemsIncluded
    <2>2. SoundFor(query)
      <3>1. ToSet(todo) = {}
        BY <2>1 DEF ToSet
      <3> QED BY <1>2, <2>1, <3>1 DEF Verdict
    <2>3. Verdict'
      BY <2>1, <2>2 DEF Verdict
    <2> QED BY <1>1, <2>3 DEF SoundInv
  <1>10. CASE UNCHANGED vars
    <2>1. Verdict'
      BY <1>2, <1>10 DEF Verdict, vars
    <2> QED BY <1>1, <2>1 DEF SoundInv
  <1> QED BY <1>3, <1>4, <1>5, <1>6, <1>7, <1>8, <1>9, <1>10, <1>11 DEF Next

(* InclusionsAreSound: what the rules prove included is included, for      *)
(* arrays of every length and values of any set of other types.  The first *)
(* hypothesis leaves out right sides with items beside contains or         *)
(* uniqueItems, which the last line of the rule about items                *)
(* (rules/arrays.py:442) answers by the items alone; the second, questions *)
(* on which the rule about types says nothing, where the rules after it    *)
(* take the other types for one (domains/arrays.py:999).                   *)
THEOREM InclusionsSound ==
    ASSUME ItemsStandAlone, TypesTold
    PROVE  Spec => []InclusionsAreSound
  <1>1. Init => SoundInv /\ OthersInv
    BY Statuses DEF Init, SoundInv, FactsInv, Verdict, OthersInv
  <1>2. SoundInv /\ OthersInv /\ [Next]_vars => (SoundInv /\ OthersInv)'
    BY SoundStep, OthersStep DEF SoundInv
  <1>3. SoundInv /\ OthersInv => InclusionsAreSound
    <2>1. SUFFICES ASSUME SoundInv, OthersInv, phase = "done", result.status = "true",
                          NEW v \in Values, Holds(lhs, v)
                   PROVE  Holds(rhs, v)
      BY DEF InclusionsAreSound
    <2>2. SoundFor(query) /\ OthersSoundFor(query)
      BY <2>1 DEF SoundInv, Verdict, OthersInv
    <2>3. CASE v \in Arrays
      BY <2>1, <2>2, <2>3 DEF SoundFor, lhs, rhs
    <2>4. CASE \E type \in OtherTypes : v = Other(type)
      BY <2>1, <2>2, <2>4 DEF OthersSoundFor, lhs, rhs
    <2> QED BY <2>1, <2>3, <2>4, ValueFacts
  <1> QED BY <1>1, <1>2, <1>3, PTL DEF Spec

-----------------------------------------------------------------------------
(* Lengths are decided.                                                    *)

(* The shape of a conjunction is exact only if both sides are.             *)
LEMMA MeetNeedsBoth ==
    ASSUME NEW a \in GoodShapes, NEW b \in GoodShapes, MeetShapes(a, b) # None
    PROVE  a # None /\ b # None /\ (MeetShapes(a, b).exact => a.exact)
  <1>1. a # None /\ b # None
    BY MeetOfBoth
  <1>2. a \in Shapes /\ Apart(a.intervals) /\ b \in Shapes /\ Apart(b.intervals)
    BY <1>1 DEF GoodShapes, Bounds
  <1> QED BY <1>1, <1>2, MeetFacts

(* A conjunction with a shape has one in every part, and is exact only if  *)
(* the first is.                                                           *)
LEMMA MeetAllNeeds ==
    ASSUME NEW N \in Nat, NEW s, s = [k \in 1 .. N |-> s[k]], NEW base \in GoodShapes,
           \A k \in 1 .. N : s[k] \in GoodShapes, FoldLeft(MeetShapes, base, s) # None
    PROVE  /\ base # None /\ \A k \in 1 .. N : s[k] # None
           /\ FoldLeft(MeetShapes, base, s).exact => base.exact
  <1>1. s \in Seq(GoodShapes) /\ Len(s) = N
    <2>1. s \in [1 .. N -> GoodShapes]
      OBVIOUS
    <2> QED BY <2>1
  <1>2. PICK g : MeetsTo(g, s, base)
    <2>1. \A a \in GoodShapes, b \in GoodShapes : MeetShapes(a, b) \in GoodShapes
      BY GoodShapesFacts
    <2> QED BY <1>1, <2>1, MeetSteps
  <1> DEFINE K == {k \in 0 .. N :
                     /\ g[k] \in GoodShapes
                     /\ g[k] # None =>
                          /\ base # None /\ \A j \in 1 .. k : s[j] # None
                          /\ g[k].exact => base.exact}
  <1>3. 0 \in K
    <2>1. g[0] = base /\ 0 \in 0 .. N /\ 1 .. 0 = {}
      BY <1>2 DEF MeetsTo
    <2> QED BY <2>1
  <1>4. ASSUME NEW k \in 0 .. N - 1, k \in K
        PROVE  k + 1 \in K
    <2>1. k + 1 \in 0 .. N /\ 1 .. k + 1 = (1 .. k) \cup {k + 1}
      OBVIOUS
    <2>2. g[k + 1] = MeetShapes(g[k], s[k + 1])
      BY <1>1, <1>2 DEF MeetsTo
    <2>3. g[k] \in GoodShapes /\ s[k + 1] \in GoodShapes /\ g[k + 1] \in GoodShapes
      BY <1>4, <2>2, GoodShapesFacts
    <2>4. g[k + 1] # None => g[k] # None /\ s[k + 1] # None /\ (g[k + 1].exact => g[k].exact)
      BY <2>2, <2>3, MeetNeedsBoth
    <2> QED BY <1>4, <2>1, <2>3, <2>4
  <1> HIDE DEF K
  <1>5. \A k \in 0 .. N : k \in K
    BY <1>3, <1>4, HoldsUpTo
  <1>6. N \in K
    <2>1. N \in 0 .. N
      OBVIOUS
    <2> QED BY <1>5, <2>1
  <1>7. FoldLeft(MeetShapes, base, s) = g[N]
    BY <1>1, <1>2 DEF MeetsTo
  <1>8. g[N] # None =>
          /\ base # None /\ \A j \in 1 .. N : s[j] # None
          /\ g[N].exact => base.exact
    BY <1>6 DEF K
  <1> QED BY <1>7, <1>8

(* A disjunction with a shape has one in every part.                       *)
LEMMA JoinAllNeeds ==
    ASSUME NEW N \in Nat, NEW s, s = [k \in 1 .. N |-> s[k]], NEW base \in GoodShapes,
           \A k \in 1 .. N : s[k] \in GoodShapes, FoldLeft(JoinShapes, base, s) # None
    PROVE  \A k \in 1 .. N : s[k] # None
  <1>1. s \in Seq(GoodShapes) /\ Len(s) = N
    <2>1. s \in [1 .. N -> GoodShapes]
      OBVIOUS
    <2> QED BY <2>1
  <1>2. PICK g : JoinsTo(g, s, base)
    <2>1. \A a \in GoodShapes, b \in GoodShapes : JoinShapes(a, b) \in GoodShapes
      BY GoodShapesFacts
    <2> QED BY <1>1, <2>1, JoinSteps
  <1> DEFINE K == {k \in 0 .. N : g[k] # None => \A j \in 1 .. k : s[j] # None}
  <1>3. 0 \in K
    <2>1. 0 \in 0 .. N /\ 1 .. 0 = {}
      OBVIOUS
    <2> QED BY <2>1
  <1>4. ASSUME NEW k \in 0 .. N - 1, k \in K
        PROVE  k + 1 \in K
    <2>1. k + 1 \in 0 .. N /\ 1 .. k + 1 = (1 .. k) \cup {k + 1}
      OBVIOUS
    <2>2. g[k + 1] = JoinShapes(g[k], s[k + 1])
      BY <1>1, <1>2 DEF JoinsTo
    <2>3. g[k + 1] # None => g[k] # None /\ s[k + 1] # None
      BY <2>2 DEF JoinShapes
    <2> QED BY <1>4, <2>1, <2>3
  <1> HIDE DEF K
  <1>5. \A k \in 0 .. N : k \in K
    BY <1>3, <1>4, HoldsUpTo
  <1>6. N \in K
    <2>1. N \in 0 .. N
      OBVIOUS
    <2> QED BY <1>5, <2>1
  <1>7. FoldLeft(JoinShapes, base, s) = g[N]
    BY <1>1, <1>2 DEF JoinsTo
  <1> QED BY <1>6, <1>7 DEF K

(* A schema that has lengths without its items has the same lengths with   *)
(* them; and they are not exact if its arrays must be distinct.            *)
LEMMA PlainAreTheLengths ==
    ASSUME NEW s \in Schemas, RightLengths(s) # None
    PROVE  /\ LeftLengths(s) = RightLengths(s)
           /\ s.unique /\ "array" \in s.types => ~RightLengths(s).exact
  <1> DEFINE Of(branches, allow) == [k \in DOMAIN branches |-> LocalShape(branches[k], allow)]
             Denied(allow) == [k \in DOMAIN s.negated |-> Complement(LocalShape(s.negated[k], allow))]
             Every(allow) == FoldLeft(MeetShapes, LocalShape(s, allow), Of(s.allOf, allow))
             Either(allow) == FoldLeft(JoinShapes, NothingShape, Of(s.anyOf, allow))
             Together(allow) == IF s.anyOf = <<>> THEN Every(allow) ELSE MeetShapes(Every(allow), Either(allow))
  <1>1. \A allow : LengthShape(s, allow) = FoldLeft(MeetShapes, Together(allow), Denied(allow))
    BY DEF LengthShape
  <1>2. /\ s.allOf \in Seq(Branches) /\ s.anyOf \in Seq(Branches) /\ s.negated \in Seq(Branches)
        /\ s \in Keywords(Seq(Branches))
    BY DEF Schemas, Keywords
  <1>3. \A q \in Seq(Branches) :
           /\ Len(q) \in Nat /\ DOMAIN q = 1 .. Len(q)
           /\ \A k \in 1 .. Len(q) : q[k] \in Keywords({<<>>})
    BY DEF Branches
  <1>4. \A b : LocalShape(b, FALSE) # None => LocalShape(b, TRUE) = LocalShape(b, FALSE)
    BY DEF LocalShape
  <1>5. \A X : \A b \in Keywords(X) : \A allow :
           LocalShape(b, allow) \in GoodShapes /\ Complement(LocalShape(b, allow)) \in GoodShapes
    <2>1. ASSUME NEW X, NEW b \in Keywords(X), NEW allow
          PROVE  LocalShape(b, allow) \in GoodShapes /\ Complement(LocalShape(b, allow)) \in GoodShapes
      <3>1. Bounds(LocalShape(b, allow), AcceptedLocally(b), Arrays, SizeOf)
        BY LocalShapeBounds
      <3>2. Bounds(Complement(LocalShape(b, allow)), Arrays \ AcceptedLocally(b), Arrays, SizeOf)
        BY <3>1, ValueFacts, ComplementBounds
      <3> QED BY <3>1, <3>2, GoodShapesFacts
    <2> QED BY <2>1
  <1>6. NothingShape \in GoodShapes
    <2>1. Bounds(Shape({}, FALSE, TRUE), {}, Arrays, SizeOf)
      BY FS_EmptySet, BuiltShapeBounds
    <2> QED BY <2>1, GoodShapesFacts DEF NothingShape
  <1>7. ASSUME NEW q \in Seq(Branches), NEW allow
        PROVE  /\ Of(q, allow) = [k \in 1 .. Len(q) |-> Of(q, allow)[k]]
               /\ \A k \in 1 .. Len(q) : /\ Of(q, allow)[k] = LocalShape(q[k], allow)
                                         /\ Of(q, allow)[k] \in GoodShapes
    <2>1. Len(q) \in Nat /\ DOMAIN q = 1 .. Len(q)
      BY <1>3
    <2>2. \A k \in 1 .. Len(q) : LocalShape(q[k], allow) \in GoodShapes
      BY <1>3, <1>5
    <2> QED BY <2>1, <2>2
  <1>8. ASSUME NEW q \in Seq(Branches), \A k \in 1 .. Len(q) : Of(q, FALSE)[k] # None
        PROVE  Of(q, TRUE) = Of(q, FALSE)
    <2>1. DOMAIN q = 1 .. Len(q)
      BY <1>3
    <2>2. \A k \in 1 .. Len(q) : LocalShape(q[k], TRUE) = LocalShape(q[k], FALSE)
      BY <1>4, <1>7, <1>8
    <2> QED BY <2>1, <2>2
  <1>9. /\ Denied(FALSE) = [k \in 1 .. Len(s.negated) |-> Denied(FALSE)[k]]
        /\ \A k \in 1 .. Len(s.negated) : Denied(FALSE)[k] \in GoodShapes
    <2>1. Len(s.negated) \in Nat /\ DOMAIN s.negated = 1 .. Len(s.negated)
      BY <1>2, <1>3
    <2>2. \A k \in 1 .. Len(s.negated) : Complement(LocalShape(s.negated[k], FALSE)) \in GoodShapes
      BY <1>2, <1>3, <1>5
    <2> QED BY <2>1, <2>2
  <1>10. LocalShape(s, FALSE) \in GoodShapes
    BY <1>2, <1>5
  <1>11. Every(FALSE) \in GoodShapes /\ Either(FALSE) \in GoodShapes
    <2>1. \A a \in GoodShapes : a = None \/ (a \in Shapes /\ Apart(a.intervals))
      BY DEF GoodShapes, Bounds
    <2>2. Every(FALSE) \in GoodShapes
      <3> DEFINE f == Of(s.allOf, FALSE)
                 N == Len(s.allOf)
      <3>1. N \in Nat /\ f = [k \in 1 .. N |-> f[k]] /\ \A k \in 1 .. N : f[k] \in GoodShapes
        BY <1>2, <1>3, <1>7
      <3> HIDE DEF f, N
      <3>2. FoldLeft(MeetShapes, LocalShape(s, FALSE), f) \in GoodShapes
        BY <1>10, <3>1, MeetAllCounts
      <3> QED BY <3>2 DEF f
    <2>3. Either(FALSE) \in GoodShapes
      <3> DEFINE f == Of(s.anyOf, FALSE)
                 N == Len(s.anyOf)
                 z == [v \in {} |-> 0]
                 Y == [k \in 1 .. N |-> {}]
      <3>1. N \in Nat /\ f = [k \in 1 .. N |-> f[k]] /\ \A k \in 1 .. N : f[k] \in GoodShapes
        BY <1>2, <1>3, <1>7
      <3>2. z \in Sizes({})
        BY DEF Sizes
      <3>3. Bounds(NothingShape, {}, {}, z) /\ \A k \in 1 .. N : Bounds(f[k], Y[k], {}, z)
        BY <1>6, <3>1 DEF GoodShapes
      <3> HIDE DEF f, N, z, Y
      <3>4. Bounds(FoldLeft(JoinShapes, NothingShape, f), {} \cup UNION {Y[k] : k \in 1 .. N}, {}, z)
        BY <3>1, <3>2, <3>3, JoinAllBounds
      <3>5. FoldLeft(JoinShapes, NothingShape, f) \in GoodShapes
        BY <3>4, GoodShapesFacts
      <3> QED BY <3>5 DEF f
    <2> QED BY <2>2, <2>3
  <1>12. Together(FALSE) \in GoodShapes
    <2> HIDE DEF Every, Either
    <2> QED BY <1>11, GoodShapesFacts
  <1>13. /\ Together(FALSE) # None /\ \A k \in 1 .. Len(s.negated) : Denied(FALSE)[k] # None
         /\ RightLengths(s).exact => Together(FALSE).exact
    <2> DEFINE f == Denied(FALSE)
               N == Len(s.negated)
               b == Together(FALSE)
    <2>1. N \in Nat /\ f = [k \in 1 .. N |-> f[k]] /\ \A k \in 1 .. N : f[k] \in GoodShapes
      BY <1>2, <1>3, <1>9
    <2>2. RightLengths(s) = FoldLeft(MeetShapes, b, f) /\ b \in GoodShapes
      BY <1>1, <1>12 DEF RightLengths
    <2> HIDE DEF f, N, b
    <2>3. b # None /\ (\A k \in 1 .. N : f[k] # None) /\ (RightLengths(s).exact => b.exact)
      BY <2>1, <2>2, MeetAllNeeds
    <2> QED BY <2>3 DEF f, N, b
  <1>14. /\ Every(FALSE) # None /\ (s.anyOf # <<>> => Either(FALSE) # None)
         /\ Together(FALSE).exact => Every(FALSE).exact
    <2> HIDE DEF Every, Either
    <2> QED BY <1>11, <1>13, MeetNeedsBoth
  <1>15. /\ LocalShape(s, FALSE) # None /\ \A k \in 1 .. Len(s.allOf) : Of(s.allOf, FALSE)[k] # None
         /\ Every(FALSE).exact => LocalShape(s, FALSE).exact
    <2> DEFINE f == Of(s.allOf, FALSE)
               N == Len(s.allOf)
    <2>1. N \in Nat /\ f = [k \in 1 .. N |-> f[k]] /\ \A k \in 1 .. N : f[k] \in GoodShapes
      BY <1>2, <1>3, <1>7
    <2>2. FoldLeft(MeetShapes, LocalShape(s, FALSE), f) # None
      BY <1>14
    <2>3. Every(FALSE) = FoldLeft(MeetShapes, LocalShape(s, FALSE), f)
      OBVIOUS
    <2> HIDE DEF f, N, Every
    <2>4. /\ LocalShape(s, FALSE) # None /\ \A k \in 1 .. N : f[k] # None
          /\ Every(FALSE).exact => LocalShape(s, FALSE).exact
      BY <1>10, <2>1, <2>2, <2>3, MeetAllNeeds
    <2> QED BY <2>4 DEF f, N
  <1>16. s.anyOf # <<>> => \A k \in 1 .. Len(s.anyOf) : Of(s.anyOf, FALSE)[k] # None
    <2> DEFINE f == Of(s.anyOf, FALSE)
               N == Len(s.anyOf)
    <2>1. N \in Nat /\ f = [k \in 1 .. N |-> f[k]] /\ \A k \in 1 .. N : f[k] \in GoodShapes
      BY <1>2, <1>3, <1>7
    <2>2. s.anyOf # <<>> => FoldLeft(JoinShapes, NothingShape, f) # None
      BY <1>14
    <2> HIDE DEF f, N
    <2>3. s.anyOf # <<>> => \A k \in 1 .. N : f[k] # None
      BY <1>6, <2>1, <2>2, JoinAllNeeds
    <2> QED BY <2>3 DEF f, N
  <1>17. LocalShape(s, TRUE) = LocalShape(s, FALSE)
    BY <1>4, <1>15
  <1>18. Of(s.allOf, TRUE) = Of(s.allOf, FALSE)
    BY <1>2, <1>8, <1>15
  <1>19. s.anyOf # <<>> => Of(s.anyOf, TRUE) = Of(s.anyOf, FALSE)
    BY <1>2, <1>8, <1>16
  <1>20. Denied(TRUE) = Denied(FALSE)
    <2>1. DOMAIN s.negated = 1 .. Len(s.negated)
      BY <1>2, <1>3
    <2>2. \A k \in 1 .. Len(s.negated) : Complement(LocalShape(s.negated[k], FALSE)) # None
      BY <1>13, <2>1
    <2>3. \A b : Complement(LocalShape(b, FALSE)) # None => LocalShape(b, FALSE) # None
      BY DEF Complement
    <2>4. \A k \in DOMAIN s.negated : LocalShape(s.negated[k], TRUE) = LocalShape(s.negated[k], FALSE)
      BY <1>4, <2>1, <2>2, <2>3
    <2> QED BY <2>4
  <1>21. Together(TRUE) = Together(FALSE)
    <2>1. Every(TRUE) = Every(FALSE)
      <3> HIDE DEF Of
      <3> QED BY <1>17, <1>18
    <2>2. s.anyOf # <<>> => Either(TRUE) = Either(FALSE)
      <3> HIDE DEF Of
      <3> QED BY <1>19
    <2> HIDE DEF Every, Either
    <2> QED BY <2>1, <2>2
  <1>22. LengthShape(s, TRUE) = LengthShape(s, FALSE)
    <2> HIDE DEF Together, Denied
    <2> QED BY <1>1, <1>20, <1>21
  <1>23. s.unique /\ "array" \in s.types => ~LocalShape(s, FALSE).exact
    <2>1. SUFFICES ASSUME s.unique, "array" \in s.types PROVE ~LocalShape(s, FALSE).exact
      OBVIOUS
    <2>2. LocalShape(s, FALSE) = LocalLengths(s)
      BY <1>15 DEF LocalShape
    <2>3. \A u : OnlyLengths(s, u) = FALSE
      BY <2>1 DEF OnlyLengths
    <2> DEFINE o == OthersThanArrays(s.types)
               i == Interval(LowOf(s), HighOf(s))
    <2>4. \/ LocalLengths(s) = Shape({}, o, OnlyLengths(s, UpperLength(s)))
          \/ LocalLengths(s) = Shape({i}, o, OnlyLengths(s, HighOf(s)))
      <3>1. LocalLengths(s) = IF Unmet(s) THEN Shape({}, o, OnlyLengths(s, UpperLength(s)))
                              ELSE Shape({i}, o, OnlyLengths(s, HighOf(s)))
        BY <2>1, LocalLengthsIs
      <3> HIDE DEF o, i
      <3> QED BY <3>1
    <2> HIDE DEF o, i
    <2>5. \A S, e : Shape(S, o, e).exact = e
      BY DEF Shape
    <2> QED BY <2>2, <2>3, <2>4, <2>5
  <1> HIDE DEF Every, Either, Together, Denied, Of
  <1> QED BY <1>13, <1>14, <1>15, <1>22, <1>23 DEF LeftLengths, RightLengths

(* A schema without items leaves any item at any index.                    *)
LEMMA AnyItemAt ==
    ASSUME FactsInv, ~HasItems(lhs), NEW k \in Nat
    PROVE  ItemAt(lhs, k) = TrueItem
  <1>1. lhs.prefix = <<>> /\ lhs.tail = None
    BY DEF HasItems
  <1>2. ~(k < Len(lhs.prefix))
    BY <1>1
  <1> QED BY <1>1, <1>2 DEF ItemAt, HasTail

(* Items made distinct are items, or there are too few of them.            *)
LEMMA DistinctItems ==
    ASSUME FactsInv, ~HasItems(lhs), NEW n \in Nat
    PROVE  \/ MadeDistinct(n, NoItems) = None
           \/ \E S \in SUBSET (0 .. n - 1) : MadeDistinct(n, NoItems) \in [S -> Items]
  <1> DEFINE B == 1 .. n
             D == SUBSET (1 .. n)
             C == {None} \cup UNION {[S -> Items] : S \in SUBSET (0 .. n - 1)}
             start == NoItems
             Add(g, k) ==
                 LET fresh == ListedValues(ItemAt(lhs, k)) \ {g[j] : j \in DOMAIN g} IN
                   IF k \in DOMAIN g THEN g
                   ELSE IF fresh = {} THEN None
                   ELSE Over(g, Given(k, CHOOSE x \in fresh : TRUE))
             Step(g, k) == IF g = None THEN None ELSE Add(g, k - 1)
             s == [k \in 1 .. n |-> k]
             IsIt(k) == k = [S \in D |-> IF S = {} THEN start
                                         ELSE Step(k[S \ {Max(S)}], s[Max(S)])]
             c == CHOOSE k : IsIt(k)
             H == [p \in C \X B |-> Step(p[1], p[2])]
  <1>1. s \in Seq(B) /\ Len(s) = n /\ DOMAIN s = 1 .. n /\ \A k \in 1 .. n : s[k] \in B
    <2>1. s \in [1 .. n -> B]
      OBVIOUS
    <2> QED BY <2>1
  <1>2. MadeDistinct(n, NoItems) = c[1 .. n]
    BY <1>1 DEF MadeDistinct, FoldLeft, MapThenFoldSet
  <1>3. start \in C
    <2>1. NoItems \in [{} -> Items] /\ {} \in SUBSET (0 .. n - 1)
      BY DEF NoItems
    <2> QED BY <2>1
  <1>4. ASSUME NEW g \in C, NEW k \in B
        PROVE  Step(g, k) \in C
    <2> SUFFICES ASSUME g # None PROVE Add(g, k - 1) \in C
      OBVIOUS
    <2>1. PICK S \in SUBSET (0 .. n - 1) : g \in [S -> Items]
      OBVIOUS
    <2>2. k - 1 \in Nat /\ k - 1 \in 0 .. n - 1
      OBVIOUS
    <2> DEFINE i == k - 1
               fresh == ListedValues(ItemAt(lhs, i)) \ {g[j] : j \in DOMAIN g}
    <2>3. fresh \in SUBSET Items
      <3>1. ListedValues(ItemAt(lhs, i)) = Items
        BY <2>2, AnyItemAt DEF ListedValues, TrueItem
      <3> QED BY <3>1
    <2>4. i \in 0 .. n - 1
      BY <2>2
    <2> HIDE DEF i, fresh
    <2>5. ASSUME fresh # {}, i \notin DOMAIN g
          PROVE  Over(g, Given(i, CHOOSE x \in fresh : TRUE)) \in C
      <3> DEFINE x == CHOOSE y \in fresh : TRUE
      <3>1. x \in Items
        BY <2>3, <2>5
      <3> HIDE DEF x
      <3>2. Over(g, Given(i, x)) \in [S \cup {i} -> Items]
        BY <2>1, <3>1 DEF Over, Given
      <3>3. S \cup {i} \in SUBSET (0 .. n - 1)
        BY <2>1, <2>4
      <3> QED BY <3>2, <3>3 DEF x
    <2>6. Add(g, i) = IF i \in DOMAIN g THEN g ELSE IF fresh = {} THEN None
                      ELSE Over(g, Given(i, CHOOSE x \in fresh : TRUE))
      BY DEF fresh
    <2>7. Add(g, i) \in C
      <3> HIDE DEF Add
      <3> QED BY <2>5, <2>6
    <2> HIDE DEF Add, C
    <2> QED BY <2>7 DEF i
  <1> HIDE DEF start, Step, C
  <1>5. H \in [C \X B -> C]
    BY <1>4
  <1>6. PICK f \in [D -> C] : FoldsOver(n, f, start, H, s, C)
    <2> HIDE DEF H, s, B
    <2> QED BY <1>1, <1>3, <1>5, FoldBy
  <1>7. IsIt(c)
    <2>1. IsIt(f)
      BY <1>1, <1>6 DEF FoldsOver
    <2> HIDE DEF IsIt
    <2> QED BY <2>1
  <1> HIDE DEF c, s
  <1> DEFINE K == {k \in 0 .. n : c[1 .. k] \in C}
  <1>8. 0 \in K
    <2>1. 1 .. 0 = {} /\ {} \in D /\ 0 \in 0 .. n
      OBVIOUS
    <2>2. c[{}] = start
      BY <1>7, <2>1
    <2> QED BY <1>3, <2>1, <2>2
  <1>9. ASSUME NEW k \in 0 .. n - 1, k \in K
        PROVE  k + 1 \in K
    <2>1. /\ 1 .. k + 1 \in D /\ 1 .. k + 1 # {} /\ Max(1 .. k + 1) = k + 1
          /\ (1 .. k + 1) \ {k + 1} = 1 .. k
          /\ k + 1 \in 1 .. n
      BY UpToHere
    <2>2. c[1 .. k + 1] = Step(c[1 .. k], s[k + 1])
      <3>1. ASSUME NEW U \in D, U # {}
            PROVE  c[U] = Step(c[U \ {Max(U)}], s[Max(U)])
        <4> HIDE DEF D
        <4> QED BY <1>7, <3>1
      <3>2. c[1 .. k + 1] = Step(c[(1 .. k + 1) \ {Max(1 .. k + 1)}], s[Max(1 .. k + 1)])
        <4> HIDE DEF D
        <4> QED BY <2>1, <3>1
      <3> QED BY <2>1, <3>2
    <2>3. k + 1 \in 0 .. n
      OBVIOUS
    <2> QED BY <1>1, <1>4, <1>9, <2>1, <2>2, <2>3
  <1> HIDE DEF K
  <1>10. \A k \in 0 .. n : k \in K
    BY <1>8, <1>9, HoldsUpTo
  <1>11. c[1 .. n] \in C
    <2>1. n \in 0 .. n
      OBVIOUS
    <2> QED BY <1>10, <2>1 DEF K
  <1> QED BY <1>2, <1>11 DEF C

(* An array of any length is built when its items are free.                *)
LEMMA ArraysAreBuilt ==
    ASSUME FactsInv, LengthsCanBeTold, ~HasContains(lhs), ~HasItems(lhs),
           query.horizon = None, NEW n \in 0 .. LengthBound
    PROVE  \E t \in [1 .. n -> Items] : ArrayOfLength(n) = Array(t)
  <1>1. lhs.contains = None /\ n \in Nat /\ LengthBound \in Nat
    BY BoundAssumption DEF HasContains
  <1>2. \A S \in SUBSET (0 .. n - 1) : \A g \in [S -> Items] : g # None
    <2>1. \A S \in SUBSET (0 .. n - 1) : S \in SUBSET (0 .. LengthBound - 1)
      BY <1>1
    <2> QED BY <2>1, NoneIsNoArrayAssumption
  <1>3. NoItems \in [{} -> Items] /\ {} \in SUBSET (0 .. n - 1) /\ NoItems # None
    <2>1. NoItems \in [{} -> Items] /\ {} \in SUBSET (0 .. n - 1)
      BY DEF NoItems
    <2> QED BY <1>2, <2>1
  <1>4. ArrayOfLength(n) =
          LET planned == DistinctIfNeeded(n, NoItems)
          IN  Populated(n, IF planned = None THEN NoItems ELSE planned)
    BY <1>1, <1>3 DEF ArrayOfLength
  <1>5. \E S \in SUBSET (0 .. n - 1) : \E h \in [S -> Items] : ArrayOfLength(n) = Populated(n, h)
    <2>1. CASE DistinctIfNeeded(n, NoItems) = None
      BY <1>3, <1>4, <2>1
    <2>2. CASE DistinctIfNeeded(n, NoItems) # None
      <3>1. DistinctIfNeeded(n, NoItems) \in {NoItems, MadeDistinct(n, NoItems)}
        BY DEF DistinctIfNeeded
      <3>2. \E S \in SUBSET (0 .. n - 1) : DistinctIfNeeded(n, NoItems) \in [S -> Items]
        BY <1>1, <1>3, <2>2, <3>1, DistinctItems
      <3> QED BY <1>4, <2>2, <3>2
    <2> QED BY <2>1, <2>2
  <1> PICK S \in SUBSET (0 .. n - 1) : \E h \in [S -> Items] : ArrayOfLength(n) = Populated(n, h)
    BY <1>5
  <1> PICK g \in [S -> Items] : ArrayOfLength(n) = Populated(n, g)
    OBVIOUS
  <1>6. g # None
    BY <1>2
  <1> DEFINE Item(k) == IF k - 1 \in DOMAIN g THEN g[k - 1] ELSE Built(ItemAt(lhs, k - 1))
  <1>7. ASSUME NEW k \in 1 .. n
        PROVE  Item(k) \in Items
    <2>1. k - 1 \in Nat
      BY <1>1
    <2>2. ItemAt(lhs, k - 1) = TrueItem
      BY <2>1, AnyItemAt
    <2>3. Answerable(TrueItem)
      BY DEF FactsInv, LengthsCanBeTold, Answerable
    <2>4. Built(TrueItem) \in Items
      BY <2>3, NullAssumption DEF Built, TrueItem, FalseItem
    <2> QED BY <2>2, <2>4
  <1>8. ~BeyondHorizon(n) /\ n # None
    BY <1>1, NoneAssumption DEF BeyondHorizon
  <1>9. \A k \in 1 .. n : Item(k) # None
    BY <1>7, NoneIsNoArrayAssumption
  <1>10. Populated(n, g) = Array([k \in 1 .. n |-> Item(k)])
    BY <1>6, <1>8, <1>9 DEF Populated
  <1>11. [k \in 1 .. n |-> Item(k)] \in [1 .. n -> Items]
    BY <1>7
  <1> HIDE DEF Item
  <1> QED BY <1>10, <1>11

(* The questions whose lengths are to be decided.                          *)
LengthsDecide ==
    LET l == facts.lhs.plain
        r == facts.rhs.plain
    IN  /\ l # None /\ r # None /\ l.exact /\ r.exact /\ ~l.others
        /\ ~HasContains(lhs) /\ ~HasItems(lhs)
        /\ query.horizon = None /\ query.work >= SolverUnits(r)

(* A length that is only on the left is the length of a counterexample.    *)
LEMMA LengthRefutes ==
    ASSUME FactsInv, LengthsCanBeTold, LengthsDecide, NEW n \in WitnessLengths(facts.rhs.plain)
    PROVE  ByLength(n).status = "false"
  <1> DEFINE l == facts.lhs.plain
             r == facts.rhs.plain
  <1>1. /\ l # None /\ r # None /\ l.exact /\ r.exact
        /\ ~HasContains(lhs) /\ ~HasItems(lhs) /\ query.horizon = None
    BY DEF LengthsDecide
  <1>2. Lengths = l /\ Bounds(l, Accepted(lhs), Arrays, SizeOf)
        /\ Bounds(r, Accepted(rhs), Arrays, SizeOf)
    BY <1>1, FactsOfSchemas, PlainAreTheLengths, LengthsBound
  <1>3. n \in 0 .. LengthBound /\ Counts(l.intervals, n) /\ ~Counts(r.intervals, n)
    BY <1>2 DEF WitnessLengths
  <1>4. PICK t \in [1 .. n -> Items] : ArrayOfLength(n) = Array(t)
    BY <1>1, <1>3, ArraysAreBuilt
  <1> DEFINE v == Array(t)
  <1>5. n \in Nat /\ n # None
    BY <1>3, BoundAssumption, NoneAssumption
  <1>6. /\ t \in Seq(Items) /\ Len(t) = n /\ v \in Arrays
        /\ v.items = t
    <2>1. t \in Seq(Items) /\ Len(t) = n
      BY <1>5
    <2> QED BY <2>1 DEF Arrays, Array
  <1>7. SizeOf[v] = n
    BY <1>6, ValueFacts
  <1>8. v # None
    BY <1>3, NoneIsNoArrayAssumption
  <1> HIDE DEF l, r, v
  <1>9. v \in Accepted(lhs)
    BY <1>1, <1>2, <1>3, <1>5, <1>6, <1>7 DEF Bounds, Admits
  <1>10. v \notin Accepted(rhs)
    BY <1>1, <1>2, <1>3, <1>5, <1>6, <1>7 DEF Bounds, Admits
  <1>11. Holds(lhs, v) /\ ~Holds(rhs, v)
    BY <1>6, <1>9, <1>10 DEF Accepted
  <1>12. ByLength(n) = Validated(v)
    BY <1>1, <1>4 DEF ByLength, BeyondHorizon, v
  <1> QED BY <1>8, <1>11, <1>12, Statuses DEF Validated

(* The rule about lengths proves or refutes such a question.               *)
LEMMA LengthsTold ==
    ASSUME FactsInv, LengthsCanBeTold, LengthsDecide, NEW outcome \in LengthResults
    PROVE  outcome.status \in {"true", "false"}
  <1> DEFINE l == facts.lhs.plain
             r == facts.rhs.plain
  <1>1. /\ l # None /\ r # None /\ l.exact /\ r.exact /\ ~l.others
        /\ lhs \in Schemas /\ rhs \in Schemas
        /\ l = RightLengths(lhs) /\ r = RightLengths(rhs)
        /\ facts.rhs.asksDistinct = RightUniqueness(rhs) /\ Lengths = LeftLengths(lhs)
        /\ query \in Queries
    BY FactsOfSchemas DEF LengthsDecide, FactsInv
  <1>2. Lengths = l /\ l \in Shapes /\ r \in Shapes
    BY <1>1, PlainAreTheLengths, LengthsBound DEF Bounds
  <1>3. ~(SolverUnits(r) > query.work)
    <2>1. SolverUnits(r) \in Nat
      <3>1. Len(l.intervals) \in Nat /\ Len(r.intervals) \in Nat
        BY <1>2 DEF Shapes
      <3>2. \A a \in Nat, b \in Nat : Larger(a + b, 1) \in Nat
        BY DEF Larger
      <3> HIDE DEF l, r
      <3>3. SolverUnits(r) = Larger(Len(l.intervals) + Len(r.intervals), 1)
        BY <1>2 DEF SolverUnits
      <3> QED BY <3>1, <3>2, <3>3
    <2>2. query.work \in Nat
      BY <1>1, QueriesAssumption
    <2> QED BY <2>1, <2>2 DEF LengthsDecide
  <1>4. RightIsDistinct
    <2>1. ~rhs.unique
      BY <1>1, PlainAreTheLengths DEF LengthsCanBeTold, rhs
    <2>2. RightUniqueness(rhs) # None => ~RightUniqueness(rhs).requires
      BY <2>1 DEF RightUniqueness, Uniqueness
    <2> QED BY <1>1, <2>2 DEF RightIsDistinct
  <1> HIDE DEF l, r
  <1>5. outcome \in IF ~ShapeWithin(l, r) THEN {ByLength(n) : n \in WitnessLengths(r)} ELSE {ProvedTrue}
    BY <1>1, <1>2, <1>3, <1>4 DEF LengthResults, l, r
  <1>6. \A n \in WitnessLengths(r) : ByLength(n).status = "false"
    BY LengthRefutes DEF r
  <1> QED BY <1>5, <1>6, Statuses

(* Such a question ends with the rule about types or that about lengths.   *)
DecidedInv ==
    /\ FactsInv
    /\ LengthsDecide =>
         /\ phase \in {"type", "length", "done"}
         /\ phase = "done" => result.status \in {"true", "false"}

(* LengthsAreDecided, for every question and arrays of every length the    *)
(* search reaches: arrays that differ in nothing but their lengths are     *)
(* proved included or given a counterexample (rules/arrays.py).  The       *)
(* hypothesis leaves out provers that cannot build an item of the schema   *)
(* true, and right sides that ask for distinct items of no array.          *)
THEOREM LengthsDecided ==
    ASSUME LengthsCanBeTold
    PROVE  Spec => []LengthsAreDecided
  <1>1. Init => DecidedInv
    BY DEF Init, DecidedInv, FactsInv
  <1>2. ASSUME DecidedInv, [Next]_vars
        PROVE  DecidedInv'
    <2>1. FactsInv /\ FactsInv'
      BY <1>2, FactsStep DEF DecidedInv
    <2>2. UNCHANGED <<query, facts>>
      BY <1>2 DEF Next, vars, ProveType, ProveLength, ProveUniqueness, ProveContains, ProveContainsExpanded,
             PlanItems, ProveItem, ItemsIncluded
    <2>3. LengthsDecide' <=> LengthsDecide
      BY <2>2 DEF LengthsDecide, lhs, rhs, SolverUnits, Lengths
    <2>4. SUFFICES ASSUME LengthsDecide
                   PROVE  /\ phase' \in {"type", "length", "done"}
                          /\ phase' = "done" => result'.status \in {"true", "false"}
      BY <2>1, <2>3 DEF DecidedInv
    <2>5. /\ phase \in {"type", "length", "done"}
          /\ phase = "done" => result.status \in {"true", "false"}
      BY <1>2, <2>4 DEF DecidedInv
    <2>6. CASE ProveLength
      <3>1. PICK outcome \in LengthResults : Conclude(outcome, "uniqueness")
        BY <2>6 DEF ProveLength
      <3>2. outcome.status \in {"true", "false"}
        BY <1>2, <2>1, <2>4, LengthsTold
      <3> QED BY <3>1, <3>2 DEF Conclude
    <2>7. CASE UNCHANGED vars
      BY <2>5, <2>7 DEF vars
    <2>9. CASE ProveType
      <3>1. PICK outcome \in TypeResults : Conclude(outcome, "length")
        BY <2>9 DEF ProveType
      <3>2. outcome.status \in {"true", "false", "unsupported"}
        BY <2>1, TypeResultsAre
      <3> QED BY <3>1, <3>2 DEF Conclude
    <2>8. CASE Next /\ ~ProveLength /\ ~ProveType
      BY <2>5, <2>8 DEF Next, ProveUniqueness, ProveContains, ProveContainsExpanded,
             PlanItems, ProveItem, ItemsIncluded
    <2> QED BY <1>2, <2>6, <2>7, <2>8, <2>9
  <1>3. DecidedInv => LengthsAreDecided
    BY DEF DecidedInv, LengthsAreDecided, LengthsDecide
  <1> QED BY <1>1, <1>2, <1>3, PTL DEF Spec
=============================================================================

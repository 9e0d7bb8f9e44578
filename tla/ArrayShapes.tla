---------------------------- MODULE ArrayShapes ----------------------------
(***************************************************************************)
(* What the compiler derives of an array schema: the types it accepts, the *)
(* lengths of its arrays, whether they have distinct items, the schema of  *)
(* each item, and which keyword fragments the schema falls in.             *)
(*                                                                         *)
(* Sources: compiler/domains/arrays.py and types.py, and                   *)
(* compiler/semantics.py, which turns the shapes into the facts the prover *)
(* reads.  The dialect is 2020-12: the items list and additionalItems of   *)
(* the drafts before it are its prefixItems and items under other names.   *)
(***************************************************************************)
EXTENDS CountIntervals

CONSTANTS
    Items,          \* the values an array may hold
    OtherTypes      \* types that are not array, of more values than can be listed

ASSUME TypesAssumption == "array" \notin OtherTypes

Types == {"array"} \cup OtherTypes

(***************************************************************************)
(* An item schema is the set of the items it accepts; the two Boolean      *)
(* schemas are those that accept all and none.  A schema is a record of    *)
(* keywords:                                                               *)
(*   types    of the keyword type (all, if it is absent),                  *)
(*   unknown  TRUE if there is a keyword of no vocabulary (ignored),       *)
(*   min, max, minContains, maxContains    numbers or None,                *)
(*   prefix   the item schemas of prefixItems,                             *)
(*   tail, contains    item schemas or None (items is tail),               *)
(*   unique   TRUE if uniqueItems is true,                                 *)
(*   allOf, anyOf, negated    schemas without these three (<<>>: absent).  *)
(***************************************************************************)
Keywords(branches) ==
    LET bounds == Nat \cup {None}
        itemSchemas == (SUBSET Items) \cup {None}
    IN  [types : SUBSET Types, unknown : BOOLEAN, min : bounds, max : bounds,
         prefix : Seq(SUBSET Items), tail : itemSchemas, contains : itemSchemas,
         minContains : bounds, maxContains : bounds, unique : BOOLEAN,
         allOf : branches, anyOf : branches, negated : branches]

Branches == Keywords({<<>>})
Schemas == Keywords(Seq(Branches))

ASSUME NoSchemaAssumption == \A i \in (SUBSET Items) \cup (SUBSET Types) : i # None

TrueItem == Items
FalseItem == {}
BooleanItem(i) == i \in {TrueItem, FalseItem}

(* Values of another type are not told apart.                              *)
Array(items) == [type |-> "array", items |-> items]
Other(type) == [type |-> type, items |-> <<>>]
IsArray(v) == v.type = "array"

-----------------------------------------------------------------------------
(* The meaning of the keywords (JSON Schema; validator/core.py).           *)
ItemSchemaAt(s, k) ==
    IF k <= Len(s.prefix) THEN s.prefix[k] ELSE IF s.tail = None THEN TrueItem ELSE s.tail

Matches(items, i) == Cardinality({k \in DOMAIN items : items[k] \in i})
LeastMatches(s) == IF s.minContains = None THEN 1 ELSE s.minContains
AllDistinct(items) == Cardinality(ToSet(items)) = Len(items)

HoldsLocally(s, v) ==
    /\ v.type \in s.types
    /\ IsArray(v) =>
         /\ s.min # None => Len(v.items) >= s.min
         /\ s.max # None => Len(v.items) <= s.max
         /\ \A k \in DOMAIN v.items : v.items[k] \in ItemSchemaAt(s, k)
         /\ s.contains # None =>
              /\ Matches(v.items, s.contains) >= LeastMatches(s)
              /\ s.maxContains # None => Matches(v.items, s.contains) <= s.maxContains
         /\ s.unique => AllDistinct(v.items)

Holds(s, v) ==
    /\ HoldsLocally(s, v)
    /\ \A k \in DOMAIN s.allOf : HoldsLocally(s.allOf[k], v)
    /\ s.anyOf # <<>> => \E k \in DOMAIN s.anyOf : HoldsLocally(s.anyOf[k], v)
    /\ \A k \in DOMAIN s.negated : ~HoldsLocally(s.negated[k], v)

-----------------------------------------------------------------------------
(* Types.  A keyword the compiler does not know leaves a schema without.   *)
HasLengths(s) == s.min # None \/ s.max # None
HasItems(s) == s.prefix # <<>> \/ s.tail # None
HasContains(s) == s.contains # None \/ s.minContains # None \/ s.maxContains # None

OthersThanArrays(types) == types \ {"array"} # {}

(* Nothing but types decides what a schema without branches accepts.       *)
OnlyTypes(s) ==
    ~HasLengths(s) /\ ~HasItems(s) /\ ~HasContains(s) /\ ~s.unique /\ ~s.unknown

AllBranches(s) == ToSet(s.allOf \o s.anyOf \o s.negated)

(* A branch that says more than types takes none away when it is negated.  *)
TypeShape(s) ==
    IF s.unknown \/ \E b \in AllBranches(s) : b.unknown THEN None
    ELSE {t \in s.types :
            /\ \A k \in DOMAIN s.allOf : t \in s.allOf[k].types
            /\ s.anyOf # <<>> => \E k \in DOMAIN s.anyOf : t \in s.anyOf[k].types
            /\ \A k \in DOMAIN s.negated :
                  OnlyTypes(s.negated[k]) => t \notin s.negated[k].types}

TypesComplete(s) == OnlyTypes(s) /\ \A b \in AllBranches(s) : OnlyTypes(b)

-----------------------------------------------------------------------------
(* Lengths.  Unknown keywords are passed over here, and the types that are *)
(* not array are one: the shape says if there are any.                     *)
ClosedAt(s) == IF s.tail = FalseItem THEN Len(s.prefix) ELSE None

UpperLength(s) == LowerBound(s.max, ClosedAt(s))

(* A contains that bounds the length alone: it cannot be met, or the array *)
(* is empty and need not meet it.                                          *)
ContainsIsALength(s, upper) ==
    upper # None /\ (upper < LeastMatches(s) \/ (LeastMatches(s) = 0 /\ upper = 0))

ConstrainsItems(s, upper) ==
    \/ \E k \in DOMAIN s.prefix : s.prefix[k] # TrueItem
    \/ s.contains # None /\ ~BooleanItem(s.contains) /\ ~ContainsIsALength(s, upper)
    \/ s.tail # None /\ ~BooleanItem(s.tail)

OnlyLengths(s, upper) ==
    /\ ~s.unique
    /\ s.contains # None => BooleanItem(s.contains) \/ ContainsIsALength(s, upper)
    /\ ~ConstrainsItems(s, upper)

LocalLengths(s) ==
    LET others == OthersThanArrays(s.types)
        low == IF s.min = None THEN 0 ELSE s.min
        upper == UpperLength(s)
        least == LeastMatches(s)
        unmet == s.contains # None
                 /\ IF s.contains = FalseItem THEN least > 0
                    ELSE upper # None /\ upper < least
        counted == s.contains \notin {None, FalseItem}
        high == IF s.contains = TrueItem THEN LowerBound(upper, s.maxContains) ELSE upper
    IN  IF "array" \notin s.types THEN Shape({}, others, TRUE)
        ELSE IF unmet THEN Shape({}, others, OnlyLengths(s, upper))
        ELSE Shape({Interval(IF counted THEN Larger(low, least) ELSE low, high)},
                   others, OnlyLengths(s, high))

LocalShape(s, allowItems) ==
    IF ~allowItems /\ ConstrainsItems(s, UpperLength(s)) THEN None ELSE LocalLengths(s)

(* array_shape_for_schema: None when some part has no shape.               *)
LengthShape(s, allowItems) ==
    LET Each(branches) == [k \in DOMAIN branches |-> LocalShape(branches[k], allowItems)]
        all == FoldLeft(MeetShapes, LocalShape(s, allowItems), Each(s.allOf))
        any == FoldLeft(JoinShapes, NothingShape, Each(s.anyOf))
        both == IF s.anyOf = <<>> THEN all ELSE MeetShapes(all, any)
    IN  FoldLeft(MeetShapes, both,
                 [k \in DOMAIN s.negated |-> Complement(LocalShape(s.negated[k], allowItems))])

(* The facts of the left side fall back on the type; those of the right    *)
(* side are for schemas that do not constrain their items.                 *)
LeftLengths(s) ==
    LET shape == LengthShape(s, TRUE) IN
      IF shape # None THEN shape
      ELSE IF TypeShape(s) # None /\ "array" \in TypeShape(s)
      THEN Shape({Interval(0, None)}, OthersThanArrays(TypeShape(s)), FALSE)
      ELSE None

RightLengths(s) == LengthShape(s, FALSE)

-----------------------------------------------------------------------------
(* Fragments, by the keywords of the schema.                               *)
Compound(s) == s.allOf # <<>> \/ s.anyOf # <<>> \/ s.negated # <<>>

ItemsFragment(s, withContains) ==
    ~Compound(s) /\ ~s.unknown /\ (withContains \/ ~HasContains(s))

LeftContainsFragment(s) ==
    /\ s.anyOf = <<>> /\ s.negated = <<>>
    /\ ~s.unknown /\ \A b \in AllBranches(s) : ~b.unknown
RightContainsFragment(s) ==
    ~Compound(s) /\ ~HasLengths(s) /\ ~HasItems(s) /\ ~s.unique /\ ~s.unknown

-----------------------------------------------------------------------------
(* Uniqueness: whether the arrays must be, and are bound to be, distinct.  *)
Uniqueness(s, requires, guarantees, complete) ==
    [array |-> "array" \in s.types, others |-> OthersThanArrays(s.types),
     requires |-> requires, guarantees |-> guarantees, complete |-> complete]

AtMostOne(s) == UpperLength(s) # None /\ UpperLength(s) <= 1

LeftUniqueness(s) ==
    IF Compound(s) \/ HasContains(s) \/ s.unknown THEN None
    ELSE Uniqueness(s, s.unique, "array" \notin s.types \/ s.unique \/ AtMostOne(s), TRUE)

(* The schema is nothing but uniqueItems, or requires it beside others.    *)
RightUniqueness(s) ==
    LET alone == ~Compound(s) /\ ~HasContains(s) /\ ~HasItems(s) /\ ~HasLengths(s) IN
      IF alone /\ ~s.unknown
      THEN Uniqueness(s, s.unique, "array" \notin s.types \/ s.unique, TRUE)
      ELSE IF s.unique THEN Uniqueness(s, TRUE, TRUE, alone)
      ELSE None

-----------------------------------------------------------------------------
(* Items and contains, as the prover reads them.  Indexes are from 0.      *)
HasTail(s) == s.tail # None
TailStart(s) == Len(s.prefix)
TailClosed(s) == s.tail = FalseItem
ItemAt(s, index) ==
    IF index < Len(s.prefix) THEN s.prefix[index + 1]
    ELSE IF HasTail(s) THEN s.tail ELSE TrueItem

LeastContains(s) == LeastMatches(s)
=============================================================================

------------------------ MODULE MCNumericConstraints ------------------------
(***************************************************************************)
(* Pairs of numeric schemas.  The unit is 12, so that halves, thirds and   *)
(* sixths of the numbers of the schemas are whole; schemas are compared on *)
(* the quarters up to 9, which lie between all their bounds and beyond     *)
(* them by more than a period of their multiples.                          *)
(***************************************************************************)
EXTENDS NumericConstraints

CONSTANTS absent, flag

MCNumbers == {3 * k : k \in -36 .. 36}

Schema(type, low, exLow, high, exHigh, multiple) ==
    [type |-> type, minimum |-> low, exclusiveMinimum |-> exLow, maximum |-> high,
     exclusiveMaximum |-> exHigh, multipleOf |-> multiple, allOf |-> <<>>, anyOf |-> <<>>]

Half == 6

(* Integers that must be multiples of 3/2 do not meet QueriesAssumption.    *)
Sensible(s) == s.type = "integer" => s.multipleOf # 18

Lows == {<<absent, absent>>, <<12, absent>>, <<12, flag>>, <<0, Half>>}
Highs == {<<absent, absent>>, <<24, absent>>, <<24, flag>>, <<absent, 12 + Half>>}

Simple(types, multiples) ==
    {s \in {Schema(t, l[1], l[2], h[1], h[2], m) :
               t \in types, l \in Lows, h \in Highs, m \in multiples} : Sensible(s)}

Ints(low, high) == Schema("integer", low, absent, high, absent, absent)
Nums(low, high) == Schema("number", low, absent, high, absent, absent)

AnyOf(s, branches) == [s EXCEPT !.anyOf = branches]
AllOf(s, branches) == [s EXCEPT !.allOf = branches]
Free == Schema("any", absent, absent, absent, absent, absent)

Compound ==
    {AnyOf(Free, <<Ints(absent, 12), Ints(l, h)>>) : l \in {12, 24, 36}, h \in {absent, 60}}
    \cup {AnyOf(Free, <<Ints(24, 60), Ints(absent, 0), Ints(0, 30)>>),
          AnyOf(Free, <<Ints(24, 48), Ints(0, absent)>>),
          AnyOf(Free, <<Nums(absent, 12), Nums(12, absent)>>),
          AnyOf(Nums(Half, 24), <<[Free EXCEPT !.multipleOf = 18], Ints(24, 24)>>),
          AllOf([Free EXCEPT !.multipleOf = 12], <<[Free EXCEPT !.multipleOf = 18]>>),
          AllOf(Nums(0, absent), <<Schema("number", absent, 0, 24, absent, absent), Free>>)}

(* Multiples are 1/2, 3/2 and 2.                                           *)
Left(types) == Simple(types, {absent, 18, 24})
Right(types) == Simple(types, {absent, Half, 24})

MCQueries ==
    {[kind |-> "subset", lhs |-> l, rhs |-> r] :
        l \in Left({"integer", "number"}) \cup Compound, r \in Right({"number"}) \cup Compound}
    \cup {[kind |-> "subset", lhs |-> l, rhs |-> r] :
        l \in Simple({"integer"}, {absent, 24}), r \in Simple({"integer", "any"}, {absent})}
    \cup {[kind |-> "disjoint", lhs |-> l, rhs |-> r] :
        l \in Simple({"integer"}, {absent, 24}),
        r \in Simple({"number"}, {absent, 18}) \cup Compound}
    \cup {[kind |-> "disjoint", lhs |-> l, rhs |-> r] :
        l \in Compound, r \in Compound \cup Simple({"any"}, {24})}
    \cup {[kind |-> "empty", lhs |-> l, rhs |-> Free] :
        l \in Left({"integer", "number"}) \cup Compound}
=============================================================================

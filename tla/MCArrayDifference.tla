------------------------- MODULE MCArrayDifference -------------------------
(***************************************************************************)
(* Pairs of array schemas over four items: two strings, a number and null. *)
(* Keywords bound lengths by at most 2 and matches by at most 2; arrays up *)
(* to length 3 tell the schemas apart, since every schema treats all items *)
(* from the third on alike.                                                *)
(***************************************************************************)
EXTENDS ArrayDifference

MCItems == {"a", "b", "one", "null"}
MCTypeOf == [i \in MCItems |-> IF i \in {"a", "b"} THEN "string"
                               ELSE IF i = "one" THEN "integer" ELSE "null"]

Strings == {"a", "b"}
JustA == {"a"}
NotNull == {"a", "b", "one"}
MCEnumerated == {JustA, {"one"}}

AnyArray == [types |-> {"array"}, unknown |-> FALSE, min |-> None, max |-> None, prefix |-> <<>>, tail |-> None,
        contains |-> None, minContains |-> None, maxContains |-> None, unique |-> FALSE,
        allOf |-> <<>>, anyOf |-> <<>>, negated |-> <<>>]

AnyType(s) == [s EXCEPT !.types = Types]
Typed(types) == [AnyArray EXCEPT !.types = types]
Negated(s, b) == [s EXCEPT !.negated = <<b>>]
Unknown(s) == [s EXCEPT !.unknown = TRUE]
Sized(s, low, high) == [s EXCEPT !.min = low, !.max = high]
Distinct(s) == [s EXCEPT !.unique = TRUE]
Of(prefix, tail) == [AnyArray EXCEPT !.prefix = prefix, !.tail = tail]
Having(s, i, low, high) ==
    [s EXCEPT !.contains = i, !.minContains = low, !.maxContains = high]

Sizes == {Sized(AnyArray, b[1], b[2]) : b \in {<<None, None>>, <<1, None>>, <<None, 1>>, <<2, 2>>}}

Compounds ==
    {[AnyArray EXCEPT !.anyOf = <<Sized(AnyArray, None, 0), Sized(AnyArray, 2, None)>>],
     [AnyArray EXCEPT !.anyOf = <<Sized(AnyArray, 2, 2), Sized(AnyArray, None, 1)>>],
     [AnyArray EXCEPT !.negated = <<Sized(AnyArray, 1, 1)>>],
     [AnyArray EXCEPT !.negated = <<Distinct(AnyArray)>>],
     [AnyArray EXCEPT !.negated = <<Having(AnyArray, JustA, 1, None)>>],
     [AnyArray EXCEPT !.allOf = <<Sized(AnyArray, 1, None), Distinct(AnyArray)>>],
     [AnyArray EXCEPT !.allOf = <<Having(AnyArray, TrueItem, 1, 2)>>],
     [AnyArray EXCEPT !.allOf = <<Having(AnyArray, Strings, 2, 1)>>]}

(* Types, told apart and not.                                              *)
TypedSchemas ==
    {Typed({"string"}), Typed({"array", "string"}), Typed({"string", "number"}), Typed({}),
     Negated(AnyType(AnyArray), Typed({"string"})), Negated(AnyType(AnyArray), Typed({"array", "string"})),
     Negated(AnyType(AnyArray), AnyArray), Negated(Typed({"array", "string"}), Sized(AnyArray, 1, None)),
     Sized(Typed({"array", "number"}), 1, None),
     [AnyType(AnyArray) EXCEPT !.allOf = <<Typed({"array", "string"}), Typed({"array", "number"})>>],
     [AnyType(AnyArray) EXCEPT !.anyOf = <<Typed({"string"}), Sized(AnyArray, None, 1)>>],
     Unknown(AnyArray), Negated(AnyArray, Unknown(AnyArray)),
     Unknown(Sized(AnyArray, 1, None)),
     Unknown(Negated(AnyType(AnyArray), Typed({"string"})))}

(* As left sides only: what is negated is more than types.                 *)
TypedLefts ==
    {Negated(AnyType(AnyArray), Sized(Typed({"array", "string"}), 1, None)),
     Negated(AnyType(AnyArray), Distinct(Typed({"string"})))}

Closed == {Of(<<TrueItem>>, FalseItem), Of(<<TrueItem, TrueItem>>, FalseItem),
           Sized(Of(<<Strings>>, FalseItem), 1, None)}

Itemed ==
    {Of(<<>>, i) : i \in {Strings, JustA, NotNull}}
    \cup {Of(<<Strings>>, {"one"}), Of(<<NotNull>>, Strings), Of(<<JustA, TrueItem>>, None),
          Of(<<Strings, {"one"}>>, FalseItem)}
    \cup {Sized(Of(<<>>, NotNull), None, 1), Sized(Of(<<JustA>>, NotNull), 1, None),
          Sized(Of(<<>>, Strings), 1, 2),
          Sized(Of(<<JustA, {"one"}>>, FalseItem), 2, None)}

Containing ==
    {Having(AnyArray, i, c[1], c[2]) :
        i \in {Strings, JustA, TrueItem, FalseItem},
        c \in {<<None, None>>, <<0, 1>>, <<2, None>>, <<1, 1>>}}

Plain == Sizes \cup {AnyType(AnyArray), AnyType(Sized(AnyArray, 1, None)), Distinct(AnyArray)}
         \cup Compounds \cup Closed

(* Left sides that mix the keywords; right sides where items come alone.   *)
Mixed ==
    {Distinct(Of(<<>>, Strings)), Distinct(Sized(AnyArray, 2, None)), Distinct(Sized(AnyArray, None, 1)),
     Distinct(Sized(Of(<<JustA>>, NotNull), 2, None)),
     Having(Of(<<>>, NotNull), JustA, None, None), Having(Of(<<Strings>>, {"one"}), JustA, None, 1),
     Having(Sized(Of(<<>>, Strings), 2, None), Strings, None, None),
     Having(Sized(AnyArray, 2, None), JustA, None, 1), Having(Sized(AnyArray, 2, 2), {"one"}, None, None),
     Having(Distinct(Sized(AnyArray, 1, None)), Strings, 1, 1)}

Query(l, r, hard, draining, certified, horizon, work, expensive) ==
    [lhs |-> l, rhs |-> r, hard |-> hard, draining |-> draining, certified |-> certified,
     horizon |-> horizon, work |-> work, expensive |-> expensive]

Free(l, r) == Query(l, r, {}, {}, {}, None, 9, TRUE)

Lefts == Plain \cup Itemed \cup Containing \cup Mixed
Rights == Plain \cup Itemed \cup Containing

(* With a little work, a horizon, and item schemas without answers.        *)
Hampered(l, r) ==
    {Query(l, r, {}, {}, {}, 1, 9, FALSE), Query(l, r, {}, {}, {}, None, 1, TRUE),
     Query(l, r, {Strings}, {}, {}, None, 9, TRUE), Query(l, r, {}, {JustA}, {}, None, 9, TRUE),
     Query(l, r, {}, {}, {Strings}, None, 9, TRUE)}

(* A certificate says the item is reachable when the lengths allow it.     *)
Filled(l) == ~l.unique /\ ~HasContains(l)

MCQueries ==
    {Free(l, r) : l \in Lefts, r \in Rights}
    \cup {q \in {Free(l, r) : l \in TypedSchemas \cup TypedLefts, r \in Rights \cup TypedSchemas}
                \cup {Free(l, r) : l \in Lefts, r \in TypedSchemas} : TypesToldIn(q)}
    \cup UNION {Hampered(l, r) : l \in {s \in Lefts : Filled(s)}, r \in Rights}
    \cup UNION {{q \in Hampered(l, r) : q.horizon = None /\ q.certified = {}} :
                  l \in Mixed \cup Containing, r \in Rights}

(* The theorems about inclusions and lengths ask this of the questions.    *)
ASSUME RightsAssumption == ItemsStandAlone
ASSUME ToldAssumption == LengthsCanBeTold
ASSUME TypesToldAssumption == TypesTold
=============================================================================

------------------------- MODULE MCObjectDifference -------------------------
(***************************************************************************)
(* Pairs of object schemas over two mentioned names and three fresh ones,  *)
(* and over three values: an integer, a string and null.                   *)
(***************************************************************************)
EXTENDS ObjectDifference

MCFresh == {"x", "y", "z"}
MCNames == {"a", "b"} \cup MCFresh
MCValues == {"int", "str", "null"}

Number == {"int"}
Text == {"str"}
NotNull == {"int", "str"}
OnlyNull == {"null"}

(* Languages.                                                              *)
AB == {"a", "b"}
AX == {"a", "x", "y"}
BX == {"b", "x"}

NoProps == [n \in {} |-> TrueValue]
Open == [types |-> {"object"}, min |-> None, max |-> None, required |-> {}, props |-> NoProps,
         patterns |-> [p \in {} |-> TrueValue], additional |-> None, names |-> None,
         needs |-> [n \in {} |-> {}], depends |-> [n \in {} |-> 0],
         allOf |-> <<>>, anyOf |-> <<>>, oneOf |-> <<>>, negated |-> <<>>]

AnyType(s) == [s EXCEPT !.types = {"object", "other"}]
Sized(s, low, high) == [s EXCEPT !.min = low, !.max = high]
Requiring(s, names) == [s EXCEPT !.required = names]
Having(props) == [Open EXCEPT !.props = props]
Closing(s) == [s EXCEPT !.additional = FalseValue]
Matching(s, patterns) == [s EXCEPT !.patterns = patterns]
Named(s, language) == [s EXCEPT !.names = language]
A(i) == [n \in {"a"} |-> i]
AandB(i, j) == [n \in AB |-> IF n = "a" THEN i ELSE j]
Lang(p, i) == [q \in {p} |-> i]

Sizes == {Open, AnyType(Open), Sized(Open, 1, None), Sized(Open, 2, None), Sized(Open, None, 1),
          Sized(Open, 1, 2), Sized(Open, 3, None),
          [Open EXCEPT !.anyOf = <<Sized(Open, None, 0), Sized(Open, 2, None)>>],
          [Open EXCEPT !.negated = <<Sized(Open, 1, 1)>>],
          [Open EXCEPT !.negated = <<Requiring(Open, {"a"})>>]}

Presences ==
    {Requiring(Open, {"a"}), Requiring(Open, AB), Closing(Having(A(TrueValue))),
     [Open EXCEPT !.needs = A({"b"})], [Open EXCEPT !.depends = A(Requiring(Open, {"b"}))],
     [Sized(Open, None, 2) EXCEPT !.needs = A({"b"})],
     [Open EXCEPT !.oneOf = <<Requiring(Open, {"a"}), Requiring(Open, {"b"})>>],
     [Open EXCEPT !.allOf = <<Requiring(Open, {"a"}), Sized(Open, None, 1)>>],
     Sized(Closing(Having(AandB(TrueValue, TrueValue))), 1, 1)}

Valued ==
    {Having(A(Number)), Having(A(FalseValue)), Requiring(Having(A(NotNull)), {"a"}),
     Having(AandB(Number, Text)), Requiring(Having(AandB(NotNull, Text)), AB),
     Closing(Having(AandB(Number, Text))), Requiring(Closing(Having(AandB(NotNull, Text))), {"a"}),
     [Having(A(NotNull)) EXCEPT !.allOf = <<Having(A(Number))>>],
     [Open EXCEPT !.depends = A(Having(AandB(TrueValue, Number)))],
     [Having(A(Number)) EXCEPT !.needs = A({"b"})]}

Keyed ==
    {Matching(Open, Lang(AX, Number)), Matching(Open, Lang(AX, TrueValue)), Closing(Matching(Open, Lang(AX, NotNull))),
     Matching(Having(A(Text)), Lang(AX, NotNull)), [Having(A(Text)) EXCEPT !.additional = Number],
     Requiring([Open EXCEPT !.additional = NotNull], {"x"}),
     Named(Open, AX), Named(Matching(Open, Lang(BX, Text)), AX), Named(Requiring(Open, {"a"}), AX),
     Closing(Matching(Having(A(Number)), Lang(BX, Text)))}

Query(l, r, hard, draining, certified, horizon, work, endeavor) ==
    [lhs |-> l, rhs |-> r, hard |-> hard, draining |-> draining, certified |-> certified,
     horizon |-> horizon, work |-> work, endeavor |-> endeavor]

Free(l, r) == Query(l, r, {}, {}, {}, 9, None, FALSE)

Lefts == Sizes \cup Presences \cup Valued \cup Keyed
         \cup {Requiring(Sized(Open, None, 2), {"b"}), Sized(Requiring(Having(AandB(Number, Number)), {"b"}), None, 1),
               Sized(Matching(Requiring(Open, {"a"}), Lang(AX, TrueValue)), 1, 2),
               Closing(Requiring(Having(AandB(Number, TrueValue)), {"a"})),
               Requiring(Having(A(Number)), AB),
               [Closing(Having(A(NotNull))) EXCEPT !.allOf = <<Having(A(Number))>>]}
Rights == Sizes \cup Presences \cup Valued \cup Keyed
         \cup {Sized(Matching(Open, Lang(AX, TrueValue)), 2, None), Sized(Having(A(Number)), 2, None),
               Sized(Named(Open, AX), 1, 2)}

(* Questions that are answered wrongly, and left to the run ObjectsCounted  *)
(* or to the README: a lower bound on the number of properties that the    *)
(* key, value and closed rules do not look at; values that the presence    *)
(* rule does not look at; the value of a dependent schema when its trigger *)
(* can never be there.                                                     *)
CountForgotten(l, r) ==
    /\ r.min # None /\ ~(Presence(l) /\ Presence(r))
    /\ Larger(Cardinality(l.required), LeastProperties(l)) < r.min
ValuesForgotten(l, r) ==
    Presence(r) /\ ~KeyValues(r) /\ PresenceIgnoresValues(r) /\ CountUpper(CountShape(l)) # None
TriggerForgotten(l, r) ==
    \E trigger \in DOMAIN r.depends : IsFalse(KeyTerm(l, trigger))

Forgotten(l, r) == CountForgotten(l, r) \/ ValuesForgotten(l, r) \/ TriggerForgotten(l, r)

Pairs == {p \in Lefts \X Rights : ~Forgotten(p[1], p[2])}

(* With few names or a little work.  A left side with more properties than *)
(* names are looked at is left out: that the right requires a name is then *)
(* forgotten.                                                              *)
Small(l, r) ==
    IF LeastProperties(l) > 2 THEN {}
    ELSE {Query(l, r, {}, {}, {}, 2, 2, TRUE), Query(l, r, {}, {}, {}, 9, 3, TRUE)}

(* With value schemas that have no answer.  Bounds on the number of        *)
(* properties are left out: no rule but the first two look at the right's  *)
(* when values cannot be built, nor at the left's when they are refuted.   *)
Partial(l, r) ==
    IF PresenceBoundsCount(r) \/ l.max # None THEN {}
    ELSE {Query(l, r, {Text}, {}, {}, 9, None, FALSE), Query(l, r, {}, {Number}, {}, 9, 9, TRUE),
          Query(l, r, {}, {}, {Number}, 9, None, FALSE)}

MCQueries == UNION {{Free(p[1], p[2])} \cup Small(p[1], p[2]) \cup Partial(p[1], p[2]) : p \in Pairs}

(* What the run ObjectsCounted is about.                                   *)
MCCounted ==
    {Free(l, r) : l \in {Named(s, AX) : s \in {Open, Requiring(Open, {"a"}), Having(A(Number))}},
                  r \in {Named(s, AX) : s \in {Open, Sized(Open, 2, None), Sized(Open, None, 1)}}}
=============================================================================

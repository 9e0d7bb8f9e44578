---------------------- MODULE MCUnevaluatedDifference ----------------------
(***************************************************************************)
(* Objects over a name k that tells branches apart, a name x, and a name   *)
(* that no schema mentions; arrays of up to three items.  Of the three     *)
(* values, two are constants and one stands for all numbers.               *)
(***************************************************************************)
EXTENDS UnevaluatedDifference

MCNames == {"k", "x", "z"}
MCFresh == {"z"}
MCValues == {"p", "q", "num"}
MCMany == {"num"}

P == {"p"}
Q == {"q"}
PQ == {"p", "q"}
Number == {"num"}
NotQ == {"p", "num"}

K(i) == [n \in {"k"} |-> i]
X(i) == [n \in {"x"} |-> i]
KX(i, j) == [n \in {"k", "x"} |-> IF n = "k" THEN i ELSE j]
NoProps == [n \in {} |-> TrueValue]
Lang(p, i) == [q \in {p} |-> i]

-----------------------------------------------------------------------------
(* Left sides.                                                             *)
OpenObject ==
    [types |-> {"object"}, min |-> None, max |-> None, required |-> {}, props |-> NoProps,
     patterns |-> [p \in {} |-> TrueValue], additional |-> None, names |-> None,
     needs |-> [n \in {} |-> {}], depends |-> [n \in {} |-> 0],
     allOf |-> <<>>, anyOf |-> <<>>, oneOf |-> <<>>, negated |-> <<>>]

ClosedObject(props, required) ==
    [OpenObject EXCEPT !.props = props, !.required = required, !.additional = FalseValue]

AnyArray ==
    [types |-> {"array"}, unknown |-> FALSE, min |-> None, max |-> None, prefix |-> <<>>, tail |-> None,
     contains |-> None, minContains |-> None, maxContains |-> None, unique |-> FALSE,
     allOf |-> <<>>, anyOf |-> <<>>, negated |-> <<>>]

Tuple(prefix, low) == [AnyArray EXCEPT !.prefix = prefix, !.tail = FalseValue, !.min = low]
ListOf(i, high) == [AnyArray EXCEPT !.tail = i, !.max = high]

LeftObjects ==
    {OpenObject, [OpenObject EXCEPT !.types = {"object", "other"}],
     [OpenObject EXCEPT !.props = K(P)], [OpenObject EXCEPT !.names = {"k", "x"}],
     [OpenObject EXCEPT !.additional = Number, !.required = {"x"}],
     [OpenObject EXCEPT !.patterns = Lang({"k", "z"}, PQ), !.additional = FalseValue],
     [OpenObject EXCEPT !.types = {"other"}], [ClosedObject(K(P), {"x"}) EXCEPT !.min = 1],
     ClosedObject(NoProps, {}), ClosedObject(K(PQ), {}), ClosedObject(K(P), {"k"}),
     ClosedObject(KX(P, Number), {"k"}), ClosedObject(KX(PQ, Number), {"k"}),
     ClosedObject(KX(PQ, Number), {"k", "x"}), ClosedObject(KX(P, TrueValue), {"k"}),
     ClosedObject(KX(PQ, TrueValue), {}), ClosedObject(KX(Number, PQ), {"x"}),
     [ClosedObject(KX(P, Number), {"k"}) EXCEPT !.min = 2]}

LeftArrays ==
    {AnyArray, [AnyArray EXCEPT !.types = {"array", "other"}], [AnyArray EXCEPT !.max = 1],
     ListOf(Number, None), ListOf(Number, 2), ListOf(PQ, 1), [AnyArray EXCEPT !.min = 1, !.max = 2],
     Tuple(<<>>, None), Tuple(<<P>>, 1), Tuple(<<PQ, Number>>, 1), Tuple(<<PQ, Number>>, 2),
     Tuple(<<P, Number>>, None), Tuple(<<P, TrueValue>>, 1), Tuple(<<Number, PQ>>, 2),
     [ListOf(TrueValue, 2) EXCEPT !.contains = P], [ListOf(NotQ, 2) EXCEPT !.min = 1]}

-----------------------------------------------------------------------------
(* Right sides.                                                            *)
Blank ==
    [dialect |-> "2020-12", types |-> AllTypes, required |-> {}, props |-> NoProps,
     patterns |-> [p \in {} |-> TrueValue], additional |-> None, depends |-> {},
     min |-> None, max |-> None, prefix |-> <<>>, tail |-> None, extra |-> None,
     contains |-> None, ref |-> "none", target |-> <<>>, allOf |-> <<>>, anyOf |-> <<>>,
     oneOf |-> <<>>, cond |-> <<>>, then |-> <<>>, else |-> <<>>, negated |-> <<>>,
     proof |-> "answered"]

False == [Blank EXCEPT !.types = {}]
Props(props) == [Blank EXCEPT !.props = props]
Prefix(prefix) == [Blank EXCEPT !.prefix = prefix]
Requires(n, names) == [n EXCEPT !.required = names]
To(n) == [Blank EXCEPT !.ref = "target", !.target = <<n>>]
If(cond, then, else) == [Blank EXCEPT !.cond = <<cond>>, !.then = then, !.else = else]
Hard(n) == [n EXCEPT !.proof = "unsupported"]
Draining(n) == [n EXCEPT !.proof = "exhausted"]

LocalObjects ==
    {Blank, Props(K(P)), Props(KX(PQ, Number)), Props(KX(FalseValue, TrueValue)),
     [Blank EXCEPT !.patterns = Lang({"k", "z"}, TrueValue)],
     [Props(X(NotQ)) EXCEPT !.patterns = Lang({"k", "x"}, TrueValue)],
     [Props(K(PQ)) EXCEPT !.additional = FalseValue], [Props(K(PQ)) EXCEPT !.additional = Number],
     [Props(K(PQ)) EXCEPT !.depends = {"k"}], [Props(KX(PQ, Number)) EXCEPT !.types = {"object"}],
     Requires(Props(K(PQ)), {"k"})}

LocalArrays ==
    {Blank, Prefix(<<P>>), Prefix(<<PQ, Number>>), Prefix(<<FalseValue>>),
     [Blank EXCEPT !.tail = Number], [Prefix(<<P>>) EXCEPT !.tail = TrueValue],
     [Prefix(<<PQ>>) EXCEPT !.contains = Number], [Blank EXCEPT !.contains = P],
     [Blank EXCEPT !.dialect = "2019-09", !.contains = P],
     [Prefix(<<PQ>>) EXCEPT !.dialect = "2019-09"],
     [Prefix(<<PQ>>) EXCEPT !.dialect = "2019-09", !.extra = Number],
     [Blank EXCEPT !.dialect = "2019-09", !.extra = Number],
     [Blank EXCEPT !.dialect = "2019-09", !.tail = TrueValue]}

(* Children: with and without effects, for all left values or for some.    *)
ObjectBranches == {Props(K(P)), Props(KX(PQ, Number)), Requires(Blank, {"k"}),
                   Requires(Props(KX(P, Number)), {"k"})}
ArrayBranches == {Prefix(<<P>>), Prefix(<<PQ, Number>>), [Blank EXCEPT !.min = 1]}

(* Pairs of branches that the first place tells apart.                     *)
ObjectPairs ==
    {<<Requires(Props(KX(P, Number)), {"k"}), Requires(Props(KX(Q, Number)), {"k"})>>,
     <<Requires(Props(KX(P, Number)), {"k"}), Requires(Props(K(Q)), {"k"})>>,
     <<Requires(Props(KX(P, PQ)), {"k"}), Requires(Props(KX(Q, TrueValue)), {"x"})>>}
ArrayPairs == {<<Prefix(<<P, Number>>), Prefix(<<Q, Number>>)>>, <<Prefix(<<P, Number>>), Prefix(<<Q>>)>>}

(* One keyword of each kind over one or two children.                      *)
Over(a, b) ==
    {To(a), [Blank EXCEPT !.allOf = <<a, b>>], [Blank EXCEPT !.anyOf = <<a, b>>],
     [Blank EXCEPT !.oneOf = <<a, b>>], [Blank EXCEPT !.anyOf = <<a>>, !.oneOf = <<b>>],
     If(a, <<b>>, <<>>), If(a, <<>>, <<b>>), [Blank EXCEPT !.negated = <<a>>],
     [Blank EXCEPT !.anyOf = <<a, False>>], [Blank EXCEPT !.allOf = <<To(a)>>],
     [Blank EXCEPT !.oneOf = <<a, [Blank EXCEPT !.negated = <<a>>]>>],
     [Blank EXCEPT !.allOf = <<[Blank EXCEPT !.anyOf = <<a, b>>]>>]}

Asking(branches) ==
    UNION {Over(a, b) : a \in branches, b \in branches}
    \cup UNION {Over(Hard(a), a) \cup Over(Draining(a), a) : a \in branches}

(* The condition is about the first place, and then is about no more of    *)
(* its values.                                                             *)
Selecting(pairs) ==
    UNION {{[Blank EXCEPT !.anyOf = p], [Blank EXCEPT !.oneOf = p]} : p \in pairs}

RightObjects ==
    LocalObjects \cup Asking(ObjectBranches) \cup Selecting(ObjectPairs)
    \cup UNION {{If(Requires(Props(K(P)), {"k"}), <<p[1]>>, <<p[2]>>),
                 If(Requires(Props(K(P)), {"k"}), <<p[1]>>, <<>>),
                 If(Props(KX(P, Number)), <<p[1]>>, <<p[2]>>)} : p \in ObjectPairs}
    \cup {[Props(X(TrueValue)) EXCEPT !.anyOf = <<Props(K(P)), Props(K(Q))>>],
          [Blank EXCEPT !.ref = "unresolved"]}

RightArrays ==
    LocalArrays \cup Asking(ArrayBranches) \cup Selecting(ArrayPairs)
    \cup UNION {{If(Prefix(<<P>>), <<p[1]>>, <<p[2]>>), If(Prefix(<<P>>), <<p[1]>>, <<>>)}
                  : p \in ArrayPairs}

-----------------------------------------------------------------------------
(* Questions the applicator rules answer are not asked here: those come    *)
(* before, and refute a right side whose branches do not all hold.         *)
Applicators(n) ==
    [n EXCEPT !.types = AllTypes, !.required = {}, !.props = NoProps,
              !.patterns = [p \in {} |-> TrueValue], !.additional = None, !.min = None,
              !.max = None, !.prefix = <<>>, !.tail = None, !.extra = None, !.contains = None]

LeftToThisRule(domain, l, r) == \A v \in ValuesOf(domain, l) : NodeHolds(Applicators(r), v)

(* Nothing asks whether an array has an item that contains is about: such  *)
(* questions are answered wrongly.                                         *)
ContainsForgotten(domain, l, r) ==
    /\ domain = "array" /\ r.contains # None
    /\ \E v \in ValuesOf(domain, l) :
         v.kind = "array" /\ \A k \in DOMAIN v.at : v.at[k] \notin r.contains

(* Nothing asks whether the values that then allows satisfy the condition. *)
ConditionForgotten(r) ==
    LET Beyond(then, cond) ==
            \/ \E n \in DOMAIN then.props \cap DOMAIN cond.props : ~(then.props[n] \subseteq cond.props[n])
            \/ \E k \in DOMAIN then.prefix \cap DOMAIN cond.prefix : ~(then.prefix[k] \subseteq cond.prefix[k])
    IN  r.cond # <<>> /\ r.then # <<>> /\ Beyond(r.then[1], r.cond[1])

(* A place that must be absent is taken for one that is not evaluated.      *)
ForbiddenPlaces(r, unevaluated) ==
    unevaluated # FalseValue /\ \E s \in Frontier(r) : s.places # {} /\ s.term = FalseValue

(* Without a list of items additionalItems says nothing, but is taken to   *)
(* evaluate every place (compiler/evaluation.py:179).                      *)
ExtraWithoutList(r) == r.extra # None /\ r.prefix = <<>>

Query(domain, l, r, unevaluated, hard, draining, horizon, work, endeavor) ==
    [domain |-> domain, lhs |-> l, rhs |-> r, unevaluated |-> unevaluated, hard |-> hard,
     draining |-> draining, horizon |-> horizon, work |-> work, endeavor |-> endeavor]

Questions(domain, l, r) ==
    {Query(domain, l, r, i, {}, {}, 9, None, TRUE) : i \in {FalseValue, Number}}
    \cup {Query(domain, l, r, FalseValue, {}, {}, 1, 0, TRUE),
          Query(domain, l, r, PQ, {PQ}, {}, 9, None, FALSE),
          Query(domain, l, r, FalseValue, {}, {Number}, 9, 9, TRUE)}

Pairs(domain, lefts, rights) ==
    {p \in lefts \X rights :
        /\ LeftToThisRule(domain, p[1], p[2])
        /\ ~ContainsForgotten(domain, p[1], p[2])
        /\ ~ConditionForgotten(p[2])
        /\ ~ExtraWithoutList(p[2])}

AskedOf(domain, lefts, rights) ==
    UNION {{q \in Questions(domain, p[1], p[2]) : ~ForbiddenPlaces(q.rhs, q.unevaluated)}
             : p \in Pairs(domain, lefts, rights)}

MCQueries ==
    AskedOf("object", LeftObjects, RightObjects) \cup AskedOf("array", LeftArrays, RightArrays)
=============================================================================

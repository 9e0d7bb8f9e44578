--------------------------- MODULE MCDisjointness ---------------------------
(***************************************************************************)
(* Schemas for Disjointness.  Values: null, a number, a string, arrays of  *)
(* up to two of the latter and objects with one property.                  *)
(***************************************************************************)
EXTENDS Disjointness

Scalars == {"null", "number", "string"}
ArrayValues == {"[]", "[n]", "[s]", "[sn]", "[ss]"}
MCValue == Scalars \cup ArrayValues \cup {"{p:n}", "{p:s}", "{q:n}"}

MCTypeOf == [v \in MCValue |->
    IF v \in Scalars THEN v ELSE IF v \in ArrayValues THEN "array" ELSE "object"]

MCItemsOf ==
    ("[]" :> <<>>) @@ ("[n]" :> <<"number">>) @@ ("[s]" :> <<"string">>)
    @@ ("[sn]" :> <<"string", "number">>) @@ ("[ss]" :> <<"string", "string">>)

MCPropertiesOf ==
    ("{p:n}" :> ("p" :> "number")) @@ ("{p:s}" :> ("p" :> "string")) @@ ("{q:n}" :> ("q" :> "number"))

NodeTerm(r) == [kind |-> "node", ref |-> r, children |-> <<>>]
AllOf(s, t) == [kind |-> "all_of", ref |-> NoRef, children |-> <<s, t>>]
Absent == [kind |-> "none", ref |-> NoRef, children |-> <<>>]

Of(types) == [types |-> types, listed |-> FALSE, finite |-> {}, excluded |-> {}, target |-> Absent,
              branches |-> <<>>, lengths |-> {}, prefix |-> <<>>, tail |-> Absent,
              required |-> {}, values |-> [x \in {} |-> Absent], closed |-> FALSE]

AnyType == {"null", "number", "string", "array", "object"}

Num == NodeTerm("Num")              \* {"type": "number"}
Str == NodeTerm("Str")              \* {"type": "string"}
Enum == NodeTerm("Enum")            \* {"enum": [null, a string]}
NotEnum == NodeTerm("NotEnum")      \* {"not": Enum}
RefNum == NodeTerm("RefNum")        \* {"$ref": "#/$defs/Num"}
NumOrStr == NodeTerm("NumOrStr")    \* {"anyOf": [Num, Str]}
Strings == NodeTerm("Strings")      \* {"type": "array", "items": Str}
Numbers == NodeTerm("Numbers")      \* the same of Num, with minItems 1
Pair == NodeTerm("Pair")            \* prefixItems [Str, Num], minItems 1
StrPair == NodeTerm("StrPair")      \* items Str, minItems 2
HasNum == NodeTerm("HasNum")        \* an object with a required number p
OnlyStr == NodeTerm("OnlyStr")      \* an object with an optional string p only
OnlyQ == NodeTerm("OnlyQ")          \* an object with a required q only
Loop == NodeTerm("Loop")            \* {"type": "array", "items": Loop, "minItems": 1}
Loop2 == NodeTerm("Loop2")          \* the same

Arrays(lo, prefix, tail) ==
    [Of({"array"}) EXCEPT !.lengths = lo .. 2, !.prefix = prefix, !.tail = tail]

Objects(required, values, closed) ==
    [Of({"object"}) EXCEPT !.required = required, !.values = values, !.closed = closed]

MCShape ==
    (Num :> Of({"number"})) @@ (Str :> Of({"string"}))
    @@ (Enum :> [Of({"null", "string"}) EXCEPT !.listed = TRUE, !.finite = {"null", "string"}])
    @@ (NotEnum :> [Of(AnyType) EXCEPT !.excluded = {"null", "string"}])
    @@ (RefNum :> [Of(AnyType) EXCEPT !.target = Num])
    @@ (NumOrStr :> [Of(AnyType) EXCEPT !.branches = <<Num, Str>>])
    @@ (Strings :> Arrays(0, <<>>, Str)) @@ (Numbers :> Arrays(1, <<>>, Num))
    @@ (Pair :> Arrays(1, <<Str, Num>>, TrueTerm))
    @@ (StrPair :> Arrays(2, <<>>, Str))
    @@ (HasNum :> Objects({"p"}, "p" :> Num, FALSE))
    @@ (OnlyStr :> Objects({}, "p" :> Str, TRUE))
    @@ (OnlyQ :> Objects({"q"}, "q" :> Num, TRUE))
    @@ (Loop :> Arrays(1, <<>>, Loop)) @@ (Loop2 :> Arrays(1, <<>>, Loop2))

NodeAccepts ==
    (Num :> {"number"}) @@ (Str :> {"string"}) @@ (Enum :> {"null", "string"}) @@ (RefNum :> {"number"})
    @@ (NotEnum :> MCValue \ {"null", "string"})
    @@ (NumOrStr :> {"number", "string"}) @@ (Strings :> {"[]", "[s]", "[ss]"})
    @@ (Numbers :> {"[n]"}) @@ (Pair :> {"[s]", "[sn]"})
    @@ (StrPair :> {"[ss]"}) @@ (HasNum :> {"{p:n}"})
    @@ (OnlyStr :> {"{p:s}"}) @@ (OnlyQ :> {"{q:n}"})
    @@ (Loop :> {}) @@ (Loop2 :> {})

MCNodes == DOMAIN NodeAccepts
EnumAndNumOrStr == AllOf(Enum, NumOrStr)
NumOrStrOnly == AllOf(NotTerm(Enum), NumOrStr)
MCTerm == MCNodes \cup {NotTerm(n) : n \in MCNodes} \cup {TrueTerm, FalseTerm, EnumAndNumOrStr, NumOrStrOnly}

MCAccepts ==
    [t \in MCTerm |->
        IF t.kind = "node" THEN NodeAccepts[t]
        ELSE IF t.kind = "not" THEN MCValue \ NodeAccepts[t.children[1]]
        ELSE IF t.kind = "true" THEN MCValue
        ELSE IF t.kind = "false" THEN {}
        ELSE IF t = EnumAndNumOrStr THEN NodeAccepts[Enum] \cap NodeAccepts[NumOrStr]
        ELSE NodeAccepts[NumOrStr] \ NodeAccepts[Enum]]

RecursiveQuestions == {Disjoint(Loop, Loop2)}

MCQuestions ==
    RecursiveQuestions
    \cup {Disjoint(l, r) : l, r \in MCTerm \ {Loop, Loop2, NotTerm(Loop), NotTerm(Loop2)}}
=============================================================================

----------------------------- MODULE MCRuleOrder -----------------------------
(***************************************************************************)
(* Small questions for RuleOrder: two nodes A and B over three values, one *)
(* of them null, and composites of them, one too deep to be evaluated.     *)
(* Three rules: an array rule with a strong reason and the diagnostic      *)
(* guard, an object rule, and a boundary rule that must not decide.        *)
(***************************************************************************)
EXTENDS RuleOrder

CONSTANTS null, one, two

MCValue == {null, one, two}

NodeTerm(r) == [kind |-> "node", ref |-> r, children |-> <<>>]
Composite(kind, children) == [kind |-> kind, ref |-> NoRef, children |-> children]

A == NodeTerm("A")
B == NodeTerm("B")
NotA == NotTerm(A)
NotB == NotTerm(B)
AorB == Composite("any_of", <<A, B>>)
AandB == Composite("all_of", <<A, B, TrueTerm>>)
EitherAorB == Composite("one_of", <<A, B, NotB>>)
OnlyOne == Composite("one_of", <<FalseTerm, A, AandB>>)
NotAndB == Composite("all_of", <<NotTerm(AorB), B>>)
TwiceNot == NotTerm(NotTerm(EitherAorB))
TooDeep == NotTerm(TwiceNot)
Composites == {NotA, AorB, AandB, EitherAorB, OnlyOne, NotAndB, TwiceNot, TooDeep}

MCTerm == {A, B, NotA, NotB, TrueTerm, FalseTerm, NotTerm(AorB), NotTerm(EitherAorB)} \cup Composites

NodeAccepts == [A |-> {null, one}, B |-> {one, two}]

MCAccepts ==
    LET val[t \in MCTerm] ==
          LET by(v) == {i \in ChildIndexes(t) : v \in val[t.children[i]]} IN
          CASE t.kind = "node" -> NodeAccepts[t.ref]
            [] t.kind = "true" -> MCValue
            [] t.kind = "false" -> {}
            [] t.kind \in {"not", "all_of", "any_of", "one_of"} ->
                 {v \in MCValue :
                    LET n == IF by(v) = {} THEN 0
                             ELSE IF \A i, j \in by(v) : i = j THEN 1 ELSE 2
                    IN  CASE t.kind = "not" -> n = 0
                          [] t.kind = "all_of" -> by(v) = ChildIndexes(t)
                          [] t.kind = "any_of" -> n > 0
                          [] t.kind = "one_of" -> n = 1}
    IN  val

(* The validator cannot tell whether B accepts one, the value it shares    *)
(* with A.                                                                 *)
MCJudged == ({A, B} \X MCValue) \ {<<B, one>>}

Rule(domain, reliable, guarded, stops, priority) ==
    [domain |-> domain, reliable |-> reliable, guarded |-> guarded, stops |-> stops, priority |-> priority]

MCRules == <<Rule("other", TRUE, FALSE, FALSE, 0), Rule("array", TRUE, TRUE, FALSE, 3),
             Rule("object", TRUE, FALSE, FALSE, 0), Rule("other", FALSE, FALSE, TRUE, 0)>>

MCProblems ==
    {[goal |-> g, arrays |-> a, dispositions |-> d] :
        g \in {Subproof(l, r) : l \in {A, B, AorB, EitherAorB, OnlyOne, TooDeep, FalseTerm},
                                r \in Composites \cup {A, B, FalseTerm, TrueTerm}},
        a \in BOOLEAN, d \in {{}, {"non_terminal"}}}
=============================================================================

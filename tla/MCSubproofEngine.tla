-------------------------- MODULE MCSubproofEngine --------------------------
(***************************************************************************)
(* A small universe of terms for SubproofEngine.  Two JSON values, one of  *)
(* them null, so that Python's None is at once a value and the mark of a   *)
(* missing witness.  A and B are ordinary nodes, R is the root             *)
(*   {"$ref": "#/$defs/r"} with r = {"anyOf": [A, {"$ref": "#/$defs/r"}]}  *)
(* a reference whose target mentions it again, N is {"not": A}.            *)
(***************************************************************************)
EXTENDS SubproofEngine

CONSTANTS null, one

MCValue == {null, one}

NodeTerm(r) == [kind |-> "node", ref |-> r, children |-> <<>>]
Composite(kind, children) == [kind |-> kind, ref |-> NoRef, children |-> children]

A == NodeTerm("A")
B == NodeTerm("B")
R == NodeTerm("R")
N == NodeTerm("N")
AorR == Composite("any_of", <<A, R>>)
AandB == Composite("all_of", <<A, B>>)
BandNotA == Composite("all_of", <<NotTerm(A), B>>)

MCNodes == {A, B, R, N}
MCTerm == MCNodes \cup {NotTerm(t) : t \in MCNodes}
          \cup {TrueTerm, FalseTerm, AorR, AandB, BandNotA}

NodeAccepts == [A |-> {one}, B |-> {null, one}, R |-> {one}, N |-> {null}]

MCAccepts ==
    LET val[t \in MCTerm] ==
          CASE t.kind = "node" -> NodeAccepts[t.ref]
            [] t.kind = "true" -> MCValue
            [] t.kind = "false" -> {}
            [] t.kind = "not" -> MCValue \ val[t.children[1]]
            [] t.kind = "all_of" ->
                 {v \in MCValue : \A i \in ChildIndexes(t) : v \in val[t.children[i]]}
            [] OTHER ->
                 {v \in MCValue : \E i \in ChildIndexes(t) : v \in val[t.children[i]]}
    IN  val

(* R's reference rule asks about the term of its target.                   *)
MCTarget == [t \in MCTerm |-> IF t = R THEN AorR ELSE t]

(* The anyOf rule of a term asks branch by branch, the pure-not rule of N  *)
(* asks for disjointness, and a document-level rule asks about the roots.  *)
RuleGoalOf(g) ==
    IF g.lhs = R /\ g.rhs # R THEN Subproof(R, g.rhs)
    ELSE IF g.rhs = N THEN Disjoint(g.lhs, A)
    ELSE IF g.lhs.kind = "node" /\ g.rhs.kind = "node" THEN IrSubproof(g.lhs, g.rhs)
    ELSE Subproof(A, g.rhs)

MCRuleGoals == [g \in Goals |-> <<RuleGoalOf(g)>>]

MCLimits == {-1, 3}

MCQuestions == {Subproof(R, A), Subproof(R, NotTerm(R)), Subproof(A, BandNotA),
                Subproof(TrueTerm, B), Subproof(A, FalseTerm), Disjoint(BandNotA, A)}
=============================================================================

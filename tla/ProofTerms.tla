----------------------------- MODULE ProofTerms -----------------------------
(***************************************************************************)
(* The vocabulary the prover's modules share: schema terms, the JSON       *)
(* values they accept, the questions the prover asks about a pair of terms *)
(* and the results it answers with.                                        *)
(*                                                                         *)
(* A term of this module is a SchemaTerm (src/subschema/ir/terms.py)       *)
(* together with the document it is read in: the prover passes the pair    *)
(* (lhs, lhs_ir) everywhere and its cache keys hold both.  The values a    *)
(* node term accepts are what the JSON Schema specification says; a        *)
(* composite term accepts what its children make it accept.                *)
(***************************************************************************)
EXTENDS Integers, Sequences

CONSTANTS
    Value,      \* JSON values
    Null,       \* Python's None: JSON null, and a result without a witness
    NoRef,      \* the ref of a term that names no node
    Term,       \* the located terms a proof may meet
    Accepts     \* the values each term accepts

Kinds == {"node", "true", "false", "all_of", "any_of", "one_of", "not"}

TrueTerm == [kind |-> "true", ref |-> NoRef, children |-> <<>>]
FalseTerm == [kind |-> "false", ref |-> NoRef, children |-> <<>>]

(***************************************************************************)
(* SchemaTerm.not_: a constant is folded, anything else is wrapped.        *)
(***************************************************************************)
NotTerm(t) ==
    CASE t.kind = "true"  -> FalseTerm
      [] t.kind = "false" -> TrueTerm
      [] OTHER -> [kind |-> "not", ref |-> NoRef, children |-> <<t>>]

(***************************************************************************)
(* The terms are closed under what the prover builds from them: children,  *)
(* and the complement of a node.  A "not" term is only ever built by       *)
(* SchemaTerm.not_, so it has one child, which is not a constant.          *)
(***************************************************************************)
ASSUME TermAssumption ==
    \A t \in Term :
        /\ t.kind \in Kinds
        /\ t.children \in Seq(Term)
        /\ t.kind = "not" => /\ Len(t.children) = 1
                             /\ t = NotTerm(t.children[1])
        /\ t.kind = "node" => NotTerm(t) \in Term

ChildIndexes(t) == 1 .. Len(t.children)

ASSUME AcceptsAssumption ==
    /\ Accepts \in [Term -> SUBSET Value]
    /\ \A t \in Term :
         /\ t.kind = "true" => Accepts[t] = Value
         /\ t.kind = "false" => Accepts[t] = {}
         /\ t.kind = "all_of" =>
              Accepts[t] = {v \in Value : \A i \in ChildIndexes(t) :
                                v \in Accepts[t.children[i]]}
         /\ t.kind = "any_of" =>
              Accepts[t] = {v \in Value : \E i \in ChildIndexes(t) :
                                v \in Accepts[t.children[i]]}
         /\ t.kind = "not" => Accepts[t] = Value \ Accepts[t.children[1]]

-----------------------------------------------------------------------------
(***************************************************************************)
(* Results.  A refutation carries a witness, or a certificate only, and    *)
(* then its witness is None.  A raised exception is not a result, but it   *)
(* travels the same way.                                                   *)
(***************************************************************************)
Proved == [status |-> "proved_true", witness |-> Null]
Refuted(w) == [status |-> "proved_false", witness |-> w]
Unsupported == [status |-> "unsupported", witness |-> Null]
Exhausted == [status |-> "resource_exhausted", witness |-> Null]

Refutations == {Refuted(w) : w \in Value \cup {Null}}
Results == {Proved, Unsupported, Exhausted} \cup Refutations

(***************************************************************************)
(* Questions.  "subproof" asks whether every value of lhs is one of rhs,   *)
(* "disjoint" whether no value is in both.  A subproof is asked of terms   *)
(* (ProofContext.subproof_terms) or of whole documents (subproof_ir), and  *)
(* the two have separate cache keys.                                       *)
(***************************************************************************)
Subproof(l, r) == [fn |-> "subproof", level |-> "terms", lhs |-> l, rhs |-> r]
IrSubproof(l, r) == [fn |-> "subproof", level |-> "ir", lhs |-> l, rhs |-> r]
Disjoint(l, r) == [fn |-> "disjoint", level |-> "terms", lhs |-> l, rhs |-> r]

Nodes == {t \in Term : t.kind = "node"}

Goals == {Subproof(l, r) : l, r \in Term} \cup {IrSubproof(l, r) : l, r \in Nodes}
DisjointGoals == {Disjoint(l, r) : l \in Term, r \in {t \in Term : NotTerm(t) \in Term}}
Calls == Goals \cup DisjointGoals

(***************************************************************************)
(* The values that refute a question, and what makes a result right: a     *)
(* proof leaves no such value, a refutation names one, or is certified     *)
(* when there is one.                                                      *)
(***************************************************************************)
Counterexamples(q) ==
    IF q.fn = "disjoint"
    THEN Accepts[q.lhs] \cap Accepts[q.rhs]
    ELSE Accepts[q.lhs] \ Accepts[q.rhs]

Sound(q, r) ==
    /\ r.status = "proved_true" => Counterexamples(q) = {}
    /\ r.status = "proved_false" =>
         \/ r.witness \in Counterexamples(q)
         \/ r.witness = Null /\ Counterexamples(q) # {}
=============================================================================

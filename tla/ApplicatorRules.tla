-------------------------- MODULE ApplicatorRules --------------------------
(***************************************************************************)
(* The rules for the applicators: "is every value of lhs one of rhs" when  *)
(* one side is an anyOf, oneOf, allOf, not or if/then/else with sibling    *)
(* keywords (its base).  A rule asks the proof context about the branches  *)
(* and the base, and folds the answers into one result.                    *)
(*                                                                         *)
(* Source: prover/rules/applicators.py, with the plans, the questions and  *)
(* the choices of prover/applicators.py.  A subschema is the set of values *)
(* it accepts, and the context any oracle whose answers are right          *)
(* (SubproofEngine is how it reaches them).                                *)
(***************************************************************************)
EXTENDS Integers, Sequences, FiniteSets

CONSTANTS
    Value,      \* JSON values
    Objects,    \* the JSON objects among them
    None,       \* a refutation without a witness has only a certificate
    NoBase,     \* an applicator without sibling keywords
    Absent,     \* an if without this consequence
    Problems    \* the questions the rules are asked

(***************************************************************************)
(* A problem: the rule it meets; base and the accepted sets of children    *)
(* (for an if, then and else) and condition of the applicator; the set of  *)
(* the other side; and what else the rule finds out about it:              *)
(*   standalone  the base has no unevaluatedProperties or -Items           *)
(*   unknown     the children whose reference cannot be followed           *)
(*   tag         the branch of a tagged oneOf that the objects of the left *)
(*               side belong to, or 0                                      *)
(*   negation    the left side is a "not" without siblings                 *)
(*   doubled     the child of the right "not" is one                       *)
(*   strings     both sides constrain strings                              *)
(*   items       the left side and the branches of an anyOf constrain items*)
(*   parts       the left side as a union of tuples, or <<>>               *)
(*   able        every question is decided, with a witness, within limits  *)
(*   certified   some answers carry a certificate and no witness           *)
(***************************************************************************)
Rules == {"left-anyof", "left-oneof", "left-allof", "left-if", "right-not",
          "right-anyof", "right-oneof", "right-allof", "right-if"}
LeftRules == {"left-anyof", "left-oneof", "left-allof", "left-if"}
Conditionals == {"left-if", "right-if"}

ASSUME NoneAssumption == None \notin Value

ASSUME ProblemAssumption ==
    \A p \in Problems :
        /\ p.rule \in Rules
        /\ p.base \in (SUBSET Value) \cup {NoBase}
        /\ p.children \in Seq((SUBSET Value) \cup {Absent})
        /\ p.rule \notin Conditionals => p.children \in Seq(SUBSET Value)
        /\ p.rule \in Conditionals => Len(p.children) = 2
        /\ p.rule = "right-not" => Len(p.children) = 1
        /\ {p.other, p.condition} \subseteq SUBSET Value
        /\ {p.standalone, p.negation, p.doubled, p.strings, p.items, p.able,
            p.certified} \subseteq BOOLEAN
        /\ p.unknown \subseteq DOMAIN p.children
        /\ p.tag \in 0 .. Len(p.children)
        /\ p.tag # 0 => \A k \in DOMAIN p.children \ {p.tag} :
                            p.other \cap Objects \cap p.children[k] = {}
        /\ p.parts \in Seq(SUBSET Value)
        /\ p.parts # <<>> => p.other = UNION {p.parts[k] : k \in DOMAIN p.parts}
        /\ p.able => p.unknown = {} /\ ~p.certified

VARIABLES
    problem,    \* the problem of the rule
    stage,      \* what the rule does next
    i,          \* the branch, or part, it asks about
    undecided,  \* a branch that counts was not decided
    covering,   \* the branches known to cover the left side
    base,       \* the result for the base
    branch,     \* the result for the branches, when the base comes after them
    result      \* what the rule returns

vars == <<problem, stage, i, undecided, covering, base, branch, result>>

Proved == [status |-> "proved_true", witness |-> None]
Refuted(w) == [status |-> "proved_false", witness |-> w]
Certified == Refuted(None)
Unsupported == [status |-> "unsupported", witness |-> None]
Exhausted == [status |-> "resource_exhausted", witness |-> None]
Results == {Proved, Unsupported, Exhausted} \cup {Refuted(w) : w \in Value \cup {None}}

IsRefutation(r) == r.status = "proved_false"

-----------------------------------------------------------------------------
(* The two sides.                                                          *)

Rule == problem.rule
Children == problem.children
Indexes == DOMAIN Children

Base == IF problem.base = NoBase THEN Value ELSE problem.base
Consequent(k) == IF Children[k] = Absent THEN Value ELSE Children[k]
Condition(k) == IF k = 1 THEN problem.condition ELSE Value \ problem.condition

Accepting(v) == {k \in Indexes : v \in Children[k]}

Applied(v) ==
    IF Rule \in {"left-anyof", "right-anyof"} THEN Accepting(v) # {}
    ELSE IF Rule \in {"left-oneof", "right-oneof"} THEN Cardinality(Accepting(v)) = 1
    ELSE IF Rule \in {"left-allof", "right-allof"} THEN Accepting(v) = Indexes
    ELSE IF Rule = "right-not" THEN Accepting(v) = {}
    ELSE \A k \in Indexes : v \in Condition(k) => v \in Consequent(k)

Composite == {v \in Base : Applied(v)}
Lhs == IF Rule \in LeftRules THEN Composite ELSE problem.other
Rhs == IF Rule \in LeftRules THEN problem.other ELSE Composite

-----------------------------------------------------------------------------
(* What the context, the witness builder and the confirmation may answer.  *)

GivesUp == IF problem.able THEN {} ELSE {Unsupported, Exhausted}

Refutations(counterexamples) ==
    {Refuted(w) : w \in counterexamples}
        \cup (IF problem.certified /\ counterexamples # {} THEN {Certified} ELSE {})

Decisions(counterexamples) ==
    Refutations(counterexamples) \cup GivesUp
        \cup (IF counterexamples = {} THEN {Proved} ELSE {})

Inclusion(l, r) == Decisions(l \ r)
Disjointness(l, r) == Decisions(l \cap r)

(* build_term_witness: a value of the term, a certificate that it has one, *)
(* or neither.                                                             *)
Witnesses(s) == Refutations(s) \cup GivesUp \cup (IF s = {} THEN {Unsupported} ELSE {})

(* validated_false confirms a witness against both whole schemas.          *)
Validations(w) ==
    {IF w \in Lhs \ Rhs THEN Refuted(w) ELSE Unsupported}
        \cup (IF problem.able THEN {} ELSE {Unsupported})

(* What a refutation without a certificate is good for.                    *)
Confirmed(r) == IF r.witness = None THEN {r} ELSE Validations(r.witness)

BudgetGrants == IF problem.able THEN {TRUE} ELSE BOOLEAN

-----------------------------------------------------------------------------
(* The questions about branches, and the choice each answer leads to.      *)

(* The left side together with the siblings of the applicator.             *)
LhsWithBase == problem.other \cap Base

BranchQuestion(k) ==
    IF Rule = "left-if" THEN Inclusion(Base \cap Condition(k) \cap Consequent(k), Rhs)
    ELSE IF Rule \in LeftRules THEN Inclusion(Base \cap Children[k], Rhs)
    ELSE IF Rule = "right-if" THEN Inclusion(Lhs \cap Condition(k), Consequent(k))
    ELSE IF Rule = "right-oneof" THEN Inclusion(LhsWithBase, Children[k])
    ELSE Inclusion(Lhs, Children[k])

BranchAnswers ==
    IF stage # "branches" \/ i \notin Indexes THEN {}
    ELSE IF i \in problem.unknown THEN {Unsupported}
    ELSE BranchQuestion(i)

(* With unevaluated siblings an allOf can only be refuted.                 *)
OnlyRefutes == Rule = "right-allof" /\ ~problem.standalone

Choice(r) ==
    IF r = Proved THEN
        IF Rule \in {"left-allof", "right-anyof"} THEN "return"
        ELSE IF Rule = "right-oneof" THEN "cover" ELSE "continue"
    ELSE IF r = Exhausted THEN "return"
    ELSE IF r = Unsupported THEN
        IF \/ Rule \in {"left-anyof", "right-allof"} /\ ~OnlyRefutes
           \/ OnlyRefutes /\ i \in problem.unknown
        THEN "return" ELSE "record"
    ELSE IF r = Certified THEN
        IF Rule \in {"left-anyof"} \cup Conditionals THEN "give up" ELSE "return"
    ELSE "validate"

(* What becomes of a witness of a branch that is no witness of the whole.  *)
AfterRejection ==
    IF Rule \in {"left-anyof", "right-allof"} /\ ~OnlyRefutes THEN "give up"
    ELSE IF Rule \in {"left-oneof"} \cup Conditionals \/ OnlyRefutes THEN "record"
    ELSE "continue"

-----------------------------------------------------------------------------
(* Where a rule starts and where its stages lead.                          *)

FirstBranch == IF Rule = "right-if" THEN "covering" ELSE "branches"

FirstStage(p) ==
    IF p.rule = "right-oneof" /\ p.tag # 0 THEN "tagged"
    ELSE IF p.rule = "right-oneof" THEN "plan"
    ELSE IF p.rule = "right-allof" /\ ~p.standalone THEN "branches"
    ELSE IF p.rule \in {"right-not", "right-allof"} THEN "base"
    ELSE "budget"

Init ==
    /\ problem \in Problems
    /\ stage = FirstStage(problem)
    /\ i = 1
    /\ undecided = FALSE
    /\ covering = {}
    /\ base = Unsupported
    /\ branch = Unsupported
    /\ result = Unsupported

Go(s) == stage' = s /\ UNCHANGED <<problem, i, undecided, covering, base, branch, result>>

Return(r) ==
    /\ stage' = "done"
    /\ result' = r
    /\ UNCHANGED <<problem, i, undecided, covering, base, branch>>

(* A mutant of WithBase: the siblings are forgotten.                       *)
ForgettingTheBase(r) == r

(* The base was asked about before the branches.                           *)
WithBase(r) ==
    IF IsRefutation(r) THEN r
    ELSE IF base = Exhausted THEN base
    ELSE IF r = Proved THEN base ELSE r

(* The branches have the result r.                                         *)
EndBranches(r) ==
    IF Rule \in LeftRules \cup Conditionals \/ OnlyRefutes THEN Return(r)
    ELSE IF Rule # "right-anyof" THEN Return(WithBase(r))
    ELSE IF IsRefutation(r) \/ r = Exhausted THEN Return(r)
    ELSE /\ stage' = "base"
         /\ branch' = r
         /\ UNCHANGED <<problem, i, undecided, covering, base, result>>

-----------------------------------------------------------------------------
(* A tagged oneOf: only the branch with the tag of the left side counts.   *)

AskTaggedBranch ==
    /\ stage = "tagged"
    /\ \E r \in Inclusion(problem.other, Children[problem.tag]) :
         IF (r = Proved /\ problem.standalone) \/ r = Exhausted THEN Return(r)
         ELSE IF ~IsRefutation(r) THEN Go("plan")
         ELSE \E c \in Confirmed(r) : IF c = Unsupported THEN Go("plan") ELSE Return(c)

(* There is no plan for a oneOf with unevaluated siblings.                 *)
PlanOneOf ==
    /\ stage = "plan"
    /\ IF problem.standalone THEN Go("base") ELSE Return(Unsupported)

-----------------------------------------------------------------------------
(* The base and the budget.                                                *)

(* A mutant of BaseAnswers: no siblings are taken for undecided siblings.  *)
BaseNeverTrivial ==
    IF problem.standalone /\ problem.base # NoBase THEN Inclusion(Lhs, Base)
    ELSE {Unsupported}

BaseAnswers ==
    IF Rule = "left-if" THEN {Proved}
    ELSE IF ~problem.standalone THEN {Unsupported}
    ELSE IF problem.base = NoBase THEN {Proved}
    ELSE Inclusion(Lhs, Base)

AskBase ==
    /\ stage = "base"
    /\ \E r \in BaseAnswers :
         IF IsRefutation(r) THEN \E c \in Confirmed(r) : Return(c)
         ELSE IF Rule = "right-anyof"
         THEN Return(IF r = Proved THEN branch ELSE r)
         ELSE /\ base' = r
              /\ stage' = IF Rule = "right-not" THEN "contrapositive"
                          ELSE IF Rule \in Conditionals THEN FirstBranch ELSE "budget"
              /\ UNCHANGED <<problem, i, undecided, covering, branch, result>>

Spend ==
    /\ stage = "budget"
    /\ \E granted \in BudgetGrants :
         IF ~granted THEN EndBranches(Exhausted)
         ELSE Go(IF Rule \in Conditionals THEN "base" ELSE "branches")

-----------------------------------------------------------------------------
(* The loop over the branches.                                             *)

NextBranch(record, cover) ==
    /\ i' = i + 1
    /\ stage' = FirstBranch
    /\ undecided' = (undecided \/ record)
    /\ covering' = covering \cup cover
    /\ UNCHANGED <<problem, base, branch, result>>

(* A branch of a right if: nothing is asked without a consequence, or when *)
(* the left side never meets the condition.                                *)
AskCovering ==
    /\ stage = "covering"
    /\ i \in Indexes
    /\ IF Children[i] = Absent THEN NextBranch(FALSE, {})
       ELSE \E r \in Disjointness(Lhs, Condition(i)) :
              IF r = Proved THEN NextBranch(FALSE, {})
              ELSE IF r = Exhausted THEN Return(r) ELSE Go("branches")

ContinueLoop ==
    \E r \in BranchAnswers :
        /\ Choice(r) \in {"continue", "record", "cover"}
        /\ NextBranch(Choice(r) = "record", IF Choice(r) = "cover" THEN {i} ELSE {})

LeaveLoop ==
    \E r \in BranchAnswers :
        /\ Choice(r) \in {"return", "give up"}
        /\ EndBranches(IF Choice(r) = "return" THEN r ELSE Unsupported)

ValidateBranch ==
    \E r \in BranchAnswers :
        /\ Choice(r) = "validate"
        /\ \E v \in Validations(r.witness) :
             IF v # Unsupported \/ AfterRejection = "give up" THEN EndBranches(v)
             ELSE NextBranch(AfterRejection = "record", {})

EndLoop ==
    /\ stage \in {"branches", "covering"}
    /\ i \notin Indexes
    /\ IF Rule = "right-oneof" THEN Go("select")
       ELSE IF Rule = "right-anyof" THEN Go("items")
       ELSE IF Rule = "left-allof" \/ undecided \/ OnlyRefutes THEN EndBranches(Unsupported)
       ELSE EndBranches(IF Rule \in Conditionals THEN base ELSE Proved)

-----------------------------------------------------------------------------
(* A right anyOf that no branch covers: an array whose first item is in no *)
(* branch, then the left side as a union of tuples.                        *)

RefuteItem ==
    /\ stage = "items"
    /\ \/ /\ problem.items
          /\ \E v \in Lhs : Accepting(v) = {}
          /\ EndBranches(Certified)
       \/ IF problem.parts = <<>> THEN EndBranches(Unsupported) ELSE Go("spread")

SpreadTuple ==
    /\ stage = "spread"
    /\ \E granted \in BudgetGrants :
         IF ~granted THEN EndBranches(Exhausted)
         ELSE /\ stage' = "parts"
              /\ i' = 1
              /\ undecided' = FALSE
              /\ UNCHANGED <<problem, covering, base, branch, result>>

AskPart ==
    /\ stage = "parts"
    /\ i \in DOMAIN problem.parts
    /\ \E r \in Inclusion(problem.parts[i], Rhs) :
         IF IsRefutation(r) THEN \E c \in Confirmed(r) : EndBranches(c)
         ELSE IF r = Exhausted THEN EndBranches(r)
         ELSE /\ i' = i + 1
              /\ undecided' = (undecided \/ r = Unsupported)
              /\ UNCHANGED <<problem, stage, covering, base, branch, result>>

EndParts ==
    /\ stage = "parts"
    /\ i \notin DOMAIN problem.parts
    /\ EndBranches(IF undecided THEN Unsupported ELSE Proved)

-----------------------------------------------------------------------------
(* A right oneOf after its coverage: covered twice, it is refuted by any   *)
(* value of the left side; covered once, the other branches must be        *)
(* disjoint from the left side.                                            *)

SelectCovering ==
    /\ stage = "select"
    /\ IF covering = {} THEN EndBranches(Unsupported)
       ELSE Go(IF Cardinality(covering) > 1 THEN "overlap" ELSE "others")

WitnessOverlap ==
    /\ stage = "overlap"
    /\ \E r \in Witnesses(LhsWithBase) :
         IF IsRefutation(r) THEN \E c \in Confirmed(r) : EndBranches(c)
         ELSE EndBranches(r)

SpendOthers ==
    /\ stage = "others"
    /\ \E granted \in BudgetGrants :
         IF ~granted THEN EndBranches(Exhausted)
         ELSE /\ stage' = "disjoint"
              /\ i' = 1
              /\ UNCHANGED <<problem, undecided, covering, base, branch, result>>

DisjointAnswers(k) ==
    IF k \in problem.unknown THEN {Unsupported} ELSE Disjointness(LhsWithBase, Children[k])

AskOther ==
    /\ stage = "disjoint"
    /\ i \in Indexes
    /\ \/ /\ i \in covering
          /\ i' = i + 1
          /\ UNCHANGED <<problem, stage, undecided, covering, base, branch, result>>
       \/ /\ i \notin covering
          /\ \E r \in DisjointAnswers(i) :
               IF IsRefutation(r) THEN \E c \in Confirmed(r) : EndBranches(c)
               ELSE IF r # Proved THEN EndBranches(r)
               ELSE /\ i' = i + 1
                    /\ UNCHANGED <<problem, stage, undecided, covering, base, branch, result>>

EndOthers ==
    /\ stage = "disjoint"
    /\ i \notin Indexes
    /\ EndBranches(Proved)

-----------------------------------------------------------------------------
(* A right not: six attempts, in this order.                               *)

Negated == Children[1]

AskContrapositive ==
    /\ stage = "contrapositive"
    /\ IF 1 \in problem.unknown THEN EndBranches(Unsupported)
       ELSE IF ~problem.negation \/ problem.base # NoBase THEN Go("double")
       ELSE \E r \in Inclusion(Negated, Value \ Lhs) :
              IF r \in {Unsupported, Certified} THEN Go("double")
              ELSE IF IsRefutation(r) THEN \E c \in Confirmed(r) : EndBranches(c)
              ELSE EndBranches(r)

AskDoubleNegation ==
    /\ stage = "double"
    /\ IF ~problem.doubled THEN Go("apart")
       ELSE \E r \in Inclusion(LhsWithBase, Value \ Negated) :
              IF r = Certified THEN EndBranches(Unsupported)
              ELSE IF IsRefutation(r) THEN \E c \in Confirmed(r) : EndBranches(c)
              ELSE EndBranches(r)

AskApart ==
    /\ stage = "apart"
    /\ \E r \in Disjointness(LhsWithBase, Negated) :
         IF r \in {Unsupported, Certified} THEN Go("strings")
         ELSE IF IsRefutation(r) THEN \E c \in Confirmed(r) : EndBranches(c)
         ELSE EndBranches(r)

(* The languages of the two sides may hold more than their values.         *)
OverlapAnswers ==
    IF ~problem.strings THEN {Unsupported}
    ELSE (Disjointness(Lhs, Negated) \ {Certified}) \cup {Unsupported}
            \cup {Refuted(w) : w \in Value}

CompareStrings ==
    /\ stage = "strings"
    /\ \E r \in OverlapAnswers :
         IF r = Unsupported THEN Go("within")
         ELSE IF IsRefutation(r) THEN \E c \in Confirmed(r) : EndBranches(c)
         ELSE EndBranches(r)

AskWithin ==
    /\ stage = "within"
    /\ \E r \in Inclusion(LhsWithBase, Negated) :
         IF r = Proved THEN Go("witness")
         ELSE IF r = Exhausted THEN EndBranches(r) ELSE Go("common")

(* Any value of the left side, then any value of both.                     *)
WitnessNegation ==
    /\ stage \in {"witness", "common"}
    /\ \E r \in Witnesses(IF stage = "witness" THEN LhsWithBase
                          ELSE LhsWithBase \cap Negated) :
         IF stage = "common" /\ r = Certified THEN EndBranches(Unsupported)
         ELSE IF IsRefutation(r) THEN \E c \in Confirmed(r) : EndBranches(c)
         ELSE EndBranches(r)

-----------------------------------------------------------------------------
NextBase == AskTaggedBranch \/ PlanOneOf \/ AskBase \/ Spend
NextBranches == AskCovering \/ ContinueLoop \/ LeaveLoop \/ ValidateBranch \/ EndLoop
NextAnyOf == RefuteItem \/ SpreadTuple \/ AskPart \/ EndParts
NextOneOf == SelectCovering \/ WitnessOverlap \/ SpendOthers \/ AskOther \/ EndOthers
NextNot == AskContrapositive \/ AskDoubleNegation \/ AskApart \/ CompareStrings
              \/ AskWithin \/ WitnessNegation

Next == NextBase \/ NextBranches \/ NextAnyOf \/ NextOneOf \/ NextNot

Spec == Init /\ [][Next]_vars

-----------------------------------------------------------------------------
(* Whatever the context decides of branches and siblings, the result the   *)
(* rule folds them into is right for the two whole schemas.                *)
ResultsAreSound ==
    /\ result = Proved => Lhs \subseteq Rhs
    /\ IsRefutation(result) => /\ Lhs \ Rhs # {}
                               /\ result.witness \in (Lhs \ Rhs) \cup {None}

(* The rules called exact, and the one for not, decide every problem whose *)
(* questions are all decided with witnesses: nothing is lost between the   *)
(* branches, the siblings and the confirmation.                            *)
DecidingRules == {"left-anyof", "right-not", "right-allof", "left-if", "right-if"}

ExactRulesDecide ==
    (stage = "done" /\ problem.able /\ problem.standalone /\ Rule \in DecidingRules) =>
        result = Proved \/ IsRefutation(result)
=============================================================================

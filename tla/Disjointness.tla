---------------------------- MODULE Disjointness ----------------------------
(***************************************************************************)
(* terms_are_disjoint and _irs_are_disjoint at work on the structure of    *)
(* two schemas: their enumerated values, the targets of references, the    *)
(* branches of unions, types, items at required positions and required     *)
(* properties; what remains is asked of the proof context.                 *)
(*                                                                         *)
(* Source: prover/disjointness.py.  SubproofEngine takes the conclusions   *)
(* about two nodes as given (DecideNodes); this module is how they are     *)
(* reached.  The facts about a node (Shape) are those the compiler derived *)
(* from it.  A question is one activation of terms_are_disjoint; it goes   *)
(* through stages, and in most of them asks other questions in order.      *)
(***************************************************************************)
EXTENDS ProofTerms, FiniteSets, SequencesExt

CONSTANTS
    Questions,      \* what the rules of the prover ask
    NoTerm,         \* no target, item or property term
    Shape,          \* what the compiler found out about each node
    TypeOf,         \* the JSON type of each value
    ItemsOf,        \* the items of the arrays
    PropertiesOf,   \* the properties of the objects, a function of their names
    StackLimit      \* bound: the nesting at which Python raises RecursionError

(***************************************************************************)
(* The shape of a node:                                                    *)
(*   types       the types it allows                                       *)
(*   finite      its values, when it is known to be finite (listed says so)*)
(*   excluded    the values its "not" lists                                *)
(*   target      what its static reference stands for, or NoTerm           *)
(*   branches    the branches of its anyOf or oneOf, each with its base    *)
(*   lengths     the lengths its arrays may have, up to a bound; {} when   *)
(*               that is not known                                         *)
(*   prefix, tail   the terms of its items                                 *)
(*   required, values   its required names, and the term of each name      *)
(*   closed      it allows a finite set of names only                      *)
(***************************************************************************)
NamesOf(n) == DOMAIN Shape[n].values

TermAtIndex(n, k) ==
    IF k <= Len(Shape[n].prefix) THEN Shape[n].prefix[k] ELSE Shape[n].tail

ASSUME ValueAssumption ==
    \A v \in Value :
        /\ TypeOf[v] = "array" => ItemsOf[v] \in Seq(Value)
        /\ TypeOf[v] = "object" => PropertiesOf[v] \in [DOMAIN PropertiesOf[v] -> Value]

ASSUME ShapeTypes ==
    /\ NoTerm \notin Term
    /\ \A n \in Nodes :
         /\ Shape[n].target \in Term \cup {NoTerm}
         /\ Shape[n].branches \in Seq(Term)
         /\ Shape[n].lengths \subseteq Nat
         /\ Shape[n].prefix \in Seq(Term)
         /\ Shape[n].tail \in Term \cup {NoTerm}
         /\ Shape[n].values \in [NamesOf(n) -> Term]
         /\ IsFiniteSet(Shape[n].required)

(* What the facts say of the values a node accepts.                        *)
ASSUME ShapeAssumption ==
    \A n \in Nodes :
        /\ \A v \in Accepts[n] : TypeOf[v] \in Shape[n].types
        /\ Shape[n].listed => Accepts[n] \subseteq Shape[n].finite
        /\ Shape[n].excluded \cap Accepts[n] = {}
        /\ Shape[n].target # NoTerm => Accepts[n] = Accepts[Shape[n].target]
        /\ Shape[n].branches # <<>> =>
             Accepts[n] \subseteq UNION {Accepts[Shape[n].branches[k]] :
                                           k \in DOMAIN Shape[n].branches}

ASSUME ArrayAssumption ==
    \A n \in Nodes : \A v \in Accepts[n] : TypeOf[v] = "array" =>
        /\ Shape[n].lengths # {} => Len(ItemsOf[v]) \in Shape[n].lengths
        /\ \A k \in DOMAIN ItemsOf[v] :
             TermAtIndex(n, k) # NoTerm => ItemsOf[v][k] \in Accepts[TermAtIndex(n, k)]

ASSUME ObjectAssumption ==
    \A n \in Nodes : \A v \in Accepts[n] : TypeOf[v] = "object" =>
        /\ Shape[n].required \subseteq DOMAIN PropertiesOf[v]
        /\ Shape[n].closed => DOMAIN PropertiesOf[v] \subseteq NamesOf(n)
        /\ \A name \in DOMAIN PropertiesOf[v] \cap NamesOf(n) :
             PropertiesOf[v][name] \in Accepts[Shape[n].values[name]]

Pairs == {Disjoint(l, r) : l, r \in Term}

ASSUME QuestionsAssumption == Questions \subseteq Pairs

ASSUME LimitAssumption == StackLimit \in Nat

VARIABLES
    stack,      \* the questions being answered, innermost last
    call,       \* the question about to be entered, or NoCall
    answer,     \* the question just answered with its result, or NoAnswer
    overflow    \* Python raised RecursionError

vars == <<stack, call, answer, overflow>>

NoCall == [fn |-> "none"]
NoAnswer == [goal |-> NoCall, result |-> [status |-> "none", witness |-> Null]]
NoResult == NoAnswer.result

Top == stack[Len(stack)]
Rest == SubSeq(stack, 1, Len(stack) - 1)

-----------------------------------------------------------------------------
(* What each stage asks, in order; NoCall where its loop goes on to the    *)
(* next without asking.                                                    *)

Joint(q) == Shape[q.lhs].types \cap Shape[q.rhs].types

HasConjuncts(q) == q.lhs.kind = "all_of" \/ q.rhs.kind = "all_of"
Conjuncts(q) == IF q.lhs.kind = "all_of" THEN q.lhs.children ELSE q.rhs.children
OtherTerm(q) == IF q.lhs.kind = "all_of" THEN q.rhs ELSE q.lhs
IsNode(t) == t.kind = "node"

(* _any_conjunct_disjoint_from_term passes over conjuncts that are no nodes. *)
ConjunctQuestions(q) ==
    IF HasConjuncts(q) /\ IsNode(OtherTerm(q))
    THEN [k \in DOMAIN Conjuncts(q) |->
            IF IsNode(Conjuncts(q)[k]) THEN Disjoint(Conjuncts(q)[k], OtherTerm(q)) ELSE NoCall]
    ELSE <<>>

TargetOf(n) == IF Shape[n].target = NoTerm THEN n ELSE Shape[n].target

ReferenceQuestions(q) ==
    IF Shape[q.lhs].target = NoTerm /\ Shape[q.rhs].target = NoTerm THEN <<>>
    ELSE <<Disjoint(TargetOf(q.lhs), TargetOf(q.rhs))>>

(* _union_applicator_disjointness_ir: the left union, or else the right.   *)
UnionQuestions(q) ==
    LET l == Shape[q.lhs].branches
        r == Shape[q.rhs].branches
    IN  IF l # <<>> THEN [k \in DOMAIN l |-> Disjoint(l[k], q.rhs)]
        ELSE [k \in DOMAIN r |-> Disjoint(r[k], q.lhs)]

(* Mutant: the positions both sides may have, not those both must have.    *)
Longest(lengths) == CHOOSE k \in lengths : \A j \in lengths : j <= k

Shortest(lengths) == CHOOSE k \in lengths : \A j \in lengths : k <= j

FirstRequiredItem(n) ==
    IF Shape[n].lengths # {} /\ Shortest(Shape[n].lengths) >= 1
    THEN TermAtIndex(n, 1) ELSE NoTerm

ItemQuestions(q) ==
    IF Joint(q) = {"array"} /\ NoTerm \notin {FirstRequiredItem(q.lhs), FirstRequiredItem(q.rhs)}
    THEN <<Disjoint(FirstRequiredItem(q.lhs), FirstRequiredItem(q.rhs))>>
    ELSE <<>>

(* candidate_indexes: every position of the prefix, and one for the tail.  *)
CandidateIndexes(n, required) ==
    1 .. (IF required < Len(Shape[n].prefix) + 1 THEN required ELSE Len(Shape[n].prefix) + 1)

SharedLengths(q) == Shape[q.lhs].lengths \cap Shape[q.rhs].lengths

LengthsKnown(q) == Joint(q) = {"array"} /\ {} \notin {Shape[q.lhs].lengths, Shape[q.rhs].lengths}

(* No length suits both, and one of the two allows nothing but arrays.     *)
NoLengthInCommon(q) ==
    /\ LengthsKnown(q) /\ SharedLengths(q) = {}
    /\ {"array"} \in {Shape[q.lhs].types, Shape[q.rhs].types}

RequiredSlots(q) ==
    LET required == Shortest(SharedLengths(q))
    IN  {k \in CandidateIndexes(q.lhs, required) \cup CandidateIndexes(q.rhs, required) :
            /\ k <= required
            /\ NoTerm \notin {TermAtIndex(q.lhs, k), TermAtIndex(q.rhs, k)}}

(* Every required position of the node has a term.                         *)
Indexed(n, required) == Shape[n].tail # NoTerm \/ required <= Len(Shape[n].prefix)

SlotQuestions(q) ==
    IF /\ LengthsKnown(q) /\ SharedLengths(q) # {}
       /\ Indexed(q.lhs, Shortest(SharedLengths(q)))
       /\ Indexed(q.rhs, Shortest(SharedLengths(q)))
    THEN [k \in 1 .. Shortest(SharedLengths(q)) |->
            IF k \in RequiredSlots(q)
            THEN Disjoint(TermAtIndex(q.lhs, k), TermAtIndex(q.rhs, k)) ELSE NoCall]
    ELSE <<>>

ValueQuestions(q, names) ==
    LET sorted == SetToSeq(names)
    IN  [k \in DOMAIN sorted |->
            Disjoint(Shape[q.lhs].values[sorted[k]], Shape[q.rhs].values[sorted[k]])]

(* _closed_finite_object_disjointness_ir: a name required by either side.  *)
BothClosed(q) == Joint(q) = {"object"} /\ Shape[q.lhs].closed /\ Shape[q.rhs].closed

RequiredByEither(q) == Shape[q.lhs].required \cup Shape[q.rhs].required

Uninhabited(q) == ~(RequiredByEither(q) \subseteq NamesOf(q.lhs) \cap NamesOf(q.rhs))

ClosedQuestions(q) ==
    IF BothClosed(q) /\ ~Uninhabited(q) THEN ValueQuestions(q, RequiredByEither(q)) ELSE <<>>

(* _object_required_property_conflict_ir: a name required by both sides.   *)
RequiredByBoth(q) ==
    Shape[q.lhs].required \cap Shape[q.rhs].required \cap NamesOf(q.lhs) \cap NamesOf(q.rhs)

PropertyQuestions(q) ==
    IF Joint(q) = {"object"} THEN ValueQuestions(q, RequiredByBoth(q)) ELSE <<>>

Stages == <<"conjuncts", "values", "complement", "reference", "union", "facts", "item", "slots",
            "closed", "property", "fallback">>

QuestionsOf(stage, q) ==
    CASE stage = "conjuncts" -> ConjunctQuestions(q)
      [] stage = "reference" -> ReferenceQuestions(q)
      [] stage = "union"     -> UnionQuestions(q)
      [] stage = "item"      -> ItemQuestions(q)
      [] stage = "slots"     -> SlotQuestions(q)
      [] stage = "closed"    -> ClosedQuestions(q)
      [] stage = "property"  -> PropertyQuestions(q)
      [] OTHER               -> <<>>

AskingStages == {"conjuncts", "reference", "union", "item", "slots", "closed", "property"}

Frame(q, stage, kept) ==
    [goal |-> q, stage |-> stage, asks |-> QuestionsOf(stage, q), kept |-> kept]

Following(stage) == Stages[(CHOOSE k \in DOMAIN Stages : Stages[k] = stage) + 1]

-----------------------------------------------------------------------------
Init ==
    /\ stack = <<>>
    /\ call \in Questions
    /\ answer = NoAnswer
    /\ overflow = FALSE

Return(r) ==
    /\ stack' = Rest
    /\ answer' = [goal |-> Top.goal, result |-> r]
    /\ UNCHANGED <<call, overflow>>

Become(f) ==
    /\ stack' = Append(Rest, f)
    /\ answer' = NoAnswer
    /\ UNCHANGED <<call, overflow>>

(* The next stage, without what an earlier one kept.                       *)
GoOn == Become(Frame(Top.goal, Following(Top.stage), NoResult))

(* Every activation starts at depth 0: the guard of _irs_are_disjoint      *)
(* (depth > 8) is passed each time, and only Python's own limit is met.    *)
Enter ==
    /\ call # NoCall
    /\ Len(stack) < StackLimit
    /\ stack' = Append(stack, Frame(call, "conjuncts", NoResult))
    /\ call' = NoCall
    /\ UNCHANGED <<answer, overflow>>

Overflow ==
    /\ call # NoCall
    /\ Len(stack) = StackLimit
    /\ overflow' = TRUE
    /\ stack' = <<>>
    /\ call' = NoCall
    /\ UNCHANGED answer

At(stage) == /\ stack # <<>> /\ call = NoCall /\ answer = NoAnswer /\ ~overflow
             /\ Top.stage = stage

Constant(q) == {q.lhs.kind, q.rhs.kind} \cap {"true", "false"} # {}

DecideConstants ==
    /\ At("conjuncts") /\ Constant(Top.goal)
    /\ Return(IF "false" \in {Top.goal.lhs.kind, Top.goal.rhs.kind} THEN Proved ELSE Unsupported)

Ask ==
    /\ \E stage \in AskingStages : At(stage)
    /\ ~Constant(Top.goal) /\ Top.asks # <<>> /\ Head(Top.asks) # NoCall
    /\ call' = Head(Top.asks)
    /\ UNCHANGED <<stack, answer, overflow>>

Answered(stages) == stack # <<>> /\ answer # NoAnswer /\ Top.stage \in stages

Result == answer.result
(* Mutant: the loop asks about the same pair again.                        *)
SameQuestion == Top

NextQuestion == [Top EXCEPT !.asks = Tail(@)]
Keeping(r) == [NextQuestion EXCEPT !.kept = r]

(* continue: a conjunct passed over leaves the conclusion open.            *)
Skip ==
    /\ \E stage \in AskingStages : At(stage)
    /\ ~Constant(Top.goal) /\ Top.asks # <<>> /\ Head(Top.asks) = NoCall
    /\ IF Top.stage = "conjuncts" /\ Top.kept = NoResult
       THEN Become(Keeping(Unsupported)) ELSE Become(NextQuestion)

(* Mutant: the result of the last conjunct is kept, whatever it is.        *)
KeepAnyConjunct ==
    /\ Answered({"conjuncts"})
    /\ IF Result = Proved THEN Return(Proved) ELSE Become(Keeping(Result))

AnswerConjunct ==
    /\ Answered({"conjuncts"})
    /\ IF Result = Proved THEN Return(Proved)
       ELSE IF Result \in {Unsupported, Exhausted} THEN Become(Keeping(Result))
       ELSE Become(NextQuestion)

EndConjuncts ==
    /\ At("conjuncts") /\ ~Constant(Top.goal) /\ Top.asks = <<>>
    /\ IF Top.kept = Exhausted THEN Return(Exhausted)
       ELSE IF IsNode(Top.goal.lhs) /\ IsNode(Top.goal.rhs) THEN GoOn
       ELSE Become(Frame(Top.goal, "fallback", NoResult))

-----------------------------------------------------------------------------
(* confirm_valid: what the validator says of a value, when it can tell.    *)
Verdicts(n, v) == {IF v \in Accepts[n] THEN "confirmed" ELSE "rejected", "unsupported"}

(* _confirmed_shared_witness_ir.                                           *)
SharedVerdicts(q, v) ==
    {IF "unsupported" \in {a, b} THEN "unsupported"
     ELSE IF {a, b} = {"confirmed"} THEN "confirmed" ELSE "rejected" :
        a \in Verdicts(q.lhs, v), b \in Verdicts(q.rhs, v)}

Confirmed(q, v) == "confirmed" \in SharedVerdicts(q, v)
MayBeRejected(q, values) == \A v \in values : "rejected" \in SharedVerdicts(q, v)

Listed(n) == Shape[n].listed

(* _finite_candidate_disjointness: the values both sides list.             *)
DecideByValues ==
    /\ At("values")
    /\ LET q == Top.goal
           listed == Listed(q.lhs) /\ Listed(q.rhs)
           shared == Shape[q.lhs].finite \cap Shape[q.rhs].finite
       IN  \/ /\ listed /\ MayBeRejected(q, shared)
              /\ Return(Proved)
           \/ /\ listed
              /\ \E v \in shared : Confirmed(q, v) /\ Return(Refuted(v))
           \/ /\ listed => shared # {}
              /\ GoOn

(* _term_intersection_against_excluded_values: the values of one side that *)
(* the other does not exclude.  Without a list, a value built for the side *)
(* may be confirmed.                                                       *)
Against(candidate, complement) ==
    LET allowed == Shape[candidate].finite \ Shape[complement].excluded
    IN  IF Listed(candidate)
        THEN \/ MayBeRejected(Top.goal, allowed) /\ Return(Proved)
             \/ \E v \in allowed : Confirmed(Top.goal, v) /\ Return(Refuted(v))
             \/ allowed # {} /\ Return(Unsupported)
        ELSE \/ \E v \in Value \ Shape[complement].excluded :
                  Confirmed(Top.goal, v) /\ Return(Refuted(v))
             \/ Return(Unsupported)

Excludes(n) == Shape[n].excluded # {}

(* _finite_complement_term_intersection; then the type atoms.              *)
DecideByComplement ==
    /\ At("complement")
    /\ LET l == Top.goal.lhs
           r == Top.goal.rhs
       IN  \/ Excludes(r) /\ Against(l, r)
           \/ Excludes(l) /\ ~(Excludes(r) /\ Listed(l)) /\ Against(r, l)
           \/ /\ ~(Excludes(r) /\ Listed(l)) /\ ~(Excludes(l) /\ Listed(r))
              /\ IF Joint(Top.goal) = {} THEN Return(Proved) ELSE GoOn

AnswerReference ==
    /\ Answered({"reference"})
    /\ IF Result = Unsupported THEN Become(NextQuestion) ELSE Return(Result)

(* A witness of one branch counts when the whole schemas accept it.        *)
RefutedBranch ==
    IF Result.witness = Null THEN Become(Keeping(Unsupported))
    ELSE \E verdict \in SharedVerdicts(Top.goal, Result.witness) :
           IF verdict = "confirmed" THEN Return(Refuted(Result.witness))
           ELSE Become(Keeping(Unsupported))

(* Mutant: a branch that could not be decided is passed over.              *)
PassOverBranch ==
    /\ Answered({"union"})
    /\ IF Result = Exhausted THEN Return(Exhausted)
       ELSE IF Result \in Refutations THEN RefutedBranch
       ELSE Become(NextQuestion)

AnswerBranch ==
    /\ Answered({"union"})
    /\ IF Result = Exhausted THEN Return(Exhausted)
       ELSE IF Result \in Refutations THEN RefutedBranch
       ELSE IF Result = Unsupported THEN Become(Keeping(Unsupported))
       ELSE Become(NextQuestion)

(* Items at a required position and values of a required name: one pair    *)
(* that is disjoint is enough.                                             *)
AnswerPart ==
    /\ Answered({"item", "slots", "closed", "property"})
    /\ IF Result \in {Proved, Exhausted} THEN Return(Result) ELSE Become(NextQuestion)

EndStage ==
    /\ \E stage \in AskingStages \ {"conjuncts"} : At(stage)
    /\ Top.asks = <<>>
    /\ LET q == Top.goal IN
         IF Top.stage = "union" /\ UnionQuestions(q) # <<>> /\ Top.kept = NoResult
         THEN Return(Proved)
         ELSE IF Top.stage = "slots" /\ NoLengthInCommon(q)
         THEN Return(Proved)
         ELSE IF Top.stage = "closed" /\ BothClosed(q) /\ Uninhabited(q)
         THEN Return(Proved)
         ELSE \/ GoOn
              \/ /\ Top.stage = "closed" /\ BothClosed(q)
                 /\ \E v \in Value : Confirmed(q, v) /\ Return(Refuted(v))

(* String lengths and languages, numbers, property counts, array lengths:  *)
(* each looks at one shared type, and a regular language may run out of    *)
(* work.                                                                   *)
DecideByFacts ==
    /\ At("facts")
    /\ LET q == Top.goal IN
         \/ \E type \in {"string", "number", "object", "array"} :
              /\ Joint(q) = {type}
              /\ \/ /\ Counterexamples(q) = {}
                    /\ Return(Proved)
                 \/ /\ type # "string"
                    /\ \E v \in Counterexamples(q) : Return(Refuted(v))
                 \/ /\ type = "string"
                    /\ Return(Exhausted)
         \/ GoOn

(* The context is asked whether lhs implies the complement of rhs.         *)
AskContext ==
    /\ At("fallback")
    /\ \E r \in Results : Sound(Top.goal, r) /\ Return(r)

Next == \/ Enter \/ Overflow \/ DecideConstants \/ Ask \/ Skip
        \/ AnswerConjunct \/ EndConjuncts \/ DecideByValues
        \/ DecideByComplement \/ AnswerReference \/ AnswerBranch \/ AnswerPart \/ EndStage
        \/ DecideByFacts \/ AskContext

(* One Python call: it takes every step it can.                            *)
Spec == Init /\ [][Next]_vars /\ WF_vars(Next)

-----------------------------------------------------------------------------
(* Properties.                                                             *)

(* A question is in a stage of its own, and keeps at most one inconclusive *)
(* result there.                                                           *)
TypeOK ==
    /\ Len(stack) <= StackLimit
    /\ \A k \in DOMAIN stack :
         /\ stack[k].goal \in Pairs
         /\ stack[k].stage \in ToSet(Stages)
         /\ stack[k].asks \in Seq(Pairs \cup {NoCall})
         /\ stack[k].kept \in {NoResult, Unsupported, Exhausted}
    /\ call \in Pairs \cup {NoCall}
    /\ answer # NoAnswer => answer.goal \in Pairs /\ answer.result \in Results
    /\ overflow \in BOOLEAN

(* Two schemas are reported disjoint only when no value is in both, and    *)
(* intersecting only with a value of both: whatever the branches, items    *)
(* and properties it was concluded from, and whichever of them were        *)
(* inconclusive on the way.                                                *)
AnswersAreSound == answer # NoAnswer => Sound(answer.goal, answer.result)

(* Every question is answered, or ends with an exception, even when the    *)
(* schemas are recursive.                                                  *)
EveryQuestionEnds == <>(stack = <<>> /\ call = NoCall)
=============================================================================

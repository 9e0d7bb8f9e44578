--------------------------- MODULE SubproofEngine ---------------------------
(***************************************************************************)
(* One ProofContext at work: the questions asked of it, the recursion      *)
(* they start, the cache of finished questions, the keys of the questions  *)
(* in progress and the work meter.                                         *)
(*                                                                         *)
(* Sources: prover/context.py (subproof_ir, subproof_terms), prover/       *)
(* driver.py (the decomposition of terms), prover/sat.py (the order of a   *)
(* leaf's rules), prover/disjointness.py (terms_are_disjoint) and          *)
(* contracts.py (ProofWorkMeter).                                          *)
(*                                                                         *)
(* The Python call stack is the variable stack, one frame per activation   *)
(* of subproof_* or terms_are_disjoint.  What a single rule concludes from *)
(* the two schemas by itself is left to an oracle that answers soundly or  *)
(* gives up: the rules have modules of their own.  What this module checks *)
(* is that sound rules stay sound under recursion, cycles, caching, a work *)
(* limit and exceptions.                                                   *)
(***************************************************************************)
EXTENDS ProofTerms, FiniteSets

CONSTANTS
    Limits,         \* the work limits a context may have; -1 is no limit
    RuleUnits,      \* the most work one rule spends at a time
    RuleGoals,      \* the question each rule of a leaf may ask, in rule order
    Target,         \* what a static or dynamic reference stands for
    Questions,      \* what the callers of the context ask
    MaxQuestions    \* bound: the questions asked of one context

ASSUME EngineAssumption ==
    /\ Limits \subseteq Nat \cup {-1}
    /\ RuleUnits \in Nat
    /\ RuleGoals \in [Goals -> Seq(Calls)]
    /\ Questions \subseteq Calls
    /\ MaxQuestions \in Nat

(***************************************************************************)
(* A reference accepts what its target accepts; a term that is not a       *)
(* reference is its own target.                                            *)
(***************************************************************************)
ASSUME TargetAssumption ==
    /\ Target \in [Term -> Term]
    /\ \A t \in Term : Accepts[Target[t]] = Accepts[t]

VARIABLES
    stack,      \* the activations in progress, innermost last
    call,       \* the question about to be entered, or NoCall
    reply,      \* the result being returned, or NoReply
    cache,      \* subproof_cache: finished questions to results
    active,     \* active_subproof_keys
    limit,      \* ProofWorkMeter.limit
    spent,      \* ProofWorkMeter.spent
    question,   \* what the caller asked last
    asked       \* how many questions the caller has asked

vars == <<stack, call, reply, cache, active, limit, spent, question, asked>>

NoCall == [fn |-> "none", level |-> "terms", lhs |-> TrueTerm, rhs |-> TrueTerm]
NoReply == [status |-> "none", witness |-> Null]
Raised == [status |-> "raised", witness |-> Null]

-----------------------------------------------------------------------------
(***************************************************************************)
(* The work meter.  A refused spend leaves the meter as it was.            *)
(***************************************************************************)
(* Mutant: only a meter that already passed its limit refuses.             *)
CanSpendLate(n) == n = 0 \/ limit = -1 \/ spent <= limit

CanSpend(n) == n = 0 \/ limit = -1 \/ spent + n <= limit

Spend(n) == spent' = spent + n

(***************************************************************************)
(* A frame is one activation: its question, the loop or stage it is in,    *)
(* its position there, and the inconclusive result it keeps.               *)
(***************************************************************************)
Frame(q, mode) == [goal |-> q, mode |-> mode, i |-> 1, kept |-> NoReply]

EveryLoops == {"all_rhs", "any_lhs"}     \* proved when every child is
SomeLoops == {"all_lhs", "any_rhs"}      \* proved when some child is
Loops == EveryLoops \cup SomeLoops
SubproofModes == Loops \cup {"true_node", "negation", "solver", "target", "rule"}
DisjointModes == {"start", "conjuncts", "nodes", "fallback"}

Top == stack[Len(stack)]
Rest == SubSeq(stack, 1, Len(stack) - 1)

(***************************************************************************)
(* _prove_terms_by_decomposition looks at the two kinds in this order.     *)
(***************************************************************************)
Decomposition(q) ==
    IF q.level = "ir"                                   THEN "solver"
    ELSE IF q.lhs.kind = "true" /\ q.rhs.kind = "node"  THEN "true_node"
    ELSE IF q.rhs.kind = "not"                          THEN "negation"
    ELSE IF q.rhs.kind = "all_of"                       THEN "all_rhs"
    ELSE IF q.lhs.kind = "any_of"                       THEN "any_lhs"
    ELSE IF q.lhs.kind = "all_of"                       THEN "all_lhs"
    ELSE IF q.rhs.kind = "any_of"                       THEN "any_rhs"
    ELSE "solver"

FirstMode(q) == IF q.fn = "disjoint" THEN "start" ELSE Decomposition(q)

LoopChildren(f) ==
    IF f.mode \in {"all_rhs", "any_rhs"}
    THEN f.goal.rhs.children
    ELSE f.goal.lhs.children

LoopGoal(f) ==
    IF f.mode \in {"all_rhs", "any_rhs"}
    THEN Subproof(f.goal.lhs, f.goal.rhs.children[f.i])
    ELSE Subproof(f.goal.lhs.children[f.i], f.goal.rhs)

(***************************************************************************)
(* _all_of_conjunct_disjointness: the conjuncts of the left term, or else  *)
(* of the right one, each against the other term.                          *)
(***************************************************************************)
HasConjuncts(q) == q.lhs.kind = "all_of" \/ q.rhs.kind = "all_of"

Conjuncts(q) == IF q.lhs.kind = "all_of" THEN q.lhs.children ELSE q.rhs.children

OtherTerm(q) == IF q.lhs.kind = "all_of" THEN q.rhs ELSE q.lhs

(***************************************************************************)
(* The question whose answer a frame is waiting for.                       *)
(***************************************************************************)
Awaited(f) ==
    CASE f.mode \in Loops     -> LoopGoal(f)
      [] f.mode = "negation"  -> Disjoint(f.goal.lhs, f.goal.rhs.children[1])
      [] f.mode = "target"    -> Subproof(Target[f.goal.lhs], Target[f.goal.rhs])
      [] f.mode = "rule"      -> RuleGoals[f.goal][f.i]
      [] f.mode = "conjuncts" -> Disjoint(Conjuncts(f.goal)[f.i], OtherTerm(f.goal))
      [] OTHER                -> Subproof(f.goal.lhs, NotTerm(f.goal.rhs))

-----------------------------------------------------------------------------
Init ==
    /\ stack = <<>>
    /\ call = NoCall
    /\ reply = NoReply
    /\ cache = [g \in {} |-> Unsupported]
    /\ active = {}
    /\ limit \in Limits
    /\ spent = 0
    /\ question = NoCall
    /\ asked = 0

(***************************************************************************)
(* A caller (is_subschema, a projection) asks the context a question.  An  *)
(* exception reaches the caller of the library: the context is dropped.    *)
(***************************************************************************)
Ask ==
    /\ stack = <<>> /\ call = NoCall /\ reply # Raised
    /\ asked < MaxQuestions
    /\ \E q \in Questions : call' = q /\ question' = q
    /\ asked' = asked + 1
    /\ reply' = NoReply
    /\ UNCHANGED <<stack, cache, active, limit, spent>>

-----------------------------------------------------------------------------
(* subproof_ir and subproof_terms, up to the driver's call.                *)

Answer(r) ==
    /\ reply' = r
    /\ call' = NoCall

AnswerFromCache ==
    /\ call \in DOMAIN cache
    /\ Answer(cache[call])
    /\ UNCHANGED <<stack, cache, active, spent, question, asked>>

(* Mutant: a question met again is taken to hold.                          *)
AssumeCycle ==
    /\ call.fn = "subproof" /\ call \notin DOMAIN cache
    /\ call \in active
    /\ Answer(Proved)
    /\ UNCHANGED <<stack, cache, active, spent, question, asked>>

(* Mutant: the refusal is remembered as the answer.                        *)
RememberCycle ==
    /\ call.fn = "subproof" /\ call \notin DOMAIN cache
    /\ call \in active
    /\ Answer(Unsupported)
    /\ cache' = [g \in DOMAIN cache \cup {call} |->
                     IF g = call THEN Unsupported ELSE cache[g]]
    /\ UNCHANGED <<stack, active, spent, question, asked>>

RefuseCycle ==
    /\ call.fn = "subproof" /\ call \notin DOMAIN cache
    /\ call \in active
    /\ Answer(Unsupported)
    /\ UNCHANGED <<stack, cache, active, spent, question, asked>>

RefuseExhausted ==
    /\ call.fn = "subproof" /\ call \notin DOMAIN cache
    /\ call \notin active
    /\ ~CanSpend(1)
    /\ Answer(Exhausted)
    /\ UNCHANGED <<stack, cache, active, spent, question, asked>>

EnterSubproof ==
    /\ call.fn = "subproof" /\ call \notin DOMAIN cache
    /\ call \notin active
    /\ CanSpend(1)
    /\ Spend(1)
    /\ active' = active \cup {call}
    /\ stack' = Append(stack, Frame(call, FirstMode(call)))
    /\ call' = NoCall
    /\ UNCHANGED <<reply, cache, question, asked>>

(* terms_are_disjoint is neither cached nor guarded nor metered.           *)
EnterDisjoint ==
    /\ call.fn = "disjoint"
    /\ stack' = Append(stack, Frame(call, FirstMode(call)))
    /\ call' = NoCall
    /\ UNCHANGED <<reply, cache, active, spent, question, asked>>

-----------------------------------------------------------------------------
(* What the innermost frame may do next.                                   *)

Running(mode) == /\ stack # <<>> /\ call = NoCall /\ reply = NoReply
                 /\ Top.mode = mode

Resumed(modes) == /\ stack # <<>> /\ call = NoCall
                  /\ reply \notin {NoReply, Raised}
                  /\ Top.mode \in modes

(* The activation ends: a subproof is cached and is no longer in progress. *)
Return(r) ==
    /\ stack' = Rest
    /\ reply' = r
    /\ IF Top.goal.fn = "subproof"
       THEN /\ cache' = [g \in DOMAIN cache \cup {Top.goal} |->
                            IF g = Top.goal THEN r ELSE cache[g]]
            /\ active' = active \ {Top.goal}
       ELSE UNCHANGED <<cache, active>>
    /\ UNCHANGED <<call, question, asked>>

Become(f) == /\ stack' = Append(Rest, f)
             /\ reply' = NoReply
             /\ UNCHANGED <<call, cache, active, question, asked>>

AskOf(f) == /\ stack' = Append(Rest, f)
            /\ call' = Awaited(f)
            /\ UNCHANGED <<reply, cache, active, spent, question, asked>>

(* Mutant: the loop never moves on from an answered child.                 *)
StandStill(f) == f

Advance(f) == [f EXCEPT !.i = @ + 1]
Keep(f, r) == Advance([f EXCEPT !.kept = r])
KeepFirst(f, r) == IF f.kept = NoReply THEN Keep(f, r) ELSE Advance(f)

-----------------------------------------------------------------------------
(* The decomposition of terms, prover/driver.py.                           *)

(* _prove_true_term_subset_of_node: an excluded value, or a type the node  *)
(* does not allow, refutes the node; otherwise the solver is asked.        *)
TrueAgainstNode ==
    /\ Running("true_node")
    /\ \/ \E w \in Counterexamples(Top.goal) : Return(Refuted(w))
       \/ Become([Top EXCEPT !.mode = "solver"])
    /\ UNCHANGED spent

AskNegation == Running("negation") /\ AskOf(Top)

AnswerNegation ==
    /\ Resumed({"negation"})
    /\ Return(reply)
    /\ UNCHANGED spent

AskLoopChild ==
    /\ \E mode \in Loops : Running(mode)
    /\ Top.i <= Len(LoopChildren(Top))
    /\ AskOf(Top)

(* _prove_lhs_subset_of_all_terms and _prove_any_term_subset_of_rhs.       *)
AnswerEveryLoop ==
    /\ Resumed(EveryLoops)
    /\ CASE reply.status \in {"proved_false", "resource_exhausted"} -> Return(reply)
         [] reply.status = "unsupported" -> Become(KeepFirst(Top, reply))
         [] OTHER                        -> Become(Advance(Top))
    /\ UNCHANGED spent

(* _prove_all_term_subset_of_rhs and _prove_lhs_subset_of_any_term.        *)
AnswerSomeLoop ==
    /\ Resumed(SomeLoops)
    /\ CASE reply.status \in {"proved_true", "resource_exhausted"} -> Return(reply)
         [] reply.status = "unsupported" -> Become(KeepFirst(Top, reply))
         [] OTHER                        -> Become(Advance(Top))
    /\ UNCHANGED spent

(* An every-loop ends with the first unsupported result or a proof; a      *)
(* some-loop with the first unsupported result or at the solver.           *)
EndLoop ==
    /\ \E mode \in Loops : Running(mode)
    /\ Top.i > Len(LoopChildren(Top))
    /\ IF Top.kept # NoReply THEN Return(Top.kept)
       ELSE IF Top.mode \in EveryLoops THEN Return(Proved)
       ELSE Become(Frame(Top.goal, "solver"))
    /\ UNCHANGED spent

-----------------------------------------------------------------------------
(* A leaf, EmptinessSolver.prove_terms_difference_empty.                   *)

SolverTrivial ==
    /\ Running("solver") /\ Top.i = 1
    /\ Top.goal.lhs.kind = "false" \/ Top.goal.rhs.kind = "true"
    /\ Return(Proved)
    /\ UNCHANGED spent

(* Against false only a witness of lhs decides: building one may spend,    *)
(* run out, or give up.                                                    *)
SolverBuildsWitness ==
    /\ Running("solver") /\ Top.i = 1
    /\ Top.goal.rhs.kind = "false" /\ Top.goal.lhs.kind # "false"
    /\ \E n \in 0 .. RuleUnits :
         IF CanSpend(n)
         THEN /\ Spend(n)
              /\ \E r \in {Refuted(w) : w \in Accepts[Top.goal.lhs]} \cup {Unsupported} :
                     Return(r)
         ELSE /\ Return(Exhausted)
              /\ UNCHANGED spent

AtRules ==
    /\ Running("solver")
    /\ Top.goal.lhs.kind # "false" /\ Top.goal.rhs.kind \notin {"true", "false"}

Rules == RuleGoals[Top.goal]

(* Rule i decides by itself, with or without work, runs out, or is         *)
(* unsupported and, when it owns the problem, ends the loop.               *)
RuleDecides ==
    /\ AtRules /\ Top.i <= Len(Rules)
    /\ \E n \in 0 .. RuleUnits :
         IF CanSpend(n)
         THEN /\ Spend(n)
              /\ \/ \E r \in {q \in Results \ {Exhausted} : Sound(Top.goal, q)} :
                        Return(r)
                 \/ Become(Advance(Top))
         ELSE /\ Return(Exhausted)
              /\ UNCHANGED spent

(* A root static or dynamic reference: the rule asks about the targets.    *)
AskTarget ==
    /\ AtRules /\ Top.i <= Len(Rules)
    /\ Top.goal.lhs.kind = "node" /\ Top.goal.rhs.kind = "node"
    /\ Target[Top.goal.lhs] # Top.goal.lhs \/ Target[Top.goal.rhs] # Top.goal.rhs
    /\ AskOf([Top EXCEPT !.mode = "target"])

(* A refutation of the targets needs a witness, and the validator to       *)
(* accept it; anything else is handed on.                                  *)
AnswerTarget ==
    /\ Resumed({"target"})
    /\ IF reply.status = "proved_false"
       THEN \/ reply.witness # Null /\ Return(reply)
            \/ Return(Unsupported)
       ELSE Return(reply)
    /\ UNCHANGED spent

(* Any other rule may ask one question on the way to its own conclusion.   *)
AskRuleGoal ==
    /\ AtRules /\ Top.i <= Len(Rules)
    /\ AskOf([Top EXCEPT !.mode = "rule"])

AnswerRuleGoal ==
    /\ Resumed({"rule"})
    /\ \/ Return(Exhausted) /\ reply = Exhausted
       \/ /\ reply # Exhausted
          /\ \E r \in {q \in Results \ {Exhausted} : Sound(Top.goal, q)} : Return(r)
       \/ reply # Exhausted /\ Become([Advance(Top) EXCEPT !.mode = "solver"])
    /\ UNCHANGED spent

RulesEnd ==
    /\ AtRules /\ Top.i > Len(Rules)
    /\ Return(Unsupported)
    /\ UNCHANGED spent

-----------------------------------------------------------------------------
(* terms_are_disjoint.                                                     *)

StartDisjoint ==
    /\ Running("start")
    /\ LET q == Top.goal IN
         IF "false" \in {q.lhs.kind, q.rhs.kind} THEN Return(Proved)
         ELSE IF "true" \in {q.lhs.kind, q.rhs.kind} THEN Return(Unsupported)
         ELSE IF HasConjuncts(q) /\ OtherTerm(q).kind = "node"
              THEN Become([Top EXCEPT !.mode = "conjuncts"])
              ELSE Become([Top EXCEPT !.mode = "nodes"])
    /\ UNCHANGED spent

NextConjunct == Conjuncts(Top.goal)[Top.i]

AtConjunct == Running("conjuncts") /\ Top.i <= Len(Conjuncts(Top.goal))

AskConjunct ==
    /\ AtConjunct /\ NextConjunct.kind = "node"
    /\ AskOf(Top)

SkipConjunct ==
    /\ AtConjunct /\ NextConjunct.kind # "node"
    /\ Become(KeepFirst(Top, Unsupported))
    /\ UNCHANGED spent

(* Mutant: a shared value of one conjunct is kept as inconclusive too.     *)
KeepAnyConjunct ==
    /\ Resumed({"conjuncts"})
    /\ IF reply.status = "proved_true" THEN Return(reply) ELSE Become(Keep(Top, reply))
    /\ UNCHANGED spent

(* The last inconclusive result is kept, whichever kind it is.             *)
AnswerConjunct ==
    /\ Resumed({"conjuncts"})
    /\ CASE reply.status = "proved_true" -> Return(reply)
         [] reply.status \in {"unsupported", "resource_exhausted"} ->
              Become(Keep(Top, reply))
         [] OTHER -> Become(Advance(Top))
    /\ UNCHANGED spent

EndConjuncts ==
    /\ Running("conjuncts") /\ Top.i > Len(Conjuncts(Top.goal))
    /\ IF Top.kept = Exhausted
       THEN Return(Exhausted)
       ELSE Become([Top EXCEPT !.mode = "nodes"])
    /\ UNCHANGED spent

(* Two nodes may be decided from their values, their types or their        *)
(* structure; otherwise lhs is compared with the complement of rhs.        *)
DecideNodes ==
    /\ Running("nodes")
    /\ Top.goal.lhs.kind = "node" /\ Top.goal.rhs.kind = "node"
    /\ \E n \in 0 .. RuleUnits :
         IF CanSpend(n)
         THEN /\ Spend(n)
              /\ \E r \in {q \in {Proved} \cup Refutations : Sound(Top.goal, q)} :
                     Return(r)
         ELSE /\ Return(Exhausted)
              /\ UNCHANGED spent

AskFallback ==
    /\ Running("nodes")
    /\ AskOf([Top EXCEPT !.mode = "fallback"])

AnswerFallback ==
    /\ Resumed({"fallback"})
    /\ Return(reply)
    /\ UNCHANGED spent

-----------------------------------------------------------------------------
(* A leaf may raise.  The finally clause of subproof_* ends the activation *)
(* and nothing is cached.                                                  *)
Raise ==
    /\ \E mode \in {"solver", "nodes"} : Running(mode)
    /\ reply' = Raised
    /\ UNCHANGED <<stack, call, cache, active, spent, question, asked>>

(* Mutant: an exception leaves the key in progress (no finally clause).    *)
UnwindKeepingKey ==
    /\ stack # <<>> /\ reply = Raised
    /\ stack' = Rest
    /\ UNCHANGED <<call, reply, cache, active, spent, question, asked>>

Unwind ==
    /\ stack # <<>> /\ reply = Raised
    /\ stack' = Rest
    /\ active' = active \ {Top.goal}
    /\ UNCHANGED <<call, reply, cache, spent, question, asked>>

Entry == AnswerFromCache \/ RefuseCycle \/ RefuseExhausted
         \/ EnterSubproof \/ EnterDisjoint

Decompose == TrueAgainstNode \/ AskNegation \/ AnswerNegation \/ AskLoopChild
             \/ AnswerEveryLoop \/ AnswerSomeLoop \/ EndLoop

Solve == SolverTrivial \/ SolverBuildsWitness \/ RuleDecides \/ AskTarget
         \/ AnswerTarget \/ AskRuleGoal \/ AnswerRuleGoal \/ RulesEnd

Separate == StartDisjoint \/ AskConjunct \/ SkipConjunct \/ AnswerConjunct
            \/ EndConjuncts \/ DecideNodes \/ AskFallback \/ AnswerFallback

Work == /\ Entry \/ Decompose \/ Solve \/ Separate \/ Raise \/ Unwind
        /\ UNCHANGED limit

Next == Ask \/ Work

(***************************************************************************)
(* A question runs in one Python thread: it takes every step it can.       *)
(***************************************************************************)
Spec == Init /\ [][Next]_vars /\ WF_vars(Work)

-----------------------------------------------------------------------------
(***************************************************************************)
(* Properties.                                                             *)
(***************************************************************************)
Frames == [goal : Calls, mode : SubproofModes \cup DisjointModes, i : Nat \ {0},
           kept : {NoReply, Unsupported, Exhausted}]

(* Every variable has the shape the code gives it, and a frame is in a     *)
(* stage of the function it is an activation of.                           *)
TypeOK ==
    /\ stack \in Seq(Frames)
    /\ \A k \in 1 .. Len(stack) :
         stack[k].mode \in IF stack[k].goal \in Goals THEN SubproofModes ELSE DisjointModes
    /\ call \in Calls \cup {NoCall}
    /\ reply \in Results \cup {NoReply, Raised}
    /\ DOMAIN cache \subseteq Goals
    /\ \A g \in DOMAIN cache : cache[g] \in Results
    /\ active \subseteq Goals
    /\ limit \in Limits
    /\ spent \in Nat
    /\ question \in Calls \cup {NoCall}
    /\ asked \in 0 .. MaxQuestions

SubproofFrames == {k \in 1 .. Len(stack) : stack[k].goal.fn = "subproof"}

(* What the caller is told is right, and so is every result the context    *)
(* remembers, although some were reached while another question was cut    *)
(* short by a cycle, by the work limit or by an unsupported child.         *)
AnswersAreSound ==
    /\ \A g \in DOMAIN cache : Sound(g, cache[g])
    /\ stack = <<>> => Sound(question, reply)

(* The keys in progress are exactly those of the activations on the        *)
(* Python stack, each there once, and none of them has a result yet:       *)
(* active_subproof_keys never outlives an activation, even one that        *)
(* raised, and never hides one.                                            *)
InProgressIsTheStack ==
    /\ active = {stack[k].goal : k \in SubproofFrames}
    /\ \A j, k \in SubproofFrames : stack[j].goal = stack[k].goal => j = k
    /\ active \cap DOMAIN cache = {}

(* Every question ever entered was paid for, and the meter never passes    *)
(* its limit: with an endeavor budget the recursion is bounded by it.      *)
WorkIsPaidFor ==
    /\ limit # -1 => spent <= limit
    /\ Cardinality(DOMAIN cache) + Cardinality(active) <= spent

(* The context implements the oracle: a result enters the cache once, is   *)
(* right when it does, and is the answer for the life of the context.      *)
Oracle == INSTANCE SubtypeOracle WITH answers <- cache

ImplementsOracle == Oracle!Spec

(* Cycles through references, complements and rules do not keep a caller   *)
(* waiting: the recursion ends with a result or an exception.              *)
EveryQuestionEnds == (call # NoCall) ~> (stack = <<>> /\ call = NoCall)
=============================================================================

------------------------------ MODULE RuleOrder ------------------------------
(***************************************************************************)
(* How the leaf solver turns what its rules say into an answer.  The rules *)
(* are tried in order; one that is unsupported leaves the question to the  *)
(* next, unless its diagnostics are terminal.  Two guards stand behind     *)
(* every rule.  The second matters most: a rule looks at the facts of the  *)
(* two documents, the question may be about composite terms of them, so a  *)
(* counterexample is evaluated again on both terms, in three values, by a  *)
(* validator that may be unable to judge a node.                           *)
(*                                                                         *)
(* The recursion of the evaluation is the variable frames.                 *)
(*                                                                         *)
(* Sources: prover/sat.py, prover/confirmation.py.                         *)
(***************************************************************************)
EXTENDS ProofTerms

CONSTANTS
    Rules,          \* the rules in order: [domain, reliable, guarded, stops, priority]
    Problems,       \* [goal, arrays, dispositions]
    Judged,         \* the pairs <<node, value>> the validator can judge
    MaxDepth        \* deepest nesting of terms that is evaluated (32)

Dispositions == {"deferable", "non_terminal", "terminal"}

ASSUME RulesAssumption ==
    Rules \in Seq([domain : {"array", "object", "other"}, reliable : BOOLEAN,
                   guarded : BOOLEAN, stops : BOOLEAN, priority : Nat])

ASSUME ProblemsAssumption ==
    \A p \in Problems :
      /\ p.goal \in Goals
      /\ p.arrays \in BOOLEAN
      /\ p.dispositions \subseteq Dispositions

ASSUME JudgedAssumption == Judged \subseteq Nodes \X Value

ASSUME DepthAssumption == MaxDepth \in Nat

(* A value is valid for a oneOf when it is for exactly one of its children. *)
ASSUME OneOfAssumption ==
    \A t \in Term : t.kind = "one_of" =>
      Accepts[t] = {v \in Value : \E i \in ChildIndexes(t) :
                      /\ v \in Accepts[t.children[i]]
                      /\ \A j \in ChildIndexes(t) \ {i} : v \notin Accepts[t.children[j]]}

VARIABLES
    problem,    \* the question; whether its left side has arrays only; the
                \* dispositions of what the formula does not support
    rule,       \* the rule to be tried, 0 before the first
    kept,       \* the unsupported rule to be reported, and its priority
    proof,      \* what the current rule says
    at,         \* "solve", "term", "loop", "verdict" or "done"
    side,       \* the side that is evaluated
    frames,     \* the composites being evaluated: [term, next, sure, doubt]
    verdict,    \* the value of a term
    result      \* the answer

vars == <<problem, rule, kept, proof, at, side, frames, verdict, result>>
confirming == <<side, frames, verdict>>

goal == problem.goal

-----------------------------------------------------------------------------
(* What a rule may say.  It looks at the facts of the two documents: what  *)
(* it says of documents is right, but a counterexample of composite terms  *)
(* is any value, and a proof against a composite term may be wrong.  Its   *)
(* certificates are right.                                                 *)
Says(status, witness, certificate, priority, dispositions) ==
    [status |-> status, witness |-> witness, certificate |-> certificate,
     priority |-> priority, dispositions |-> dispositions]

GivesUp(priority, dispositions) == Says("unsupported", Null, FALSE, priority, dispositions)
SaysNothing == GivesUp(0, {})

CompositeRight == goal.rhs.kind \notin {"false", "node", "true"}
BetweenDocuments == goal.lhs.kind = "node" /\ goal.rhs.kind = "node"

Outcomes ==
    {GivesUp(priority, dispositions) : priority \in {0, 5}, dispositions \in {{}, {"deferable"}, {"terminal"}}}
    \cup {Says("resource_exhausted", Null, FALSE, 0, {})}
    \cup (IF Counterexamples(goal) = {} \/ CompositeRight
          THEN {Says("proved_true", Null, FALSE, 0, {})} ELSE {})
    \cup (IF Counterexamples(goal) # {}
          THEN {Says("proved_false", Null, TRUE, 0, {})} ELSE {})
    \cup {Says("proved_false", v, FALSE, 0, {}) :
             v \in (IF BetweenDocuments THEN Counterexamples(goal) ELSE Value)}

-----------------------------------------------------------------------------
(* The guards.                                                             *)
NotDeferable(dispositions) == dispositions \ {"deferable"} # {}

(* _proof_after_rule_class_guard.                                          *)
ClassGuard(r, outcome) ==
    IF outcome.status = "proved_false" /\ Rules[r].guarded /\ NotDeferable(problem.dispositions)
    THEN GivesUp(0, problem.dispositions)
    ELSE IF outcome.status # "unsupported" /\ ~Rules[r].reliable
    THEN SaysNothing
    ELSE outcome

(* A counterexample of composite terms is evaluated on them.               *)
NeedsConfirmation(outcome) ==
    outcome.status = "proved_false" /\ ~outcome.certificate /\ outcome.witness # Null

(* Mutant: only refutations are guarded.                                   *)
TermGuardOnRefutations(outcome) ==
    IF outcome.status = "proved_false" /\ ~outcome.certificate /\ outcome.witness = Null
    THEN SaysNothing ELSE outcome

(* _proof_after_term_confirmation_guard, as far as nothing is evaluated.   *)
TermGuard(outcome) ==
    IF BetweenDocuments THEN outcome
    ELSE IF outcome.status = "proved_true" /\ CompositeRight
    THEN SaysNothing
    ELSE IF outcome.status = "proved_false" /\ ~outcome.certificate /\ outcome.witness = Null
    THEN SaysNothing
    ELSE outcome

(* _rule_unsupported_disposition.                                          *)
Stops(r, outcome) ==
    IF outcome.dispositions # {}
    THEN "terminal" \in outcome.dispositions
    ELSE Rules[r].stops

(* _effective_unsupported_priority.                                        *)
Effective(r, outcome) ==
    IF outcome.priority > Rules[r].priority THEN outcome.priority ELSE Rules[r].priority

(* Mutant: the latest reason is reported.                                  *)
PrefersLatest(r, outcome) == TRUE

(* _preferred_unsupported_result.                                          *)
Prefers(r, outcome) ==
    LET candidate == Effective(r, outcome)
        current == Rules[kept.rule].domain
    IN  IF kept.rule = 0 THEN TRUE
        ELSE IF problem.arrays /\ Rules[r].domain = "array" /\ current # "array" THEN TRUE
        ELSE IF problem.arrays /\ current = "array" /\ Rules[r].domain = "object" THEN FALSE
        ELSE IF candidate # kept.priority THEN candidate > kept.priority
        ELSE kept.priority = 0

-----------------------------------------------------------------------------
Init ==
    /\ problem \in Problems
    /\ rule = 0
    /\ kept = [rule |-> 0, priority |-> 0]
    /\ proof = SaysNothing
    /\ at = "solve"
    /\ side = "lhs" /\ frames = <<>> /\ verdict = "none"
    /\ result = Unsupported

Answer(r) ==
    /\ at' = "done" /\ result' = r
    /\ UNCHANGED <<problem, confirming>>

Returned(outcome) == [status |-> outcome.status, witness |-> outcome.witness]

(* prove_terms_difference_empty: a formula that is empty as it is written. *)
Trivial ==
    /\ at = "solve" /\ rule = 0
    /\ \/ goal.lhs.kind = "false" \/ goal.rhs.kind = "true"
       \/ ~BetweenDocuments /\ Counterexamples(goal) = {}
    /\ Answer(Proved)
    /\ UNCHANGED <<rule, kept, proof>>

(* Nothing is in the false schema: any value of the left will do.          *)
BuildWitness ==
    /\ at = "solve" /\ rule = 0
    /\ goal.lhs.kind # "false" /\ goal.rhs.kind = "false"
    /\ \E r \in {Unsupported, Exhausted} \cup {Refuted(v) : v \in Accepts[goal.lhs]} : Answer(r)
    /\ UNCHANGED <<rule, kept, proof>>

Start ==
    /\ at = "solve" /\ rule = 0
    /\ goal.lhs.kind # "false" /\ goal.rhs.kind \notin {"true", "false"}
    /\ rule' = 1
    /\ UNCHANGED <<problem, kept, proof, at, confirming, result>>

(* A rule that gives up, as itself or for a guard.                         *)
Keep(outcome) ==
    /\ kept' = IF Prefers(rule, outcome)
               THEN [rule |-> rule, priority |-> Effective(rule, outcome)] ELSE kept
    /\ rule' = rule + 1

GiveUp(outcome) ==
    IF Stops(rule, outcome)
    THEN Answer(Unsupported) /\ UNCHANGED <<rule, kept>>
    ELSE Keep(outcome) /\ at' = "solve" /\ UNCHANGED <<problem, confirming, result>>

Try ==
    /\ at = "solve" /\ rule \in DOMAIN Rules
    /\ \E said \in Outcomes :
         LET outcome == TermGuard(ClassGuard(rule, said)) IN
         IF outcome.status = "unsupported"
         THEN GiveUp(outcome) /\ UNCHANGED proof
         ELSE IF ~BetweenDocuments /\ NeedsConfirmation(outcome)
         THEN /\ at' = "term" /\ side' = "lhs" /\ proof' = outcome
              /\ UNCHANGED <<problem, rule, kept, frames, verdict, result>>
         ELSE Answer(Returned(outcome)) /\ UNCHANGED <<rule, kept, proof>>

(* No rule decides: the reason reported is that of the rule kept.          *)
NoRuleLeft ==
    /\ at = "solve" /\ rule = Len(Rules) + 1
    /\ Answer(Unsupported)
    /\ UNCHANGED <<rule, kept, proof>>

-----------------------------------------------------------------------------
(* _confirm_term_valid.                                                    *)
unchangedSolver == <<problem, rule, kept, proof, side, result>>

SideTerm == IF side = "lhs" THEN goal.lhs ELSE goal.rhs

Top == frames[Len(frames)]
term == IF frames = <<>> THEN SideTerm ELSE Top.term.children[Top.next]

Verdict(v) == at' = "verdict" /\ verdict' = v

OfNode ==
    IF <<term, proof.witness>> \notin Judged THEN "unsupported"
    ELSE IF proof.witness \in Accepts[term] THEN "confirmed" ELSE "rejected"

(* Mutants: a level too few, a level too many.                             *)
EvaluateWithin(depth) ==
    /\ at = "term"
    /\ IF Len(frames) > depth THEN Verdict("unsupported") /\ UNCHANGED frames
       ELSE IF term.kind = "node" THEN Verdict(OfNode) /\ UNCHANGED frames
       ELSE /\ at' = "loop"
            /\ frames' = Append(frames, [term |-> term, next |-> 1, sure |-> FALSE, doubt |-> FALSE])
            /\ UNCHANGED verdict
    /\ UNCHANGED unchangedSolver

EvaluateShallow == EvaluateWithin(MaxDepth - 1)

EvaluateDeeper == EvaluateWithin(MaxDepth + 1)

Evaluate ==
    /\ at = "term"
    /\ IF Len(frames) > MaxDepth
       THEN Verdict("unsupported") /\ UNCHANGED frames
       ELSE IF term.kind = "true" THEN Verdict("confirmed") /\ UNCHANGED frames
       ELSE IF term.kind = "false" THEN Verdict("rejected") /\ UNCHANGED frames
       ELSE IF term.kind = "node" THEN Verdict(OfNode) /\ UNCHANGED frames
       ELSE /\ at' = "loop"
            /\ frames' = Append(frames, [term |-> term, next |-> 1, sure |-> FALSE, doubt |-> FALSE])
            /\ UNCHANGED verdict
    /\ UNCHANGED unchangedSolver

Pop == frames' = SubSeq(frames, 1, Len(frames) - 1)
ReplaceTop(f) == frames' = [frames EXCEPT ![Len(frames)] = f]

(* Mutant: children of a oneOf that nobody could judge are forgotten.      *)
TotalOfSure(f) ==
    IF f.doubt /\ ~f.sure THEN "unsupported"
    ELSE IF f.term.kind = "all_of" \/ f.sure THEN "confirmed" ELSE "rejected"

(* The next child, or the value of the whole when there is none left.      *)
Total(f) ==
    IF f.doubt THEN "unsupported"
    ELSE IF f.term.kind = "all_of" \/ f.sure THEN "confirmed" ELSE "rejected"

NextChild ==
    /\ at = "loop" /\ Top.next <= Len(Top.term.children)
    /\ at' = "term"
    /\ UNCHANGED <<unchangedSolver, frames, verdict>>

AllChildren ==
    /\ at = "loop" /\ Top.next > Len(Top.term.children)
    /\ Verdict(Total(Top)) /\ Pop
    /\ UNCHANGED unchangedSolver

(* The value of a child decides the whole, or is remembered.               *)
Decides(f, v) ==
    \/ f.term.kind = "all_of" /\ v = "rejected"
    \/ f.term.kind = "any_of" /\ v = "confirmed"
    \/ f.term.kind = "one_of" /\ v = "confirmed" /\ f.sure
    \/ f.term.kind = "not"

Decided(f, v) ==
    IF f.term.kind = "any_of" THEN "confirmed"
    ELSE IF f.term.kind # "not" THEN "rejected"
    ELSE IF v = "confirmed" THEN "rejected"
    ELSE IF v = "rejected" THEN "confirmed" ELSE "unsupported"

Remember(f, v) ==
    [term |-> f.term, next |-> f.next + 1,
     sure |-> f.sure \/ (f.term.kind = "one_of" /\ v = "confirmed"),
     doubt |-> f.doubt \/ v = "unsupported"]

Fold ==
    /\ at = "verdict" /\ frames # <<>>
    /\ IF Decides(Top, verdict)
       THEN Verdict(Decided(Top, verdict)) /\ Pop
       ELSE at' = "loop" /\ ReplaceTop(Remember(Top, verdict)) /\ UNCHANGED verdict
    /\ UNCHANGED unchangedSolver

(* confirm_term_difference: the left must accept, the right must reject.   *)
ConfirmRight ==
    /\ at = "verdict" /\ frames = <<>> /\ side = "lhs" /\ verdict = "confirmed"
    /\ at' = "term" /\ side' = "rhs"
    /\ UNCHANGED <<problem, rule, kept, proof, frames, verdict, result>>

Confirm ==
    /\ at = "verdict" /\ frames = <<>> /\ side = "rhs" /\ verdict = "rejected"
    /\ Answer(Refuted(proof.witness))
    /\ UNCHANGED <<rule, kept, proof>>

Reject ==
    /\ at = "verdict" /\ frames = <<>>
    /\ verdict # (IF side = "lhs" THEN "confirmed" ELSE "rejected")
    /\ GiveUp(SaysNothing)
    /\ UNCHANGED proof

Next ==
    \/ Trivial \/ BuildWitness \/ Start \/ Try \/ NoRuleLeft
    \/ Evaluate \/ NextChild \/ AllChildren \/ Fold \/ ConfirmRight \/ Confirm \/ Reject

Spec == Init /\ [][Next]_vars

-----------------------------------------------------------------------------
Verdicts == {"confirmed", "rejected", "unsupported"}

FrameOK(f) ==
    /\ f.term \in Term /\ f.term.kind \notin {"node", "true", "false"}
    /\ f.next \in 1 .. Len(f.term.children) + 1
    /\ f.sure \in BOOLEAN /\ f.doubt \in BOOLEAN

(* Types: the solver runs off neither its rules nor the children of a      *)
(* term, and evaluates no deeper than it may.                              *)
TypeOK ==
    /\ problem \in Problems
    /\ rule \in 0 .. Len(Rules) + 1
    /\ kept.rule \in 0 .. Len(Rules) /\ kept.priority \in Nat
    /\ proof.witness \in Value \cup {Null}
    /\ at \in {"solve", "term", "loop", "verdict", "done"}
    /\ side \in {"lhs", "rhs"}
    /\ Len(frames) <= MaxDepth + 1
    /\ \A i \in DOMAIN frames : FrameOK(frames[i])
    /\ verdict \in Verdicts \cup {"none"}
    /\ result \in Results

(* The answer is right, whatever the rules say of composite terms: their   *)
(* counterexamples are evaluated, their proofs are used for documents and  *)
(* constants alone (_proof_after_term_confirmation_guard).                 *)
AnswersAreSound == at = "done" => Sound(goal, result)

(* Three-valued evaluation is right at every depth: "confirmed" and        *)
(* "rejected" are what the term means, however many of its parts could not *)
(* be judged (_confirm_term_valid).                                        *)
RightFor(t, v) ==
    /\ v = "confirmed" => proof.witness \in Accepts[t]
    /\ v = "rejected" => proof.witness \notin Accepts[t]

VerdictsAreRight == at = "verdict" => RightFor(term, verdict)

(* A verdict is missing only for a reason: a node nobody can judge, or a   *)
(* term that is too deep (_confirm_term_valid: depth).                     *)
Within[levels \in Nat] ==
    IF levels = 0 THEN {}
    ELSE {t \in Term : \A i \in ChildIndexes(t) : t.children[i] \in Within[levels - 1]}

DoubtHasAReason ==
    at = "verdict" /\ frames = <<>> /\ verdict = "unsupported" =>
      \/ term \notin Within[MaxDepth + 1]
      \/ \E n \in Nodes : <<n, proof.witness>> \notin Judged

(* The reason that is reported when no rule decides: a strong reason is    *)
(* not replaced by a weaker one, and for arrays the reason of an array     *)
(* rule not by that of an object rule (_preferred_unsupported_result).     *)
ReasonGetsNoWorse ==
    kept.rule # 0 =>
      IF problem.arrays
      THEN Rules[kept.rule].domain = "array" => Rules[kept'.rule].domain # "object"
      ELSE kept'.priority >= kept.priority

ReasonsAreNotLost == [][ReasonGetsNoWorse]_vars
=============================================================================

----------------------- MODULE ApplicatorRulesProofs -----------------------
(***************************************************************************)
(* The soundness of the applicator rules, for every set of values and      *)
(* every set of trusted problems.                                          *)
(*                                                                         *)
(* The invariant says, stage by stage, what the rule has learnt: which     *)
(* branches its loop has passed and what passing one means, which branches *)
(* cover the left side, what the base is known for, and what the result of *)
(* the branches is good for while the base is still to be asked about.     *)
(***************************************************************************)
EXTENDS ApplicatorRules, TLAPS, FiniteSetTheorems

(***************************************************************************)
(* What the theorem is proved from: no certificates for the single         *)
(* branches of a rule that returns them as its own, and no tagged oneOf    *)
(* with siblings or with values that are no objects on the left.  Without  *)
(* either the rules are not sound (RulesCertified.cfg, RulesTagged.cfg).   *)
(***************************************************************************)
OneBranchRules == {"left-oneof", "left-allof", "right-anyof", "right-oneof"}

TrustedProblems ==
    \A p \in Problems :
        /\ p.certified => p.rule \notin OneBranchRules
        /\ p.tag # 0 => p.base = NoBase /\ p.other \subseteq Objects

-----------------------------------------------------------------------------
(* The invariant.                                                          *)

(* A refutation that is right for the two schemas.                         *)
Right(r) ==
    IsRefutation(r) => Lhs \ Rhs # {} /\ r.witness \in (Lhs \ Rhs) \cup {None}

(* A result the branches may have.                                         *)
Justified(r) ==
    /\ Right(r)
    /\ r = Proved => IF Rule \in LeftRules \cup Conditionals THEN Lhs \subseteq Rhs
                     ELSE ~OnlyRefutes /\ \A v \in LhsWithBase : Applied(v)

(* What a rule knows of a branch it has passed.                            *)
Passed(k) ==
    /\ Rule \in {"left-anyof", "left-oneof"} => Base \cap Children[k] \subseteq Rhs
    /\ Rule = "left-if" => Base \cap Condition(k) \cap Consequent(k) \subseteq Rhs
    /\ Rule = "right-if" => Lhs \cap Condition(k) \subseteq Consequent(k)
    /\ Rule = "right-allof" => Lhs \subseteq Children[k]

NotStages == {"contrapositive", "double", "apart", "strings", "within", "witness", "common"}

StageFits(s) ==
    /\ s \in {"tagged", "plan", "select", "overlap", "others", "disjoint"} =>
         Rule = "right-oneof"
    /\ s = "tagged" => problem.tag # 0
    /\ s \in {"items", "spread", "parts"} => Rule = "right-anyof"
    /\ s \in {"spread", "parts"} => problem.parts # <<>>
    /\ s \in NotStages => Rule = "right-not"
    /\ s = "covering" => Rule = "right-if"
    /\ s = "base" => Rule \notin {"left-anyof", "left-oneof", "left-allof"}
    /\ s \in {"branches", "budget"} => Rule # "right-not"

(* What a rule knows when it comes to a stage.                             *)
StageKnown(s) ==
    /\ StageFits(s)
    /\ s \in {"tagged", "plan", "budget", "base"} /\ ~(s = "base" /\ Rule = "right-anyof") =>
         i = 1
    /\ s \in {"branches", "covering"} /\ ~undecided =>
         \A k \in Indexes : k < i => Passed(k)
    /\ s \in {"others", "disjoint"} => Cardinality(covering) = 1
    /\ s = "disjoint" =>
         \A k \in Indexes \ covering : k < i => LhsWithBase \cap Children[k] = {}
    /\ s = "parts" /\ ~undecided =>
         \A k \in DOMAIN problem.parts : k < i => problem.parts[k] \subseteq Rhs
    /\ s = "base" /\ Rule = "right-anyof" => ~IsRefutation(branch) /\ Justified(branch)
    /\ s = "witness" => LhsWithBase \subseteq Negated

BaseKnown ==
    /\ ~IsRefutation(base)
    /\ base = Proved /\ Rule \notin LeftRules => Lhs \subseteq Base

CoveringKnown ==
    Rule = "right-oneof" => covering \subseteq {k \in Indexes : LhsWithBase \subseteq Children[k]}

Inv ==
    /\ problem \in Problems
    /\ i \in Nat \ {0}
    /\ BaseKnown
    /\ CoveringKnown
    /\ StageKnown(stage)
    /\ ResultsAreSound

-----------------------------------------------------------------------------
(* Results.                                                                *)

(* The results are told apart by their status.                             *)
LEMMA ResultsDiffer ==
    /\ ~IsRefutation(Proved) /\ ~IsRefutation(Unsupported) /\ ~IsRefutation(Exhausted)
    /\ Proved # Unsupported /\ Proved # Exhausted /\ Unsupported # Exhausted
    /\ IsRefutation(Certified) /\ Certified.witness = None
    /\ \A w : IsRefutation(Refuted(w)) /\ Refuted(w).witness = w
  BY DEF IsRefutation, Proved, Unsupported, Exhausted, Certified, Refuted

(* What an answer of the context says of the counterexamples.              *)
LEMMA DecisionsAreRight ==
    ASSUME NEW C \in SUBSET Value, NEW r \in Decisions(C)
    PROVE  /\ r = Proved => C = {}
           /\ IsRefutation(r) => C # {}
           /\ r.witness = None /\ IsRefutation(r) => r = Certified
           /\ r = Certified => problem.certified
           /\ r \in {Proved, Unsupported, Exhausted} \/ IsRefutation(r)
  <1>1. CASE r \in Refutations(C)
    <2>1. CASE r \in {Refuted(w) : w \in C}
      <3>1. PICK w \in C : r = Refuted(w)
        BY <2>1
      <3>2. r.witness # None
        BY <3>1, ResultsDiffer, NoneAssumption
      <3> QED BY <3>1, <3>2, ResultsDiffer
    <2>2. CASE r = Certified /\ problem.certified /\ C # {}
      BY <2>2, ResultsDiffer
    <2> QED BY <1>1, <2>1, <2>2 DEF Refutations
  <1>2. CASE r \in {Unsupported, Exhausted}
    BY <1>2, ResultsDiffer
  <1>3. CASE r = Proved /\ C = {}
    BY <1>3, ResultsDiffer
  <1> QED BY <1>1, <1>2, <1>3 DEF Decisions, GivesUp

(* The same of what the witness builder answers about a term.              *)
LEMMA WitnessesAreRight ==
    ASSUME NEW S \in SUBSET Value, NEW r \in Witnesses(S)
    PROVE  /\ r # Proved
           /\ IsRefutation(r) => S # {}
           /\ r.witness = None /\ IsRefutation(r) => r = Certified
           /\ r = Certified => problem.certified
  <1>1. CASE r \in Refutations(S)
    <2>1. r \in Decisions(S)
      BY <1>1 DEF Decisions
    <2>2. r # Proved
      BY <1>1, ResultsDiffer DEF Refutations
    <2> QED BY <2>1, <2>2, DecisionsAreRight
  <1>2. CASE r \in {Unsupported, Exhausted}
    BY <1>2, ResultsDiffer
  <1> QED BY <1>1, <1>2 DEF Witnesses, GivesUp

(* A validated witness refutes the two schemas.                            *)
LEMMA ValidationsAreRight ==
    ASSUME NEW w, NEW v \in Validations(w)
    PROVE  Right(v) /\ v # Proved
  BY ResultsDiffer DEF Validations, Right

(* A refutation of a question is good for the whole when it is validated,  *)
(* or when its certificate is.                                             *)
LEMMA ConfirmedIsRight ==
    ASSUME NEW r, r.witness = None => Right(r) /\ r # Proved, NEW c \in Confirmed(r)
    PROVE  Right(c) /\ c # Proved
  BY ValidationsAreRight DEF Confirmed

-----------------------------------------------------------------------------
(* The problem never changes.                                              *)

(* What is defined from the problem alone stays as it is.                  *)
LEMMA SameProblem ==
    ASSUME problem' = problem
    PROVE  /\ Rule' = Rule /\ Children' = Children /\ Indexes' = Indexes
           /\ Base' = Base /\ Lhs' = Lhs /\ Rhs' = Rhs /\ LhsWithBase' = LhsWithBase
           /\ Negated' = Negated /\ OnlyRefutes' = OnlyRefutes
           /\ \A k : Passed(k)' <=> Passed(k)
           /\ \A v : Applied(v)' <=> Applied(v)
  <1>1. Rule' = Rule /\ Children' = Children /\ Indexes' = Indexes /\ Base' = Base
    BY DEF Rule, Children, Indexes, Base
  <1>2. LhsWithBase' = LhsWithBase /\ Negated' = Negated /\ OnlyRefutes' = OnlyRefutes
    BY <1>1 DEF LhsWithBase, Negated, OnlyRefutes
  <1>3. \A v : Accepting(v)' = Accepting(v)
    BY <1>1 DEF Accepting
  <1>4. \A k : Condition(k)' = Condition(k) /\ Consequent(k)' = Consequent(k)
    BY <1>1 DEF Condition, Consequent
  <1>5. \A v : Applied(v)' <=> Applied(v)
    BY <1>1, <1>3, <1>4 DEF Applied
  <1>6. Composite' = Composite
    BY <1>1, <1>5 DEF Composite
  <1>7. Lhs' = Lhs /\ Rhs' = Rhs
    BY <1>1, <1>6 DEF Lhs, Rhs
  <1>8. \A k : Passed(k)' <=> Passed(k)
    BY <1>1, <1>4, <1>7 DEF Passed
  <1> QED BY <1>1, <1>2, <1>5, <1>7, <1>8

-----------------------------------------------------------------------------
(* The two sides.                                                          *)

(* Every side, and every child outside an if, is a set of values, and the  *)
(* children are a finite list.                                             *)
LEMMA ChildrenFacts ==
    ASSUME problem \in Problems
    PROVE  /\ Rule \in Rules
           /\ Indexes = 1 .. Len(Children) /\ Len(Children) \in Nat
           /\ Indexes \subseteq Nat /\ IsFiniteSet(Indexes)
           /\ Rule \notin Conditionals => \A k \in Indexes : Children[k] \subseteq Value
           /\ Rule \in Conditionals => Indexes = {1, 2}
           /\ Rule = "right-not" => Indexes = {1}
           /\ problem.other \subseteq Value /\ Base \subseteq Value
           /\ Lhs \subseteq Value /\ LhsWithBase \subseteq Value
           /\ \A k : Condition(k) \subseteq Value
           /\ \A k \in Indexes : Consequent(k) \subseteq Value
  <1>1. /\ Rule \in Rules
        /\ problem.base \in (SUBSET Value) \cup {NoBase}
        /\ Children \in Seq((SUBSET Value) \cup {Absent})
        /\ Rule \notin Conditionals => Children \in Seq(SUBSET Value)
        /\ Rule \in Conditionals => Len(Children) = 2
        /\ Rule = "right-not" => Len(Children) = 1
        /\ problem.other \subseteq Value /\ problem.condition \subseteq Value
    BY ProblemAssumption DEF Rule, Children
  <1>2. Indexes = 1 .. Len(Children) /\ Len(Children) \in Nat
    BY <1>1 DEF Indexes
  <1>3. Indexes \subseteq Nat /\ IsFiniteSet(Indexes)
    BY <1>2, FS_Interval
  <1>4. Rule \notin Conditionals => \A k \in Indexes : Children[k] \subseteq Value
    BY <1>1, <1>2
  <1>5. /\ Rule \in Conditionals => Indexes = {1, 2}
        /\ Rule = "right-not" => Indexes = {1}
    <2>1. 1 .. 2 = {1, 2} /\ 1 .. 1 = {1}
      OBVIOUS
    <2> QED BY <1>1, <1>2, <2>1
  <1>6. Base \subseteq Value
    BY <1>1 DEF Base
  <1>7. Lhs \subseteq Value /\ LhsWithBase \subseteq Value
    BY <1>1, <1>6 DEF Lhs, Composite, LhsWithBase
  <1>8. \A k : Condition(k) \subseteq Value
    BY <1>1 DEF Condition
  <1>9. \A k \in Indexes : Consequent(k) \subseteq Value
    BY <1>1, <1>2 DEF Consequent
  <1> QED BY <1>1, <1>2, <1>3, <1>4, <1>5, <1>6, <1>7, <1>8, <1>9

-----------------------------------------------------------------------------
(* The four ways a step ends.                                              *)

(* What a rule knows of its stage does not change while it stays there.    *)
LEMMA SameStage ==
    ASSUME UNCHANGED vars
    PROVE  Inv' <=> Inv
  <1>1. UNCHANGED <<problem, stage, i, undecided, covering, base, branch, result>>
    BY DEF vars
  <1> QED
    BY <1>1, SameProblem DEF Inv, BaseKnown, CoveringKnown, StageKnown, StageFits,
       ResultsAreSound, Justified, Right, IsRefutation

(* A rule may return what is right for the two schemas.                    *)
LEMMA Returning ==
    ASSUME Inv, NEW r, Right(r), r = Proved => Lhs \subseteq Rhs, Return(r)
    PROVE  Inv'
  <1>1. /\ stage' = "done" /\ result' = r
        /\ UNCHANGED <<problem, i, undecided, covering, base, branch>>
    BY DEF Return
  <1>2. problem' \in Problems /\ i' \in Nat \ {0} /\ BaseKnown' /\ CoveringKnown'
    BY <1>1, SameProblem DEF Inv, BaseKnown, CoveringKnown, IsRefutation
  <1>3. StageKnown(stage)'
    BY <1>1 DEF StageKnown, StageFits, NotStages
  <1>4. ResultsAreSound'
    BY <1>1, SameProblem DEF ResultsAreSound, Right, IsRefutation
  <1> QED BY <1>2, <1>3, <1>4 DEF Inv

(* A rule may go on to a stage when it knows what the stage builds on.     *)
LEMMA Going ==
    ASSUME Inv, NEW s, StageKnown(s), Go(s)
    PROVE  Inv'
  <1>1. /\ stage' = s
        /\ UNCHANGED <<problem, i, undecided, covering, base, branch, result>>
    BY DEF Go
  <1>2. problem' \in Problems /\ i' \in Nat \ {0} /\ BaseKnown' /\ CoveringKnown'
    BY <1>1, SameProblem DEF Inv, BaseKnown, CoveringKnown, IsRefutation
  <1>3. StageKnown(stage)'
    BY <1>1, SameProblem DEF StageKnown, StageFits, Justified, Right, IsRefutation
  <1>4. ResultsAreSound'
    BY <1>1, SameProblem DEF Inv, ResultsAreSound, IsRefutation
  <1> QED BY <1>2, <1>3, <1>4 DEF Inv

(* The right side of a rule for the left schema is what its base and its   *)
(* applicator accept together.                                             *)
LEMMA RightSide ==
    ASSUME Rule \notin LeftRules, Lhs \subseteq Base, \A v \in LhsWithBase : Applied(v)
    PROVE  Lhs \subseteq Rhs
  BY DEF Lhs, Rhs, Composite, LhsWithBase

(* The result for the branches may be combined with the base.              *)
LEMMA Ending ==
    ASSUME Inv, NEW r, Justified(r), EndBranches(r)
    PROVE  Inv'
  <1>1. CASE Rule \in LeftRules \cup Conditionals \/ OnlyRefutes
    <2>1. Return(r)
      BY <1>1 DEF EndBranches
    <2> QED BY <1>1, <2>1, Returning DEF Justified
  <1>2. CASE Rule \notin LeftRules \cup Conditionals /\ ~OnlyRefutes /\ Rule # "right-anyof"
    <2>1. Return(WithBase(r))
      BY <1>2 DEF EndBranches
    <2>2. Right(WithBase(r))
      BY ResultsDiffer DEF Inv, BaseKnown, Justified, Right, WithBase
    <2>3. WithBase(r) = Proved => Lhs \subseteq Rhs
      <3>1. SUFFICES ASSUME WithBase(r) = Proved PROVE Lhs \subseteq Rhs
        OBVIOUS
      <3>2. r = Proved /\ base = Proved
        BY <3>1, ResultsDiffer DEF WithBase
      <3>3. Lhs \subseteq Base /\ \A v \in LhsWithBase : Applied(v)
        BY <1>2, <3>2 DEF Inv, BaseKnown, Justified
      <3> QED BY <1>2, <3>3, RightSide
    <2> QED BY <2>1, <2>2, <2>3, Returning
  <1>3. CASE Rule = "right-anyof" /\ (IsRefutation(r) \/ r = Exhausted)
    <2>1. Return(r)
      BY <1>3 DEF EndBranches, LeftRules, Conditionals, OnlyRefutes
    <2> QED BY <1>3, <2>1, Returning, ResultsDiffer DEF Justified
  <1>4. CASE Rule = "right-anyof" /\ ~IsRefutation(r) /\ r # Exhausted
    <2>1. /\ stage' = "base" /\ branch' = r
          /\ UNCHANGED <<problem, i, undecided, covering, base, result>>
      BY <1>4 DEF EndBranches, LeftRules, Conditionals, OnlyRefutes
    <2>2. problem' \in Problems /\ i' \in Nat \ {0} /\ BaseKnown' /\ CoveringKnown'
      BY <2>1, SameProblem DEF Inv, BaseKnown, CoveringKnown, IsRefutation
    <2>3. StageKnown(stage)'
      BY <1>4, <2>1, SameProblem DEF StageKnown, StageFits, NotStages, Justified, Right,
         IsRefutation
    <2>4. ResultsAreSound'
      BY <2>1, SameProblem DEF Inv, ResultsAreSound, IsRefutation
    <2> QED BY <2>2, <2>3, <2>4 DEF Inv
  <1> QED BY <1>1, <1>2, <1>3, <1>4

(* A loop may go on to the next branch when the one it leaves is passed,   *)
(* or recorded, and covers what it is kept for.                            *)
LEMMA NextBranching ==
    ASSUME Inv, stage \in {"branches", "covering"}, NEW record \in BOOLEAN, NEW cover,
           ~record => Passed(i),
           cover \subseteq {k \in Indexes : LhsWithBase \subseteq Children[k]},
           NextBranch(record, cover)
    PROVE  Inv'
  <1>1. /\ i' = i + 1 /\ stage' = FirstBranch /\ undecided' = (undecided \/ record)
        /\ covering' = covering \cup cover
        /\ UNCHANGED <<problem, base, branch, result>>
    BY DEF NextBranch
  <1>2. stage' \in {"branches", "covering"}
    BY <1>1 DEF FirstBranch
  <1>3. problem' \in Problems /\ i' \in Nat \ {0} /\ BaseKnown'
    BY <1>1, SameProblem DEF Inv, BaseKnown, IsRefutation
  <1>4. CoveringKnown'
    BY <1>1, SameProblem DEF Inv, CoveringKnown
  <1>5. StageFits(stage)'
    BY <1>1, SameProblem DEF Inv, StageKnown, StageFits, FirstBranch, NotStages
  <1>6. ~undecided' => \A k \in Indexes : k < i' => Passed(k)
    <2>1. SUFFICES ASSUME ~undecided', NEW k \in Indexes, k < i' PROVE Passed(k)
      OBVIOUS
    <2>2. ~undecided /\ ~record
      BY <1>1, <2>1
    <2>3. \A m \in Indexes : m < i => Passed(m)
      BY <2>2 DEF Inv, StageKnown
    <2>4. k \in Nat
      BY ChildrenFacts DEF Inv
    <2>5. k < i \/ k = i
      BY <1>1, <2>1, <2>4 DEF Inv
    <2> QED BY <2>2, <2>3, <2>5
  <1>7. StageKnown(stage)'
    BY <1>1, <1>2, <1>5, <1>6, SameProblem DEF StageKnown
  <1>8. ResultsAreSound'
    BY <1>1, SameProblem DEF Inv, ResultsAreSound, IsRefutation
  <1> QED BY <1>3, <1>4, <1>7, <1>8 DEF Inv

-----------------------------------------------------------------------------
(* Results that end the branches.                                          *)

(* A refutation that is right, and a question left open, end them.         *)
LEMMA RefutingEnds ==
    ASSUME Inv, NEW r, Right(r), r # Proved, EndBranches(r)
    PROVE  Inv'
  BY Ending DEF Justified

LEMMA UndecidedEnds ==
    ASSUME Inv, NEW r \in {Unsupported, Exhausted}, EndBranches(r)
    PROVE  Inv'
  BY RefutingEnds, ResultsDiffer DEF Right

(* So does what a refutation is good for, if its certificate is right.     *)
LEMMA ConfirmedEnds ==
    ASSUME Inv, NEW r, IsRefutation(r), r.witness = None => Right(r),
           NEW c \in Confirmed(r), EndBranches(c)
    PROVE  Inv'
  BY ConfirmedIsRight, RefutingEnds, ResultsDiffer

(* A value of the left side that the base or the applicator rejects.       *)
LEMMA CertifiedIsRight ==
    ASSUME Rule \notin LeftRules, NEW v \in Lhs, v \notin Base \/ ~Applied(v)
    PROVE  Lhs \ Rhs # {} /\ Right(Certified)
  <1>1. v \notin Rhs
    BY DEF Rhs, Composite
  <1> QED BY <1>1, ResultsDiffer DEF Right

-----------------------------------------------------------------------------
(* The loop over the branches.                                             *)

(* What an answer says of its branch.                                      *)
LEMMA BranchAnswersAreRight ==
    ASSUME Inv, TrustedProblems, NEW r \in BranchAnswers
    PROVE  /\ stage = "branches" /\ i \in Indexes
           /\ r = Proved => Passed(i)
           /\ r = Proved /\ Rule = "left-allof" => Base \cap Children[i] \subseteq Rhs
           /\ r = Proved /\ Rule = "right-anyof" => Lhs \subseteq Children[i]
           /\ r = Proved /\ Rule = "right-oneof" => LhsWithBase \subseteq Children[i]
           /\ r = Certified => Rule \notin OneBranchRules
           /\ r = Certified /\ Rule = "right-allof" => Lhs \ Children[i] # {}
  <1>1. stage = "branches" /\ i \in Indexes /\ Rule # "right-not"
    BY DEF BranchAnswers, Inv, StageKnown, StageFits
  <1>2. CASE r = Unsupported
    BY <1>1, <1>2, ResultsDiffer
  <1>3. CASE r \in BranchQuestion(i)
    <2>1. problem \in Problems
      BY DEF Inv
    <2>2. problem.certified => Rule \notin OneBranchRules
      BY <2>1 DEF TrustedProblems, Rule
    <2> DEFINE L == IF Rule = "left-if" THEN Base \cap Condition(i) \cap Consequent(i)
                    ELSE IF Rule \in LeftRules THEN Base \cap Children[i]
                    ELSE IF Rule = "right-if" THEN Lhs \cap Condition(i)
                    ELSE IF Rule = "right-oneof" THEN LhsWithBase ELSE Lhs
               R == IF Rule \in LeftRules THEN Rhs
                    ELSE IF Rule = "right-if" THEN Consequent(i) ELSE Children[i]
    <2>3. r \in Decisions(L \ R)
      BY <1>3 DEF BranchQuestion, Inclusion, LeftRules
    <2>4. L \subseteq Value
      BY <2>1, ChildrenFacts
    <2>5. /\ r = Proved => L \subseteq R
          /\ r = Certified => L \ R # {} /\ problem.certified
      <3> HIDE DEF L, R
      <3> QED BY <2>3, <2>4, DecisionsAreRight, ResultsDiffer
    <2>6. r = Proved => Passed(i)
      BY <2>5 DEF Passed, LeftRules
    <2> QED BY <1>1, <2>2, <2>5, <2>6 DEF LeftRules
  <1> QED BY <1>1, <1>2, <1>3 DEF BranchAnswers

(* The loop goes on past a branch that is passed or recorded.              *)
LEMMA ContinueLoopKeeps ==
    ASSUME Inv, TrustedProblems, ContinueLoop
    PROVE  Inv'
  <1>1. PICK r \in BranchAnswers :
          /\ Choice(r) \in {"continue", "record", "cover"}
          /\ NextBranch(Choice(r) = "record", IF Choice(r) = "cover" THEN {i} ELSE {})
    BY DEF ContinueLoop
  <1>2. Choice(r) # "record" => r = Proved
    BY <1>1 DEF Choice
  <1>3. Choice(r) = "cover" => r = Proved /\ Rule = "right-oneof"
    BY <1>1 DEF Choice
  <1> DEFINE record == Choice(r) = "record"
             cover == IF Choice(r) = "cover" THEN {i} ELSE {}
  <1>4. ~record => Passed(i)
    BY <1>2, BranchAnswersAreRight
  <1>5. cover \subseteq {k \in Indexes : LhsWithBase \subseteq Children[k]}
    BY <1>3, BranchAnswersAreRight
  <1>6. stage = "branches" /\ record \in BOOLEAN /\ NextBranch(record, cover)
    BY <1>1, BranchAnswersAreRight
  <1> QED
    <2> HIDE DEF record, cover
    <2> QED BY <1>4, <1>5, <1>6, NextBranching

(* The result of one branch is the result of all of them only where one    *)
(* branch decides the rule.                                                *)
LEMMA LeaveLoopKeeps ==
    ASSUME Inv, TrustedProblems, LeaveLoop
    PROVE  Inv'
  <1>1. PICK r \in BranchAnswers :
          /\ Choice(r) \in {"return", "give up"}
          /\ EndBranches(IF Choice(r) = "return" THEN r ELSE Unsupported)
    BY DEF LeaveLoop
  <1>2. CASE Choice(r) = "give up"
    BY <1>1, <1>2, UndecidedEnds
  <1>3. CASE Choice(r) = "return" /\ r \in {Unsupported, Exhausted}
    BY <1>1, <1>3, UndecidedEnds
  <1>4. CASE Choice(r) = "return" /\ r = Proved
    <2>1. Rule \in {"left-allof", "right-anyof"}
      BY <1>4 DEF Choice
    <2>2. Rule = "left-allof" => Lhs \subseteq Rhs
      BY <1>4, BranchAnswersAreRight DEF Lhs, Composite, Applied, LeftRules, Accepting
    <2>3. Rule = "right-anyof" => \A v \in LhsWithBase : Applied(v)
      BY <1>4, BranchAnswersAreRight
         DEF Lhs, LhsWithBase, Applied, LeftRules, Accepting
    <2>4. Justified(r)
      BY <1>4, <2>1, <2>2, <2>3, ResultsDiffer
         DEF Justified, Right, LeftRules, Conditionals, OnlyRefutes
    <2> QED BY <1>1, <1>4, <2>4, Ending
  <1>5. CASE Choice(r) = "return" /\ r = Certified
    <2>1. Rule = "right-allof"
      BY <1>5, BranchAnswersAreRight, ResultsDiffer, ChildrenFacts
         DEF Choice, Rules, OneBranchRules, Conditionals, Inv, StageKnown, StageFits
    <2>2. PICK v \in Lhs : v \notin Children[i]
      BY <1>5, <2>1, BranchAnswersAreRight
    <2>3. ~Applied(v)
      BY <2>1, <2>2, BranchAnswersAreRight DEF Applied, Accepting
    <2>4. Right(Certified)
      BY <2>1, <2>2, <2>3, CertifiedIsRight DEF LeftRules
    <2> QED BY <1>1, <1>5, <2>4, RefutingEnds, ResultsDiffer
  <1> QED BY <1>1, <1>2, <1>3, <1>4, <1>5 DEF Choice

(* A witness of a branch refutes the two schemas, or the branch is passed  *)
(* where that says nothing, or it is recorded.                             *)
LEMMA ValidateBranchKeeps ==
    ASSUME Inv, TrustedProblems, ValidateBranch
    PROVE  Inv'
  <1> PICK r \in BranchAnswers :
          \E v \in Validations(r.witness) :
             IF v # Unsupported \/ AfterRejection = "give up" THEN EndBranches(v)
             ELSE NextBranch(AfterRejection = "record", {})
    BY DEF ValidateBranch
  <1>1. PICK v \in Validations(r.witness) :
          IF v # Unsupported \/ AfterRejection = "give up" THEN EndBranches(v)
          ELSE NextBranch(AfterRejection = "record", {})
    OBVIOUS
  <1>2. CASE v # Unsupported \/ AfterRejection = "give up"
    BY <1>1, <1>2, ValidationsAreRight, RefutingEnds
  <1>3. CASE ~(v # Unsupported \/ AfterRejection = "give up")
    <2>1. AfterRejection # "record" => Passed(i)
      BY <1>3 DEF AfterRejection, Passed, Conditionals
    <2>2. stage = "branches"
      BY BranchAnswersAreRight
    <2> DEFINE record == AfterRejection = "record"
    <2>3. record \in BOOLEAN /\ NextBranch(record, {})
      BY <1>1, <1>3
    <2> QED
      <3>1. ~record => Passed(i)
        BY <2>1
      <3> HIDE DEF record
      <3> QED BY <2>2, <2>3, <3>1, NextBranching
  <1> QED BY <1>2, <1>3

(* The loop has an end: when its index is past the branches, every branch  *)
(* has been passed.                                                        *)
LEMMA AllPassed ==
    ASSUME Inv, stage \in {"branches", "covering"}, i \notin Indexes, ~undecided
    PROVE  \A k \in Indexes : Passed(k)
  <1>1. Indexes = 1 .. Len(Children) /\ Len(Children) \in Nat /\ i \in Nat \ {0}
    BY ChildrenFacts DEF Inv
  <1>2. \A k \in Indexes : k < i
    BY <1>1
  <1> QED BY <1>2 DEF Inv, StageKnown

(* What passing every branch means for the whole.                          *)
LEMMA AllBranches ==
    ASSUME problem \in Problems, \A k \in Indexes : Passed(k)
    PROVE  /\ Rule \in {"left-anyof", "left-oneof", "left-if"} => Lhs \subseteq Rhs
           /\ Rule = "right-allof" => \A v \in LhsWithBase : Applied(v)
           /\ Rule = "right-if" /\ Lhs \subseteq Base => Lhs \subseteq Rhs
  <1>1. ASSUME Rule \in {"left-anyof", "left-oneof"}, NEW v \in Lhs
        PROVE  v \in Rhs
    <2>1. v \in Base /\ Applied(v)
      BY <1>1 DEF Lhs, Composite, LeftRules
    <2>2. Accepting(v) # {}
      BY <1>1, <2>1, FS_EmptySet DEF Applied
    <2>3. PICK k \in Indexes : v \in Children[k]
      BY <2>2 DEF Accepting
    <2> QED BY <1>1, <2>1, <2>3 DEF Passed
  <1>2. ASSUME Rule = "left-if", NEW v \in Lhs
        PROVE  v \in Rhs
    <2>1. v \in Base /\ Applied(v) /\ v \in Value /\ Indexes = {1, 2}
      BY <1>2, ChildrenFacts DEF Lhs, Composite, LeftRules, Conditionals
    <2>2. \A k \in Indexes : v \in Condition(k) => v \in Consequent(k)
      BY <1>2, <2>1 DEF Applied
    <2>3. v \in Condition(1) \/ v \in Condition(2)
      BY <2>1 DEF Condition
    <2>4. PICK k \in Indexes : v \in Condition(k)
      BY <2>1, <2>3
    <2> QED BY <1>2, <2>1, <2>2, <2>4 DEF Passed
  <1>3. ASSUME Rule = "right-allof", NEW v \in LhsWithBase
        PROVE  Applied(v)
    <2>1. v \in Lhs
      BY <1>3 DEF Lhs, LhsWithBase, LeftRules
    <2> QED BY <1>3, <2>1 DEF Passed, Applied, Accepting
  <1>4. ASSUME Rule = "right-if", Lhs \subseteq Base
        PROVE  Lhs \subseteq Rhs
    <2>1. \A v \in LhsWithBase : Applied(v)
      <3>1. \A v \in LhsWithBase : v \in Lhs
        BY <1>4 DEF Lhs, LhsWithBase, LeftRules
      <3> QED BY <1>4, <3>1 DEF Passed, Applied
    <2> QED BY <1>4, <2>1, RightSide DEF LeftRules
  <1> QED BY <1>1, <1>2, <1>3, <1>4

(* The end of the loop.                                                    *)
LEMMA EndLoopKeeps ==
    ASSUME Inv, EndLoop
    PROVE  Inv'
  <1>1. stage \in {"branches", "covering"} /\ i \notin Indexes /\ problem \in Problems
    BY DEF EndLoop, Inv
  <1>2. CASE Rule = "right-oneof"
    <2>1. Go("select")
      BY <1>2 DEF EndLoop
    <2>2. StageKnown("select")
      BY <1>2 DEF StageKnown, StageFits, NotStages
    <2> QED BY <2>1, <2>2, Going
  <1>3. CASE Rule = "right-anyof"
    <2>1. Go("items")
      BY <1>3 DEF EndLoop
    <2>2. StageKnown("items")
      BY <1>3 DEF StageKnown, StageFits, NotStages
    <2> QED BY <2>1, <2>2, Going
  <1>4. CASE /\ Rule \notin {"right-oneof", "right-anyof"}
             /\ Rule = "left-allof" \/ undecided \/ OnlyRefutes
    <2>1. EndBranches(Unsupported)
      BY <1>4 DEF EndLoop
    <2> QED BY <2>1, UndecidedEnds
  <1>5. CASE /\ Rule \notin {"right-oneof", "right-anyof"}
             /\ ~(Rule = "left-allof" \/ undecided \/ OnlyRefutes)
    <2>1. EndBranches(IF Rule \in Conditionals THEN base ELSE Proved)
      BY <1>5 DEF EndLoop
    <2>2. \A k \in Indexes : Passed(k)
      BY <1>1, <1>5, AllPassed
    <2>3. CASE Rule \in Conditionals
      <3>1. base = Proved => Lhs \subseteq Rhs
        BY <1>1, <2>2, <2>3, AllBranches DEF Inv, BaseKnown, Conditionals, LeftRules
      <3>2. Justified(base)
        BY <2>3, <3>1 DEF Inv, BaseKnown, Justified, Right
      <3> QED BY <2>1, <2>3, <3>2, Ending
    <2>4. CASE Rule \notin Conditionals
      <3>1. Rule \in {"left-anyof", "left-oneof", "right-allof"}
        BY <1>1, <1>5, <2>4, ChildrenFacts
           DEF Rules, Conditionals, Inv, StageKnown, StageFits
      <3>2. Justified(Proved)
        BY <1>1, <1>5, <2>2, <3>1, AllBranches, ResultsDiffer
           DEF Justified, Right, LeftRules, Conditionals
      <3> QED BY <2>1, <2>4, <3>2, Ending
    <2> QED BY <2>3, <2>4
  <1> QED BY <1>2, <1>3, <1>4, <1>5

(* A branch of a right if without a consequence, or whose condition the    *)
(* left side never meets, is passed.                                       *)
LEMMA AskCoveringKeeps ==
    ASSUME Inv, AskCovering
    PROVE  Inv'
  <1>1. /\ stage = "covering" /\ i \in Indexes /\ problem \in Problems
        /\ Rule = "right-if"
    BY DEF AskCovering, Inv, StageKnown, StageFits
  <1>2. Lhs \subseteq Value /\ Condition(i) \subseteq Value
    BY <1>1, ChildrenFacts
  <1>3. ASSUME NextBranch(FALSE, {}), Passed(i)
        PROVE  Inv'
    BY <1>1, <1>3, NextBranching
  <1>4. CASE Children[i] = Absent
    <2>1. NextBranch(FALSE, {})
      BY <1>4 DEF AskCovering
    <2>2. Passed(i)
      BY <1>1, <1>2, <1>4 DEF Passed, Consequent
    <2> QED BY <1>3, <2>1, <2>2
  <1>5. CASE Children[i] # Absent
    <2>1. PICK r \in Disjointness(Lhs, Condition(i)) :
            IF r = Proved THEN NextBranch(FALSE, {})
            ELSE IF r = Exhausted THEN Return(r) ELSE Go("branches")
      BY <1>5 DEF AskCovering
    <2>2. CASE r = Proved
      <3>1. Lhs \cap Condition(i) = {}
        BY <1>2, <2>2, DecisionsAreRight DEF Disjointness
      <3>2. Passed(i)
        BY <1>1, <3>1 DEF Passed
      <3> QED BY <1>3, <2>1, <2>2, <3>2
    <2>3. CASE r = Exhausted
      BY <2>1, <2>3, Returning, ResultsDiffer DEF Right
    <2>4. CASE r \notin {Proved, Exhausted}
      <3>1. Go("branches")
        BY <2>1, <2>4
      <3>2. StageKnown("branches")
        BY <1>1 DEF Inv, StageKnown, StageFits, NotStages
      <3> QED BY <3>1, <3>2, Going
    <2> QED BY <2>2, <2>3, <2>4
  <1> QED BY <1>4, <1>5

-----------------------------------------------------------------------------
(* The tagged oneOf, the plan, the base and the budget.                    *)

(* The branch with the tag of the left side is the only one that counts.   *)
LEMMA AskTaggedBranchKeeps ==
    ASSUME Inv, TrustedProblems, AskTaggedBranch
    PROVE  Inv'
  <1>1. /\ problem \in Problems /\ stage = "tagged" /\ Rule = "right-oneof"
        /\ problem.tag # 0 /\ i = 1
    BY DEF AskTaggedBranch, Inv, StageKnown, StageFits
  <1> DEFINE tag == problem.tag
  <1>2. /\ tag \in Indexes
        /\ \A k \in Indexes \ {tag} : problem.other \cap Objects \cap Children[k] = {}
        /\ ~problem.certified /\ problem.base = NoBase /\ problem.other \subseteq Objects
    <2>1. /\ problem.tag \in 0 .. Len(problem.children)
          /\ \A k \in DOMAIN problem.children \ {problem.tag} :
                problem.other \cap Objects \cap problem.children[k] = {}
      BY <1>1, ProblemAssumption
    <2>2. Indexes = 1 .. Len(Children) /\ Len(Children) \in Nat
      BY <1>1, ChildrenFacts
    <2>3. tag \in Indexes
      BY <1>1, <2>1, <2>2 DEF Children
    <2> QED BY <1>1, <2>1, <2>3 DEF Children, Indexes, Rule, TrustedProblems, OneBranchRules
  <1>3. Lhs = problem.other /\ Lhs \subseteq Value /\ Base = Value
    BY <1>1, <1>2, ChildrenFacts DEF Lhs, Base, LeftRules
  <1>4. PICK r \in Inclusion(problem.other, Children[tag]) :
          IF (r = Proved /\ problem.standalone) \/ r = Exhausted THEN Return(r)
          ELSE IF ~IsRefutation(r) THEN Go("plan")
          ELSE \E c \in Confirmed(r) : IF c = Unsupported THEN Go("plan") ELSE Return(c)
    BY DEF AskTaggedBranch
  <1>5. /\ r = Proved => Lhs \subseteq Children[tag]
        /\ IsRefutation(r) => r.witness # None
    <2>1. /\ r = Proved => problem.other \ Children[tag] = {}
          /\ r.witness = None /\ IsRefutation(r) => problem.certified
      BY <1>3, <1>4, DecisionsAreRight DEF Inclusion
    <2> QED BY <1>2, <1>3, <2>1
  <1>6. StageKnown("plan")
    BY <1>1 DEF StageKnown, StageFits, NotStages
  <1>7. CASE r = Proved /\ problem.standalone
    <2>1. \A v \in LhsWithBase : Accepting(v) = {tag}
      BY <1>2, <1>3, <1>5, <1>7 DEF LhsWithBase, Accepting
    <2>2. \A v \in LhsWithBase : Applied(v)
      BY <1>1, <2>1, FS_Singleton DEF Applied
    <2>3. Lhs \subseteq Rhs
      BY <1>1, <1>3, <2>2, RightSide DEF LeftRules
    <2> QED BY <1>4, <1>7, <2>3, Returning, ResultsDiffer DEF Right
  <1>8. CASE r = Exhausted
    BY <1>4, <1>8, Returning, ResultsDiffer DEF Right
  <1>9. CASE ~(r = Proved /\ problem.standalone) /\ r # Exhausted /\ ~IsRefutation(r)
    <2>1. Go("plan")
      BY <1>4, <1>9
    <2> QED BY <1>6, <2>1, Going
  <1>10. CASE r # Exhausted /\ IsRefutation(r)
    <2>1. PICK c \in Confirmed(r) : IF c = Unsupported THEN Go("plan") ELSE Return(c)
      BY <1>4, <1>10, ResultsDiffer
    <2>2. Right(c) /\ c # Proved
      BY <1>5, <1>10, ConfirmedIsRight
    <2> QED BY <1>6, <2>1, <2>2, Going, Returning
  <1> QED BY <1>7, <1>8, <1>9, <1>10

(* Without a plan a oneOf is left open.                                    *)
LEMMA PlanOneOfKeeps ==
    ASSUME Inv, PlanOneOf
    PROVE  Inv'
  <1>1. stage = "plan" /\ Rule = "right-oneof" /\ i = 1
    BY DEF PlanOneOf, Inv, StageKnown, StageFits
  <1>2. StageKnown("base")
    BY <1>1 DEF StageKnown, StageFits, NotStages
  <1>3. Go("base") \/ Return(Unsupported)
    BY DEF PlanOneOf
  <1> QED BY <1>2, <1>3, Going, Returning, ResultsDiffer DEF Right

(* What an answer says of the base.                                        *)
LEMMA BaseAnswersAreRight ==
    ASSUME Inv, Rule \notin {"left-anyof", "left-oneof", "left-allof"}, NEW r \in BaseAnswers
    PROVE  /\ r = Proved /\ Rule \notin LeftRules => Lhs \subseteq Base
           /\ IsRefutation(r) /\ r.witness = None => Right(r)
  <1>1. CASE r \in {Proved, Unsupported} /\ r \notin Inclusion(Lhs, Base)
    <2>1. r = Proved => Rule = "left-if" \/ problem.base = NoBase
      BY <1>1, ResultsDiffer DEF BaseAnswers
    <2>2. problem.base = NoBase => Lhs \subseteq Base
      BY ChildrenFacts DEF Base, Inv
    <2> QED BY <1>1, <2>1, <2>2, ResultsDiffer DEF LeftRules
  <1>2. CASE r \in Inclusion(Lhs, Base)
    <2>1. Lhs \subseteq Value
      BY ChildrenFacts DEF Inv
    <2>2. /\ r = Proved => Lhs \subseteq Base
          /\ IsRefutation(r) => Lhs \ Base # {}
          /\ IsRefutation(r) /\ r.witness = None => r = Certified
      BY <1>2, <2>1, DecisionsAreRight DEF Inclusion
    <2>3. CASE Rule \notin LeftRules
      BY <2>2, <2>3, CertifiedIsRight
    <2>4. CASE Rule \in LeftRules
      <3>1. ~IsRefutation(r)
        BY <2>4, ResultsDiffer DEF BaseAnswers, LeftRules
      <3> QED BY <2>4, <3>1
    <2> QED BY <2>3, <2>4
  <1> QED BY <1>1, <1>2 DEF BaseAnswers

(* The base refutes the whole, or it is kept for the end; a right anyOf    *)
(* asks about it last.                                                     *)
LEMMA AskBaseKeeps ==
    ASSUME Inv, AskBase
    PROVE  Inv'
  <1>1. /\ stage = "base" /\ problem \in Problems
        /\ Rule \notin {"left-anyof", "left-oneof", "left-allof"}
        /\ Rule # "right-anyof" => i = 1
    BY DEF AskBase, Inv, StageKnown, StageFits
  <1>2. PICK r \in BaseAnswers :
          IF IsRefutation(r) THEN \E c \in Confirmed(r) : Return(c)
          ELSE IF Rule = "right-anyof"
          THEN Return(IF r = Proved THEN branch ELSE r)
          ELSE /\ base' = r
               /\ stage' = IF Rule = "right-not" THEN "contrapositive"
                           ELSE IF Rule \in Conditionals THEN FirstBranch ELSE "budget"
               /\ UNCHANGED <<problem, i, undecided, covering, branch, result>>
    BY DEF AskBase
  <1>3. /\ r = Proved /\ Rule \notin LeftRules => Lhs \subseteq Base
        /\ IsRefutation(r) /\ r.witness = None => Right(r)
    BY <1>1, BaseAnswersAreRight
  <1>4. CASE IsRefutation(r)
    <2>1. PICK c \in Confirmed(r) : Return(c)
      BY <1>2, <1>4
    <2>2. Right(c) /\ c # Proved
      BY <1>3, <1>4, ConfirmedIsRight, ResultsDiffer
    <2> QED BY <2>1, <2>2, Returning
  <1>5. CASE ~IsRefutation(r) /\ Rule = "right-anyof"
    <2>1. CASE r = Proved
      <3>1. Return(branch)
        BY <1>2, <1>5, <2>1
      <3>2. Justified(branch)
        BY <1>1, <1>5 DEF Inv, StageKnown
      <3>3. branch = Proved => Lhs \subseteq Rhs
        BY <1>3, <1>5, <2>1, <3>2, RightSide DEF Justified, LeftRules, Conditionals
      <3> QED BY <3>1, <3>2, <3>3, Returning DEF Justified
    <2>2. CASE r # Proved
      BY <1>2, <1>5, <2>2, Returning DEF Right
    <2> QED BY <2>1, <2>2
  <1>6. CASE ~IsRefutation(r) /\ Rule # "right-anyof"
    <2>1. /\ base' = r
          /\ stage' = IF Rule = "right-not" THEN "contrapositive"
                      ELSE IF Rule \in Conditionals THEN FirstBranch ELSE "budget"
          /\ UNCHANGED <<problem, i, undecided, covering, branch, result>>
      BY <1>2, <1>6
    <2>2. problem' \in Problems /\ i' \in Nat \ {0} /\ CoveringKnown'
      BY <2>1, SameProblem DEF Inv, CoveringKnown
    <2>3. BaseKnown'
      BY <1>3, <1>6, <2>1, SameProblem DEF BaseKnown, IsRefutation
    <2>4. StageFits(stage)'
      BY <1>1, <2>1, SameProblem DEF StageFits, FirstBranch, NotStages, Conditionals
    <2>5. stage' \in {"contrapositive", "covering", "branches", "budget"} /\ i' = 1
      BY <1>1, <1>6, <2>1 DEF FirstBranch
    <2>6. \A k \in Indexes : ~(k < 1)
      <3>1. Indexes = 1 .. Len(Children) /\ Len(Children) \in Nat
        BY <1>1, ChildrenFacts
      <3> QED BY <3>1
    <2>7. StageKnown(stage)'
      BY <2>1, <2>4, <2>5, <2>6, SameProblem DEF StageKnown
    <2>8. ResultsAreSound'
      BY <2>1, SameProblem DEF Inv, ResultsAreSound, IsRefutation
    <2> QED BY <2>2, <2>3, <2>7, <2>8 DEF Inv
  <1> QED BY <1>4, <1>5, <1>6

(* The budget grants the loop, or the branches are left open.              *)
LEMMA SpendKeeps ==
    ASSUME Inv, Spend
    PROVE  Inv'
  <1>1. stage = "budget" /\ Rule # "right-not" /\ i = 1 /\ problem \in Problems
    BY DEF Spend, Inv, StageKnown, StageFits
  <1>2. CASE EndBranches(Exhausted)
    BY <1>2, UndecidedEnds
  <1>3. CASE Go("base") /\ Rule \in Conditionals
    <2>1. StageKnown("base")
      BY <1>1, <1>3 DEF StageKnown, StageFits, NotStages, Conditionals
    <2> QED BY <1>3, <2>1, Going
  <1>4. CASE Go("branches")
    <2>1. \A k \in Indexes : ~(k < i)
      <3>1. Indexes = 1 .. Len(Children) /\ Len(Children) \in Nat
        BY <1>1, ChildrenFacts
      <3> QED BY <1>1, <3>1
    <2>2. StageKnown("branches")
      BY <1>1, <2>1 DEF StageKnown, StageFits, NotStages
    <2> QED BY <1>4, <2>2, Going
  <1>5. PICK granted \in BudgetGrants :
          IF ~granted THEN EndBranches(Exhausted)
          ELSE Go(IF Rule \in Conditionals THEN "base" ELSE "branches")
    BY DEF Spend
  <1> QED BY <1>2, <1>3, <1>4, <1>5

-----------------------------------------------------------------------------
(* The right anyOf that no branch covers.                                  *)

(* A value of the left side in no branch refutes it.                       *)
LEMMA RefuteItemKeeps ==
    ASSUME Inv, RefuteItem
    PROVE  Inv'
  <1>1. stage = "items" /\ Rule = "right-anyof"
    BY DEF RefuteItem, Inv, StageKnown, StageFits
  <1>2. CASE (\E v \in Lhs : Accepting(v) = {}) /\ EndBranches(Certified)
    <2>1. PICK v \in Lhs : ~Applied(v)
      BY <1>1, <1>2 DEF Applied
    <2>2. Right(Certified)
      BY <1>1, <2>1, CertifiedIsRight DEF LeftRules
    <2> QED BY <1>2, <2>2, RefutingEnds, ResultsDiffer
  <1>3. CASE EndBranches(Unsupported)
    BY <1>3, UndecidedEnds
  <1>4. CASE Go("spread") /\ problem.parts # <<>>
    <2>1. StageKnown("spread")
      BY <1>1, <1>4 DEF StageKnown, StageFits, NotStages
    <2> QED BY <1>4, <2>1, Going
  <1> QED BY <1>2, <1>3, <1>4 DEF RefuteItem

(* What is known of the parts of the left side.                            *)
LEMMA PartsFacts ==
    ASSUME problem \in Problems, problem.parts # <<>>, Rule = "right-anyof"
    PROVE  /\ DOMAIN problem.parts = 1 .. Len(problem.parts) /\ Len(problem.parts) \in Nat
           /\ \A k \in DOMAIN problem.parts : problem.parts[k] \subseteq Value
           /\ Lhs = UNION {problem.parts[k] : k \in DOMAIN problem.parts}
  <1>1. /\ problem.parts \in Seq(SUBSET Value)
        /\ problem.other = UNION {problem.parts[k] : k \in DOMAIN problem.parts}
    BY ProblemAssumption
  <1>2. Lhs = problem.other
    BY DEF Lhs, LeftRules
  <1>3. /\ DOMAIN problem.parts = 1 .. Len(problem.parts) /\ Len(problem.parts) \in Nat
        /\ \A k \in DOMAIN problem.parts : problem.parts[k] \subseteq Value
    BY <1>1
  <1> QED BY <1>1, <1>2, <1>3

(* The parts are asked about from the first.                               *)
LEMMA SpreadTupleKeeps ==
    ASSUME Inv, SpreadTuple
    PROVE  Inv'
  <1>1. /\ stage = "spread" /\ Rule = "right-anyof" /\ problem.parts # <<>>
        /\ problem \in Problems
    BY DEF SpreadTuple, Inv, StageKnown, StageFits
  <1>2. CASE EndBranches(Exhausted)
    BY <1>2, UndecidedEnds
  <1>3. CASE /\ stage' = "parts" /\ i' = 1 /\ undecided' = FALSE
             /\ UNCHANGED <<problem, covering, base, branch, result>>
    <2>1. problem' \in Problems /\ i' \in Nat \ {0} /\ BaseKnown' /\ CoveringKnown'
      BY <1>3, SameProblem DEF Inv, BaseKnown, CoveringKnown, IsRefutation
    <2>2. \A k \in DOMAIN problem.parts : ~(k < 1)
      BY <1>1, PartsFacts
    <2>3. StageKnown(stage)'
      BY <1>1, <1>3, <2>2, SameProblem DEF StageKnown, StageFits, NotStages
    <2>4. ResultsAreSound'
      BY <1>3, SameProblem DEF Inv, ResultsAreSound, IsRefutation
    <2> QED BY <2>1, <2>3, <2>4 DEF Inv
  <1> QED BY <1>2, <1>3 DEF SpreadTuple

(* A part that is not of the right side refutes it.                        *)
LEMMA AskPartKeeps ==
    ASSUME Inv, TrustedProblems, AskPart
    PROVE  Inv'
  <1>1. /\ stage = "parts" /\ Rule = "right-anyof" /\ problem.parts # <<>>
        /\ problem \in Problems /\ i \in DOMAIN problem.parts /\ ~problem.certified
    BY DEF AskPart, Inv, StageKnown, StageFits, TrustedProblems, OneBranchRules, Rule
  <1>2. PICK r \in Inclusion(problem.parts[i], Rhs) :
          IF IsRefutation(r) THEN \E c \in Confirmed(r) : EndBranches(c)
          ELSE IF r = Exhausted THEN EndBranches(r)
          ELSE /\ i' = i + 1
               /\ undecided' = (undecided \/ r = Unsupported)
               /\ UNCHANGED <<problem, stage, covering, base, branch, result>>
    BY DEF AskPart
  <1>3. /\ r = Proved => problem.parts[i] \subseteq Rhs
        /\ IsRefutation(r) => r.witness # None
        /\ r \in {Proved, Unsupported, Exhausted} \/ IsRefutation(r)
    <2>1. problem.parts[i] \ Rhs \in SUBSET Value
      BY <1>1, PartsFacts
    <2> QED BY <1>1, <1>2, <2>1, DecisionsAreRight DEF Inclusion
  <1>4. CASE IsRefutation(r)
    BY <1>2, <1>3, <1>4, ConfirmedEnds
  <1>5. CASE r = Exhausted
    BY <1>2, <1>5, UndecidedEnds, ResultsDiffer
  <1>6. CASE ~IsRefutation(r) /\ r # Exhausted
    <2>1. /\ i' = i + 1 /\ undecided' = (undecided \/ r = Unsupported)
          /\ UNCHANGED <<problem, stage, covering, base, branch, result>>
      BY <1>2, <1>6
    <2>2. problem' \in Problems /\ i' \in Nat \ {0} /\ BaseKnown' /\ CoveringKnown'
      BY <2>1, SameProblem DEF Inv, BaseKnown, CoveringKnown, IsRefutation
    <2>3. ASSUME ~undecided', NEW k \in DOMAIN problem.parts, k < i'
          PROVE  problem.parts[k] \subseteq Rhs
      <3>1. ~undecided /\ r = Proved
        BY <1>3, <1>6, <2>1, <2>3
      <3>2. k < i => problem.parts[k] \subseteq Rhs
        BY <1>1, <3>1 DEF Inv, StageKnown
      <3>3. k \in Nat
        BY <1>1, PartsFacts
      <3>4. k < i \/ k = i
        BY <2>1, <2>3, <3>3 DEF Inv
      <3> QED BY <1>3, <3>1, <3>2, <3>4
    <2>4. StageKnown(stage)'
      BY <1>1, <2>1, <2>3, SameProblem DEF StageKnown, StageFits, NotStages
    <2>5. ResultsAreSound'
      BY <2>1, SameProblem DEF Inv, ResultsAreSound, IsRefutation
    <2> QED BY <2>2, <2>4, <2>5 DEF Inv
  <1> QED BY <1>4, <1>5, <1>6

(* Once every part is of the right side, the left side is.                 *)
LEMMA EndPartsKeeps ==
    ASSUME Inv, EndParts
    PROVE  Inv'
  <1>1. /\ stage = "parts" /\ Rule = "right-anyof" /\ problem.parts # <<>>
        /\ problem \in Problems /\ i \notin DOMAIN problem.parts /\ i \in Nat \ {0}
    BY DEF EndParts, Inv, StageKnown, StageFits
  <1>2. CASE undecided
    BY <1>2, UndecidedEnds DEF EndParts
  <1>3. CASE ~undecided
    <2>1. \A k \in DOMAIN problem.parts : k < i
      BY <1>1, PartsFacts
    <2>2. \A k \in DOMAIN problem.parts : problem.parts[k] \subseteq Rhs
      BY <1>1, <1>3, <2>1 DEF Inv, StageKnown
    <2>3. Lhs \subseteq Rhs
      BY <1>1, <2>2, PartsFacts
    <2>4. \A v \in LhsWithBase : Applied(v)
      BY <1>1, <2>3 DEF LhsWithBase, Lhs, Rhs, Composite, LeftRules
    <2>5. Justified(Proved)
      BY <1>1, <2>4, ResultsDiffer DEF Justified, Right, LeftRules, Conditionals, OnlyRefutes
    <2>6. EndBranches(Proved)
      BY <1>3 DEF EndParts
    <2> QED BY <2>5, <2>6, Ending
  <1> QED BY <1>2, <1>3

-----------------------------------------------------------------------------
(* The right oneOf.                                                        *)

(* A left side that the base leaves alone and one branch alone accepts is  *)
(* accepted by the oneOf.                                                  *)
LEMMA OneBranchAlone ==
    ASSUME Rule = "right-oneof", Cardinality(covering) = 1, CoveringKnown,
           \A k \in Indexes \ covering : LhsWithBase \cap Children[k] = {},
           problem \in Problems
    PROVE  Justified(Proved)
  <1>1. covering \subseteq {k \in Indexes : LhsWithBase \subseteq Children[k]}
    BY DEF CoveringKnown
  <1>2. IsFiniteSet(covering)
    BY <1>1, ChildrenFacts, FS_Subset
  <1>3. PICK c : covering = {c}
    BY <1>2, FS_Singleton
  <1>4. \A v \in LhsWithBase : Accepting(v) = {c}
    BY <1>1, <1>3 DEF Accepting
  <1>5. \A v \in LhsWithBase : Applied(v)
    BY <1>4, FS_Singleton DEF Applied
  <1> QED BY <1>5, ResultsDiffer DEF Justified, Right, LeftRules, Conditionals, OnlyRefutes

(* Covered more than once, the left side is refuted by any value of it.    *)
LEMMA SelectCoveringKeeps ==
    ASSUME Inv, SelectCovering
    PROVE  Inv'
  <1>1. stage = "select" /\ Rule = "right-oneof" /\ problem \in Problems
    BY DEF SelectCovering, Inv, StageKnown, StageFits
  <1>2. CASE covering = {}
    BY <1>2, UndecidedEnds DEF SelectCovering
  <1>3. CASE covering # {} /\ Cardinality(covering) > 1
    <2>1. Go("overlap")
      BY <1>3 DEF SelectCovering
    <2>2. StageKnown("overlap")
      BY <1>1 DEF StageKnown, StageFits, NotStages
    <2> QED BY <2>1, <2>2, Going
  <1>4. CASE covering # {} /\ ~(Cardinality(covering) > 1)
    <2>1. Go("others")
      BY <1>4 DEF SelectCovering
    <2>2. IsFiniteSet(covering)
      BY <1>1, ChildrenFacts, FS_Subset DEF Inv, CoveringKnown
    <2>3. Cardinality(covering) \in Nat /\ Cardinality(covering) # 0
      BY <1>4, <2>2, FS_CardinalityType, FS_EmptySet
    <2>4. Cardinality(covering) = 1
      BY <1>4, <2>3
    <2>5. StageKnown("others")
      BY <1>1, <2>4 DEF StageKnown, StageFits, NotStages
    <2> QED BY <2>1, <2>5, Going
  <1> QED BY <1>2, <1>3, <1>4

(* The witness of an overlap is confirmed.                                 *)
LEMMA WitnessOverlapKeeps ==
    ASSUME Inv, TrustedProblems, WitnessOverlap
    PROVE  Inv'
  <1>1. stage = "overlap" /\ Rule = "right-oneof" /\ problem \in Problems /\ ~problem.certified
    BY DEF WitnessOverlap, Inv, StageKnown, StageFits, TrustedProblems, OneBranchRules, Rule
  <1>2. PICK r \in Witnesses(LhsWithBase) :
          IF IsRefutation(r) THEN \E c \in Confirmed(r) : EndBranches(c)
          ELSE EndBranches(r)
    BY DEF WitnessOverlap
  <1>3. r # Proved /\ (IsRefutation(r) => r.witness # None)
    BY <1>1, <1>2, WitnessesAreRight, ChildrenFacts
  <1> QED BY <1>2, <1>3, ConfirmedEnds, RefutingEnds DEF Right

(* The other branches are asked about from the first.                      *)
LEMMA SpendOthersKeeps ==
    ASSUME Inv, SpendOthers
    PROVE  Inv'
  <1>1. /\ stage = "others" /\ Rule = "right-oneof" /\ Cardinality(covering) = 1
        /\ problem \in Problems
    BY DEF SpendOthers, Inv, StageKnown, StageFits
  <1>2. CASE EndBranches(Exhausted)
    BY <1>2, UndecidedEnds
  <1>3. CASE /\ stage' = "disjoint" /\ i' = 1
             /\ UNCHANGED <<problem, undecided, covering, base, branch, result>>
    <2>1. problem' \in Problems /\ i' \in Nat \ {0} /\ BaseKnown' /\ CoveringKnown'
      BY <1>3, SameProblem DEF Inv, BaseKnown, CoveringKnown, IsRefutation
    <2>2. \A k \in Indexes : ~(k < 1)
      <3>1. Indexes = 1 .. Len(Children) /\ Len(Children) \in Nat
        BY <1>1, ChildrenFacts
      <3> QED BY <3>1
    <2>3. StageKnown(stage)'
      BY <1>1, <1>3, <2>2, SameProblem DEF StageKnown, StageFits, NotStages
    <2>4. ResultsAreSound'
      BY <1>3, SameProblem DEF Inv, ResultsAreSound, IsRefutation
    <2> QED BY <2>1, <2>3, <2>4 DEF Inv
  <1> QED BY <1>2, <1>3 DEF SpendOthers

(* Another branch is disjoint from the left side, or the oneOf is refuted  *)
(* or left open.                                                           *)
LEMMA AskOtherKeeps ==
    ASSUME Inv, TrustedProblems, AskOther
    PROVE  Inv'
  <1>1. /\ stage = "disjoint" /\ Rule = "right-oneof" /\ Cardinality(covering) = 1
        /\ problem \in Problems /\ i \in Indexes /\ ~problem.certified
    BY DEF AskOther, Inv, StageKnown, StageFits, TrustedProblems, OneBranchRules, Rule
  <1>2. ASSUME i \in covering \/ LhsWithBase \cap Children[i] = {}, i' = i + 1,
               UNCHANGED <<problem, stage, undecided, covering, base, branch, result>>
        PROVE  Inv'
    <2>1. problem' \in Problems /\ i' \in Nat \ {0} /\ BaseKnown' /\ CoveringKnown'
      BY <1>2, SameProblem DEF Inv, BaseKnown, CoveringKnown, IsRefutation
    <2>2. ASSUME NEW k \in Indexes \ covering, k < i'
          PROVE  LhsWithBase \cap Children[k] = {}
      <3>1. k < i => LhsWithBase \cap Children[k] = {}
        BY <1>1 DEF Inv, StageKnown
      <3>2. k \in Nat
        BY <1>1, ChildrenFacts
      <3>3. k < i \/ k = i
        BY <1>2, <2>2, <3>2 DEF Inv
      <3> QED BY <1>2, <3>1, <3>3
    <2>3. StageKnown(stage)'
      BY <1>1, <1>2, <2>2, SameProblem DEF StageKnown, StageFits, NotStages
    <2>4. ResultsAreSound'
      BY <1>2, SameProblem DEF Inv, ResultsAreSound, IsRefutation
    <2> QED BY <2>1, <2>3, <2>4 DEF Inv
  <1>3. CASE i \in covering
    BY <1>2, <1>3 DEF AskOther
  <1>4. CASE i \notin covering
    <2>1. PICK r \in DisjointAnswers(i) :
            IF IsRefutation(r) THEN \E c \in Confirmed(r) : EndBranches(c)
            ELSE IF r # Proved THEN EndBranches(r)
            ELSE /\ i' = i + 1
                 /\ UNCHANGED <<problem, stage, undecided, covering, base, branch, result>>
      BY <1>4 DEF AskOther
    <2>2. /\ r = Proved => LhsWithBase \cap Children[i] = {}
          /\ IsRefutation(r) => r.witness # None
      <3>1. CASE r = Unsupported
        BY <3>1, ResultsDiffer
      <3>2. CASE r \in Disjointness(LhsWithBase, Children[i])
        <4>1. LhsWithBase \cap Children[i] \in SUBSET Value
          BY <1>1, ChildrenFacts
        <4> QED BY <1>1, <3>2, <4>1, DecisionsAreRight DEF Disjointness
      <3> QED BY <2>1, <3>1, <3>2 DEF DisjointAnswers
    <2> QED BY <1>2, <2>1, <2>2, ConfirmedEnds, RefutingEnds DEF Right
  <1> QED BY <1>3, <1>4

(* Once the others are disjoint from it, the left side is of one branch.   *)
LEMMA EndOthersKeeps ==
    ASSUME Inv, EndOthers
    PROVE  Inv'
  <1>1. /\ stage = "disjoint" /\ Rule = "right-oneof" /\ Cardinality(covering) = 1
        /\ problem \in Problems /\ i \notin Indexes /\ i \in Nat \ {0}
    BY DEF EndOthers, Inv, StageKnown, StageFits
  <1>2. \A k \in Indexes : k < i
    <2>1. Indexes = 1 .. Len(Children) /\ Len(Children) \in Nat
      BY <1>1, ChildrenFacts
    <2> QED BY <1>1, <2>1
  <1>3. \A k \in Indexes \ covering : LhsWithBase \cap Children[k] = {}
    BY <1>1, <1>2 DEF Inv, StageKnown
  <1>4. Justified(Proved)
    BY <1>1, <1>3, OneBranchAlone DEF Inv
  <1> QED BY <1>4, Ending DEF EndOthers

-----------------------------------------------------------------------------
(* The right not.                                                          *)

(* The not accepts the left side when that is apart from the negated       *)
(* schema, and a value of both refutes it.                                 *)
LEMMA NotFacts ==
    ASSUME Inv, stage \in NotStages
    PROVE  /\ Rule = "right-not" /\ problem \in Problems
           /\ LhsWithBase = Lhs \cap Base
           /\ Lhs \subseteq Value /\ Negated \subseteq Value
           /\ LhsWithBase \cap Negated = {} => Justified(Proved)
           /\ Lhs \cap Negated # {} => Right(Certified)
  <1>1. Rule = "right-not" /\ problem \in Problems
    BY DEF Inv, StageKnown, StageFits
  <1>2. LhsWithBase = Lhs \cap Base
    BY <1>1 DEF LhsWithBase, Lhs, LeftRules
  <1>3. Lhs \subseteq Value /\ Negated \subseteq Value /\ Indexes = {1}
    BY <1>1, ChildrenFacts DEF Negated, Conditionals
  <1>4. \A v : Applied(v) <=> v \notin Negated
    BY <1>1, <1>3 DEF Applied, Accepting, Negated
  <1>5. LhsWithBase \cap Negated = {} => Justified(Proved)
    BY <1>1, <1>4, ResultsDiffer DEF Justified, Right, LeftRules, Conditionals, OnlyRefutes
  <1>6. Lhs \cap Negated # {} => Right(Certified)
    BY <1>1, <1>4, CertifiedIsRight DEF LeftRules
  <1> QED BY <1>1, <1>2, <1>3, <1>5, <1>6

(* Whether the negated schema is in the complement of the left side.       *)
LEMMA AskContrapositiveKeeps ==
    ASSUME Inv, AskContrapositive
    PROVE  Inv'
  <1>1. stage = "contrapositive" /\ stage \in NotStages
    BY DEF AskContrapositive, NotStages
  <1>2. StageKnown("double")
    BY <1>1, NotFacts DEF StageKnown, StageFits, NotStages
  <1>3. CASE EndBranches(Unsupported)
    BY <1>3, UndecidedEnds
  <1>4. CASE Go("double")
    BY <1>2, <1>4, Going
  <1>5. ASSUME NEW r \in Inclusion(Negated, Value \ Lhs), r \notin {Unsupported, Certified},
               IF IsRefutation(r) THEN \E c \in Confirmed(r) : EndBranches(c)
               ELSE EndBranches(r)
        PROVE  Inv'
    <2>1. Negated \ (Value \ Lhs) = Lhs \cap Negated
      BY <1>1, NotFacts
    <2>2. /\ r = Proved => Lhs \cap Negated = {}
          /\ IsRefutation(r) /\ r.witness = None => r = Certified
      BY <1>1, <1>5, <2>1, NotFacts, DecisionsAreRight DEF Inclusion
    <2>3. r = Proved => Justified(r)
      BY <1>1, <2>2, NotFacts
    <2> QED BY <1>5, <2>2, <2>3, ConfirmedEnds, Ending, RefutingEnds DEF Right
  <1>6. \/ EndBranches(Unsupported)
        \/ Go("double")
        \/ \E r \in Inclusion(Negated, Value \ Lhs) :
              /\ r \notin {Unsupported, Certified}
              /\ IF IsRefutation(r) THEN \E c \in Confirmed(r) : EndBranches(c)
                 ELSE EndBranches(r)
    BY DEF AskContrapositive
  <1> QED BY <1>3, <1>4, <1>5, <1>6

(* Whether the left side is in what a doubled not accepts.                 *)
LEMMA AskDoubleNegationKeeps ==
    ASSUME Inv, AskDoubleNegation
    PROVE  Inv'
  <1>1. stage = "double" /\ stage \in NotStages
    BY DEF AskDoubleNegation, NotStages
  <1>2. StageKnown("apart")
    BY <1>1, NotFacts DEF StageKnown, StageFits, NotStages
  <1>3. CASE Go("apart")
    BY <1>2, <1>3, Going
  <1>4. ASSUME NEW r \in Inclusion(LhsWithBase, Value \ Negated),
               IF r = Certified THEN EndBranches(Unsupported)
               ELSE IF IsRefutation(r) THEN \E c \in Confirmed(r) : EndBranches(c)
               ELSE EndBranches(r)
        PROVE  Inv'
    <2>1. LhsWithBase \ (Value \ Negated) = LhsWithBase \cap Negated
      BY <1>1, NotFacts
    <2>2. /\ r = Proved => LhsWithBase \cap Negated = {}
          /\ IsRefutation(r) /\ r.witness = None => r = Certified
      BY <1>1, <1>4, <2>1, NotFacts, DecisionsAreRight DEF Inclusion
    <2>3. r = Proved => Justified(r)
      BY <1>1, <2>2, NotFacts
    <2> QED BY <1>4, <2>2, <2>3, ConfirmedEnds, Ending, RefutingEnds, UndecidedEnds DEF Right
  <1> QED BY <1>3, <1>4 DEF AskDoubleNegation

(* Whether the left side and the negated schema are apart.                 *)
LEMMA AskApartKeeps ==
    ASSUME Inv, AskApart
    PROVE  Inv'
  <1>1. stage = "apart" /\ stage \in NotStages
    BY DEF AskApart, NotStages
  <1>2. StageKnown("strings")
    BY <1>1, NotFacts DEF StageKnown, StageFits, NotStages
  <1>3. PICK r \in Disjointness(LhsWithBase, Negated) :
          IF r \in {Unsupported, Certified} THEN Go("strings")
          ELSE IF IsRefutation(r) THEN \E c \in Confirmed(r) : EndBranches(c)
          ELSE EndBranches(r)
    BY DEF AskApart
  <1>4. /\ r = Proved => LhsWithBase \cap Negated = {}
        /\ IsRefutation(r) /\ r.witness = None => r = Certified
    BY <1>1, <1>3, NotFacts, DecisionsAreRight DEF Disjointness
  <1>5. r = Proved => Justified(r)
    BY <1>1, <1>4, NotFacts
  <1> QED
    BY <1>2, <1>3, <1>4, <1>5, Going, ConfirmedEnds, Ending, RefutingEnds DEF Right

(* Whether the languages of the two sides overlap.                         *)
LEMMA CompareStringsKeeps ==
    ASSUME Inv, CompareStrings
    PROVE  Inv'
  <1>1. stage = "strings" /\ stage \in NotStages
    BY DEF CompareStrings, NotStages
  <1>2. StageKnown("within")
    BY <1>1, NotFacts DEF StageKnown, StageFits, NotStages
  <1>3. PICK r \in OverlapAnswers :
          IF r = Unsupported THEN Go("within")
          ELSE IF IsRefutation(r) THEN \E c \in Confirmed(r) : EndBranches(c)
          ELSE EndBranches(r)
    BY DEF CompareStrings
  <1>4. /\ r = Proved => Lhs \cap Negated = {}
        /\ IsRefutation(r) => r.witness # None
    <2>1. CASE r = Unsupported
      BY <2>1, ResultsDiffer
    <2>2. CASE \E w \in Value : r = Refuted(w)
      BY <2>2, ResultsDiffer, NoneAssumption
    <2>3. CASE r \in Disjointness(Lhs, Negated) \ {Certified}
      <3>1. Lhs \cap Negated \in SUBSET Value
        BY <1>1, NotFacts
      <3> QED BY <2>3, <3>1, DecisionsAreRight DEF Disjointness
    <2> QED BY <1>3, <2>1, <2>2, <2>3 DEF OverlapAnswers
  <1>5. r = Proved => Justified(r)
    BY <1>1, <1>4, NotFacts
  <1> QED
    BY <1>2, <1>3, <1>4, <1>5, Going, ConfirmedEnds, Ending, RefutingEnds DEF Right

(* Whether the negated schema holds the left side.                         *)
LEMMA AskWithinKeeps ==
    ASSUME Inv, AskWithin
    PROVE  Inv'
  <1>1. stage = "within" /\ stage \in NotStages
    BY DEF AskWithin, NotStages
  <1>2. PICK r \in Inclusion(LhsWithBase, Negated) :
          IF r = Proved THEN Go("witness")
          ELSE IF r = Exhausted THEN EndBranches(r) ELSE Go("common")
    BY DEF AskWithin
  <1>3. r = Proved => LhsWithBase \subseteq Negated
    <2>1. LhsWithBase \ Negated \in SUBSET Value
      BY <1>1, NotFacts
    <2> QED BY <1>2, <2>1, DecisionsAreRight DEF Inclusion
  <1>4. CASE r = Proved
    <2>1. StageKnown("witness")
      BY <1>1, <1>3, <1>4, NotFacts DEF StageKnown, StageFits, NotStages
    <2> QED BY <1>2, <1>4, <2>1, Going
  <1>5. CASE r = Exhausted
    BY <1>2, <1>5, UndecidedEnds, ResultsDiffer
  <1>6. CASE r \notin {Proved, Exhausted}
    <2>1. StageKnown("common")
      BY <1>1, NotFacts DEF StageKnown, StageFits, NotStages
    <2> QED BY <1>2, <1>6, <2>1, Going
  <1> QED BY <1>4, <1>5, <1>6

(* Any value of the left side refutes when the negated schema holds it,    *)
(* and any confirmed value of both.                                        *)
LEMMA WitnessNegationKeeps ==
    ASSUME Inv, WitnessNegation
    PROVE  Inv'
  <1>1. stage \in {"witness", "common"} /\ stage \in NotStages
    BY DEF WitnessNegation, NotStages
  <1> DEFINE S == IF stage = "witness" THEN LhsWithBase ELSE LhsWithBase \cap Negated
  <1>2. PICK r \in Witnesses(S) :
          IF stage = "common" /\ r = Certified THEN EndBranches(Unsupported)
          ELSE IF IsRefutation(r) THEN \E c \in Confirmed(r) : EndBranches(c)
          ELSE EndBranches(r)
    BY DEF WitnessNegation
  <1>3. S \subseteq Lhs /\ S \subseteq Value /\ S \subseteq Negated
    BY <1>1, NotFacts DEF Inv, StageKnown
  <1>4. /\ r # Proved /\ (IsRefutation(r) => S # {})
        /\ IsRefutation(r) /\ r.witness = None => r = Certified
    <2> HIDE DEF S
    <2> QED BY <1>2, <1>3, WitnessesAreRight
  <1>5. IsRefutation(r) /\ r.witness = None => Right(r)
    <2>1. S # {} => Lhs \cap Negated # {}
      BY <1>3
    <2> QED BY <1>1, <1>4, <2>1, NotFacts
  <1> HIDE DEF S
  <1> QED BY <1>2, <1>4, <1>5, ConfirmedEnds, RefutingEnds, UndecidedEnds DEF Right

-----------------------------------------------------------------------------
(* The rules.                                                              *)

(* Nothing is known at the start, and nothing needs to be.                 *)
LEMMA InitKnows ==
    ASSUME Init
    PROVE  Inv
  <1>1. /\ problem \in Problems /\ stage = FirstStage(problem) /\ i = 1 /\ covering = {}
        /\ base = Unsupported /\ result = Unsupported
    BY DEF Init
  <1>2. StageFits(stage)
    BY <1>1 DEF FirstStage, StageFits, NotStages, Rule
  <1>3. stage \in {"tagged", "plan", "branches", "base", "budget"}
    BY <1>1 DEF FirstStage
  <1>4. ~(stage = "base" /\ Rule = "right-anyof")
    BY <1>1 DEF FirstStage, Rule
  <1>5. \A k \in Indexes : ~(k < 1)
    <2>1. Indexes = 1 .. Len(Children) /\ Len(Children) \in Nat
      BY <1>1, ChildrenFacts
    <2> QED BY <2>1
  <1>6. StageKnown(stage)
    BY <1>1, <1>2, <1>3, <1>4, <1>5 DEF StageKnown
  <1>7. BaseKnown /\ CoveringKnown /\ ResultsAreSound
    BY <1>1, ResultsDiffer DEF BaseKnown, CoveringKnown, ResultsAreSound
  <1> QED BY <1>1, <1>6, <1>7 DEF Inv

(* Every step keeps what the rule knows.                                   *)
LEMMA StepKnows ==
    ASSUME TrustedProblems, Inv, [Next]_vars
    PROVE  Inv'
  <1>1. CASE NextBase
    BY <1>1, AskTaggedBranchKeeps, PlanOneOfKeeps, AskBaseKeeps, SpendKeeps DEF NextBase
  <1>2. CASE NextBranches
    BY <1>2, AskCoveringKeeps, ContinueLoopKeeps, LeaveLoopKeeps, ValidateBranchKeeps,
       EndLoopKeeps DEF NextBranches
  <1>3. CASE NextAnyOf
    BY <1>3, RefuteItemKeeps, SpreadTupleKeeps, AskPartKeeps, EndPartsKeeps DEF NextAnyOf
  <1>4. CASE NextOneOf
    BY <1>4, SelectCoveringKeeps, WitnessOverlapKeeps, SpendOthersKeeps, AskOtherKeeps,
       EndOthersKeeps DEF NextOneOf
  <1>5. CASE NextNot
    BY <1>5, AskContrapositiveKeeps, AskDoubleNegationKeeps, AskApartKeeps,
       CompareStringsKeeps, AskWithinKeeps, WitnessNegationKeeps DEF NextNot
  <1>6. CASE UNCHANGED vars
    BY <1>6, SameStage
  <1> QED BY <1>1, <1>2, <1>3, <1>4, <1>5, <1>6 DEF Next

(* Whatever the context decides of branches and siblings, the result a     *)
(* rule of prover/rules/applicators.py folds them into is right for the    *)
(* two whole schemas, on every trusted problem.                            *)
THEOREM RulesAreSound == TrustedProblems => (Spec => []ResultsAreSound)
  <1> SUFFICES ASSUME TrustedProblems PROVE Spec => []ResultsAreSound
    OBVIOUS
  <1>1. Init => Inv
    BY InitKnows
  <1>2. Inv /\ [Next]_vars => Inv'
    BY StepKnows
  <1>3. Inv => ResultsAreSound
    BY DEF Inv
  <1> QED BY <1>1, <1>2, <1>3, PTL DEF Spec

-----------------------------------------------------------------------------
(* The rules that decide.  For a problem whose questions are all decided,  *)
(* the invariant says which stages such a rule can come to, that its base  *)
(* is proved when it builds on it, and that it has recorded no doubt.      *)
Exact == problem.able /\ problem.standalone /\ Rule \in DecidingRules

Conclusive(r) == r = Proved \/ IsRefutation(r)

ExactStage ==
    /\ stage \in {"budget", "base", "branches", "covering", "contrapositive", "double", "apart",
                  "done"}
    /\ stage = "covering" => Rule = "right-if"
    /\ stage \in {"contrapositive", "double", "apart"} => Rule = "right-not"
    /\ stage \in {"budget", "branches"} => Rule # "right-not"
    /\ stage = "base" => Rule # "left-anyof"

(* The stages after the base.                                              *)
BaseSettled ==
    \/ stage \in {"branches", "covering"} /\ Rule # "left-anyof"
    \/ stage \in {"contrapositive", "double", "apart"}
    \/ stage = "budget" /\ Rule = "right-allof"

Decided ==
    /\ problem \in Problems
    /\ Exact => /\ ~undecided /\ ExactStage
                /\ BaseSettled => base = Proved
                /\ stage = "done" => Conclusive(result)

LEMMA ExactFacts ==
    ASSUME Decided, Exact
    PROVE  /\ problem \in Problems /\ ~problem.certified /\ problem.unknown = {}
           /\ GivesUp = {} /\ BudgetGrants = {TRUE} /\ ~OnlyRefutes
  BY ProblemAssumption DEF Decided, Exact, GivesUp, BudgetGrants, OnlyRefutes

(* A decided question is proved or refuted by a value.                     *)
LEMMA DecisionsDecide ==
    ASSUME Decided, Exact, NEW C \in SUBSET Value, NEW r \in Decisions(C)
    PROVE  r = Proved \/ \E w \in C : r = Refuted(w)
  BY ExactFacts DEF Decisions, Refutations

(* A value that refutes the whole is confirmed.                            *)
LEMMA ValidationsDecide ==
    ASSUME Decided, Exact, NEW w \in Value, w \in Lhs \ Rhs
    PROVE  /\ Validations(w) = {Refuted(w)} /\ Confirmed(Refuted(w)) = {Refuted(w)}
           /\ IsRefutation(Refuted(w)) /\ Refuted(w) # Proved /\ Refuted(w) # Unsupported
           /\ Refuted(w) # Exhausted /\ Refuted(w) # Certified
  <1>1. Validations(w) = {Refuted(w)}
    BY DEF Exact, Validations
  <1>2. w # None
    BY NoneAssumption
  <1> QED BY <1>1, <1>2, ResultsDiffer DEF Confirmed

(* A value of the left side that the base or the applicator rejects.       *)
LEMMA OutsideRefutes ==
    ASSUME Rule \notin LeftRules, NEW v \in Lhs, v \notin Base \/ ~Applied(v)
    PROVE  v \in Lhs \ Rhs
  BY DEF Rhs, Composite

-----------------------------------------------------------------------------
(* How the steps of such a rule end.                                       *)
LEMMA ExactStays ==
    ASSUME problem' = problem
    PROVE  Exact' <=> Exact
  BY SameProblem DEF Exact

LEMMA Concluding ==
    ASSUME Decided, Exact, NEW r, Conclusive(r), Return(r)
    PROVE  Decided'
  BY SameProblem, ExactStays DEF Decided, ExactStage, BaseSettled, Conclusive, IsRefutation, Return

LEMMA ConcludingBranches ==
    ASSUME Decided, Exact, NEW r, Conclusive(r),
           r = Proved /\ Rule \in {"right-not", "right-allof"} => base = Proved,
           EndBranches(r)
    PROVE  Decided'
  <1>1. CASE Rule \in LeftRules \cup Conditionals
    BY <1>1, Concluding DEF EndBranches
  <1>2. CASE Rule \notin LeftRules \cup Conditionals
    <2>1. Rule \in {"right-not", "right-allof"}
      BY <1>2 DEF Exact, DecidingRules, LeftRules, Conditionals
    <2>2. Return(WithBase(r))
      BY <1>2, <2>1, ExactFacts DEF EndBranches
    <2>3. Conclusive(WithBase(r))
      BY <2>1, ResultsDiffer DEF Conclusive, WithBase
    <2> QED BY <2>2, <2>3, Concluding
  <1> QED BY <1>1, <1>2

LEMMA RefutingBranches ==
    ASSUME Decided, Exact, NEW w \in Value, EndBranches(Refuted(w))
    PROVE  Decided'
  BY ConcludingBranches, ResultsDiffer DEF Conclusive

(* A question of a right not, answered by a proof of the branches or by a  *)
(* value that refutes the whole.                                           *)
LEMMA NotDecides ==
    ASSUME Decided, Exact, stage \in {"contrapositive", "double", "apart"},
           NEW C, C \subseteq Lhs \cap Negated, NEW r \in Decisions(C),
           \/ IsRefutation(r) /\ \E c \in Confirmed(r) : EndBranches(c)
           \/ ~IsRefutation(r) /\ EndBranches(r)
    PROVE  Decided'
  <1>1. Rule = "right-not" /\ base = Proved
    BY DEF Decided, ExactStage, BaseSettled
  <1>2. C \subseteq Value /\ \A w \in C : w \in Lhs \ Rhs
    <2>1. Lhs \subseteq Value /\ Indexes = {1}
      BY <1>1, ChildrenFacts DEF Decided
    <2>2. \A w \in C : ~Applied(w)
      BY <1>1, <2>1 DEF Applied, Accepting, Negated
    <2> QED BY <1>1, <2>1, <2>2, OutsideRefutes DEF LeftRules
  <1>3. CASE r = Proved
    BY <1>1, <1>3, ConcludingBranches, ResultsDiffer DEF Conclusive
  <1>4. CASE \E w \in C : r = Refuted(w)
    BY <1>2, <1>4, ValidationsDecide, RefutingBranches
  <1> QED BY <1>2, <1>3, <1>4, DecisionsDecide

-----------------------------------------------------------------------------
(* The steps of such a rule.                                               *)
LEMMA AskBaseDecides ==
    ASSUME Decided, Exact, AskBase
    PROVE  Decided'
  <1>1. PICK r \in BaseAnswers :
          IF IsRefutation(r) THEN \E c \in Confirmed(r) : Return(c)
          ELSE /\ base' = r
               /\ stage' = IF Rule = "right-not" THEN "contrapositive"
                           ELSE IF Rule \in Conditionals THEN FirstBranch ELSE "budget"
               /\ UNCHANGED <<problem, i, undecided, covering, branch, result>>
    BY DEF AskBase, Exact, DecidingRules
  <1>2. r = Proved \/ \E w \in Value : w \in Lhs \ Rhs /\ r = Refuted(w)
    <2>1. CASE r \in Inclusion(Lhs, Base) /\ Rule # "left-if"
      <3>1. Rule \notin LeftRules /\ Lhs \subseteq Value
        BY <2>1, ChildrenFacts DEF Decided, Exact, ExactStage, AskBase, DecidingRules, LeftRules
      <3>2. r = Proved \/ \E w \in Lhs \ Base : r = Refuted(w)
        <4>1. Lhs \ Base \in SUBSET Value
          BY <3>1
        <4> QED BY <2>1, <4>1, DecisionsDecide DEF Inclusion
      <3> QED BY <3>1, <3>2, OutsideRefutes
    <2>2. CASE r = Proved
      BY <2>2
    <2> QED BY <1>1, <2>1, <2>2 DEF BaseAnswers, Exact
  <1>3. CASE r = Proved
    <2>1. /\ base' = Proved
          /\ stage' = IF Rule = "right-not" THEN "contrapositive"
                      ELSE IF Rule \in Conditionals THEN FirstBranch ELSE "budget"
          /\ UNCHANGED <<problem, i, undecided, covering, branch, result>>
      BY <1>1, <1>3, ResultsDiffer
    <2>2. Rule \in {"right-not", "right-allof", "left-if", "right-if"}
      BY DEF AskBase, Decided, ExactStage, Exact, DecidingRules
    <2> QED
      BY <2>1, <2>2, SameProblem, ExactStays
         DEF Decided, ExactStage, BaseSettled, FirstBranch, Conditionals
  <1>4. CASE \E w \in Value : w \in Lhs \ Rhs /\ r = Refuted(w)
    BY <1>1, <1>4, ValidationsDecide, Concluding DEF Conclusive
  <1> QED BY <1>2, <1>3, <1>4

LEMMA SpendDecides ==
    ASSUME Decided, Exact, Spend
    PROVE  Decided'
  <1>1. stage = "budget" /\ Go(IF Rule \in Conditionals THEN "base" ELSE "branches")
    <2>1. PICK granted \in BudgetGrants :
            ~granted \/ Go(IF Rule \in Conditionals THEN "base" ELSE "branches")
      BY DEF Spend
    <2>2. BudgetGrants = {TRUE}
      BY ExactFacts
    <2>3. granted = TRUE
      BY <2>2
    <2>4. granted
      BY <2>3, Zenon
    <2> QED BY <2>1, <2>4 DEF Spend
  <1>2. Rule \in {"left-anyof", "right-allof", "left-if", "right-if"}
    BY <1>1 DEF Decided, ExactStage, Exact, DecidingRules
  <1> QED
    BY <1>1, <1>2, SameProblem, ExactStays
       DEF Decided, ExactStage, BaseSettled, Go, Conditionals

LEMMA NextBranchDecides ==
    ASSUME Decided, Exact, stage \in {"branches", "covering"}, NEW cover,
           NextBranch(FALSE, cover)
    PROVE  Decided'
  BY SameProblem, ExactStays DEF Decided, ExactStage, BaseSettled, NextBranch, FirstBranch

LEMMA AskCoveringDecides ==
    ASSUME Decided, Exact, AskCovering
    PROVE  Decided'
  <1>1. stage = "covering" /\ Rule = "right-if" /\ base = Proved
    BY DEF AskCovering, Decided, ExactStage, BaseSettled
  <1>2. CASE NextBranch(FALSE, {})
    BY <1>1, <1>2, NextBranchDecides
  <1>3. CASE \E r \in Disjointness(Lhs, Condition(i)) :
               IF r = Exhausted THEN Return(r) ELSE Go("branches")
    <2>1. Lhs \cap Condition(i) \in SUBSET Value
      BY ChildrenFacts DEF Decided
    <2>2. Go("branches")
      BY <1>3, <2>1, DecisionsDecide, ResultsDiffer DEF Disjointness
    <2> QED
      BY <1>1, <2>2, SameProblem, ExactStays DEF Decided, ExactStage, BaseSettled, Go
  <1> QED BY <1>2, <1>3 DEF AskCovering

(* A question about a branch is answered by a proof, or by a value that    *)
(* refutes the whole.                                                      *)
LEMMA BranchAnswersDecide ==
    ASSUME Decided, Exact, NEW r \in BranchAnswers
    PROVE  /\ stage = "branches" /\ Rule \in {"left-anyof", "right-allof", "left-if", "right-if"}
           /\ r = Proved \/ \E w \in Value : w \in Lhs \ Rhs /\ r = Refuted(w)
  <1>1. stage = "branches" /\ i \in Indexes /\ r \in BranchQuestion(i)
    BY ExactFacts DEF BranchAnswers
  <1>2. Rule \in {"left-anyof", "right-allof", "left-if", "right-if"}
    BY <1>1 DEF Decided, ExactStage, Exact, DecidingRules
  <1>3. /\ Base \subseteq Value /\ Lhs \subseteq Value /\ \A k : Condition(k) \subseteq Value
        /\ Rule \in Conditionals => Indexes = {1, 2}
    BY ChildrenFacts DEF Decided
  <1>4. CASE Rule = "left-anyof"
    <2>1. r \in Decisions((Base \cap Children[i]) \ Rhs)
      BY <1>1, <1>4 DEF BranchQuestion, Inclusion, LeftRules
    <2>2. \A w \in (Base \cap Children[i]) \ Rhs : w \in Lhs
      BY <1>1, <1>4 DEF Lhs, Composite, Applied, Accepting, LeftRules
    <2>3. (Base \cap Children[i]) \ Rhs \in SUBSET Value
      BY <1>3
    <2> QED BY <1>1, <1>2, <2>1, <2>2, <2>3, DecisionsDecide
  <1>5. CASE Rule = "left-if"
    <2> DEFINE C == (Base \cap Condition(i) \cap Consequent(i)) \ Rhs
    <2>1. r \in Decisions(C) /\ C \in SUBSET Value
      BY <1>1, <1>3, <1>5 DEF BranchQuestion, Inclusion
    <2>2. \A w \in C : \A k \in Indexes : w \in Condition(k) => k = i
      BY <1>1, <1>3, <1>5 DEF Condition, Conditionals
    <2>3. \A w \in C : w \in Lhs
      BY <1>5, <2>2 DEF Lhs, Composite, Applied, LeftRules
    <2>4. r = Proved \/ \E w \in C : r = Refuted(w)
      <3> HIDE DEF C
      <3> QED BY <2>1, DecisionsDecide
    <2> QED BY <1>1, <1>2, <2>1, <2>3, <2>4
  <1>6. CASE Rule = "right-allof"
    <2>1. r \in Decisions(Lhs \ Children[i]) /\ Lhs \ Children[i] \in SUBSET Value
      BY <1>1, <1>3, <1>6 DEF BranchQuestion, Inclusion, LeftRules
    <2>2. \A w \in Lhs \ Children[i] : w \in Lhs \ Rhs
      BY <1>1, <1>6, OutsideRefutes DEF Applied, Accepting, LeftRules
    <2> QED BY <1>1, <1>2, <2>1, <2>2, DecisionsDecide
  <1>7. CASE Rule = "right-if"
    <2> DEFINE C == (Lhs \cap Condition(i)) \ Consequent(i)
    <2>1. r \in Decisions(C) /\ C \in SUBSET Value
      BY <1>1, <1>3, <1>7 DEF BranchQuestion, Inclusion, LeftRules
    <2>2. \A w \in C : w \in Lhs \ Rhs
      BY <1>1, <1>7, OutsideRefutes DEF Applied, LeftRules
    <2>3. r = Proved \/ \E w \in C : r = Refuted(w)
      <3> HIDE DEF C
      <3> QED BY <2>1, DecisionsDecide
    <2> QED BY <1>1, <1>2, <2>1, <2>2, <2>3
  <1> QED BY <1>2, <1>4, <1>5, <1>6, <1>7

LEMMA BranchesDecide ==
    ASSUME Decided, Exact, ContinueLoop \/ LeaveLoop \/ ValidateBranch
    PROVE  Decided'
  <1>1. \A r \in BranchAnswers :
          /\ stage = "branches"
          /\ r = Proved => Choice(r) = "continue"
          /\ r # Proved => Choice(r) = "validate"
    <2> TAKE r \in BranchAnswers
    <2>1. /\ stage = "branches"
          /\ Rule \in {"left-anyof", "right-allof", "left-if", "right-if"}
          /\ r = Proved \/ \E w \in Value : w \in Lhs \ Rhs /\ r = Refuted(w)
      BY BranchAnswersDecide
    <2> QED BY <2>1, ValidationsDecide DEF Choice
  <1>2. CASE ContinueLoop
    <2>1. \E cover : NextBranch(FALSE, cover)
      BY <1>1, <1>2 DEF ContinueLoop
    <2>2. stage = "branches"
      BY <1>1, <1>2 DEF ContinueLoop
    <2> QED BY <2>1, <2>2, NextBranchDecides
  <1>3. CASE LeaveLoop
    BY <1>1, <1>3 DEF LeaveLoop
  <1>4. CASE ValidateBranch
    <2>1. PICK r \in BranchAnswers :
            /\ Choice(r) = "validate"
            /\ \E v \in Validations(r.witness) :
                 v # Unsupported \/ AfterRejection = "give up" => EndBranches(v)
      BY <1>4 DEF ValidateBranch
    <2>2. r # Proved
      BY <1>1, <2>1
    <2>3. PICK w \in Value : w \in Lhs \ Rhs /\ r = Refuted(w)
      BY <2>2, BranchAnswersDecide
    <2>4. r.witness = w
      BY <2>3, ResultsDiffer
    <2>5. EndBranches(Refuted(w))
      BY <2>1, <2>3, <2>4, ValidationsDecide
    <2> QED BY <2>5, RefutingBranches
  <1> QED BY <1>2, <1>3, <1>4

LEMMA EndLoopDecides ==
    ASSUME Decided, Exact, EndLoop
    PROVE  Decided'
  <1>1. stage \in {"branches", "covering"} /\ ~undecided
    BY DEF EndLoop, Decided
  <1>2. /\ Rule \in {"left-anyof", "right-allof", "left-if", "right-if"}
        /\ Rule # "left-anyof" => base = Proved
    BY <1>1 DEF Decided, ExactStage, BaseSettled, Exact, DecidingRules
  <1>3. EndBranches(Proved)
    BY <1>1, <1>2, ExactFacts DEF EndLoop, Conditionals
  <1> QED BY <1>2, <1>3, ConcludingBranches DEF Conclusive

LEMMA AskContrapositiveDecides ==
    ASSUME Decided, Exact, AskContrapositive
    PROVE  Decided'
  <1>1. stage = "contrapositive" /\ Rule = "right-not" /\ base = Proved
    BY DEF AskContrapositive, Decided, ExactStage, BaseSettled
  <1>2. CASE Go("double")
    BY <1>1, <1>2, SameProblem, ExactStays DEF Decided, ExactStage, BaseSettled, Go
  <1>3. CASE \E r \in Inclusion(Negated, Value \ Lhs) :
               IF r \in {Unsupported, Certified} THEN Go("double")
               ELSE IF IsRefutation(r) THEN \E c \in Confirmed(r) : EndBranches(c)
               ELSE EndBranches(r)
    <2>1. Negated \subseteq Value
      BY <1>1, ChildrenFacts DEF Decided, Negated, Conditionals
    <2> DEFINE C == Negated \ (Value \ Lhs)
    <2>2. C \subseteq Lhs \cap Negated
      BY <2>1
    <2> HIDE DEF C
    <2>3. PICK r \in Decisions(C) :
            \/ Go("double")
            \/ IsRefutation(r) /\ \E c \in Confirmed(r) : EndBranches(c)
            \/ ~IsRefutation(r) /\ EndBranches(r)
      BY <1>3 DEF Inclusion, C
    <2> QED BY <1>1, <1>2, <2>2, <2>3, NotDecides
  <1> QED BY <1>2, <1>3, ExactFacts DEF AskContrapositive

LEMMA AskDoubleNegationDecides ==
    ASSUME Decided, Exact, AskDoubleNegation
    PROVE  Decided'
  <1>1. stage = "double" /\ Rule = "right-not" /\ base = Proved
    BY DEF AskDoubleNegation, Decided, ExactStage, BaseSettled
  <1>2. CASE Go("apart")
    BY <1>1, <1>2, SameProblem, ExactStays DEF Decided, ExactStage, BaseSettled, Go
  <1>3. CASE \E r \in Inclusion(LhsWithBase, Value \ Negated) :
               IF r = Certified THEN EndBranches(Unsupported)
               ELSE IF IsRefutation(r) THEN \E c \in Confirmed(r) : EndBranches(c)
               ELSE EndBranches(r)
    <2> DEFINE C == LhsWithBase \ (Value \ Negated)
    <2>1. C \subseteq Lhs \cap Negated /\ C \subseteq Value
      BY <1>1, ChildrenFacts DEF Decided, LhsWithBase, Lhs, LeftRules
    <2> HIDE DEF C
    <2>2. PICK r \in Decisions(C) :
            IF r = Certified THEN EndBranches(Unsupported)
            ELSE IF IsRefutation(r) THEN \E c \in Confirmed(r) : EndBranches(c)
            ELSE EndBranches(r)
      BY <1>3 DEF Inclusion, C
    <2>3. r # Certified
      BY <2>1, DecisionsDecide, NoneAssumption, ResultsDiffer
    <2> QED BY <1>1, <2>1, <2>2, <2>3, NotDecides
  <1> QED BY <1>2, <1>3 DEF AskDoubleNegation

LEMMA AskApartDecides ==
    ASSUME Decided, Exact, AskApart
    PROVE  Decided'
  <1>1. stage = "apart" /\ Rule = "right-not" /\ base = Proved
    BY DEF AskApart, Decided, ExactStage, BaseSettled
  <1> DEFINE C == LhsWithBase \cap Negated
  <1>2. C \subseteq Lhs \cap Negated /\ C \subseteq Value
    BY <1>1, ChildrenFacts DEF Decided, LhsWithBase, Lhs, LeftRules
  <1> HIDE DEF C
  <1>3. PICK r \in Decisions(C) :
          IF r \in {Unsupported, Certified} THEN Go("strings")
          ELSE IF IsRefutation(r) THEN \E c \in Confirmed(r) : EndBranches(c)
          ELSE EndBranches(r)
    BY DEF AskApart, Disjointness, C
  <1>4. r \notin {Unsupported, Certified}
    BY <1>2, DecisionsDecide, NoneAssumption, ResultsDiffer
  <1> QED BY <1>1, <1>2, <1>3, <1>4, NotDecides

-----------------------------------------------------------------------------
(* No step changes the problem.                                            *)
LEMMA ProblemStays ==
    ASSUME [Next]_vars
    PROVE  problem' = problem
  <1>1. CASE NextBase
    BY <1>1 DEF NextBase, AskTaggedBranch, PlanOneOf, AskBase, Spend, EndBranches, Return, Go
  <1>2. CASE NextBranches
    BY <1>2 DEF NextBranches, AskCovering, ContinueLoop, LeaveLoop, ValidateBranch, EndLoop,
       EndBranches, NextBranch, Return, Go
  <1>3. CASE NextAnyOf
    BY <1>3 DEF NextAnyOf, RefuteItem, SpreadTuple, AskPart, EndParts, EndBranches, Return, Go
  <1>4. CASE NextOneOf
    BY <1>4 DEF NextOneOf, SelectCovering, WitnessOverlap, SpendOthers, AskOther, EndOthers,
       EndBranches, Return, Go
  <1>5. CASE NextNot
    BY <1>5 DEF NextNot, AskContrapositive, AskDoubleNegation, AskApart, CompareStrings,
       AskWithin, WitnessNegation, EndBranches, Return, Go
  <1> QED BY <1>1, <1>2, <1>3, <1>4, <1>5 DEF Next, vars

LEMMA StartDecides ==
    ASSUME Init
    PROVE  Decided
  <1>1. problem \in Problems /\ stage = FirstStage(problem) /\ ~undecided
    BY DEF Init
  <1>2. ASSUME Exact PROVE ExactStage /\ ~BaseSettled /\ stage # "done"
    BY <1>1, <1>2 DEF Exact, DecidingRules, FirstStage, ExactStage, BaseSettled, Rule
  <1> QED BY <1>1, <1>2 DEF Decided

LEMMA StepDecides ==
    ASSUME Decided, [Next]_vars
    PROVE  Decided'
  <1>1. problem' = problem
    BY ProblemStays
  <1>2. CASE ~Exact
    BY <1>1, <1>2, ExactStays DEF Decided
  <1>3. CASE Exact
    <2>1. ExactStage
      BY <1>3 DEF Decided
    <2>2. CASE NextBase
      BY <1>3, <2>1, <2>2, AskBaseDecides, SpendDecides
         DEF NextBase, AskTaggedBranch, PlanOneOf, ExactStage
    <2>3. CASE NextBranches
      BY <1>3, <2>3, AskCoveringDecides, BranchesDecide, EndLoopDecides DEF NextBranches
    <2>4. CASE NextAnyOf
      BY <2>1, <2>4 DEF NextAnyOf, RefuteItem, SpreadTuple, AskPart, EndParts, ExactStage
    <2>5. CASE NextOneOf
      BY <2>1, <2>5 DEF NextOneOf, SelectCovering, WitnessOverlap, SpendOthers, AskOther,
         EndOthers, ExactStage
    <2>6. CASE NextNot
      <3>1. ~CompareStrings /\ ~AskWithin /\ ~WitnessNegation
        BY <2>1 DEF CompareStrings, AskWithin, WitnessNegation, ExactStage
      <3> QED
        BY <1>3, <2>6, <3>1, AskContrapositiveDecides, AskDoubleNegationDecides,
           AskApartDecides DEF NextNot
    <2>7. CASE UNCHANGED vars
      BY <1>3, <2>7, SameProblem, ExactStays
         DEF vars, Decided, ExactStage, BaseSettled, Conclusive, IsRefutation
    <2> QED BY <2>2, <2>3, <2>4, <2>5, <2>6, <2>7 DEF Next
  <1> QED BY <1>2, <1>3

(* The exact rules of prover/rules/applicators.py, and the one for not,    *)
(* lose nothing: when the context decides every question with a witness,   *)
(* they decide the problem, for every set of values, any number of         *)
(* branches, and any siblings but the unevaluated ones.                    *)
THEOREM RulesDecide == Spec => []ExactRulesDecide
  <1>1. Init => Decided
    BY StartDecides
  <1>2. Decided /\ [Next]_vars => Decided'
    BY StepDecides
  <1>3. Decided => ExactRulesDecide
    BY DEF Decided, Exact, Conclusive, ExactRulesDecide
  <1> QED BY <1>1, <1>2, <1>3, PTL DEF Spec
=============================================================================

--------------------------- MODULE RuleOrderProofs ---------------------------
(***************************************************************************)
(* The answers of the leaf solver are right for every list of rules, every *)
(* set of values and terms and every validator, if what rules say of two   *)
(* documents is right: counterexamples of composite terms need not be.     *)
(*                                                                         *)
(* The invariant is about the stack of the evaluation.  Every frame knows  *)
(* of the children before its next one what its kind lets it conclude, and *)
(* the frame above it evaluates that next child; so the value of the term  *)
(* that is popped is the value of the child its parent waits for.          *)
(***************************************************************************)
EXTENDS RuleOrder, CommonLemmas

w == proof.witness

Frame == [term : {t \in Term : t.kind \in {"all_of", "any_of", "one_of", "not"}},
          next : Nat, sure : BOOLEAN, doubt : BOOLEAN]

(* The children of a frame that were evaluated.                            *)
Child(f, i) == f.term.children[i]
Done(f) == 1 .. f.next - 1

Sure(f) ==
    /\ f.term.kind # "one_of" => f.sure = FALSE
    /\ f.sure => \E i \in Done(f) : w \in Accepts[Child(f, i)]

Doubtless(f) ==
    ~f.doubt =>
      /\ f.term.kind = "all_of" => \A i \in Done(f) : w \in Accepts[Child(f, i)]
      /\ f.term.kind = "any_of" => \A i \in Done(f) : w \notin Accepts[Child(f, i)]
      /\ f.term.kind = "one_of" /\ ~f.sure => \A i \in Done(f) : w \notin Accepts[Child(f, i)]
      /\ f.term.kind = "one_of" /\ f.sure =>
           \E i \in Done(f) : /\ w \in Accepts[Child(f, i)]
                              /\ \A j \in Done(f) \ {i} : w \notin Accepts[Child(f, j)]

Known(f) ==
    /\ f.next \in 1 .. Len(f.term.children) + 1
    /\ f.term.kind = "not" => f.next = 1
    /\ Sure(f)
    /\ Doubtless(f)

(* The frames are the way from the term of the side to the one evaluated.  *)
Linked ==
    /\ frames # <<>> => frames[1].term = SideTerm
    /\ \A i \in 1 .. Len(frames) - 1 :
         /\ frames[i].next <= Len(frames[i].term.children)
         /\ frames[i + 1].term = Child(frames[i], frames[i].next)

Evaluating == at \in {"term", "loop", "verdict"}

Stack ==
    /\ frames \in Seq(Frame)
    /\ \A i \in 1 .. Len(frames) : Known(frames[i])
    /\ Linked
    /\ at = "loop" => frames # <<>>
    /\ at \in {"term", "verdict"} /\ frames # <<>> => Top.next <= Len(Top.term.children)
    /\ at = "verdict" => verdict \in Verdicts
    /\ ~Evaluating => frames = <<>>

Question ==
    /\ problem \in Problems
    /\ side \in {"lhs", "rhs"}
    /\ Evaluating => w \in Value
    /\ Evaluating /\ side = "rhs" => w \in Accepts[goal.lhs]

Inv ==
    /\ Question
    /\ Stack
    /\ VerdictsAreRight
    /\ AnswersAreSound

-----------------------------------------------------------------------------
(* Facts about terms and questions.                                        *)
LEMMA GoalFacts ==
    ASSUME problem \in Problems
    PROVE  goal \in Goals /\ goal.lhs \in Term /\ goal.rhs \in Term /\ goal.fn = "subproof"
<1>1. goal \in Goals
  BY ProblemsAssumption DEF goal
<1>2. goal \in {Subproof(l, r) : l, r \in Term} \cup {IrSubproof(l, r) : l, r \in Nodes}
  BY <1>1 DEF Goals
<1>3. PICK l \in Term, r \in Term : goal = Subproof(l, r) \/ goal = IrSubproof(l, r)
  BY <1>2 DEF Nodes
<1> QED
  BY <1>1, <1>3 DEF Subproof, IrSubproof

LEMMA TermFacts ==
    ASSUME NEW t \in Term
    PROVE  /\ t.kind \in Kinds
           /\ t.children \in Seq(Term)
           /\ t.kind = "not" => Len(t.children) = 1
           /\ \A i \in 1 .. Len(t.children) : t.children[i] \in Term
           /\ Accepts[t] \subseteq Value
<1>1. t.kind \in Kinds /\ t.children \in Seq(Term) /\ (t.kind = "not" => Len(t.children) = 1)
  BY TermAssumption
<1>2. \A i \in 1 .. Len(t.children) : t.children[i] \in Term
  BY <1>1
<1>3. Accepts[t] \subseteq Value
  BY AcceptsAssumption
<1> QED
  BY <1>1, <1>2, <1>3

(* The sides are terms, and the term that is evaluated is one.             *)
LEMMA SideTermFacts ==
    ASSUME Question
    PROVE  SideTerm \in Term
  BY GoalFacts DEF Question, SideTerm

LEMMA TermEvaluated ==
    ASSUME Question, Stack, at \in {"term", "verdict"}
    PROVE  term \in Term
<1>1. CASE frames = <<>>
  BY <1>1, SideTermFacts DEF term
<1>2. CASE frames # <<>>
  <2>1. Top \in Frame /\ Known(Top) /\ Top.next <= Len(Top.term.children)
    BY <1>2 DEF Stack, Top
  <2>2. Top.term \in Term /\ Top.next \in 1 .. Len(Top.term.children)
    BY <2>1, TermFacts DEF Frame, Known
  <2>3. Top.term.children[Top.next] \in Term
    BY <2>2, TermFacts
  <2> QED
    BY <1>2, <2>3 DEF term
<1> QED
  BY <1>1, <1>2
-----------------------------------------------------------------------------
(* The children of a frame.                                                *)
LEMMA FrameFacts ==
    ASSUME NEW f \in Frame
    PROVE  /\ f.term \in Term /\ f.term.kind \in {"all_of", "any_of", "one_of", "not"}
           /\ f.next \in Nat /\ f.sure \in BOOLEAN /\ f.doubt \in BOOLEAN
           /\ Len(f.term.children) \in Nat
           /\ f.term.kind = "not" => Len(f.term.children) = 1
           /\ \A i \in 1 .. Len(f.term.children) : Child(f, i) \in Term
  BY TermFacts DEF Frame, Child

(* What the children make of a term.                                       *)
LEMMA Meaning ==
    ASSUME NEW f \in Frame, w \in Value
    PROVE  LET all == 1 .. Len(f.term.children) IN
           /\ f.term.kind = "all_of" =>
                (w \in Accepts[f.term] <=> \A i \in all : w \in Accepts[Child(f, i)])
           /\ f.term.kind = "any_of" =>
                (w \in Accepts[f.term] <=> \E i \in all : w \in Accepts[Child(f, i)])
           /\ f.term.kind = "one_of" =>
                (w \in Accepts[f.term] <=>
                   \E i \in all : /\ w \in Accepts[Child(f, i)]
                                 /\ \A j \in all \ {i} : w \notin Accepts[Child(f, j)])
           /\ f.term.kind = "not" => (w \in Accepts[f.term] <=> w \notin Accepts[Child(f, 1)])
<1>1. f.term \in Term
  BY FrameFacts
<1>2. CASE f.term.kind = "all_of"
  BY <1>1, <1>2, AcceptsAssumption DEF ChildIndexes, Child
<1>3. CASE f.term.kind = "any_of"
  BY <1>1, <1>3, AcceptsAssumption DEF ChildIndexes, Child
<1>4. CASE f.term.kind = "one_of"
  BY <1>1, <1>4, OneOfAssumption DEF ChildIndexes, Child
<1>5. CASE f.term.kind = "not"
  BY <1>1, <1>5, AcceptsAssumption DEF Child
<1> QED
  BY <1>2, <1>3, <1>4, <1>5, FrameFacts

(* When all children were evaluated, the whole has the value of Total.     *)
LEMMA TotalIsRight ==
    ASSUME NEW f \in Frame, w \in Value, Known(f), f.next > Len(f.term.children)
    PROVE  Total(f) \in Verdicts /\ RightFor(f.term, Total(f))
<1>1. f.term.kind # "not" /\ Done(f) = 1 .. Len(f.term.children)
  <2>1. f.next \in 1 .. Len(f.term.children) + 1 /\ (f.term.kind = "not" => f.next = 1)
    BY DEF Known
  <2>2. Len(f.term.children) \in Nat /\ (f.term.kind = "not" => Len(f.term.children) = 1)
    BY FrameFacts
  <2>3. f.next = Len(f.term.children) + 1
    BY <2>1, <2>2
  <2>4. f.term.kind # "not"
    <3>1. SUFFICES ASSUME f.term.kind = "not" PROVE FALSE
      OBVIOUS
    <3>2. f.next = 1 /\ Len(f.term.children) = 1
      BY <2>1, <2>2, <3>1
    <3> QED
      BY <2>3, <3>2
  <2>5. \A n \in Nat : f.next = n + 1 => f.next - 1 = n
    BY FrameFacts
  <2>6. f.next - 1 = Len(f.term.children)
    BY <2>2, <2>3, <2>5
  <2> QED
    BY <2>4, <2>6 DEF Done
<1>2. CASE f.doubt
  BY <1>2 DEF Total, RightFor, w, Verdicts
<1>3. CASE ~f.doubt /\ f.term.kind = "all_of"
  BY <1>1, <1>3, Meaning DEF Known, Doubtless, Total, RightFor, w, Verdicts
<1>4. CASE ~f.doubt /\ f.term.kind = "any_of"
  BY <1>1, <1>4, Meaning DEF Known, Doubtless, Sure, Total, RightFor, w, Verdicts
<1>5. CASE ~f.doubt /\ f.term.kind = "one_of"
  BY <1>1, <1>5, Meaning DEF Known, Doubtless, Total, RightFor, w, Verdicts
<1> QED
  BY <1>1, <1>2, <1>3, <1>4, <1>5, FrameFacts

(* A child that decides makes the whole what Decided says.                 *)
LEMMA DecidedIsRight ==
    ASSUME NEW f \in Frame, w \in Value, Known(f), f.next <= Len(f.term.children),
           NEW v \in Verdicts, RightFor(Child(f, f.next), v), Decides(f, v)
    PROVE  Decided(f, v) \in Verdicts /\ RightFor(f.term, Decided(f, v))
<1>1. f.next \in 1 .. Len(f.term.children)
  BY FrameFacts DEF Known
<1>2. CASE f.term.kind = "all_of"
  BY <1>1, <1>2, Meaning DEF Decides, Decided, RightFor, w, Verdicts
<1>3. CASE f.term.kind = "any_of"
  BY <1>1, <1>3, Meaning DEF Decides, Decided, RightFor, w, Verdicts
<1>4. CASE f.term.kind = "one_of"
  <2>1. v = "confirmed" /\ f.sure /\ Decided(f, v) = "rejected"
    BY <1>4 DEF Decides, Decided
  <2>2. PICK i \in Done(f) : w \in Accepts[Child(f, i)]
    BY <2>1 DEF Known, Sure
  <2>3. i # f.next /\ i \in 1 .. Len(f.term.children)
    BY <1>1, FrameFacts DEF Done
  <2>4. w \in Accepts[Child(f, f.next)]
    BY <2>1 DEF RightFor, w
  <2> QED
    BY <1>1, <1>4, <2>1, <2>2, <2>3, <2>4, Meaning DEF RightFor, w, Verdicts
<1>5. CASE f.term.kind = "not"
  BY <1>1, <1>5, Meaning DEF Known, Decides, Decided, RightFor, w, Verdicts
<1> QED
  BY <1>2, <1>3, <1>4, <1>5, FrameFacts

(* A child that does not decide is remembered.                             *)
LEMMA RememberedIsKnown ==
    ASSUME NEW f \in Frame, w \in Value, Known(f), f.next <= Len(f.term.children),
           NEW v \in Verdicts, RightFor(Child(f, f.next), v), ~Decides(f, v)
    PROVE  Remember(f, v) \in Frame /\ Known(Remember(f, v))
<1> DEFINE g == Remember(f, v)
<1>1. /\ g.term = f.term /\ g.next = f.next + 1
      /\ g.sure = (f.sure \/ (f.term.kind = "one_of" /\ v = "confirmed"))
      /\ g.doubt = (f.doubt \/ v = "unsupported")
  BY DEF Remember
<1>2. g \in Frame
  BY FrameFacts DEF Frame, Remember
<1>3. f.term.kind # "not" /\ f.next \in 1 .. Len(f.term.children)
  BY FrameFacts DEF Known, Decides
<1>4. Done(g) = Done(f) \cup {f.next} /\ f.next \notin Done(f)
  BY <1>1, <1>3, FrameFacts DEF Done
<1>5. \A i : Child(g, i) = Child(f, i)
  BY <1>1 DEF Child
<1>6. g.next \in 1 .. Len(g.term.children) + 1
  BY <1>1, <1>3, FrameFacts
<1>7. Sure(g)
  BY <1>1, <1>4, <1>5 DEF Known, Sure, RightFor, w
<1>8. Doubtless(g)
  <2>1. SUFFICES ASSUME ~g.doubt PROVE Doubtless(g)
    BY DEF Doubtless
  <2>2. ~f.doubt /\ (v = "confirmed" \/ v = "rejected")
    BY <1>1, <2>1 DEF Verdicts
  <2>3. CASE f.term.kind = "all_of"
    BY <1>1, <1>4, <1>5, <2>2, <2>3 DEF Known, Doubtless, Decides, RightFor, w
  <2>4. CASE f.term.kind = "any_of"
    BY <1>1, <1>4, <1>5, <2>2, <2>4 DEF Known, Doubtless, Decides, RightFor, w
  <2>5. CASE f.term.kind = "one_of" /\ v = "confirmed"
    <3>1. ~f.sure /\ g.sure
      BY <1>1, <2>5 DEF Decides
    <3>2. \A i \in Done(f) : w \notin Accepts[Child(f, i)]
      BY <2>2, <2>5, <3>1 DEF Known, Doubtless
    <3>3. w \in Accepts[Child(f, f.next)]
      BY <2>5 DEF RightFor, w
    <3>4. \E i \in Done(g) : /\ w \in Accepts[Child(g, i)]
                             /\ \A j \in Done(g) \ {i} : w \notin Accepts[Child(g, j)]
      BY <1>4, <1>5, <3>2, <3>3
    <3> QED
      BY <1>1, <2>5, <3>1, <3>4 DEF Doubtless
  <2>6. CASE f.term.kind = "one_of" /\ v = "rejected" /\ f.sure
    <3>1. PICK i \in Done(f) : /\ w \in Accepts[Child(f, i)]
                              /\ \A j \in Done(f) \ {i} : w \notin Accepts[Child(f, j)]
      BY <2>2, <2>6 DEF Known, Doubtless
    <3>2. w \notin Accepts[Child(f, f.next)]
      BY <2>6 DEF RightFor, w
    <3>3. g.sure
      BY <1>1, <2>6
    <3>4. \E k \in Done(g) : /\ w \in Accepts[Child(g, k)]
                             /\ \A j \in Done(g) \ {k} : w \notin Accepts[Child(g, j)]
      BY <1>4, <1>5, <3>1, <3>2
    <3> QED
      BY <1>1, <2>6, <3>3, <3>4 DEF Doubtless
  <2>7. CASE f.term.kind = "one_of" /\ v = "rejected" /\ ~f.sure
    <3>1. \A i \in Done(f) : w \notin Accepts[Child(f, i)]
      BY <2>2, <2>7 DEF Known, Doubtless
    <3>2. w \notin Accepts[Child(f, f.next)]
      BY <2>7 DEF RightFor, w
    <3>3. ~g.sure
      BY <1>1, <2>7
    <3>4. \A i \in Done(g) : w \notin Accepts[Child(g, i)]
      BY <1>4, <1>5, <3>1, <3>2
    <3> QED
      BY <1>1, <2>7, <3>3, <3>4 DEF Doubtless
  <2> QED
    BY <1>3, <2>2, <2>3, <2>4, <2>5, <2>6, <2>7, FrameFacts
<1> HIDE DEF g
<1> QED
  BY <1>1, <1>2, <1>3, <1>6, <1>7, <1>8 DEF Known, g
-----------------------------------------------------------------------------
(* Initially nothing is evaluated and nothing is answered.                 *)
LEMMA InitHolds == Init => Inv
<1> SUFFICES ASSUME Init PROVE Inv
  OBVIOUS
<1>1. Question
  BY DEF Init, Question, Evaluating
<1>2. Stack
  BY DEF Init, Stack, Linked, Evaluating
<1> QED
  BY <1>1, <1>2 DEF Init, Inv, VerdictsAreRight, AnswersAreSound

(* What a frame knows is about the witness alone.                          *)
LEMMA KnownStays ==
    ASSUME NEW f, Known(f), proof' = proof
    PROVE  Known(f)'
<1>1. w' = w
  BY DEF w
<1> QED
  BY <1>1 DEF Known, Sure, Doubtless, Done, Child

(* The value of the frame that is left is that of the term now awaited.    *)
LEMMA PopGoesBack ==
    ASSUME Inv, Evaluating, frames # <<>>, Pop, UNCHANGED unchangedSolver,
           at' = "verdict", verdict' \in Verdicts, RightFor(Top.term, verdict')
    PROVE  Inv'
<1> DEFINE n == Len(frames)
<1>1. /\ frames \in Seq(Frame) /\ n \in Nat \ {0}
      /\ frames' \in Seq(Frame) /\ Len(frames') = n - 1
      /\ \A i \in 1 .. n - 1 : frames'[i] = frames[i]
  BY PopFacts DEF Inv, Stack, Pop
<1>2. /\ problem' = problem /\ proof' = proof /\ side' = side /\ goal' = goal
      /\ w' = w /\ SideTerm' = SideTerm
  BY DEF unchangedSolver, goal, w, SideTerm
<1>3. Question'
  BY <1>2 DEF Inv, Question, Evaluating
<1>4. \A i \in 1 .. Len(frames') : Known(frames[i])'
  <2> SUFFICES ASSUME NEW i \in 1 .. n - 1 PROVE Known(frames[i])'
    BY <1>1
  <2>1. Known(frames[i]) /\ frames'[i] = frames[i]
    BY <1>1 DEF Inv, Stack
  <2> QED
    BY <1>2, <2>1, KnownStays
<1>5. Linked'
  <2>1. /\ frames[1].term = SideTerm
        /\ \A i \in 1 .. n - 1 : /\ frames[i].next <= Len(frames[i].term.children)
                                 /\ frames[i + 1].term = Child(frames[i], frames[i].next)
    BY <1>1 DEF Inv, Stack, Linked
  <2>2. frames' # <<>> => frames'[1] = frames[1]
    BY <1>1
  <2>3. \A i \in 1 .. Len(frames') - 1 : frames'[i] = frames[i] /\ frames'[i + 1] = frames[i + 1]
    BY <1>1
  <2> QED
    BY <1>1, <1>2, <2>1, <2>2, <2>3 DEF Linked, Child
<1>6. CASE n = 1
  <2>1. frames' = <<>> /\ Top = frames[1]
    BY <1>1, <1>6 DEF Top
  <2>2. term' = Top.term
    BY <1>2, <2>1, <1>6 DEF term, Inv, Stack, Linked
  <2> QED
    BY <1>1, <1>2, <1>3, <1>4, <1>5, <2>1, <2>2
    DEF Inv, Stack, VerdictsAreRight, AnswersAreSound, RightFor, w, Evaluating
<1>7. CASE n # 1
  <2>1. frames' # <<>> /\ Top' = frames[n - 1]
    BY <1>1, <1>7 DEF Top
  <2>2. /\ frames[n - 1].next <= Len(frames[n - 1].term.children)
        /\ frames[n].term = Child(frames[n - 1], frames[n - 1].next)
    BY <1>1, <1>7 DEF Inv, Stack, Linked
  <2>3. term' = Top.term
    BY <2>1, <2>2 DEF term, Top, Child
  <2> QED
    BY <1>1, <1>2, <1>3, <1>4, <1>5, <2>1, <2>2, <2>3
    DEF Inv, Stack, VerdictsAreRight, AnswersAreSound, RightFor, w, Evaluating
<1> QED
  BY <1>6, <1>7
-----------------------------------------------------------------------------
(* The steps of the solver.                                                *)
LEMMA OutcomeFacts ==
    ASSUME problem \in Problems, NEW said \in Outcomes, NEW r,
           TermGuard(ClassGuard(r, said)).status # "unsupported"
    PROVE  LET outcome == TermGuard(ClassGuard(r, said)) IN
           /\ NeedsConfirmation(outcome) => outcome.witness \in Value
           /\ BetweenDocuments \/ ~NeedsConfirmation(outcome) => Sound(goal, Returned(outcome))
<1> DEFINE outcome == TermGuard(ClassGuard(r, said))
<1>1. outcome = said
  BY DEF TermGuard, ClassGuard, GivesUp, SaysNothing, Says
<1>2. goal.fn = "subproof" /\ goal.lhs \in Term /\ goal.rhs \in Term
  BY GoalFacts
<1>3. Counterexamples(goal) \subseteq Value
  BY <1>2, TermFacts DEF Counterexamples
<1>4. said.status = "proved_true" => Counterexamples(goal) = {} \/ CompositeRight
  BY DEF Outcomes, GivesUp, Says
<1>5. said.status = "proved_false" =>
        \/ said.certificate /\ said.witness = Null /\ Counterexamples(goal) # {}
        \/ /\ ~said.certificate /\ said.witness \in Value
           /\ BetweenDocuments => said.witness \in Counterexamples(goal)
  BY <1>3 DEF Outcomes, GivesUp, Says
<1>6. NeedsConfirmation(said) => said.witness \in Value
  BY <1>5 DEF NeedsConfirmation
<1>7. ASSUME BetweenDocuments \/ ~NeedsConfirmation(said)
      PROVE  Sound(goal, Returned(said))
  <2>1. CASE said.status = "proved_true"
    <3>1. ~CompositeRight
      BY <1>1, <2>1 DEF TermGuard, BetweenDocuments, CompositeRight, SaysNothing, GivesUp, Says
    <3> QED
      BY <1>4, <2>1, <3>1 DEF Sound, Returned
  <2>2. CASE said.status = "proved_false"
    <3>1. CASE said.certificate /\ said.witness = Null /\ Counterexamples(goal) # {}
      BY <2>2, <3>1 DEF Sound, Returned
    <3>2. CASE ~said.certificate
      <4>1. BetweenDocuments
        <5>1. SUFFICES ASSUME ~BetweenDocuments PROVE FALSE
          OBVIOUS
        <5>2. said.witness = Null
          BY <1>7, <2>2, <3>2, <5>1 DEF NeedsConfirmation
        <5>3. outcome = SaysNothing
          BY <1>1, <2>2, <3>2, <5>1, <5>2 DEF TermGuard
        <5> QED
          BY <5>3 DEF SaysNothing, GivesUp, Says
      <4> QED
        BY <1>5, <2>2, <3>2, <4>1 DEF Sound, Returned
    <3> QED
      BY <1>5, <2>2, <3>1, <3>2
  <2>3. CASE said.status # "proved_true" /\ said.status # "proved_false"
    BY <2>3 DEF Sound, Returned
  <2> QED
    BY <2>1, <2>2, <2>3
<1> HIDE DEF outcome
<1>8. /\ NeedsConfirmation(outcome) => outcome.witness \in Value
      /\ BetweenDocuments \/ ~NeedsConfirmation(outcome) => Sound(goal, Returned(outcome))
  BY <1>1, <1>6, <1>7
<1> QED
  BY <1>8 DEF outcome

(* An answer ends everything.                                              *)
LEMMA AnswerHolds ==
    ASSUME Inv, frames = <<>>, NEW r, Answer(r), UNCHANGED proof, Sound(goal, r)
    PROVE  Inv'
<1>1. /\ at' = "done" /\ result' = r /\ problem' = problem /\ goal' = goal
      /\ side' = side /\ frames' = <<>> /\ w' = w
  BY DEF Answer, confirming, goal, w
<1>2. Question'
  BY <1>1 DEF Inv, Question, Evaluating
<1>3. Stack'
  BY <1>1 DEF Stack, Linked, Evaluating
<1>4. Sound(goal, r)'
  BY <1>1 DEF Sound, Counterexamples
<1>5. (at = "done" => Sound(goal, result))'
  BY <1>1, <1>4
<1> QED
  BY <1>1, <1>2, <1>3, <1>5 DEF Inv, VerdictsAreRight, AnswersAreSound

(* Giving up asks the next rule, or is the answer.                         *)
LEMMA GiveUpHolds ==
    ASSUME Inv, frames = <<>>, NEW outcome, GiveUp(outcome), UNCHANGED proof
    PROVE  Inv'
<1>1. CASE Answer(Unsupported)
  <2>1. Sound(goal, Unsupported)
    BY DEF Sound, Unsupported
  <2> QED
    BY <1>1, <2>1, AnswerHolds
<1>2. CASE at' = "solve" /\ UNCHANGED <<problem, confirming, result>>
  <2>1. problem' = problem /\ side' = side /\ frames' = <<>> /\ at' = "solve"
    BY <1>2 DEF confirming
  <2>2. Question'
    BY <2>1 DEF Inv, Question, Evaluating
  <2>3. Stack'
    BY <2>1 DEF Stack, Linked, Evaluating
  <2> QED
    BY <2>1, <2>2, <2>3 DEF Inv, VerdictsAreRight, AnswersAreSound
<1> QED
  BY <1>1, <1>2 DEF GiveUp
LEMMA SolverHolds ==
    ASSUME Inv, at = "solve", Trivial \/ BuildWitness \/ Start \/ NoRuleLeft
    PROVE  Inv'
<1>1. frames = <<>> /\ problem \in Problems
  BY DEF Inv, Stack, Question, Evaluating
<1>2. goal.fn = "subproof" /\ goal.lhs \in Term /\ goal.rhs \in Term
  BY <1>1, GoalFacts
<1>3. CASE Trivial
  <2>1. Counterexamples(goal) = {}
    BY <1>2, <1>3, AcceptsAssumption DEF Trivial, Counterexamples
  <2>2. Sound(goal, Proved)
    BY <2>1 DEF Sound, Proved
  <2> QED
    BY <1>1, <1>3, <2>2, AnswerHolds DEF Trivial
<1>4. CASE BuildWitness
  <2>1. PICK r \in {Unsupported, Exhausted} \cup {Refuted(v) : v \in Accepts[goal.lhs]} : Answer(r)
    BY <1>4 DEF BuildWitness
  <2>2. Counterexamples(goal) = Accepts[goal.lhs]
    BY <1>2, <1>4, AcceptsAssumption DEF BuildWitness, Counterexamples
  <2>3. Sound(goal, r)
    BY <2>2 DEF Sound, Unsupported, Exhausted, Refuted
  <2> QED
    BY <1>1, <1>4, <2>1, <2>3, AnswerHolds DEF BuildWitness
<1>5. CASE Start
  <2>1. problem' = problem /\ side' = side /\ frames' = <<>> /\ at' = "solve"
    BY <1>1, <1>5 DEF Start, confirming
  <2>2. Question'
    BY <2>1 DEF Inv, Question, Evaluating
  <2>3. Stack'
    BY <2>1 DEF Stack, Linked, Evaluating
  <2> QED
    BY <2>1, <2>2, <2>3 DEF Inv, VerdictsAreRight, AnswersAreSound
<1>6. CASE NoRuleLeft
  <2>1. Sound(goal, Unsupported)
    BY DEF Sound, Unsupported
  <2> QED
    BY <1>1, <1>6, <2>1, AnswerHolds DEF NoRuleLeft
<1> QED
  BY <1>3, <1>4, <1>5, <1>6

(* A rule gives up, answers, or what it says is evaluated.                 *)
LEMMA TryHolds ==
    ASSUME Inv, Try
    PROVE  Inv'
<1>1. frames = <<>> /\ problem \in Problems
  BY DEF Inv, Stack, Question, Evaluating, Try
<1>2. PICK said \in Outcomes :
        LET outcome == TermGuard(ClassGuard(rule, said)) IN
        IF outcome.status = "unsupported"
        THEN GiveUp(outcome) /\ UNCHANGED proof
        ELSE IF ~BetweenDocuments /\ NeedsConfirmation(outcome)
        THEN /\ at' = "term" /\ side' = "lhs" /\ proof' = outcome
             /\ UNCHANGED <<problem, rule, kept, frames, verdict, result>>
        ELSE Answer(Returned(outcome)) /\ UNCHANGED <<rule, kept, proof>>
  BY DEF Try
<1> DEFINE outcome == TermGuard(ClassGuard(rule, said))
<1>3. CASE outcome.status = "unsupported"
  <2>1. GiveUp(outcome) /\ UNCHANGED proof
    BY <1>2, <1>3
  <2> QED
    BY <1>1, <2>1, GiveUpHolds
<1>4. CASE outcome.status # "unsupported" /\ ~BetweenDocuments /\ NeedsConfirmation(outcome)
  <2>1. /\ at' = "term" /\ side' = "lhs" /\ proof' = outcome
        /\ problem' = problem /\ frames' = <<>>
    BY <1>1, <1>2, <1>4
  <2>2. w' \in Value
    BY <1>1, <1>4, <2>1, OutcomeFacts DEF w
  <2>3. Question'
    BY <1>1, <2>1, <2>2 DEF Question, Evaluating
  <2>4. Stack'
    BY <2>1 DEF Stack, Linked, Evaluating
  <2> QED
    BY <2>1, <2>3, <2>4 DEF Inv, VerdictsAreRight, AnswersAreSound
<1>5. CASE outcome.status # "unsupported" /\ ~(~BetweenDocuments /\ NeedsConfirmation(outcome))
  <2>1. Answer(Returned(outcome)) /\ UNCHANGED proof
    BY <1>2, <1>5
  <2>2. Sound(goal, Returned(outcome))
    BY <1>1, <1>5, OutcomeFacts
  <2> QED
    BY <1>1, <2>1, <2>2, AnswerHolds
<1> QED
  BY <1>3, <1>4, <1>5

-----------------------------------------------------------------------------
(* The steps of the evaluation.                                            *)

(* A term that was evaluated without a frame.                              *)
LEMMA VerdictHolds ==
    ASSUME Inv, at = "term", at' = "verdict", verdict' \in Verdicts,
           RightFor(term, verdict'), UNCHANGED <<unchangedSolver, frames>>
    PROVE  Inv'
<1>1. /\ problem' = problem /\ proof' = proof /\ side' = side /\ frames' = frames
      /\ goal' = goal /\ w' = w /\ SideTerm' = SideTerm /\ Top' = Top /\ term' = term
  BY DEF unchangedSolver, goal, w, SideTerm, Top, term
<1>2. Question'
  BY <1>1 DEF Inv, Question, Evaluating
<1>3. \A i \in 1 .. Len(frames') : Known(frames[i])'
  BY <1>1, KnownStays DEF Inv, Stack
<1>4. Linked'
  BY <1>1 DEF Inv, Stack, Linked, Child
<1>5. Stack'
  BY <1>1, <1>3, <1>4 DEF Inv, Stack, Evaluating
<1>6. RightFor(term, verdict)'
  BY <1>1 DEF RightFor, w
<1> QED
  BY <1>2, <1>5, <1>6 DEF Inv, VerdictsAreRight, AnswersAreSound

LEMMA EvaluateHolds ==
    ASSUME Inv, Evaluate
    PROVE  Inv'
<1>1. at = "term" /\ w \in Value /\ term \in Term /\ UNCHANGED unchangedSolver
  BY TermEvaluated DEF Evaluate, Inv, Question, Evaluating
<1>2. CASE Len(frames) > MaxDepth
  <2>1. at' = "verdict" /\ verdict' = "unsupported" /\ UNCHANGED frames
    BY <1>2 DEF Evaluate, Verdict
  <2> QED
    BY <1>1, <2>1, VerdictHolds DEF Verdicts, RightFor
<1>3. CASE Len(frames) <= MaxDepth /\ term.kind \in {"true", "false", "node"}
  <2>1. at' = "verdict" /\ UNCHANGED frames /\ verdict' \in Verdicts /\ RightFor(term, verdict')
    <3>1. CASE term.kind = "true"
      BY <1>1, <1>2, <1>3, <3>1, AcceptsAssumption DEF Evaluate, Verdict, RightFor, Verdicts, w
    <3>2. CASE term.kind = "false"
      BY <1>1, <1>2, <1>3, <3>2, AcceptsAssumption DEF Evaluate, Verdict, RightFor, Verdicts, w
    <3>3. CASE term.kind = "node"
      BY <1>1, <1>2, <1>3, <3>3 DEF Evaluate, Verdict, OfNode, RightFor, Verdicts, w
    <3> QED
      BY <1>3, <3>1, <3>2, <3>3
  <2> QED
    BY <1>1, <2>1, VerdictHolds
<1>4. CASE ~(Len(frames) > MaxDepth) /\ term.kind \notin {"true", "false", "node"}
  <2> DEFINE f == [term |-> term, next |-> 1, sure |-> FALSE, doubt |-> FALSE]
  <2>1. at' = "loop" /\ frames' = Append(frames, f) /\ UNCHANGED verdict
    BY <1>4 DEF Evaluate
  <2>2. /\ f \in Frame /\ f.term = term /\ f.next = 1 /\ f.sure = FALSE
    BY <1>1, <1>4, TermFacts DEF Frame, Kinds
  <2> HIDE DEF f
  <2>3. /\ problem' = problem /\ proof' = proof /\ side' = side /\ goal' = goal
        /\ w' = w /\ SideTerm' = SideTerm
    BY <1>1 DEF unchangedSolver, goal, w, SideTerm
  <2>4. Known(f)
    <3>1. Len(f.term.children) \in Nat
      BY <2>2, FrameFacts
    <3>2. Done(f) = {}
      BY <2>2 DEF Done
    <3>3. f.next \in 1 .. Len(f.term.children) + 1
      BY <2>2, <3>1
    <3> QED
      BY <2>2, <3>2, <3>3 DEF Known, Sure, Doubtless
  <2>5. /\ frames \in Seq(Frame) /\ frames' \in Seq(Frame) /\ Len(frames') = Len(frames) + 1
        /\ Len(frames) \in Nat /\ frames'[Len(frames) + 1] = f
        /\ \A i \in 1 .. Len(frames) : frames'[i] = frames[i]
    BY <2>1, <2>2, AppendProperties, LenProperties DEF Inv, Stack
  <2>6. \A i \in 1 .. Len(frames') : Known(frames[i])'
    <3> SUFFICES ASSUME NEW i \in 1 .. Len(frames) + 1 PROVE Known(frames[i])'
      BY <2>5
    <3>1. CASE i = Len(frames) + 1
      BY <2>3, <2>4, <2>5, <3>1, KnownStays
    <3>2. CASE i \in 1 .. Len(frames)
      BY <2>3, <2>5, <3>2, KnownStays DEF Inv, Stack
    <3> QED
      BY <2>5, <3>1, <3>2
  <2>7. Linked'
    <3>1. CASE frames = <<>>
      <4>1. frames'[1].term = SideTerm /\ Len(frames') = 1
        BY <2>2, <2>5, <3>1, EmptySeq DEF term
      <4> QED
        BY <2>3, <4>1 DEF Linked
    <3>2. CASE frames # <<>>
      <4>1. Len(frames) \in Nat \ {0}
        BY <2>5, <3>2, EmptySeq
      <4>2. Top.next <= Len(Top.term.children) /\ f.term = Child(Top, Top.next)
        BY <1>1, <2>2, <3>2 DEF Inv, Stack, term, Child
      <4>3. frames'[1] = frames[1] /\ frames[1].term = SideTerm
        BY <2>5, <3>2, <4>1 DEF Inv, Stack, Linked
      <4>4. ASSUME NEW i \in 1 .. Len(frames)
            PROVE  /\ frames[i].next <= Len(frames[i].term.children)
                   /\ frames'[i + 1].term = Child(frames[i], frames[i].next)
        <5>1. CASE i = Len(frames)
          BY <2>5, <4>2, <5>1 DEF Top
        <5>2. CASE i \in 1 .. Len(frames) - 1
          <6>1. i + 1 \in 1 .. Len(frames)
            BY <4>1, <5>2
          <6>2. frames'[i + 1] = frames[i + 1]
            BY <2>5, <6>1
          <6> QED
            BY <5>2, <6>2 DEF Inv, Stack, Linked
        <5> QED
          BY <4>1, <5>1, <5>2
      <4>5. \A i \in 1 .. Len(frames') - 1 : i \in 1 .. Len(frames)
        BY <2>5
      <4> QED
        BY <2>3, <2>5, <4>3, <4>4, <4>5 DEF Linked, Child
    <3> QED
      BY <3>1, <3>2
  <2>8. frames' # <<>>
    BY <2>5, EmptySeq
  <2>9. Question'
    BY <1>1, <2>1, <2>3 DEF Inv, Question, Evaluating
  <2>10. Stack'
    BY <2>1, <2>5, <2>6, <2>7, <2>8 DEF Stack, Evaluating
  <2> QED
    BY <2>1, <2>9, <2>10 DEF Inv, VerdictsAreRight, AnswersAreSound
<1>5. Len(frames) \in Nat /\ MaxDepth \in Nat
  BY DepthAssumption, LenProperties DEF Inv, Stack
<1> QED
  BY <1>2, <1>3, <1>4, <1>5
(* The frame on top and what holds of it.                                  *)
LEMMA TopFacts ==
    ASSUME Inv, frames # <<>>
    PROVE  /\ Len(frames) \in Nat \ {0} /\ Top = frames[Len(frames)]
           /\ Top \in Frame /\ Known(Top)
<1>1. frames \in Seq(Frame) /\ Len(frames) \in Nat \ {0}
  BY EmptySeq DEF Inv, Stack
<1> QED
  BY <1>1 DEF Inv, Stack, Top

LEMMA NextChildHolds ==
    ASSUME Inv, NextChild
    PROVE  Inv'
<1>1. /\ at = "loop" /\ at' = "term" /\ problem' = problem /\ proof' = proof /\ side' = side
      /\ frames' = frames /\ Top' = Top /\ Top.next <= Len(Top.term.children)
      /\ goal' = goal /\ w' = w /\ SideTerm' = SideTerm
  BY DEF NextChild, unchangedSolver, goal, w, SideTerm, Top
<1>2. Question'
  BY <1>1 DEF Inv, Question, Evaluating
<1>3. \A i \in 1 .. Len(frames') : Known(frames[i])'
  BY <1>1, KnownStays DEF Inv, Stack
<1>4. Linked'
  BY <1>1 DEF Inv, Stack, Linked, Child
<1>5. Stack'
  BY <1>1, <1>3, <1>4 DEF Inv, Stack, Evaluating
<1> QED
  BY <1>1, <1>2, <1>5 DEF Inv, VerdictsAreRight, AnswersAreSound

LEMMA AllChildrenHolds ==
    ASSUME Inv, AllChildren
    PROVE  Inv'
<1>1. at = "loop" /\ frames # <<>> /\ w \in Value /\ Evaluating
  BY DEF AllChildren, Inv, Stack, Question, Evaluating
<1>2. Total(Top) \in Verdicts /\ RightFor(Top.term, Total(Top))
  BY <1>1, TopFacts, TotalIsRight DEF AllChildren
<1>3. at' = "verdict" /\ verdict' = Total(Top) /\ Pop /\ UNCHANGED unchangedSolver
  BY DEF AllChildren, Verdict
<1> QED
  BY <1>1, <1>2, <1>3, PopGoesBack

(* Another frame on top, about the same term.                              *)
LEMMA AdvanceHolds ==
    ASSUME Inv, at = "verdict", frames # <<>>, NEW f \in Frame, Known(f), f.term = Top.term,
           ReplaceTop(f), at' = "loop", UNCHANGED unchangedSolver
    PROVE  Inv'
<1> DEFINE n == Len(frames)
<1>1. /\ problem' = problem /\ proof' = proof /\ side' = side
      /\ goal' = goal /\ w' = w /\ SideTerm' = SideTerm
  BY DEF unchangedSolver, goal, w, SideTerm
<1>2. frames \in Seq(Frame) /\ n \in Nat \ {0} /\ Top = frames[n]
  BY TopFacts DEF Inv, Stack
<1>3. /\ frames' \in Seq(Frame) /\ Len(frames') = n /\ frames'[n] = f
      /\ \A i \in 1 .. n - 1 : frames'[i] = frames[i]
  BY <1>2, ExceptSeq DEF ReplaceTop
<1>4. \A i \in 1 .. Len(frames') : Known(frames[i])'
  <2> SUFFICES ASSUME NEW i \in 1 .. n PROVE Known(frames[i])'
    BY <1>3
  <2>1. CASE i = n
    BY <1>1, <1>3, <2>1, KnownStays
  <2>2. CASE i \in 1 .. n - 1
    BY <1>1, <1>3, <2>2, KnownStays DEF Inv, Stack
  <2> QED
    BY <1>2, <2>1, <2>2
<1>5. Linked'
  <2>1. \A i \in 1 .. n : frames'[i].term = frames[i].term
    <3> TAKE i \in 1 .. n
    <3>1. CASE i = n
      BY <1>2, <1>3, <3>1
    <3>2. CASE i \in 1 .. n - 1
      BY <1>3, <3>2
    <3> QED
      BY <1>2, <3>1, <3>2
  <2>2. frames'[1].term = SideTerm
    BY <1>2, <2>1 DEF Inv, Stack, Linked
  <2>3. ASSUME NEW i \in 1 .. n - 1
        PROVE  /\ frames'[i].next <= Len(frames'[i].term.children)
               /\ frames'[i + 1].term = Child(frames'[i], frames'[i].next)
    <3>1. i + 1 \in 1 .. n /\ frames'[i] = frames[i]
      BY <1>2, <1>3
    <3>2. frames'[i + 1].term = frames[i + 1].term
      BY <2>1, <3>1
    <3> QED
      BY <3>1, <3>2 DEF Inv, Stack, Linked
  <2> QED
    BY <1>1, <1>3, <2>2, <2>3 DEF Linked, Child
<1>6. frames' # <<>>
  BY <1>2, <1>3, EmptySeq
<1>7. Question'
  BY <1>1 DEF Inv, Question, Evaluating
<1>8. Stack'
  BY <1>3, <1>4, <1>5, <1>6 DEF Stack, Evaluating
<1> QED
  BY <1>7, <1>8 DEF Inv, VerdictsAreRight, AnswersAreSound

LEMMA FoldHolds ==
    ASSUME Inv, Fold
    PROVE  Inv'
<1>1. /\ at = "verdict" /\ frames # <<>> /\ w \in Value /\ Evaluating /\ verdict \in Verdicts
      /\ UNCHANGED unchangedSolver
  BY DEF Fold, Inv, Stack, Question, Evaluating
<1>2. /\ Top \in Frame /\ Known(Top) /\ Top.next <= Len(Top.term.children)
      /\ RightFor(Child(Top, Top.next), verdict)
  BY <1>1, TopFacts DEF Inv, Stack, VerdictsAreRight, term, Child
<1>3. CASE Decides(Top, verdict)
  <2>1. at' = "verdict" /\ verdict' = Decided(Top, verdict) /\ Pop
    BY <1>3 DEF Fold, Verdict
  <2>2. Decided(Top, verdict) \in Verdicts /\ RightFor(Top.term, Decided(Top, verdict))
    BY <1>1, <1>2, <1>3, DecidedIsRight
  <2> QED
    BY <1>1, <2>1, <2>2, PopGoesBack
<1>4. CASE ~Decides(Top, verdict)
  <2>1. at' = "loop" /\ ReplaceTop(Remember(Top, verdict))
    BY <1>4 DEF Fold
  <2>2. Remember(Top, verdict) \in Frame /\ Known(Remember(Top, verdict))
    BY <1>1, <1>2, <1>4, RememberedIsKnown
  <2>3. Remember(Top, verdict).term = Top.term
    BY DEF Remember
  <2> QED
    BY <1>1, <2>1, <2>2, <2>3, AdvanceHolds
<1> QED
  BY <1>3, <1>4

LEMMA ConfirmationHolds ==
    ASSUME Inv, ConfirmRight \/ Confirm \/ Reject
    PROVE  Inv'
<1>1. at = "verdict" /\ frames = <<>> /\ w \in Value /\ problem \in Problems /\ term = SideTerm
  BY DEF ConfirmRight, Confirm, Reject, Inv, Question, Evaluating, term
<1>2. RightFor(SideTerm, verdict)
  BY <1>1 DEF Inv, VerdictsAreRight
<1>3. CASE ConfirmRight
  <2>1. /\ at' = "term" /\ side' = "rhs" /\ problem' = problem /\ proof' = proof
        /\ frames' = <<>> /\ goal' = goal /\ w' = w
    BY <1>1, <1>3 DEF ConfirmRight, goal, w
  <2>2. w \in Accepts[goal.lhs]
    BY <1>2, <1>3 DEF ConfirmRight, SideTerm, RightFor, w
  <2>3. Question'
    BY <1>1, <2>1, <2>2 DEF Question, Evaluating
  <2>4. Stack'
    BY <2>1 DEF Stack, Linked, Evaluating
  <2> QED
    BY <2>1, <2>3, <2>4 DEF Inv, VerdictsAreRight, AnswersAreSound
<1>4. CASE Confirm
  <2>1. w \in Accepts[goal.lhs] /\ w \notin Accepts[goal.rhs]
    BY <1>1, <1>2, <1>4 DEF Confirm, SideTerm, RightFor, w, Inv, Question, Evaluating
  <2>2. Sound(goal, Refuted(w))
    BY <1>1, <2>1, GoalFacts DEF Sound, Refuted, Counterexamples
  <2> QED
    BY <1>1, <1>4, <2>2, AnswerHolds DEF Confirm, w
<1>5. CASE Reject
  BY <1>1, <1>5, GiveUpHolds DEF Reject
<1> QED
  BY <1>3, <1>4, <1>5

-----------------------------------------------------------------------------
LEMMA InvHolds == Inv /\ [Next]_vars => Inv'
<1> SUFFICES ASSUME Inv, [Next]_vars PROVE Inv'
  OBVIOUS
<1>1. CASE Trivial \/ BuildWitness \/ Start \/ NoRuleLeft
  BY <1>1, SolverHolds DEF Trivial, BuildWitness, Start, NoRuleLeft
<1>2. CASE Try
  BY <1>2, TryHolds
<1>3. CASE Evaluate
  BY <1>3, EvaluateHolds
<1>4. CASE NextChild
  BY <1>4, NextChildHolds
<1>5. CASE AllChildren
  BY <1>5, AllChildrenHolds
<1>6. CASE Fold
  BY <1>6, FoldHolds
<1>7. CASE ConfirmRight \/ Confirm \/ Reject
  BY <1>7, ConfirmationHolds
<1>8. CASE UNCHANGED vars
  <2>1. /\ problem' = problem /\ proof' = proof /\ side' = side /\ frames' = frames /\ at' = at
        /\ verdict' = verdict /\ result' = result
        /\ goal' = goal /\ w' = w /\ SideTerm' = SideTerm /\ Top' = Top /\ term' = term
    BY <1>8 DEF vars, goal, w, SideTerm, Top, term
  <2>2. Question'
    BY <2>1 DEF Inv, Question, Evaluating
  <2>3. \A i \in 1 .. Len(frames') : Known(frames[i])'
    BY <2>1, KnownStays DEF Inv, Stack
  <2>4. Linked'
    BY <2>1 DEF Inv, Stack, Linked, Child
  <2>5. Stack'
    BY <2>1, <2>3, <2>4 DEF Inv, Stack, Evaluating
  <2>6. VerdictsAreRight' /\ AnswersAreSound'
    BY <2>1 DEF Inv, VerdictsAreRight, AnswersAreSound, RightFor, Sound, Counterexamples
  <2> QED
    BY <2>2, <2>5, <2>6 DEF Inv
<1> QED
  BY <1>1, <1>2, <1>3, <1>4, <1>5, <1>6, <1>7, <1>8 DEF Next

(* Every verdict on a term, however deep it is in the terms of the         *)
(* question, is right (_confirm_term_valid).                               *)
THEOREM VerdictsRight == Spec => []VerdictsAreRight
<1>1. Init => Inv
  BY InitHolds
<1>2. Inv /\ [Next]_vars => Inv'
  BY InvHolds
<1>3. Inv => VerdictsAreRight
  BY DEF Inv
<1> QED
  BY <1>1, <1>2, <1>3, PTL DEF Spec

(* Every answer of the leaf solver is right for the two terms.             *)
THEOREM AnswersSound == Spec => []AnswersAreSound
<1>1. Init => Inv
  BY InitHolds
<1>2. Inv /\ [Next]_vars => Inv'
  BY InvHolds
<1>3. Inv => AnswersAreSound
  BY DEF Inv
<1> QED
  BY <1>1, <1>2, <1>3, PTL DEF Spec

-----------------------------------------------------------------------------
(* Control: while a counterexample is evaluated, the rule it came from is  *)
(* the current one, so that the next can be tried when it is rejected.     *)
Control ==
    /\ rule \in 0 .. Len(Rules) + 1
    /\ Evaluating => rule \in 1 .. Len(Rules)
    /\ kept.rule \in 0 .. Len(Rules) /\ kept.priority \in Nat
    /\ w \in Value \cup {Null}
    /\ at \in {"solve", "term", "loop", "verdict", "done"}
    /\ Len(frames) <= MaxDepth + 1
    /\ verdict \in Verdicts \cup {"none"}
    /\ result \in Results

LEMMA RulesFacts ==
    /\ Len(Rules) \in Nat /\ DOMAIN Rules = 1 .. Len(Rules)
    /\ \A r \in 1 .. Len(Rules) : /\ Rules[r].priority \in Nat
                                 /\ Rules[r].domain \in {"array", "object", "other"}
<1>1. Len(Rules) \in Nat /\ DOMAIN Rules = 1 .. Len(Rules)
  BY RulesAssumption
<1> DEFINE R == [domain : {"array", "object", "other"}, reliable : BOOLEAN,
                 guarded : BOOLEAN, stops : BOOLEAN, priority : Nat]
<1>2. \A r \in 1 .. Len(Rules) : Rules[r] \in R
  <2>1. Rules \in Seq(R)
    BY RulesAssumption
  <2> HIDE DEF R
  <2> QED
    BY <2>1, ElementOfSeq
<1> QED
  BY <1>1, <1>2

(* What a rule says, and what the guards make of it.                       *)
LEMMA SaidFacts ==
    ASSUME problem \in Problems, NEW said \in Outcomes, NEW r
    PROVE  LET outcome == TermGuard(ClassGuard(r, said)) IN
           /\ outcome.priority \in Nat
           /\ outcome.witness \in Value \cup {Null}
           /\ outcome.status # "unsupported" => Returned(outcome) \in Results
<1> DEFINE outcome == TermGuard(ClassGuard(r, said))
<1>1. Counterexamples(goal) \subseteq Value
  BY GoalFacts, TermFacts DEF Counterexamples
<1>2. /\ said.priority \in Nat /\ said.witness \in Value \cup {Null}
      /\ said.status \in {"unsupported", "resource_exhausted", "proved_true", "proved_false"}
      /\ said.status \in {"resource_exhausted", "proved_true"} => said.witness = Null
  BY <1>1 DEF Outcomes, GivesUp, Says
<1>3. outcome.priority \in Nat /\ outcome.witness \in Value \cup {Null}
  BY <1>2 DEF TermGuard, ClassGuard, SaysNothing, GivesUp, Says
<1>4. outcome.status # "unsupported" => outcome = said
  BY DEF TermGuard, ClassGuard, SaysNothing, GivesUp, Says
<1>5. said.status # "unsupported" => Returned(said) \in Results
  BY <1>2 DEF Returned, Results, Refutations, Proved, Exhausted, Refuted
<1> QED
  BY <1>3, <1>4, <1>5

LEMMA InitControls == Init => Control
  BY RulesFacts, DepthAssumption, EmptySeq
  DEF Init, Control, Evaluating, w, SaysNothing, GivesUp, Says, Results

LEMMA AnswerControls ==
    ASSUME Control, Answer(result'), result' \in Results, UNCHANGED <<rule, kept, proof>>
    PROVE  Control'
  BY DEF Control, Answer, confirming, Evaluating, w

LEMMA GiveUpControls ==
    ASSUME Control, NEW outcome, outcome.priority \in Nat, rule \in 1 .. Len(Rules),
           GiveUp(outcome), UNCHANGED proof
    PROVE  Control'
<1>1. CASE Stops(rule, outcome)
  <2>1. Answer(Unsupported) /\ UNCHANGED <<rule, kept, proof>>
    BY <1>1 DEF GiveUp
  <2> QED
    BY <2>1, AnswerControls DEF Answer, Results
<1>2. CASE ~Stops(rule, outcome)
  <2>1. Keep(outcome) /\ at' = "solve" /\ UNCHANGED <<problem, confirming, result, proof>>
    BY <1>2 DEF GiveUp
  <2>2. Effective(rule, outcome) \in Nat
    BY RulesFacts DEF Effective
  <2>3. kept' = kept \/ kept' = [rule |-> rule, priority |-> Effective(rule, outcome)]
    BY <2>1 DEF Keep
  <2>4. kept'.rule \in 0 .. Len(Rules) /\ kept'.priority \in Nat
    BY <2>2, <2>3, RulesFacts DEF Control
  <2>5. rule' \in 0 .. Len(Rules) + 1
    BY <2>1, RulesFacts DEF Keep
  <2> QED
    BY <2>1, <2>4, <2>5 DEF Control, Evaluating, confirming, w
<1> QED
  BY <1>1, <1>2

LEMMA SolverControls ==
    ASSUME Inv, Control, Trivial \/ BuildWitness \/ Start \/ Try \/ NoRuleLeft
    PROVE  Control'
<1>1. problem \in Problems
  BY DEF Inv, Question
<1>2. CASE Trivial \/ NoRuleLeft
  BY <1>2, AnswerControls DEF Trivial, NoRuleLeft, Answer, Results
<1>3. CASE BuildWitness
  <2>1. PICK r \in {Unsupported, Exhausted} \cup {Refuted(v) : v \in Accepts[goal.lhs]} : Answer(r)
    BY <1>3 DEF BuildWitness
  <2>2. r \in Results
    BY <1>1, GoalFacts, TermFacts DEF Results, Refutations
  <2> QED
    BY <1>3, <2>1, <2>2, AnswerControls DEF BuildWitness, Answer
<1>4. CASE Start
  BY <1>4, RulesFacts DEF Start, Control, confirming, Evaluating, w
<1>5. CASE Try
  <2>1. rule \in 1 .. Len(Rules) /\ at = "solve"
    BY <1>5, RulesFacts DEF Try
  <2>2. PICK said \in Outcomes :
          LET outcome == TermGuard(ClassGuard(rule, said)) IN
          IF outcome.status = "unsupported"
          THEN GiveUp(outcome) /\ UNCHANGED proof
          ELSE IF ~BetweenDocuments /\ NeedsConfirmation(outcome)
          THEN /\ at' = "term" /\ side' = "lhs" /\ proof' = outcome
               /\ UNCHANGED <<problem, rule, kept, frames, verdict, result>>
          ELSE Answer(Returned(outcome)) /\ UNCHANGED <<rule, kept, proof>>
    BY <1>5 DEF Try
  <2> DEFINE outcome == TermGuard(ClassGuard(rule, said))
  <2>3. /\ outcome.priority \in Nat /\ outcome.witness \in Value \cup {Null}
        /\ outcome.status # "unsupported" => Returned(outcome) \in Results
    BY <1>1, SaidFacts
  <2>4. CASE outcome.status = "unsupported"
    BY <2>1, <2>2, <2>3, <2>4, GiveUpControls
  <2>5. CASE outcome.status # "unsupported" /\ ~BetweenDocuments /\ NeedsConfirmation(outcome)
    <3>1. /\ at' = "term" /\ proof' = outcome
          /\ UNCHANGED <<problem, rule, kept, frames, verdict, result>>
      BY <2>2, <2>5
    <3>2. w' \in Value \cup {Null}
      BY <2>3, <3>1 DEF w
    <3> QED
      BY <2>1, <3>1, <3>2 DEF Control, Evaluating
  <2>6. CASE outcome.status # "unsupported" /\ ~(~BetweenDocuments /\ NeedsConfirmation(outcome))
    <3>1. Answer(Returned(outcome)) /\ UNCHANGED <<rule, kept, proof>>
      BY <2>2, <2>6
    <3> QED
      BY <2>3, <2>6, <3>1, AnswerControls DEF Answer
  <2> QED
    BY <2>4, <2>5, <2>6
<1> QED
  BY <1>2, <1>3, <1>4, <1>5

(* The evaluation changes neither the rule nor what is kept of the rules   *)
(* before it, and pushes no frame on MaxDepth + 1 others.                  *)
LEMMA EvaluationControls ==
    ASSUME Inv, Control, Inv',
           Evaluate \/ NextChild \/ AllChildren \/ Fold \/ ConfirmRight \/ Confirm \/ Reject
    PROVE  Control'
<1>1. /\ frames \in Seq(Frame) /\ Len(frames) \in Nat /\ MaxDepth \in Nat
      /\ frames # <<>> => Len(frames) \in Nat \ {0}
  BY DepthAssumption, EmptySeq DEF Inv, Stack
<1>2. at' = "verdict" => verdict' \in Verdicts
  BY DEF Inv, Stack
<1>3. CASE Evaluate \/ NextChild
  <2>1. UNCHANGED unchangedSolver /\ Evaluating /\ Evaluating'
    BY <1>3 DEF Evaluate, NextChild, Evaluating, Verdict
  <2>2. verdict' \in Verdicts \cup {"none"} /\ at' \in {"term", "loop", "verdict"}
    BY <1>2, <1>3, <2>1 DEF Evaluate, NextChild, Verdict, Control
  <2>3. Len(frames') <= MaxDepth + 1
    <3>1. CASE frames' = frames
      BY <3>1 DEF Control
    <3>2. CASE frames' # frames
      <4>1. \E f \in {[term |-> term, next |-> 1, sure |-> FALSE, doubt |-> FALSE]} :
              frames' = Append(frames, f) /\ ~(Len(frames) > MaxDepth)
        BY <1>3, <3>2 DEF Evaluate, NextChild
      <4>2. Len(frames') = Len(frames) + 1
        BY <1>1, <4>1
      <4> QED
        BY <1>1, <4>1, <4>2
    <3> QED
      BY <3>1, <3>2
  <2> QED
    BY <2>1, <2>2, <2>3 DEF Control, unchangedSolver, w, Evaluating
<1>4. CASE AllChildren \/ Fold
  <2>1. UNCHANGED unchangedSolver /\ Evaluating /\ Evaluating' /\ frames # <<>>
    BY <1>4 DEF AllChildren, Fold, Evaluating, Verdict, Inv, Stack
  <2>2. verdict' \in Verdicts \cup {"none"} /\ at' \in {"term", "loop", "verdict"}
    BY <1>2, <1>4, <2>1 DEF AllChildren, Fold, Verdict, Control
  <2>3. Len(frames') <= MaxDepth + 1
    <3>1. CASE Pop
      <4>1. Len(frames') = Len(frames) - 1
        BY <1>1, <2>1, <3>1, PopFacts DEF Pop
      <4> QED
        BY <1>1, <4>1 DEF Control
    <3>2. CASE ReplaceTop(Remember(Top, verdict))
      <4>1. DOMAIN frames' = DOMAIN frames
        BY <3>2 DEF ReplaceTop
      <4>2. frames' \in Seq(Frame)
        BY DEF Inv, Stack
      <4>3. Len(frames') = Len(frames)
        BY <1>1, <4>1, <4>2, LenProperties
      <4> QED
        BY <4>3 DEF Control
    <3> QED
      BY <1>4, <3>1, <3>2 DEF AllChildren, Fold
  <2> QED
    BY <2>1, <2>2, <2>3 DEF Control, unchangedSolver, w, Evaluating
<1>5. CASE ConfirmRight
  BY <1>5 DEF ConfirmRight, Control, Evaluating, w
<1>6. CASE Confirm
  <2>1. Refuted(proof.witness) \in Results
    BY DEF Control, Results, Refutations, w
  <2> QED
    BY <1>6, <2>1, AnswerControls DEF Confirm, Answer
<1>7. CASE Reject
  <2>1. rule \in 1 .. Len(Rules) /\ GiveUp(SaysNothing) /\ UNCHANGED proof
    BY <1>7 DEF Reject, Control, Evaluating
  <2>2. SaysNothing.priority \in Nat
    BY DEF SaysNothing, GivesUp, Says
  <2> QED
    BY <2>1, <2>2, GiveUpControls
<1> QED
  BY <1>3, <1>4, <1>5, <1>6, <1>7

LEMMA ControlHolds == Inv /\ Inv' /\ Control /\ [Next]_vars => Control'
<1> SUFFICES ASSUME Inv, Inv', Control, [Next]_vars PROVE Control'
  OBVIOUS
<1>1. CASE UNCHANGED vars
  BY <1>1 DEF vars, Control, Evaluating, w
<1>2. CASE Next
  BY <1>2, SolverControls, EvaluationControls DEF Next
<1> QED
  BY <1>1, <1>2

LEMMA ControlIsTyped == Inv /\ Control => TypeOK
<1> SUFFICES ASSUME Inv, Control PROVE TypeOK
  OBVIOUS
<1>1. frames \in Seq(Frame) /\ DOMAIN frames = 1 .. Len(frames)
  BY DEF Inv, Stack
<1>2. ASSUME NEW i \in 1 .. Len(frames)
      PROVE  FrameOK(frames[i])
  <2>1. frames[i] \in Frame /\ Known(frames[i])
    BY <1>1 DEF Inv, Stack
  <2> QED
    BY <2>1, FrameFacts DEF FrameOK, Known
<1> QED
  BY <1>1, <1>2 DEF TypeOK, Control, Inv, Question, w

(* The solver runs off neither its rules nor the children of a term, and   *)
(* evaluates no deeper than it may (_confirm_term_valid).                  *)
THEOREM TypeCorrect == Spec => []TypeOK
<1>1. Init => Inv /\ Control
  BY InitHolds, InitControls
<1>2. Inv /\ Control /\ [Next]_vars => Inv' /\ Control'
  BY InvHolds, ControlHolds
<1>3. Inv /\ Control => TypeOK
  BY ControlIsTyped
<1> QED
  BY <1>1, <1>2, <1>3, PTL DEF Spec

-----------------------------------------------------------------------------
(* The reason kept is replaced by a better one only.                       *)
LEMMA KeptOrReplaced ==
    ASSUME Control, Next
    PROVE  \/ kept' = kept
           \/ /\ rule \in 1 .. Len(Rules)
              /\ \E outcome : /\ Prefers(rule, outcome)
                             /\ kept' = [rule |-> rule, priority |-> Effective(rule, outcome)]
<1>1. CASE Try
  <2>1. rule \in 1 .. Len(Rules)
    BY <1>1, RulesFacts DEF Try
  <2>2. PICK said \in Outcomes :
          LET outcome == TermGuard(ClassGuard(rule, said)) IN
          IF outcome.status = "unsupported"
          THEN GiveUp(outcome) /\ UNCHANGED proof
          ELSE IF ~BetweenDocuments /\ NeedsConfirmation(outcome)
          THEN /\ at' = "term" /\ side' = "lhs" /\ proof' = outcome
               /\ UNCHANGED <<problem, rule, kept, frames, verdict, result>>
          ELSE Answer(Returned(outcome)) /\ UNCHANGED <<rule, kept, proof>>
    BY <1>1 DEF Try
  <2> DEFINE outcome == TermGuard(ClassGuard(rule, said))
  <2>3. kept' = kept \/ GiveUp(outcome)
    BY <2>2
  <2> HIDE DEF outcome
  <2> QED
    BY <2>1, <2>3 DEF GiveUp, Keep
<1>2. CASE Reject
  <2>1. rule \in 1 .. Len(Rules) /\ GiveUp(SaysNothing)
    BY <1>2 DEF Reject, Control, Evaluating
  <2> QED
    BY <2>1 DEF GiveUp, Keep
<1>3. CASE ~Try /\ ~Reject
  BY <1>3 DEF Next, Trivial, BuildWitness, Start, NoRuleLeft, Evaluate, NextChild, AllChildren,
              Fold, ConfirmRight, Confirm, unchangedSolver
<1> QED
  BY <1>1, <1>2, <1>3

LEMMA ReplacedIsNoWorse ==
    ASSUME Control, Control', kept.rule # 0, rule \in 1 .. Len(Rules), NEW outcome,
           Prefers(rule, outcome),
           kept' = [rule |-> rule, priority |-> Effective(rule, outcome)]
    PROVE  ReasonGetsNoWorse
<1>1. kept'.rule = rule /\ kept'.priority = Effective(rule, outcome)
  OBVIOUS
<1>2. CASE problem.arrays
  BY <1>1, <1>2 DEF Prefers, ReasonGetsNoWorse
<1>3. CASE ~problem.arrays
  <2>1. \/ Effective(rule, outcome) > kept.priority
        \/ Effective(rule, outcome) = kept.priority
    BY <1>3 DEF Prefers
  <2>2. kept.priority \in Nat /\ kept'.priority \in Nat
    BY DEF Control
  <2>3. kept'.priority >= kept.priority
    BY <1>1, <2>1, <2>2
  <2> QED
    BY <1>3, <2>3 DEF ReasonGetsNoWorse
<1> QED
  BY <1>2, <1>3

LEMMA StepKeepsTheReason ==
    ASSUME Control, Control', [Next]_vars
    PROVE  [ReasonGetsNoWorse]_vars
<1>1. CASE UNCHANGED vars
  BY <1>1
<1>2. CASE Next /\ kept' = kept
  BY <1>2 DEF ReasonGetsNoWorse, Control
<1>3. CASE Next /\ kept' # kept /\ kept.rule # 0
  BY <1>3, KeptOrReplaced, ReplacedIsNoWorse
<1>4. CASE Next /\ kept.rule = 0
  BY <1>4 DEF ReasonGetsNoWorse
<1> QED
  BY <1>1, <1>2, <1>3, <1>4

(* A strong reason is never replaced by a weaker one, nor, for arrays, the *)
(* reason of an array rule by that of an object rule                       *)
(* (_preferred_unsupported_result).                                        *)
THEOREM ReasonsStay == Spec => ReasonsAreNotLost
<1>1. Init => Inv /\ Control
  BY InitHolds, InitControls
<1>2. Inv /\ Control /\ [Next]_vars => Inv' /\ Control'
  BY InvHolds, ControlHolds
<1>3. Control /\ Control' /\ [Next]_vars => [ReasonGetsNoWorse]_vars
  BY StepKeepsTheReason
<1> QED
  BY <1>1, <1>2, <1>3, PTL DEF Spec, ReasonsAreNotLost

-----------------------------------------------------------------------------
(* Doubts.                                                                 *)
LEMMA WithinFacts ==
    /\ Within[0] = {}
    /\ \A n \in Nat : Within[n + 1] =
         {t \in Term : \A i \in ChildIndexes(t) : t.children[i] \in Within[n]}
<1> DEFINE G == [p \in Nat \X SUBSET Term |->
                   {t \in Term : \A i \in ChildIndexes(t) : t.children[i] \in p[2]}]
           W(f) == [levels \in Nat |->
                      IF levels = 0 THEN {}
                      ELSE {t \in Term : \A i \in ChildIndexes(t) : t.children[i] \in f[levels - 1]}]
<1>1. G \in [Nat \X SUBSET Term -> SUBSET Term] /\ {} \in SUBSET Term
  OBVIOUS
<1> HIDE DEF G
<1>2. PICK f \in [Nat -> SUBSET Term] : Follows(f, {}, G)
  <2> HIDE DEF W
  <2> QED
    BY <1>1, RecursiveFunction
<1>3. \A n \in Nat : f[n + 1] = {t \in Term : \A i \in ChildIndexes(t) : t.children[i] \in f[n]}
  BY <1>2 DEF G, Follows
<1>4. \A levels \in Nat : f[levels] = W(f)[levels]
  <2> TAKE levels \in Nat
  <2>1. CASE levels = 0
    BY <1>2, <2>1 DEF Follows
  <2>2. CASE levels # 0
    <3>1. levels - 1 \in Nat /\ (levels - 1) + 1 = levels
      BY <2>2
    <3>2. f[levels] = {t \in Term : \A i \in ChildIndexes(t) : t.children[i] \in f[levels - 1]}
      BY <1>3, <3>1
    <3> QED
      BY <2>2, <3>2
  <2> QED
    BY <2>1, <2>2
<1>5. f = W(f)
  <2>1. W(f) = [levels \in Nat |-> W(f)[levels]] /\ f = [levels \in Nat |-> f[levels]]
    BY <1>2
  <2> HIDE DEF W
  <2> QED
    BY <1>4, <2>1
<1>6. Within = W(Within)
  BY <1>5 DEF Within
<1>7. Within[0] = {}
  BY <1>6
<1>8. ASSUME NEW n \in Nat
      PROVE  Within[n + 1] = {t \in Term : \A i \in ChildIndexes(t) : t.children[i] \in Within[n]}
  <2>1. n + 1 \in Nat /\ n + 1 # 0 /\ (n + 1) - 1 = n
    OBVIOUS
  <2>2. W(Within)[n + 1] = {t \in Term : \A i \in ChildIndexes(t) : t.children[i] \in Within[(n + 1) - 1]}
    BY <2>1
  <2> QED
    BY <1>6, <2>1, <2>2
<1> QED
  BY <1>7, <1>8

(* A node that cannot be judged, and a term that is too deep at its depth. *)
Gap == \E n \in Nodes : <<n, w>> \notin Judged

Deep(t, depth) == t \notin Within[MaxDepth + 1 - depth]

FrameHasReason(f, depth) == f.doubt => Gap \/ Deep(f.term, depth)

(* The term of frame i is at depth i - 1.                                  *)
DoubtsHaveReasons ==
    /\ \A i \in 1 .. Len(frames) : FrameHasReason(frames[i], i - 1)
    /\ at = "verdict" /\ verdict = "unsupported" => Gap \/ Deep(term, Len(frames))

(* A term is too deep if one of its children is.                           *)
LEMMA DeepChild ==
    ASSUME NEW f \in Frame, Known(f), f.next <= Len(f.term.children),
           NEW depth \in 1 .. MaxDepth + 1, Deep(Child(f, f.next), depth)
    PROVE  Deep(f.term, depth - 1)
<1> DEFINE n == MaxDepth + 1 - depth
<1>1. n \in Nat /\ MaxDepth + 1 - (depth - 1) = n + 1
  BY DepthAssumption
<1>2. f.next \in ChildIndexes(f.term)
  BY FrameFacts DEF Known, ChildIndexes
<1>3. Child(f, f.next) \notin Within[n]
  BY DEF Deep
<1>4. Within[n + 1] = {t \in Term : \A i \in ChildIndexes(t) : t.children[i] \in Within[n]}
  BY <1>1, WithinFacts
<1> HIDE DEF n
<1>5. f.term \notin Within[n + 1]
  BY <1>2, <1>3, <1>4 DEF Child
<1> QED
  BY <1>1, <1>5 DEF Deep

(* Steps that leave the stack, or have none.                               *)
LEMMA NoFrames ==
    ASSUME frames' = <<>>, at' # "verdict"
    PROVE  DoubtsHaveReasons'
  BY DEF DoubtsHaveReasons

LEMMA SameReasons ==
    ASSUME UNCHANGED proof
    PROVE  /\ Gap' <=> Gap
           /\ \A f, i : FrameHasReason(f, i)' <=> FrameHasReason(f, i)
<1>1. w' = w
  BY DEF w
<1>2. Gap' <=> Gap
  BY <1>1 DEF Gap
<1> QED
  BY <1>2 DEF FrameHasReason, Deep

LEMMA EvaluateDoubts ==
    ASSUME Inv, Control, DoubtsHaveReasons, Evaluate
    PROVE  DoubtsHaveReasons'
<1>1. /\ frames \in Seq(Frame) /\ Len(frames) \in Nat /\ Len(frames) <= MaxDepth + 1
      /\ at = "term" /\ term \in Term /\ proof' = proof /\ MaxDepth \in Nat
  BY TermEvaluated, DepthAssumption DEF Inv, Stack, Evaluate, Control, unchangedSolver
<1>2. CASE UNCHANGED frames
  <2>1. term' = term
    BY <1>2 DEF Evaluate, unchangedSolver, term, SideTerm, Top, goal
  <2>2. ASSUME verdict' = "unsupported"
        PROVE  Gap \/ Deep(term, Len(frames))
    <3>1. CASE Len(frames) > MaxDepth
      <4>1. MaxDepth + 1 - Len(frames) = 0
        BY <1>1, <3>1
      <4> QED
        BY <4>1, WithinFacts DEF Deep
    <3>2. CASE ~(Len(frames) > MaxDepth)
      <4>1. frames' # Append(frames, [term |-> term, next |-> 1, sure |-> FALSE, doubt |-> FALSE])
        BY <1>1, <1>2, AppendProperties
      <4>2. term.kind = "node" /\ Verdict(OfNode)
        BY <2>2, <3>2, <4>1 DEF Evaluate, Verdict
      <4>3. term \in Nodes /\ <<term, w>> \notin Judged
        BY <1>1, <2>2, <4>2 DEF Verdict, OfNode, Nodes, w
      <4> QED
        BY <4>3 DEF Gap
    <3> QED
      BY <3>1, <3>2
  <2>3. at' = "verdict" => Gap \/ ~(verdict' = "unsupported") \/ Deep(term, Len(frames))
    BY <2>2
  <2> QED
    BY <1>1, <1>2, <2>1, <2>3, SameReasons DEF DoubtsHaveReasons, Deep
<1>3. CASE ~UNCHANGED frames
  <2> DEFINE f == [term |-> term, next |-> 1, sure |-> FALSE, doubt |-> FALSE]
  <2>1. frames' = Append(frames, f) /\ at' = "loop"
    BY <1>3 DEF Evaluate
  <2>2. FrameHasReason(f, Len(frames))
    BY DEF FrameHasReason
  <2> HIDE DEF f
  <2>3. /\ Len(frames') = Len(frames) + 1 /\ frames'[Len(frames) + 1] = f
        /\ \A i \in 1 .. Len(frames) : frames'[i] = frames[i]
    BY <1>1, <2>1, AppendProperties
  <2>4. ASSUME NEW i \in 1 .. Len(frames')
        PROVE  FrameHasReason(frames'[i], i - 1)
    <3>1. CASE i = Len(frames) + 1
      BY <1>1, <2>2, <2>3, <3>1
    <3>2. CASE i # Len(frames) + 1
      <4>1. i \in 1 .. Len(frames)
        BY <1>1, <2>3, <3>2
      <4> QED
        BY <2>3, <4>1 DEF DoubtsHaveReasons
    <3> QED
      BY <3>1, <3>2
  <2> QED
    BY <1>1, <2>1, <2>4, SameReasons DEF DoubtsHaveReasons, FrameHasReason, Deep
<1> QED
  BY <1>2, <1>3

(* The term of the frame that is left is the one its parent waits for, at  *)
(* the depth the frame had.                                                *)
LEMMA PopDoubts ==
    ASSUME Inv, Control, DoubtsHaveReasons, Evaluating, frames # <<>>, Pop,
           UNCHANGED unchangedSolver, at' = "verdict",
           verdict' = "unsupported" => Gap \/ Deep(Top.term, Len(frames) - 1)
    PROVE  DoubtsHaveReasons'
<1> DEFINE n == Len(frames)
<1>1. /\ frames \in Seq(Frame) /\ n \in Nat \ {0}
      /\ frames' \in Seq(Frame) /\ Len(frames') = n - 1
      /\ \A i \in 1 .. n - 1 : frames'[i] = frames[i]
  BY PopFacts DEF Inv, Stack, Pop
<1>2. proof' = proof /\ SideTerm' = SideTerm
  BY DEF unchangedSolver, goal, SideTerm
<1>3. term' = Top.term
  <2>1. CASE n = 1
    <3>1. frames' = <<>> /\ Top = frames[1]
      BY <1>1, <2>1, EmptySeq DEF Top
    <3> QED
      BY <1>2, <2>1, <3>1 DEF term, Inv, Stack, Linked
  <2>2. CASE n # 1
    <3>1. frames' # <<>> /\ Top' = frames[n - 1] /\ n - 1 \in 1 .. n - 1 /\ (n - 1) + 1 = n
      BY <1>1, <2>2, EmptySeq DEF Top
    <3>2. frames[n].term = Child(frames[n - 1], frames[n - 1].next)
      BY <3>1 DEF Inv, Stack, Linked
    <3> QED
      BY <3>1, <3>2 DEF term, Top, Child
  <2> QED
    BY <2>1, <2>2
<1>4. ASSUME NEW i \in 1 .. Len(frames')
      PROVE  FrameHasReason(frames'[i], i - 1)
  BY <1>1 DEF DoubtsHaveReasons
<1> QED
  BY <1>1, <1>2, <1>3, <1>4, SameReasons DEF DoubtsHaveReasons, FrameHasReason, Deep

LEMMA LoopDoubts ==
    ASSUME Inv, Control, DoubtsHaveReasons, AllChildren \/ Fold
    PROVE  DoubtsHaveReasons'
<1> DEFINE n == Len(frames)
<1>1. /\ frames # <<>> /\ Evaluating /\ UNCHANGED unchangedSolver /\ proof' = proof
      /\ frames \in Seq(Frame)
  BY DEF AllChildren, Fold, Inv, Stack, Evaluating, unchangedSolver
<1>2. /\ n \in 1 .. MaxDepth + 1 /\ Top = frames[n] /\ Top \in Frame /\ Known(Top)
      /\ FrameHasReason(Top, n - 1) /\ n \in Nat
  BY <1>1, TopFacts, DepthAssumption DEF Control, DoubtsHaveReasons
<1>3. CASE AllChildren
  <2>1. verdict' = Total(Top) /\ at' = "verdict" /\ Pop
    BY <1>3 DEF AllChildren, Verdict
  <2>2. verdict' = "unsupported" => Top.doubt
    BY <2>1 DEF Total
  <2> QED
    BY <1>1, <1>2, <2>1, <2>2, PopDoubts DEF FrameHasReason
<1>4. CASE Fold
  <2>1. at = "verdict" /\ Top.next <= Len(Top.term.children) /\ term = Child(Top, Top.next)
    BY <1>1, <1>4 DEF Fold, Inv, Stack, term, Child
  <2>2. verdict = "unsupported" => Gap \/ Deep(Top.term, n - 1)
    <3>1. verdict = "unsupported" => Gap \/ Deep(Child(Top, Top.next), n)
      BY <2>1 DEF DoubtsHaveReasons
    <3> QED
      BY <1>2, <2>1, <3>1, DeepChild
  <2>3. CASE Decides(Top, verdict)
    <3>1. verdict' = Decided(Top, verdict) /\ at' = "verdict" /\ Pop
      BY <1>4, <2>3 DEF Fold, Verdict
    <3>2. verdict' = "unsupported" => verdict = "unsupported"
      <4>1. verdict \in Verdicts
        BY <2>1 DEF Inv, Stack
      <4> QED
        BY <3>1, <4>1 DEF Decided, Verdicts
    <3> QED
      BY <1>1, <2>2, <3>1, <3>2, PopDoubts
  <2>4. CASE ~Decides(Top, verdict)
    <3> DEFINE f == Remember(Top, verdict)
    <3>1. at' = "loop" /\ frames' = [frames EXCEPT ![n] = f]
      BY <1>4, <2>4 DEF Fold, ReplaceTop
    <3>2. FrameHasReason(f, n - 1)
      BY <1>2, <2>2 DEF FrameHasReason, Remember
    <3> HIDE DEF f
    <3>3. /\ Len(frames') = n /\ frames'[n] = f
          /\ \A i \in 1 .. n - 1 : frames'[i] = frames[i]
      <4>1. f \in Frame
        <5>1. verdict \in Verdicts /\ Top.next \in Nat
          BY <1>2, <2>1, FrameFacts DEF Inv, Stack
        <5> QED
          BY <1>2, <5>1, FrameFacts DEF f, Remember, Frame
      <4> QED
        BY <1>1, <1>2, <3>1, <4>1, ExceptSeq
    <3>4. ASSUME NEW i \in 1 .. Len(frames')
          PROVE  FrameHasReason(frames'[i], i - 1)
      <4>1. CASE i = n
        BY <3>2, <3>3, <4>1
      <4>2. CASE i # n
        <5>1. i \in 1 .. n - 1 /\ i \in 1 .. n
          BY <1>2, <3>3, <4>2
        <5> QED
          BY <3>3, <5>1 DEF DoubtsHaveReasons
      <4> QED
        BY <4>1, <4>2
    <3> QED
      BY <1>1, <3>1, <3>4, SameReasons DEF DoubtsHaveReasons, FrameHasReason, Deep
  <2> QED
    BY <2>3, <2>4
<1> QED
  BY <1>3, <1>4

LEMMA DoubtsHold == Inv /\ Inv' /\ Control /\ DoubtsHaveReasons /\ [Next]_vars => DoubtsHaveReasons'
<1> SUFFICES ASSUME Inv, Inv', Control, DoubtsHaveReasons, [Next]_vars PROVE DoubtsHaveReasons'
  OBVIOUS
<1>1. CASE Trivial \/ BuildWitness \/ Start \/ Try \/ NoRuleLeft \/ ConfirmRight \/ Confirm \/ Reject
  <2>1. at' # "verdict" /\ at' # "loop"
    BY <1>1 DEF Trivial, BuildWitness, Start, Try, NoRuleLeft, ConfirmRight, Confirm, Reject,
                GiveUp, Answer
  <2>2. frames' = frames /\ frames = <<>>
    BY <1>1 DEF Trivial, BuildWitness, Start, Try, NoRuleLeft, ConfirmRight, Confirm, Reject,
                GiveUp, Answer, confirming, Inv, Stack, Evaluating
  <2> QED
    BY <2>1, <2>2, NoFrames
<1>2. CASE Evaluate
  BY <1>2, EvaluateDoubts
<1>3. CASE NextChild
  <2>1. UNCHANGED <<proof, frames>> /\ at' = "term"
    BY <1>3 DEF NextChild, unchangedSolver
  <2> QED
    BY <2>1, SameReasons DEF DoubtsHaveReasons, FrameHasReason, Deep
<1>4. CASE AllChildren \/ Fold
  BY <1>4, LoopDoubts
<1>5. CASE UNCHANGED vars
  <2>1. UNCHANGED <<proof, frames, at, verdict>> /\ term' = term
    BY <1>5 DEF vars, term, Top, SideTerm, goal
  <2> QED
    BY <2>1, SameReasons DEF DoubtsHaveReasons, FrameHasReason, Deep
<1> QED
  BY <1>1, <1>2, <1>3, <1>4, <1>5 DEF Next

(* A term is left undecided only because a node of it cannot be judged, or *)
(* because it is nested too deeply (_confirm_term_valid: depth).           *)
THEOREM DoubtsReasoned == Spec => []DoubtHasAReason
<1>1. Init => Inv /\ Control /\ DoubtsHaveReasons
  BY InitHolds, InitControls DEF Init, DoubtsHaveReasons
<1>2. Inv /\ Control /\ DoubtsHaveReasons /\ [Next]_vars => (Inv /\ Control /\ DoubtsHaveReasons)'
  BY InvHolds, ControlHolds, DoubtsHold
<1>3. DoubtsHaveReasons => DoubtHasAReason
  <2>1. Len(<<>>) = 0 /\ MaxDepth + 1 - 0 = MaxDepth + 1
    BY DepthAssumption
  <2> QED
    BY <2>1 DEF DoubtsHaveReasons, DoubtHasAReason, Gap, Deep, w
<1> QED
  BY <1>1, <1>2, <1>3, PTL DEF Spec
=============================================================================

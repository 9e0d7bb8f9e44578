------------------------- MODULE DisjointnessProofs -------------------------
(***************************************************************************)
(* The disjointness questions are answered rightly for every set of values *)
(* and schemas, however they refer to each other, if the facts about the   *)
(* nodes are right.                                                        *)
(*                                                                         *)
(* The invariant is about each question on the stack.  What it has not     *)
(* asked yet is enough for what it may conclude: one pair without a common *)
(* value settles conjuncts, items and properties; of a union every common  *)
(* value is met by a branch that is still to be asked about, as long as    *)
(* nothing inconclusive is kept.                                           *)
(***************************************************************************)
EXTENDS Disjointness, FiniteSetTheorems, SequenceTheorems, NaturalsInduction,
        WellFoundedInduction, TLAPS

(* A set of natural numbers has a least one.                               *)
LEMMA LeastNatural ==
    ASSUME NEW T \in SUBSET Nat, T # {}
    PROVE  \E n \in T : \A m \in T : n <= m
<1> DEFINE R == OpToRel(<, Nat)
<1>1. IsWellFoundedOn(R, Nat)
  BY NatLessThanWellFounded
<1>2. \A m, n \in Nat : <<m, n>> \in R <=> m < n
  BY DEF OpToRel
<1> HIDE DEF R
<1>3. PICK n \in T : \A m \in T : ~(<<m, n>> \in R)
  BY <1>1, WFMin
<1>4. \A m \in T : ~(m < n)
  BY <1>2, <1>3, Zenon
<1>5. \A m \in T : n <= m
  BY <1>4
<1> QED
  BY <1>5

(* A stack without its top.                                                *)
LEMMA PopFacts ==
    ASSUME NEW S, NEW s \in Seq(S), s # <<>>
    PROVE  LET n == Len(s)
               p == SubSeq(s, 1, n - 1)
           IN  /\ n \in Nat \ {0} /\ p \in Seq(S) /\ Len(p) = n - 1
               /\ \A i \in 1 .. n - 1 : p[i] = s[i]
<1> DEFINE n == Len(s)
<1>1. n \in Nat \ {0}
  BY EmptySeq
<1>2. \A i \in 1 .. n - 1 : s[i] \in S
  BY <1>1
<1> HIDE DEF n
<1>3. /\ SubSeq(s, 1, n - 1) \in Seq(S)
      /\ Len(SubSeq(s, 1, n - 1)) = IF 1 <= n - 1 THEN n - 1 - 1 + 1 ELSE 0
      /\ \A i \in 1 .. n - 1 - 1 + 1 : SubSeq(s, 1, n - 1)[i] = s[1 + i - 1]
  BY <1>1, <1>2, SubSeqProperties
<1>4. Len(SubSeq(s, 1, n - 1)) = n - 1
  BY <1>1, <1>3
<1>5. \A i \in 1 .. n - 1 : SubSeq(s, 1, n - 1)[i] = s[i]
  <2> TAKE i \in 1 .. n - 1
  <2>1. i \in 1 .. n - 1 - 1 + 1 /\ 1 + i - 1 = i
    BY <1>1
  <2> QED
    BY <1>3, <2>1
<1>6. /\ n \in Nat \ {0} /\ SubSeq(s, 1, n - 1) \in Seq(S) /\ Len(SubSeq(s, 1, n - 1)) = n - 1
      /\ \A i \in 1 .. n - 1 : SubSeq(s, 1, n - 1)[i] = s[i]
  BY <1>1, <1>3, <1>4, <1>5
<1> QED
  BY <1>6 DEF n

StageNames == {"conjuncts", "values", "complement", "reference", "union", "facts", "item",
               "slots", "closed", "property", "fallback"}

Frames == [goal : Pairs, stage : StageNames, asks : Seq(Pairs \cup {NoCall}),
           kept : {NoResult, Unsupported, Exhausted}]

AboutNodes(q) == q.lhs \in Nodes /\ q.rhs \in Nodes

(* What the answer of a question b says of the question q that asked it.   *)
PartStages == {"conjuncts", "item", "slots", "closed", "property"}

Helps(stage, q, b) ==
    /\ b \in Pairs
    /\ stage \in PartStages => (Counterexamples(b) = {} => Counterexamples(q) = {})
    /\ stage = "reference" => Counterexamples(b) = Counterexamples(q)

Asked(f) ==
    \A k \in 1 .. Len(f.asks) :
      \/ f.stage # "union" /\ f.asks[k] = NoCall
      \/ Helps(f.stage, f.goal, f.asks[k])

BranchesLeft(f) ==
    f.stage = "union" /\ f.kept = NoResult /\ UnionQuestions(f.goal) # <<>> =>
      \A v \in Counterexamples(f.goal) :
        \E k \in 1 .. Len(f.asks) : v \in Counterexamples(f.asks[k])

Known(f) ==
    /\ f.stage \notin {"conjuncts", "fallback"} => AboutNodes(f.goal)
    /\ Asked(f)
    /\ BranchesLeft(f)

Waits(f, q) == f.asks # <<>> /\ Head(f.asks) = q

Stack ==
    /\ stack \in Seq(Frames) /\ Len(stack) <= StackLimit
    /\ \A i \in 1 .. Len(stack) : Known(stack[i])
    /\ \A i \in 1 .. Len(stack) - 1 : Waits(stack[i], stack[i + 1].goal)

Control ==
    /\ call \in Pairs \cup {NoCall}
    /\ call # NoCall => answer = NoAnswer
    /\ call # NoCall /\ stack # <<>> => Waits(Top, call)
    /\ answer # NoAnswer =>
         /\ answer.goal \in Pairs /\ answer.result \in Results
         /\ stack # <<>> => Waits(Top, answer.goal)
    /\ overflow \in BOOLEAN

Inv == Stack /\ Control /\ AnswersAreSound

-----------------------------------------------------------------------------
(* Facts about questions, terms and sets.                                  *)
LEMMA PairFacts ==
    ASSUME NEW q \in Pairs
    PROVE  /\ q.fn = "disjoint" /\ q.lhs \in Term /\ q.rhs \in Term /\ q # NoCall
           /\ Counterexamples(q) = Accepts[q.lhs] \cap Accepts[q.rhs]
           /\ Counterexamples(q) \subseteq Value
<1>1. PICK l \in Term, r \in Term : q = Disjoint(l, r)
  BY DEF Pairs
<1>2. q.fn = "disjoint" /\ q.lhs \in Term /\ q.rhs \in Term
  BY <1>1 DEF Disjoint
<1>3. q # NoCall
  BY <1>2 DEF NoCall
<1>4. Counterexamples(q) = Accepts[q.lhs] \cap Accepts[q.rhs]
  BY <1>2 DEF Counterexamples
<1>5. Accepts[q.lhs] \subseteq Value
  BY <1>2, AcceptsAssumption
<1> QED
  BY <1>2, <1>3, <1>4, <1>5

LEMMA DisjointFacts ==
    ASSUME NEW l \in Term, NEW r \in Term
    PROVE  /\ Disjoint(l, r) \in Pairs /\ Disjoint(l, r).lhs = l /\ Disjoint(l, r).rhs = r
           /\ Counterexamples(Disjoint(l, r)) = Accepts[l] \cap Accepts[r]
<1>1. Disjoint(l, r) \in Pairs /\ Disjoint(l, r).lhs = l /\ Disjoint(l, r).rhs = r
  BY DEF Pairs, Disjoint
<1> QED
  BY <1>1, PairFacts

LEMMA NodeFacts ==
    ASSUME NEW n \in Nodes
    PROVE  /\ n \in Term /\ n.kind = "node"
           /\ Accepts[n] \subseteq Value
           /\ \A v \in Accepts[n] : TypeOf[v] \in Shape[n].types
  BY ShapeAssumption, AcceptsAssumption DEF Nodes

LEMMA ShortestFacts ==
    ASSUME NEW lengths, lengths \subseteq Nat, lengths # {}
    PROVE  /\ Shortest(lengths) \in lengths /\ Shortest(lengths) \in Nat
           /\ \A j \in lengths : Shortest(lengths) <= j
<1>1. \E k \in lengths : \A j \in lengths : k <= j
  BY LeastNatural
<1> QED
  BY <1>1 DEF Shortest

LEMMA NamesInOrder ==
    ASSUME NEW S, IsFiniteSet(S)
    PROVE  /\ Cardinality(S) \in Nat
           /\ SetToSeq(S) \in [1 .. Cardinality(S) -> S]
<1>1. Cardinality(S) \in Nat /\ ExistsBijection(1 .. Cardinality(S), S)
  BY FS_CardinalityType
<1>2. PICK f : f \in Bijection(1 .. Cardinality(S), S)
  BY <1>1 DEF ExistsBijection
<1>3. f \in [1 .. Cardinality(S) -> S] /\ IsInjective(f)
  BY <1>2 DEF Bijection, Injection, IsInjective
<1> QED
  BY <1>1, <1>3 DEF SetToSeq

LEMMA TermAtIndexFacts ==
    ASSUME NEW n \in Nodes, NEW k \in Nat \ {0}
    PROVE  TermAtIndex(n, k) \in Term \cup {NoTerm}
<1>1. Shape[n].prefix \in Seq(Term) /\ Shape[n].tail \in Term \cup {NoTerm}
  BY ShapeTypes
<1>2. Len(Shape[n].prefix) \in Nat
  BY <1>1
<1>3. k <= Len(Shape[n].prefix) => Shape[n].prefix[k] \in Term
  BY <1>1, <1>2, ElementOfSeq
<1> QED
  BY <1>1, <1>3 DEF TermAtIndex

LEMMA StageFacts ==
    /\ ToSet(Stages) = StageNames
    /\ \A s \in StageNames \ {"fallback"} : Following(s) \in StageNames \ {"conjuncts"}
<1>1. DOMAIN Stages = 1 .. 11
  BY DEF Stages
<1>2. /\ Stages[1] = "conjuncts" /\ Stages[2] = "values" /\ Stages[3] = "complement"
      /\ Stages[4] = "reference" /\ Stages[5] = "union" /\ Stages[6] = "facts"
      /\ Stages[7] = "item" /\ Stages[8] = "slots" /\ Stages[9] = "closed"
      /\ Stages[10] = "property" /\ Stages[11] = "fallback"
  BY DEF Stages
<1>3. \A k : k \in 1 .. 11 <=> k \in {1, 2, 3, 4, 5, 6, 7, 8, 9, 10, 11}
  OBVIOUS
<1>4. ToSet(Stages) = StageNames
  BY <1>1, <1>2, <1>3 DEF ToSet, StageNames
<1>5. ASSUME NEW s \in StageNames \ {"fallback"}
      PROVE  Following(s) \in StageNames \ {"conjuncts"}
  <2> DEFINE k == CHOOSE j \in DOMAIN Stages : Stages[j] = s
  <2>1. \E j \in DOMAIN Stages : Stages[j] = s
    BY <1>1, <1>2, <1>3 DEF StageNames
  <2>2. k \in 1 .. 11 /\ Stages[k] = s
    BY <1>1, <2>1
  <2> HIDE DEF k
  <2>3. k # 11
    BY <1>2, <2>2
  <2>4. k + 1 \in {2, 3, 4, 5, 6, 7, 8, 9, 10, 11}
    BY <2>2, <2>3
  <2>5. Stages[k + 1] \in StageNames \ {"conjuncts"}
    BY <1>2, <2>4 DEF StageNames
  <2> QED
    BY <2>5 DEF Following, k
<1> QED
  BY <1>4, <1>5

-----------------------------------------------------------------------------
(* What each stage asks.                                                   *)
Useful(stage, q, asks) ==
    /\ asks \in Seq(Pairs \cup {NoCall})
    /\ \A k \in 1 .. Len(asks) : \/ stage # "union" /\ asks[k] = NoCall
                                \/ Helps(stage, q, asks[k])

LEMMA UsefulList ==
    ASSUME NEW stage, NEW q, NEW n \in Nat, NEW asks, DOMAIN asks = 1 .. n,
           asks = [k \in 1 .. n |-> asks[k]],
           \A k \in 1 .. n : \/ stage # "union" /\ asks[k] = NoCall
                             \/ Helps(stage, q, asks[k])
    PROVE  Useful(stage, q, asks)
<1>1. \A k \in 1 .. n : asks[k] \in Pairs \cup {NoCall}
  BY DEF Helps
<1> DEFINE S == Pairs \cup {NoCall}
<1>2. asks \in [1 .. n -> S]
  BY <1>1
<1> HIDE DEF S
<1>3. asks \in Seq(S) /\ Len(asks) = n
  BY <1>2, SeqDef, LenProperties
<1> QED
  BY <1>3 DEF Useful, S

LEMMA NothingAsked ==
    ASSUME NEW stage, NEW q
    PROVE  Useful(stage, q, <<>>)
  BY EmptySeq DEF Useful

LEMMA OneAsked ==
    ASSUME NEW stage, NEW q, NEW b, Helps(stage, q, b)
    PROVE  Useful(stage, q, <<b>>)
<1>1. <<b>> \in Seq(Pairs \cup {NoCall}) /\ Len(<<b>>) = 1 /\ <<b>>[1] = b
  BY DEF Helps
<1>2. \A k \in 1 .. 1 : k = 1
  OBVIOUS
<1> QED
  BY <1>1, <1>2 DEF Useful

(* A conjunct has the values of the whole, so that one that is disjoint    *)
(* from the other term is enough.                                          *)
LEMMA ConjunctsHelp ==
    ASSUME NEW q \in Pairs
    PROVE  Useful("conjuncts", q, ConjunctQuestions(q))
<1>1. CASE ~(HasConjuncts(q) /\ IsNode(OtherTerm(q)))
  BY <1>1, NothingAsked DEF ConjunctQuestions
<1>2. CASE HasConjuncts(q) /\ IsNode(OtherTerm(q))
  <2> DEFINE o == OtherTerm(q)
             asks == ConjunctQuestions(q)
  <2>1. PICK t \in Term : /\ t.kind = "all_of" /\ Conjuncts(q) = t.children /\ o \in Term
                          /\ Counterexamples(q) = Accepts[t] \cap Accepts[o]
    <3>1. CASE q.lhs.kind = "all_of"
      BY <3>1, PairFacts DEF Conjuncts, OtherTerm
    <3>2. CASE q.lhs.kind # "all_of"
      BY <1>2, <3>2, PairFacts DEF HasConjuncts, Conjuncts, OtherTerm
    <3> QED
      BY <3>1, <3>2
  <2>2. t.children \in Seq(Term)
    BY <2>1, TermAssumption
  <2>3. /\ Len(t.children) \in Nat /\ DOMAIN t.children = 1 .. Len(t.children)
        /\ \A k \in 1 .. Len(t.children) : t.children[k] \in Term
    BY <2>2, ElementOfSeq, LenProperties
  <2>4. asks = [k \in 1 .. Len(t.children) |->
                  IF IsNode(t.children[k]) THEN Disjoint(t.children[k], o) ELSE NoCall]
    BY <1>2, <2>1, <2>3 DEF ConjunctQuestions
  <2>5. ASSUME NEW k \in 1 .. Len(t.children), IsNode(t.children[k])
        PROVE  Helps("conjuncts", q, asks[k])
    <3>1. asks[k] = Disjoint(t.children[k], o) /\ t.children[k] \in Term
      BY <2>3, <2>4, <2>5
    <3>2. asks[k] \in Pairs /\ Counterexamples(asks[k]) = Accepts[t.children[k]] \cap Accepts[o]
      BY <2>1, <3>1, DisjointFacts
    <3>3. Accepts[t] \subseteq Accepts[t.children[k]]
      BY <2>1, AcceptsAssumption DEF ChildIndexes
    <3>4. Counterexamples(q) \subseteq Counterexamples(asks[k])
      BY <2>1, <3>2, <3>3
    <3> QED
      BY <3>2, <3>4 DEF Helps
  <2>6. \A k \in 1 .. Len(t.children) : asks[k] = NoCall \/ Helps("conjuncts", q, asks[k])
    BY <2>4, <2>5
  <2>7. DOMAIN asks = 1 .. Len(t.children) /\ asks = [k \in 1 .. Len(t.children) |-> asks[k]]
    BY <2>4
  <2> HIDE DEF asks
  <2>8. Useful("conjuncts", q, asks)
    BY <2>3, <2>6, <2>7, UsefulList
  <2> QED
    BY <2>8 DEF asks
<1> QED
  BY <1>1, <1>2

(* A reference accepts what its target does.                               *)
LEMMA ReferenceHelps ==
    ASSUME NEW q \in Pairs, AboutNodes(q)
    PROVE  Useful("reference", q, ReferenceQuestions(q))
<1>1. \A n \in Nodes : TargetOf(n) \in Term /\ Accepts[TargetOf(n)] = Accepts[n]
  BY NodeFacts, ShapeTypes, ShapeAssumption DEF TargetOf
<1> DEFINE b == Disjoint(TargetOf(q.lhs), TargetOf(q.rhs))
<1>2. b \in Pairs /\ Counterexamples(b) = Counterexamples(q)
  <2>1. /\ TargetOf(q.lhs) \in Term /\ Accepts[TargetOf(q.lhs)] = Accepts[q.lhs]
        /\ TargetOf(q.rhs) \in Term /\ Accepts[TargetOf(q.rhs)] = Accepts[q.rhs]
    BY <1>1 DEF AboutNodes
  <2>2. Counterexamples(q) = Accepts[q.lhs] \cap Accepts[q.rhs]
    BY PairFacts
  <2>3. b \in Pairs /\ Counterexamples(b) = Accepts[TargetOf(q.lhs)] \cap Accepts[TargetOf(q.rhs)]
    BY <2>1, DisjointFacts
  <2> QED
    BY <2>1, <2>2, <2>3
<1> HIDE DEF b
<1>3. Helps("reference", q, b)
  BY <1>2 DEF Helps, PartStages
<1> QED
  BY <1>3, OneAsked, NothingAsked DEF ReferenceQuestions, b

(* Every common value is a value of some branch.                           *)
LEMMA BranchesHelp ==
    ASSUME NEW q \in Pairs, AboutNodes(q)
    PROVE  /\ Useful("union", q, UnionQuestions(q))
           /\ UnionQuestions(q) # <<>> =>
                \A v \in Counterexamples(q) :
                  \E k \in 1 .. Len(UnionQuestions(q)) : v \in Counterexamples(UnionQuestions(q)[k])
<1>1. PICK n \in Nodes, o \in Nodes :
        /\ UnionQuestions(q) = [k \in DOMAIN Shape[n].branches |-> Disjoint(Shape[n].branches[k], o)]
        /\ Counterexamples(q) = Accepts[n] \cap Accepts[o]
  <2>1. CASE Shape[q.lhs].branches # <<>>
    BY <2>1, PairFacts DEF AboutNodes, UnionQuestions
  <2>2. CASE Shape[q.lhs].branches = <<>>
    BY <2>2, PairFacts DEF AboutNodes, UnionQuestions
  <2> QED
    BY <2>1, <2>2
<1> DEFINE bs == Shape[n].branches
           asks == UnionQuestions(q)
<1>2. bs \in Seq(Term)
  BY ShapeTypes
<1>3. /\ Len(bs) \in Nat /\ DOMAIN bs = 1 .. Len(bs)
      /\ \A k \in 1 .. Len(bs) : bs[k] \in Term
  BY <1>2, ElementOfSeq, LenProperties
<1>4. \A k \in 1 .. Len(bs) : /\ asks[k] \in Pairs
                              /\ Counterexamples(asks[k]) = Accepts[bs[k]] \cap Accepts[o]
  <2> TAKE k \in 1 .. Len(bs)
  <2>1. asks[k] = Disjoint(bs[k], o) /\ bs[k] \in Term
    BY <1>1, <1>3
  <2> QED
    BY <2>1, NodeFacts, DisjointFacts
<1>5. DOMAIN asks = 1 .. Len(bs) /\ asks = [k \in 1 .. Len(bs) |-> asks[k]]
  BY <1>1, <1>3
<1>6. bs # <<>> => Accepts[n] \subseteq UNION {Accepts[bs[k]] : k \in 1 .. Len(bs)}
  BY <1>3, ShapeAssumption
<1> HIDE DEF bs, asks
<1>7. Useful("union", q, asks)
  <2>1. \A k \in 1 .. Len(bs) : Helps("union", q, asks[k])
    BY <1>4 DEF Helps, PartStages
  <2> QED
    BY <1>3, <1>5, <2>1, UsefulList
<1>8. Len(asks) = Len(bs)
  BY <1>3, <1>5, <1>7, LenProperties DEF Useful
<1>9. ASSUME asks # <<>>, NEW v \in Counterexamples(q)
      PROVE  \E k \in 1 .. Len(asks) : v \in Counterexamples(asks[k])
  <2>1. bs # <<>>
    BY <1>2, <1>7, <1>8, <1>9, EmptySeq DEF Useful
  <2>2. PICK k \in 1 .. Len(bs) : v \in Accepts[bs[k]]
    BY <1>1, <1>6, <1>9, <2>1
  <2> QED
    BY <1>1, <1>4, <1>8, <1>9, <2>2
<1> QED
  BY <1>7, <1>9 DEF asks

(* The type of a common value is a common type.                            *)
LEMMA JointType ==
    ASSUME NEW q \in Pairs, AboutNodes(q), NEW v \in Counterexamples(q)
    PROVE  /\ v \in Value /\ v \in Accepts[q.lhs] /\ v \in Accepts[q.rhs]
           /\ TypeOf[v] \in Joint(q)
<1>1. v \in Value /\ v \in Accepts[q.lhs] /\ v \in Accepts[q.rhs]
  BY PairFacts
<1>2. TypeOf[v] \in Shape[q.lhs].types /\ TypeOf[v] \in Shape[q.rhs].types
  BY <1>1, NodeFacts DEF AboutNodes
<1> QED
  BY <1>1, <1>2 DEF Joint

(* A common array has the item at a position that both sides require, and  *)
(* it is one of the terms of both sides.                                   *)
LEMMA ItemsAreShared ==
    ASSUME NEW q \in Pairs, AboutNodes(q), NEW v \in Counterexamples(q), TypeOf[v] = "array",
           NEW k \in Nat \ {0}, k <= Len(ItemsOf[v]),
           TermAtIndex(q.lhs, k) # NoTerm, TermAtIndex(q.rhs, k) # NoTerm
    PROVE  ItemsOf[v][k] \in Accepts[TermAtIndex(q.lhs, k)] \cap Accepts[TermAtIndex(q.rhs, k)]
<1>1. v \in Value /\ v \in Accepts[q.lhs] /\ v \in Accepts[q.rhs]
  BY JointType
<1>2. ItemsOf[v] \in Seq(Value)
  BY <1>1, ValueAssumption
<1>3. k \in DOMAIN ItemsOf[v]
  BY <1>2, LenProperties
<1> QED
  BY <1>1, <1>3, ArrayAssumption DEF AboutNodes

LEMMA LengthsAreShared ==
    ASSUME NEW q \in Pairs, AboutNodes(q), NEW v \in Counterexamples(q), TypeOf[v] = "array"
    PROVE  /\ Len(ItemsOf[v]) \in Nat
           /\ Shape[q.lhs].lengths # {} => Len(ItemsOf[v]) \in Shape[q.lhs].lengths
           /\ Shape[q.rhs].lengths # {} => Len(ItemsOf[v]) \in Shape[q.rhs].lengths
<1>1. v \in Value /\ v \in Accepts[q.lhs] /\ v \in Accepts[q.rhs]
  BY JointType
<1>2. ItemsOf[v] \in Seq(Value)
  BY <1>1, ValueAssumption
<1> QED
  BY <1>1, <1>2, ArrayAssumption, LenProperties DEF AboutNodes

(* A pair of item terms at a required position.                            *)
LEMMA PositionHelps ==
    ASSUME NEW q \in Pairs, AboutNodes(q), Joint(q) = {"array"}, NEW k \in Nat \ {0},
           TermAtIndex(q.lhs, k) # NoTerm, TermAtIndex(q.rhs, k) # NoTerm,
           \A v \in Counterexamples(q) : k <= Len(ItemsOf[v])
    PROVE  \A stage \in {"item", "slots"} :
             Helps(stage, q, Disjoint(TermAtIndex(q.lhs, k), TermAtIndex(q.rhs, k)))
<1> DEFINE b == Disjoint(TermAtIndex(q.lhs, k), TermAtIndex(q.rhs, k))
<1>1. TermAtIndex(q.lhs, k) \in Term /\ TermAtIndex(q.rhs, k) \in Term
  BY TermAtIndexFacts DEF AboutNodes
<1>2. /\ b \in Pairs
      /\ Counterexamples(b) = Accepts[TermAtIndex(q.lhs, k)] \cap Accepts[TermAtIndex(q.rhs, k)]
  BY <1>1, DisjointFacts
<1>3. ASSUME NEW v \in Counterexamples(q) PROVE Counterexamples(b) # {}
  <2>1. TypeOf[v] = "array"
    BY JointType
  <2> QED
    BY <1>2, <2>1, ItemsAreShared
<1> HIDE DEF b
<1>4. Counterexamples(b) = {} => Counterexamples(q) = {}
  BY <1>3
<1>5. \A stage \in {"item", "slots"} : Helps(stage, q, b)
  BY <1>2, <1>4 DEF Helps
<1> QED
  BY <1>5 DEF b

LEMMA ItemHelps ==
    ASSUME NEW q \in Pairs, AboutNodes(q)
    PROVE  Useful("item", q, ItemQuestions(q))
<1>1. CASE Joint(q) = {"array"} /\ NoTerm \notin {FirstRequiredItem(q.lhs), FirstRequiredItem(q.rhs)}
  <2>1. ASSUME NEW n \in Nodes, FirstRequiredItem(n) # NoTerm
        PROVE  /\ FirstRequiredItem(n) = TermAtIndex(n, 1) /\ Shape[n].lengths # {}
               /\ \A j \in Shape[n].lengths : j >= 1
    <3>1. Shape[n].lengths # {} /\ Shortest(Shape[n].lengths) >= 1 /\ Shape[n].lengths \subseteq Nat
      BY <2>1, ShapeTypes DEF FirstRequiredItem
    <3>2. \A j \in Shape[n].lengths : j \in Nat /\ Shortest(Shape[n].lengths) <= j
      BY <3>1, ShortestFacts
    <3>3. Shortest(Shape[n].lengths) \in Nat
      BY <3>1, ShortestFacts
    <3>4. \A j \in Shape[n].lengths : j >= 1
      BY <3>1, <3>2, <3>3
    <3> QED
      BY <3>1, <3>4 DEF FirstRequiredItem
  <2>2. \A v \in Counterexamples(q) : 1 <= Len(ItemsOf[v])
    <3> TAKE v \in Counterexamples(q)
    <3>1. TypeOf[v] = "array"
      BY <1>1, JointType
    <3>2. Len(ItemsOf[v]) \in Nat /\ Len(ItemsOf[v]) \in Shape[q.lhs].lengths
      BY <1>1, <2>1, <3>1, LengthsAreShared DEF AboutNodes
    <3>3. Len(ItemsOf[v]) >= 1
      BY <1>1, <2>1, <3>2 DEF AboutNodes
    <3> QED
      BY <3>2, <3>3
  <2>3. /\ FirstRequiredItem(q.lhs) = TermAtIndex(q.lhs, 1) /\ TermAtIndex(q.lhs, 1) # NoTerm
        /\ FirstRequiredItem(q.rhs) = TermAtIndex(q.rhs, 1) /\ TermAtIndex(q.rhs, 1) # NoTerm
    BY <1>1, <2>1 DEF AboutNodes
  <2>4. Helps("item", q, Disjoint(FirstRequiredItem(q.lhs), FirstRequiredItem(q.rhs)))
    BY <1>1, <2>2, <2>3, PositionHelps
  <2>5. Useful("item", q, <<Disjoint(FirstRequiredItem(q.lhs), FirstRequiredItem(q.rhs))>>)
    BY <2>4, OneAsked
  <2> QED
    BY <1>1, <2>5 DEF ItemQuestions
<1>2. CASE ~(Joint(q) = {"array"} /\ NoTerm \notin {FirstRequiredItem(q.lhs), FirstRequiredItem(q.rhs)})
  BY <1>2, NothingAsked DEF ItemQuestions
<1> QED
  BY <1>1, <1>2

LEMMA SlotsHelp ==
    ASSUME NEW q \in Pairs, AboutNodes(q)
    PROVE  Useful("slots", q, SlotQuestions(q))
<1> DEFINE n == Shortest(SharedLengths(q))
           asks == SlotQuestions(q)
           asking == /\ LengthsKnown(q) /\ SharedLengths(q) # {}
                     /\ Indexed(q.lhs, n) /\ Indexed(q.rhs, n)
<1>1. CASE ~asking
  BY <1>1, NothingAsked DEF SlotQuestions
<1>2. CASE asking
  <2>1. /\ Joint(q) = {"array"} /\ SharedLengths(q) # {} /\ SharedLengths(q) \subseteq Nat
        /\ Shape[q.lhs].lengths # {} /\ Shape[q.rhs].lengths # {}
    BY <1>2, ShapeTypes DEF AboutNodes, LengthsKnown, SharedLengths
  <2>2. n \in Nat /\ \A j \in SharedLengths(q) : n <= j
    BY <2>1, ShortestFacts
  <2>3. \A v \in Counterexamples(q) : n <= Len(ItemsOf[v]) /\ Len(ItemsOf[v]) \in Nat
    <3> TAKE v \in Counterexamples(q)
    <3>1. TypeOf[v] = "array"
      BY <2>1, JointType
    <3>2. Len(ItemsOf[v]) \in SharedLengths(q) /\ Len(ItemsOf[v]) \in Nat
      BY <2>1, <3>1, LengthsAreShared DEF SharedLengths
    <3> QED
      BY <2>2, <3>2
  <2>4. asks = [k \in 1 .. n |->
                  IF k \in RequiredSlots(q)
                  THEN Disjoint(TermAtIndex(q.lhs, k), TermAtIndex(q.rhs, k)) ELSE NoCall]
    BY <1>2 DEF SlotQuestions
  <2> HIDE DEF n, asks
  <2>5. ASSUME NEW k \in 1 .. n, k \in RequiredSlots(q)
        PROVE  Helps("slots", q, asks[k])
    <3>1. k \in Nat \ {0}
      BY <2>2
    <3>2. \A v \in Counterexamples(q) : k <= Len(ItemsOf[v])
      BY <2>2, <2>3
    <3>3. TermAtIndex(q.lhs, k) # NoTerm /\ TermAtIndex(q.rhs, k) # NoTerm
      BY <2>5 DEF RequiredSlots
    <3>4. Helps("slots", q, Disjoint(TermAtIndex(q.lhs, k), TermAtIndex(q.rhs, k)))
      BY <2>1, <3>1, <3>2, <3>3, PositionHelps
    <3> QED
      BY <2>4, <2>5, <3>4
  <2>6. \A k \in 1 .. n : asks[k] = NoCall \/ Helps("slots", q, asks[k])
    BY <2>4, <2>5
  <2>7. DOMAIN asks = 1 .. n /\ asks = [k \in 1 .. n |-> asks[k]]
    BY <2>4
  <2>8. Useful("slots", q, asks)
    BY <2>2, <2>6, <2>7, UsefulList
  <2> QED
    BY <2>8 DEF asks
<1> QED
  BY <1>1, <1>2

(* Values of a name that a common object must have.                        *)
LEMMA NamesHelp ==
    ASSUME NEW q \in Pairs, AboutNodes(q), Joint(q) = {"object"}, NEW names, IsFiniteSet(names),
           names \subseteq NamesOf(q.lhs) \cap NamesOf(q.rhs),
           names \subseteq RequiredByEither(q)
    PROVE  \A stage \in {"closed", "property"} : Useful(stage, q, ValueQuestions(q, names))
<1> DEFINE sorted == SetToSeq(names)
           n == Cardinality(names)
           asks == ValueQuestions(q, names)
<1>1. n \in Nat /\ sorted \in [1 .. n -> names]
  BY NamesInOrder
<1>2. asks = [k \in 1 .. n |->
                Disjoint(Shape[q.lhs].values[sorted[k]], Shape[q.rhs].values[sorted[k]])]
  BY <1>1 DEF ValueQuestions
<1> HIDE DEF sorted, n, asks
<1>3. ASSUME NEW stage \in {"closed", "property"}, NEW k \in 1 .. n
      PROVE  Helps(stage, q, asks[k])
  <2> DEFINE name == sorted[k]
             l == Shape[q.lhs].values[name]
             r == Shape[q.rhs].values[name]
  <2>1. name \in names /\ name \in NamesOf(q.lhs) /\ name \in NamesOf(q.rhs)
    BY <1>1
  <2>2. l \in Term /\ r \in Term
    <3>1. \A m \in Nodes : \A x \in NamesOf(m) : Shape[m].values[x] \in Term
      BY ShapeTypes
    <3> QED
      BY <2>1, <3>1 DEF AboutNodes
  <2>3. asks[k] = Disjoint(l, r)
    BY <1>2
  <2>4. ASSUME NEW v \in Counterexamples(q)
        PROVE  PropertiesOf[v][name] \in Accepts[l] \cap Accepts[r]
    <3>1. TypeOf[v] = "object" /\ v \in Accepts[q.lhs] /\ v \in Accepts[q.rhs]
      BY JointType
    <3>2. name \in DOMAIN PropertiesOf[v]
      BY <2>1, <3>1, ObjectAssumption DEF AboutNodes, RequiredByEither
    <3> QED
      BY <2>1, <3>1, <3>2, ObjectAssumption DEF AboutNodes
  <2> HIDE DEF l, r, name
  <2>5. asks[k] \in Pairs /\ Counterexamples(asks[k]) = Accepts[l] \cap Accepts[r]
    BY <2>2, <2>3, DisjointFacts
  <2>6. Counterexamples(asks[k]) = {} => Counterexamples(q) = {}
    BY <2>4, <2>5
  <2> QED
    BY <2>5, <2>6 DEF Helps
<1>4. DOMAIN asks = 1 .. n /\ asks = [k \in 1 .. n |-> asks[k]]
  BY <1>2
<1>5. \A stage \in {"closed", "property"} : Useful(stage, q, asks)
  BY <1>1, <1>3, <1>4, UsefulList
<1> QED
  BY <1>5 DEF asks

LEMMA PropertiesHelp ==
    ASSUME NEW q \in Pairs, AboutNodes(q)
    PROVE  /\ Useful("closed", q, ClosedQuestions(q))
           /\ Useful("property", q, PropertyQuestions(q))
<1>1. IsFiniteSet(RequiredByEither(q)) /\ IsFiniteSet(RequiredByBoth(q))
  <2>1. IsFiniteSet(Shape[q.lhs].required) /\ IsFiniteSet(Shape[q.rhs].required)
    BY ShapeTypes DEF AboutNodes
  <2>2. RequiredByBoth(q) \subseteq Shape[q.lhs].required
    BY DEF RequiredByBoth
  <2> QED
    BY <2>1, <2>2, FS_Union, FS_Subset DEF RequiredByEither
<1>2. Useful("closed", q, ClosedQuestions(q))
  <2>1. CASE BothClosed(q) /\ ~Uninhabited(q)
    BY <1>1, <2>1, NamesHelp DEF ClosedQuestions, BothClosed, Uninhabited
  <2>2. CASE ~(BothClosed(q) /\ ~Uninhabited(q))
    BY <2>2, NothingAsked DEF ClosedQuestions
  <2> QED
    BY <2>1, <2>2
<1>3. Useful("property", q, PropertyQuestions(q))
  <2>1. CASE Joint(q) = {"object"}
    <3>1. /\ RequiredByBoth(q) \subseteq NamesOf(q.lhs) \cap NamesOf(q.rhs)
          /\ RequiredByBoth(q) \subseteq RequiredByEither(q)
      BY DEF RequiredByBoth, RequiredByEither
    <3> QED
      BY <1>1, <2>1, <3>1, NamesHelp DEF PropertyQuestions
  <2>2. CASE Joint(q) # {"object"}
    BY <2>2, NothingAsked DEF PropertyQuestions
  <2> QED
    BY <2>1, <2>2
<1> QED
  BY <1>2, <1>3

-----------------------------------------------------------------------------
(* Frames.                                                                 *)
LEMMA FrameFacts ==
    ASSUME NEW f \in Frames
    PROVE  /\ f.goal \in Pairs /\ f.stage \in StageNames /\ f.asks \in Seq(Pairs \cup {NoCall})
           /\ f.kept \in {NoResult, Unsupported, Exhausted}
  BY DEF Frames

(* A question at the beginning of a stage.                                 *)
LEMMA FreshFrame ==
    ASSUME NEW q \in Pairs, NEW stage \in StageNames,
           stage \notin {"conjuncts", "fallback"} => AboutNodes(q)
    PROVE  LET f == Frame(q, stage, NoResult)
           IN  f \in Frames /\ Known(f) /\ f.goal = q /\ f.stage = stage
<1> DEFINE f == Frame(q, stage, NoResult)
           asks == QuestionsOf(stage, q)
<1>1. f.goal = q /\ f.stage = stage /\ f.asks = asks /\ f.kept = NoResult
  BY DEF Frame
<1>2. Useful(stage, q, asks)
  <2>1. CASE stage = "conjuncts"
    BY <2>1, ConjunctsHelp DEF QuestionsOf
  <2>2. CASE stage = "reference"
    BY <2>2, ReferenceHelps DEF QuestionsOf
  <2>3. CASE stage = "union"
    BY <2>3, BranchesHelp DEF QuestionsOf
  <2>4. CASE stage = "item"
    BY <2>4, ItemHelps DEF QuestionsOf
  <2>5. CASE stage = "slots"
    BY <2>5, SlotsHelp DEF QuestionsOf
  <2>6. CASE stage = "closed"
    BY <2>6, PropertiesHelp DEF QuestionsOf
  <2>7. CASE stage = "property"
    BY <2>7, PropertiesHelp DEF QuestionsOf
  <2>8. CASE stage \in {"values", "complement", "facts", "fallback"}
    BY <2>8, NothingAsked DEF QuestionsOf
  <2> QED
    BY <2>1, <2>2, <2>3, <2>4, <2>5, <2>6, <2>7, <2>8 DEF StageNames
<1>3. stage = "union" /\ UnionQuestions(q) # <<>> =>
        \A v \in Counterexamples(q) : \E k \in 1 .. Len(asks) : v \in Counterexamples(asks[k])
  <2>1. stage = "union" => asks = UnionQuestions(q)
    BY DEF QuestionsOf
  <2> QED
    BY <2>1, BranchesHelp
<1> HIDE DEF asks
<1>4. f \in Frames
  BY <1>2 DEF Frames, Frame, Useful, asks
<1> HIDE DEF f
<1>5. Asked(f)
  BY <1>1, <1>2 DEF Asked, Useful
<1>6. BranchesLeft(f)
  BY <1>1, <1>3 DEF BranchesLeft
<1> QED
  BY <1>1, <1>4, <1>5, <1>6 DEF Known, f

(* A question that was answered is not asked again; that of a branch was   *)
(* answered with a proof, or something is kept.                            *)
LEMMA NextFrame ==
    ASSUME NEW f \in Frames, Known(f), f.asks # <<>>, NEW r \in {NoResult, Unsupported, Exhausted},
           f.stage = "union" /\ r = NoResult =>
             f.kept = NoResult /\ Counterexamples(Head(f.asks)) = {}
    PROVE  LET g == [f EXCEPT !.asks = Tail(@), !.kept = r]
           IN  g \in Frames /\ Known(g)
<1> DEFINE g == [f EXCEPT !.asks = Tail(@), !.kept = r]
           n == Len(f.asks)
<1>1. f.asks \in Seq(Pairs \cup {NoCall}) /\ n \in Nat \ {0}
  BY FrameFacts, EmptySeq
<1>2. /\ Tail(f.asks) \in Seq(Pairs \cup {NoCall}) /\ Len(Tail(f.asks)) = n - 1
      /\ \A k \in 1 .. n - 1 : Tail(f.asks)[k] = f.asks[k + 1]
      /\ Head(f.asks) = f.asks[1]
  BY <1>1, HeadTailProperties
<1>3. g.goal = f.goal /\ g.stage = f.stage /\ g.asks = Tail(f.asks) /\ g.kept = r
  BY DEF Frames
<1>4. g \in Frames
  BY <1>2 DEF Frames
<1> HIDE DEF g
<1>5. \A k \in 1 .. n - 1 : k + 1 \in 1 .. n
  BY <1>1
<1>6. Asked(g)
  BY <1>2, <1>3, <1>5 DEF Known, Asked
<1>7. BranchesLeft(g)
  <2>1. SUFFICES ASSUME f.stage = "union", r = NoResult, UnionQuestions(f.goal) # <<>>,
                        NEW v \in Counterexamples(f.goal)
                 PROVE  \E k \in 1 .. Len(g.asks) : v \in Counterexamples(g.asks[k])
    BY <1>3 DEF BranchesLeft
  <2>2. PICK k \in 1 .. n : v \in Counterexamples(f.asks[k])
    BY <2>1 DEF Known, BranchesLeft
  <2>3. k # 1
    BY <1>2, <2>1, <2>2
  <2>4. k - 1 \in 1 .. n - 1 /\ (k - 1) + 1 = k
    BY <1>1, <2>2, <2>3
  <2> QED
    BY <1>2, <1>3, <2>2, <2>4
<1> QED
  BY <1>3, <1>4, <1>6, <1>7 DEF Known, AboutNodes, g

-----------------------------------------------------------------------------
(* Steps.                                                                  *)
LEMMA InitHolds == Init => Inv
<1> SUFFICES ASSUME Init PROVE Inv
  OBVIOUS
<1>1. Stack
  BY LimitAssumption DEF Init, Stack
<1>2. Control
  BY QuestionsAssumption DEF Init, Control
<1> QED
  BY <1>1, <1>2 DEF Init, Inv, AnswersAreSound

LEMMA TopFacts ==
    ASSUME Inv, stack # <<>>
    PROVE  /\ Len(stack) \in Nat \ {0} /\ Top = stack[Len(stack)]
           /\ Top \in Frames /\ Known(Top) /\ Top.goal \in Pairs /\ Top.stage \in StageNames
           /\ Top.stage \notin {"conjuncts", "fallback"} => AboutNodes(Top.goal)
<1>1. Len(stack) \in Nat \ {0} /\ stack \in Seq(Frames)
  BY EmptySeq DEF Inv, Stack
<1>2. Top = stack[Len(stack)] /\ Top \in Frames /\ Known(Top)
  BY <1>1 DEF Inv, Stack, Top
<1> QED
  BY <1>1, <1>2, FrameFacts DEF Known

LEMMA RestFacts ==
    ASSUME Inv, stack # <<>>
    PROVE  /\ Rest \in Seq(Frames) /\ Len(Rest) = Len(stack) - 1
           /\ \A i \in 1 .. Len(stack) - 1 : Rest[i] = stack[i]
  BY PopFacts DEF Inv, Stack, Rest

(* An answer goes to the question that waits for it.                       *)
LEMMA ReturnHolds ==
    ASSUME Inv, stack # <<>>, call = NoCall, NEW r \in Results, Sound(Top.goal, r), Return(r)
    PROVE  Inv'
<1> DEFINE n == Len(stack)
<1>1. /\ n \in Nat \ {0} /\ Top = stack[n] /\ Top.goal \in Pairs
      /\ stack' \in Seq(Frames) /\ Len(stack') = n - 1
      /\ \A i \in 1 .. n - 1 : stack'[i] = stack[i]
  BY TopFacts, RestFacts DEF Return
<1>2. answer' = [goal |-> Top.goal, result |-> r] /\ call' = NoCall /\ overflow' = overflow
  BY DEF Return
<1>3. Stack'
  <2>1. Len(stack') <= StackLimit
    BY <1>1, LimitAssumption DEF Inv, Stack
  <2>2. \A i \in 1 .. Len(stack') : Known(stack'[i])
    BY <1>1 DEF Inv, Stack
  <2>3. \A i \in 1 .. Len(stack') - 1 : Waits(stack'[i], stack'[i + 1].goal)
    <3> TAKE i \in 1 .. Len(stack') - 1
    <3>1. i \in 1 .. n - 1 /\ i + 1 \in 1 .. n - 1
      BY <1>1
    <3> QED
      BY <1>1, <3>1 DEF Inv, Stack
  <2> QED
    BY <1>1, <2>1, <2>2, <2>3 DEF Stack
<1>4. stack' # <<>> => Waits(Top', Top.goal)
  <2> HAVE stack' # <<>>
  <2>1. n - 1 \in 1 .. n - 1 /\ (n - 1) + 1 = n
    BY <1>1, EmptySeq
  <2>2. Top' = stack[n - 1]
    BY <1>1, <2>1 DEF Top
  <2> QED
    BY <1>1, <2>1, <2>2 DEF Inv, Stack
<1>5. Control'
  BY <1>1, <1>2, <1>4 DEF Inv, Control
<1> QED
  BY <1>2, <1>3, <1>5 DEF Inv, AnswersAreSound

(* Another frame about the same question.                                  *)
LEMMA BecomeHolds ==
    ASSUME Inv, stack # <<>>, call = NoCall, NEW f \in Frames, Known(f), f.goal = Top.goal, Become(f)
    PROVE  Inv'
<1> DEFINE n == Len(stack)
<1>1. n \in Nat \ {0} /\ Top = stack[n]
  BY TopFacts
<1>2. /\ stack' \in Seq(Frames) /\ Len(stack') = n /\ stack'[n] = f
      /\ \A i \in 1 .. n - 1 : stack'[i] = stack[i]
  <2>1. Rest \in Seq(Frames) /\ Len(Rest) = n - 1 /\ \A i \in 1 .. n - 1 : Rest[i] = stack[i]
    BY RestFacts
  <2>2. /\ Append(Rest, f) \in Seq(Frames) /\ Len(Append(Rest, f)) = Len(Rest) + 1
        /\ \A i \in 1 .. Len(Rest) : Append(Rest, f)[i] = Rest[i]
        /\ Append(Rest, f)[Len(Rest) + 1] = f
    BY <2>1, AppendProperties
  <2>3. Len(Rest) + 1 = n
    BY <1>1, <2>1
  <2> QED
    BY <2>1, <2>2, <2>3 DEF Become
<1>3. answer' = NoAnswer /\ call' = NoCall /\ overflow' = overflow
  BY DEF Become
<1>4. \A i \in 1 .. n : Known(stack'[i])
  <2> TAKE i \in 1 .. n
  <2>1. i = n \/ i \in 1 .. n - 1
    BY <1>1
  <2> QED
    BY <1>2, <2>1 DEF Inv, Stack
<1>5. \A i \in 1 .. n - 1 : Waits(stack'[i], stack'[i + 1].goal)
  <2> TAKE i \in 1 .. n - 1
  <2>1. Waits(stack[i], stack[i + 1].goal) /\ stack'[i] = stack[i]
    BY <1>2 DEF Inv, Stack
  <2>2. i + 1 = n \/ i + 1 \in 1 .. n - 1
    BY <1>1
  <2>3. stack'[i + 1].goal = stack[i + 1].goal
    BY <1>1, <1>2, <2>2
  <2> QED
    BY <2>1, <2>3
<1>6. Stack'
  BY <1>2, <1>4, <1>5 DEF Inv, Stack
<1>7. Control'
  BY <1>3 DEF Inv, Control
<1> QED
  BY <1>3, <1>6, <1>7 DEF Inv, AnswersAreSound

LEMMA GoOnHolds ==
    ASSUME Inv, stack # <<>>, call = NoCall, Top.stage # "fallback", AboutNodes(Top.goal), GoOn
    PROVE  Inv'
<1> DEFINE f == Frame(Top.goal, Following(Top.stage), NoResult)
<1>1. Top.goal \in Pairs /\ Following(Top.stage) \in StageNames
  BY TopFacts, StageFacts
<1>2. f \in Frames /\ Known(f) /\ f.goal = Top.goal
  BY <1>1, FreshFrame
<1> HIDE DEF f
<1>3. Become(f)
  BY DEF GoOn, f
<1> QED
  BY <1>2, <1>3, BecomeHolds

(* The next question of the same stage.                                    *)
LEMMA NextHolds ==
    ASSUME Inv, stack # <<>>, call = NoCall, Top.asks # <<>>,
           NEW r \in {NoResult, Unsupported, Exhausted},
           Top.stage = "union" /\ r = NoResult =>
             Top.kept = NoResult /\ Counterexamples(Head(Top.asks)) = {},
           Become(Keeping(r)) \/ (Become(NextQuestion) /\ r = Top.kept)
    PROVE  Inv'
<1> DEFINE f == [Top EXCEPT !.asks = Tail(@), !.kept = r]
<1>1. Top \in Frames /\ Known(Top)
  BY TopFacts
<1>2. f \in Frames /\ Known(f)
  BY <1>1, NextFrame
<1>3. f.goal = Top.goal
  BY <1>1 DEF Frames
<1>4. Keeping(r) = f /\ (r = Top.kept => NextQuestion = f)
  BY <1>1 DEF Keeping, NextQuestion, Frames
<1> HIDE DEF f
<1> QED
  BY <1>2, <1>3, <1>4, BecomeHolds

-----------------------------------------------------------------------------
(* Facts about results and about what the validator says.                  *)
LEMMA ResultFacts ==
    /\ Proved \in Results /\ Unsupported \in Results /\ Exhausted \in Results
    /\ \A v \in Value : Refuted(v) \in Results
    /\ NoResult.status = "none"
    /\ NoResult # Unsupported /\ NoResult # Exhausted
    /\ Unsupported # Exhausted /\ Unsupported # Proved /\ Exhausted # Proved
  BY DEF Results, Refutations, Refuted, Proved, Unsupported, Exhausted, NoResult, NoAnswer

LEMMA SoundFacts ==
    ASSUME NEW q
    PROVE  /\ Sound(q, Unsupported) /\ Sound(q, Exhausted)
           /\ Counterexamples(q) = {} <=> Sound(q, Proved)
           /\ \A v \in Counterexamples(q) : Sound(q, Refuted(v))
  BY DEF Sound, Proved, Unsupported, Exhausted, Refuted

LEMMA ConfirmedFacts ==
    ASSUME NEW q \in Pairs, NEW v
    PROVE  /\ "confirmed" \in SharedVerdicts(q, v) =>
                /\ v \in Counterexamples(q)
                /\ Refuted(v) \in Results /\ Sound(q, Refuted(v))
           /\ "rejected" \in SharedVerdicts(q, v) => v \notin Counterexamples(q)
<1>1. Counterexamples(q) = Accepts[q.lhs] \cap Accepts[q.rhs] /\ Counterexamples(q) \subseteq Value
  BY PairFacts
<1>2. "confirmed" \in SharedVerdicts(q, v) => v \in Accepts[q.lhs] /\ v \in Accepts[q.rhs]
  BY DEF SharedVerdicts, Verdicts
<1>3. "rejected" \in SharedVerdicts(q, v) => v \notin Accepts[q.lhs] \/ v \notin Accepts[q.rhs]
  BY DEF SharedVerdicts, Verdicts
<1> QED
  BY <1>1, <1>2, <1>3, ResultFacts, SoundFacts

(* The question whose answer has come was asked by the one on top.         *)
LEMMA AnsweredFacts ==
    ASSUME Inv, NEW stages, Answered(stages)
    PROVE  /\ stack # <<>> /\ call = NoCall /\ Top.stage \in stages
           /\ Top.asks # <<>> /\ Result \in Results
           /\ Sound(Head(Top.asks), Result) /\ Helps(Top.stage, Top.goal, Head(Top.asks))
<1>1. stack # <<>> /\ answer # NoAnswer /\ Top.stage \in stages /\ call = NoCall
  BY DEF Inv, Control, Answered
<1>2. Top.asks # <<>> /\ Head(Top.asks) = answer.goal /\ answer.goal \in Pairs /\ Result \in Results
  BY <1>1 DEF Inv, Control, Waits, Result
<1>3. Sound(Head(Top.asks), Result)
  BY <1>1, <1>2 DEF Inv, AnswersAreSound, Result
<1>4. Top \in Frames /\ Known(Top)
  BY <1>1, TopFacts
<1>5. Len(Top.asks) \in Nat \ {0} /\ Head(Top.asks) = Top.asks[1]
  <2>1. Top.asks \in Seq(Pairs \cup {NoCall})
    BY <1>4, FrameFacts
  <2> QED
    BY <1>2, <2>1, EmptySeq, HeadTailProperties
<1>6. 1 \in 1 .. Len(Top.asks)
  BY <1>5
<1>7. Head(Top.asks) # NoCall
  BY <1>2, PairFacts
<1> QED
  BY <1>1, <1>2, <1>3, <1>4, <1>5, <1>6, <1>7 DEF Known, Asked

-----------------------------------------------------------------------------
(* One lemma for each action.                                              *)
LEMMA EnterHolds ==
    ASSUME Inv, Enter
    PROVE  Inv'
<1> DEFINE f == Frame(call, "conjuncts", NoResult)
           n == Len(stack)
<1>1. call \in Pairs /\ answer = NoAnswer
  BY DEF Enter, Inv, Control
<1>2. f \in Frames /\ Known(f) /\ f.goal = call
  BY <1>1, FreshFrame DEF StageNames
<1> HIDE DEF f
<1>3. /\ stack' = Append(stack, f) /\ call' = NoCall /\ answer' = NoAnswer /\ overflow' = overflow
      /\ n < StackLimit /\ call # NoCall
  BY <1>1 DEF Enter, f
<1>4. stack \in Seq(Frames) /\ n \in Nat
  BY DEF Inv, Stack
<1>5. /\ stack' \in Seq(Frames) /\ Len(stack') = n + 1 /\ stack'[n + 1] = f
      /\ \A i \in 1 .. n : stack'[i] = stack[i]
  BY <1>2, <1>3, <1>4, AppendProperties
<1>6. \A i \in 1 .. n + 1 : Known(stack'[i])
  <2> TAKE i \in 1 .. n + 1
  <2>1. i = n + 1 \/ i \in 1 .. n
    BY <1>4
  <2> QED
    BY <1>2, <1>5, <2>1 DEF Inv, Stack
<1>7. \A i \in 1 .. n : Waits(stack'[i], stack'[i + 1].goal)
  <2> TAKE i \in 1 .. n
  <2>1. CASE i = n
    <3>1. stack # <<>>
      BY <1>4, <2>1, EmptySeq
    <3>2. Waits(Top, call) /\ Top = stack[n]
      BY <1>3, <3>1 DEF Inv, Control, Top
    <3> QED
      BY <1>2, <1>5, <2>1, <3>2
  <2>2. CASE i # n
    <3>1. i \in 1 .. n - 1 /\ i + 1 \in 1 .. n
      BY <1>4, <2>2
    <3> QED
      BY <1>5, <3>1 DEF Inv, Stack
  <2> QED
    BY <2>1, <2>2
<1>8. Stack'
  <2>1. Len(stack') <= StackLimit /\ Len(stack') - 1 = n
    BY <1>3, <1>4, <1>5, LimitAssumption
  <2> QED
    BY <1>5, <1>6, <1>7, <2>1 DEF Stack
<1>9. Control'
  BY <1>3 DEF Inv, Control
<1> QED
  BY <1>3, <1>8, <1>9 DEF Inv, AnswersAreSound

LEMMA OverflowHolds ==
    ASSUME Inv, Overflow
    PROVE  Inv'
<1>1. stack' = <<>> /\ call' = NoCall /\ answer' = NoAnswer /\ overflow' = TRUE
  BY DEF Overflow, Inv, Control
<1>2. Stack'
  BY <1>1, LimitAssumption DEF Stack
<1>3. Control'
  BY <1>1 DEF Control
<1> QED
  BY <1>1, <1>2, <1>3 DEF Inv, AnswersAreSound

LEMMA DecideConstantsHolds ==
    ASSUME Inv, DecideConstants
    PROVE  Inv'
<1> DEFINE r == IF "false" \in {Top.goal.lhs.kind, Top.goal.rhs.kind} THEN Proved ELSE Unsupported
<1>1. stack # <<>> /\ call = NoCall /\ Return(r)
  BY DEF DecideConstants, At
<1>2. Top.goal \in Pairs
  BY <1>1, TopFacts
<1>3. "false" \in {Top.goal.lhs.kind, Top.goal.rhs.kind} => Counterexamples(Top.goal) = {}
  BY <1>2, PairFacts, AcceptsAssumption
<1>4. r \in Results /\ Sound(Top.goal, r)
  BY <1>3, ResultFacts, SoundFacts
<1> HIDE DEF r
<1> QED
  BY <1>1, <1>4, ReturnHolds

LEMMA AskHolds ==
    ASSUME Inv, Ask
    PROVE  Inv'
<1>1. /\ stack # <<>> /\ answer = NoAnswer /\ Top.asks # <<>> /\ Head(Top.asks) # NoCall
      /\ call' = Head(Top.asks) /\ UNCHANGED <<stack, answer, overflow>>
  BY DEF Ask, At
<1>2. Top.asks \in Seq(Pairs \cup {NoCall})
  BY <1>1, TopFacts, FrameFacts
<1>3. Head(Top.asks) \in Pairs
  <2>1. Head(Top.asks) \in Pairs \cup {NoCall}
    BY <1>1, <1>2, HeadTailProperties
  <2> QED
    BY <1>1, <2>1
<1>4. Stack'
  BY <1>1 DEF Inv, Stack, Known, Asked, BranchesLeft, Waits
<1>5. Control'
  BY <1>1, <1>3 DEF Inv, Control, Waits, Top
<1> QED
  BY <1>1, <1>4, <1>5 DEF Inv, AnswersAreSound

LEMMA SkipHolds ==
    ASSUME Inv, Skip
    PROVE  Inv'
<1>1. /\ stack # <<>> /\ call = NoCall /\ Top.asks # <<>> /\ Head(Top.asks) = NoCall
      /\ \/ Top.stage = "conjuncts" /\ Become(Keeping(Unsupported))
         \/ Become(NextQuestion)
  BY DEF Skip, At
<1>2. Top \in Frames /\ Known(Top)
  BY <1>1, TopFacts
<1>3. Top.kept \in {NoResult, Unsupported, Exhausted} /\ Top.asks \in Seq(Pairs \cup {NoCall})
  BY <1>2, FrameFacts
<1>4. Top.stage # "union"
  <2>1. Head(Top.asks) = Top.asks[1] /\ 1 \in 1 .. Len(Top.asks)
    BY <1>1, <1>3, EmptySeq, HeadTailProperties
  <2>2. NoCall \notin Pairs
    BY PairFacts
  <2> QED
    BY <1>1, <1>2, <2>1, <2>2 DEF Known, Asked, Helps
<1> QED
  BY <1>1, <1>3, <1>4, NextHolds

LEMMA AnswerConjunctHolds ==
    ASSUME Inv, AnswerConjunct
    PROVE  Inv'
<1>1. Answered({"conjuncts"})
  BY DEF AnswerConjunct
<1>2. /\ stack # <<>> /\ call = NoCall /\ Top.stage = "conjuncts" /\ Top.asks # <<>>
      /\ Result \in Results /\ Sound(Head(Top.asks), Result)
      /\ Helps(Top.stage, Top.goal, Head(Top.asks))
  BY <1>1, AnsweredFacts
<1>3. Top.kept \in {NoResult, Unsupported, Exhausted}
  BY <1>2, TopFacts, FrameFacts
<1>4. CASE Result = Proved
  <2>1. Counterexamples(Top.goal) = {}
    BY <1>2, <1>4, SoundFacts DEF Helps, PartStages
  <2> QED
    BY <1>2, <1>4, <2>1, SoundFacts, ReturnHolds DEF AnswerConjunct
<1>5. CASE Result # Proved /\ Result \in {Unsupported, Exhausted}
  BY <1>2, <1>5, NextHolds DEF AnswerConjunct
<1>6. CASE Result # Proved /\ Result \notin {Unsupported, Exhausted}
  BY <1>2, <1>3, <1>6, NextHolds DEF AnswerConjunct
<1> QED
  BY <1>4, <1>5, <1>6

LEMMA EndConjunctsHolds ==
    ASSUME Inv, EndConjuncts
    PROVE  Inv'
<1>1. stack # <<>> /\ call = NoCall /\ Top.stage = "conjuncts"
  BY DEF EndConjuncts, At
<1>2. Top.goal \in Pairs
  BY <1>1, TopFacts
<1>3. CASE Top.kept = Exhausted
  BY <1>1, <1>3, ResultFacts, SoundFacts, ReturnHolds DEF EndConjuncts
<1>4. CASE Top.kept # Exhausted /\ IsNode(Top.goal.lhs) /\ IsNode(Top.goal.rhs)
  <2>1. AboutNodes(Top.goal)
    BY <1>2, <1>4, PairFacts DEF AboutNodes, Nodes, IsNode
  <2> QED
    BY <1>1, <1>4, <2>1, GoOnHolds DEF EndConjuncts
<1>5. CASE Top.kept # Exhausted /\ ~(IsNode(Top.goal.lhs) /\ IsNode(Top.goal.rhs))
  <2> DEFINE f == Frame(Top.goal, "fallback", NoResult)
  <2>1. f \in Frames /\ Known(f) /\ f.goal = Top.goal
    BY <1>2, FreshFrame DEF StageNames
  <2>2. Become(f)
    BY <1>5 DEF EndConjuncts
  <2> HIDE DEF f
  <2> QED
    BY <1>1, <2>1, <2>2, BecomeHolds
<1> QED
  BY <1>3, <1>4, <1>5

(* A value of both finite lists refutes when it is confirmed; when all may *)
(* be rejected, nothing is left.                                           *)
LEMMA DecideByValuesHolds ==
    ASSUME Inv, DecideByValues
    PROVE  Inv'
<1> DEFINE q == Top.goal
           listed == Listed(q.lhs) /\ Listed(q.rhs)
           shared == Shape[q.lhs].finite \cap Shape[q.rhs].finite
<1>1. /\ stack # <<>> /\ call = NoCall /\ Top.stage = "values"
      /\ \/ listed /\ MayBeRejected(q, shared) /\ Return(Proved)
         \/ \E v \in shared : Confirmed(q, v) /\ Return(Refuted(v))
         \/ GoOn
  BY DEF DecideByValues, At
<1>2. q \in Pairs /\ AboutNodes(q)
  BY <1>1, TopFacts
<1>3. listed => Counterexamples(q) \subseteq shared
  BY <1>2, PairFacts, ShapeAssumption DEF AboutNodes, Listed
<1> HIDE DEF shared, listed
<1>4. CASE listed /\ MayBeRejected(q, shared) /\ Return(Proved)
  <2>1. Counterexamples(q) = {}
    BY <1>2, <1>3, <1>4, ConfirmedFacts DEF MayBeRejected
  <2> QED
    BY <1>1, <1>4, <2>1, ResultFacts, SoundFacts, ReturnHolds
<1>5. CASE \E v \in shared : Confirmed(q, v) /\ Return(Refuted(v))
  BY <1>1, <1>2, <1>5, ConfirmedFacts, ReturnHolds DEF Confirmed
<1>6. CASE GoOn
  BY <1>1, <1>2, <1>6, GoOnHolds
<1> QED
  BY <1>1, <1>4, <1>5, <1>6

LEMMA AgainstHolds ==
    ASSUME Inv, stack # <<>>, call = NoCall, AboutNodes(Top.goal),
           NEW a, NEW b, {a, b} = {Top.goal.lhs, Top.goal.rhs}, Against(a, b)
    PROVE  Inv'
<1> DEFINE q == Top.goal
           allowed == Shape[a].finite \ Shape[b].excluded
<1>1. q \in Pairs
  BY TopFacts
<1>2. Counterexamples(q) = Accepts[a] \cap Accepts[b] /\ a \in Nodes /\ b \in Nodes
  <2>1. Counterexamples(q) = Accepts[q.lhs] \cap Accepts[q.rhs]
    BY <1>1, PairFacts
  <2>2. (a = q.lhs /\ b = q.rhs) \/ (a = q.rhs /\ b = q.lhs)
    OBVIOUS
  <2> QED
    BY <2>1, <2>2 DEF AboutNodes
<1>3. Listed(a) => Counterexamples(q) \subseteq allowed
  BY <1>2, ShapeAssumption DEF Listed
<1>4. \/ Listed(a) /\ MayBeRejected(q, allowed) /\ Return(Proved)
      \/ \E v : Confirmed(q, v) /\ Return(Refuted(v))
      \/ Return(Unsupported)
  BY DEF Against
<1> HIDE DEF allowed
<1>5. CASE Listed(a) /\ MayBeRejected(q, allowed) /\ Return(Proved)
  <2>1. Counterexamples(q) = {}
    BY <1>1, <1>3, <1>5, ConfirmedFacts DEF MayBeRejected
  <2> QED
    BY <1>5, <2>1, ResultFacts, SoundFacts, ReturnHolds
<1>6. CASE \E v : Confirmed(q, v) /\ Return(Refuted(v))
  BY <1>1, <1>6, ConfirmedFacts, ReturnHolds DEF Confirmed
<1>7. CASE Return(Unsupported)
  BY <1>7, ResultFacts, SoundFacts, ReturnHolds
<1> QED
  BY <1>4, <1>5, <1>6, <1>7

LEMMA DecideByComplementHolds ==
    ASSUME Inv, DecideByComplement
    PROVE  Inv'
<1>1. /\ stack # <<>> /\ call = NoCall /\ Top.stage = "complement"
      /\ \/ Against(Top.goal.lhs, Top.goal.rhs)
         \/ Against(Top.goal.rhs, Top.goal.lhs)
         \/ Joint(Top.goal) = {} /\ Return(Proved)
         \/ GoOn
  BY DEF DecideByComplement, At
<1>2. Top.goal \in Pairs /\ AboutNodes(Top.goal)
  BY <1>1, TopFacts
<1>3. Joint(Top.goal) = {} => Counterexamples(Top.goal) = {}
  BY <1>2, JointType
<1>4. CASE Against(Top.goal.lhs, Top.goal.rhs) \/ Against(Top.goal.rhs, Top.goal.lhs)
  BY <1>1, <1>2, <1>4, AgainstHolds
<1>5. CASE Joint(Top.goal) = {} /\ Return(Proved)
  BY <1>1, <1>3, <1>5, ResultFacts, SoundFacts, ReturnHolds
<1>6. CASE GoOn
  BY <1>1, <1>2, <1>6, GoOnHolds
<1> QED
  BY <1>1, <1>4, <1>5, <1>6

(* What is true of the targets is true of the references.                  *)
LEMMA AnswerReferenceHolds ==
    ASSUME Inv, AnswerReference
    PROVE  Inv'
<1>1. Answered({"reference"})
  BY DEF AnswerReference
<1>2. /\ stack # <<>> /\ call = NoCall /\ Top.stage = "reference" /\ Top.asks # <<>>
      /\ Result \in Results /\ Sound(Head(Top.asks), Result)
      /\ Helps(Top.stage, Top.goal, Head(Top.asks))
  BY <1>1, AnsweredFacts
<1>3. Top.kept \in {NoResult, Unsupported, Exhausted}
  BY <1>2, TopFacts, FrameFacts
<1>4. CASE Result = Unsupported
  BY <1>2, <1>3, <1>4, NextHolds DEF AnswerReference
<1>5. CASE Result # Unsupported
  <2>1. Sound(Top.goal, Result)
    BY <1>2 DEF Helps, Sound
  <2> QED
    BY <1>2, <1>5, <2>1, ReturnHolds DEF AnswerReference
<1> QED
  BY <1>4, <1>5

LEMMA AnswerBranchHolds ==
    ASSUME Inv, AnswerBranch
    PROVE  Inv'
<1>1. Answered({"union"})
  BY DEF AnswerBranch
<1>2. /\ stack # <<>> /\ call = NoCall /\ Top.stage = "union" /\ Top.asks # <<>>
      /\ Result \in Results /\ Sound(Head(Top.asks), Result)
  BY <1>1, AnsweredFacts
<1>3. Top.goal \in Pairs /\ Top.kept \in {NoResult, Unsupported, Exhausted}
  BY <1>2, TopFacts, FrameFacts
<1>4. CASE Become(Keeping(Unsupported))
  BY <1>2, <1>4, ResultFacts, NextHolds
<1>5. CASE Result = Exhausted
  BY <1>2, <1>5, SoundFacts, ReturnHolds DEF AnswerBranch
<1>6. CASE Result # Exhausted /\ Result \in Refutations
  <2>1. RefutedBranch
    BY <1>6 DEF AnswerBranch
  <2>2. \/ Become(Keeping(Unsupported))
        \/ /\ "confirmed" \in SharedVerdicts(Top.goal, Result.witness)
           /\ Return(Refuted(Result.witness))
    BY <2>1 DEF RefutedBranch
  <2> QED
    BY <1>2, <1>3, <1>4, <2>2, ConfirmedFacts, ReturnHolds
<1>7. CASE Result = Unsupported
  BY <1>4, <1>5, <1>6, <1>7 DEF AnswerBranch
<1>8. CASE Result \notin {Exhausted, Unsupported} /\ Result \notin Refutations
  <2>1. Result = Proved
    BY <1>2, <1>8 DEF Results
  <2>2. Counterexamples(Head(Top.asks)) = {}
    BY <1>2, <2>1, SoundFacts
  <2> QED
    BY <1>2, <1>3, <1>8, <2>2, NextHolds DEF AnswerBranch
<1> QED
  BY <1>5, <1>6, <1>7, <1>8

LEMMA AnswerPartHolds ==
    ASSUME Inv, AnswerPart
    PROVE  Inv'
<1>1. Answered({"item", "slots", "closed", "property"})
  BY DEF AnswerPart
<1>2. /\ stack # <<>> /\ call = NoCall /\ Top.stage \in {"item", "slots", "closed", "property"}
      /\ Top.asks # <<>> /\ Result \in Results /\ Sound(Head(Top.asks), Result)
      /\ Helps(Top.stage, Top.goal, Head(Top.asks))
  BY <1>1, AnsweredFacts
<1>3. Top.kept \in {NoResult, Unsupported, Exhausted}
  BY <1>2, TopFacts, FrameFacts
<1>4. CASE Result \in {Proved, Exhausted}
  <2>1. Result = Proved => Counterexamples(Top.goal) = {}
    BY <1>2, SoundFacts DEF Helps, PartStages
  <2>2. Sound(Top.goal, Result)
    BY <1>4, <2>1, SoundFacts
  <2> QED
    BY <1>2, <1>4, <2>2, ReturnHolds DEF AnswerPart
<1>5. CASE Result \notin {Proved, Exhausted}
  BY <1>2, <1>3, <1>5, NextHolds DEF AnswerPart
<1> QED
  BY <1>4, <1>5

-----------------------------------------------------------------------------
(* A stage that ends with a proof.                                         *)
LEMMA NoBranchIsLeft ==
    ASSUME Inv, stack # <<>>, Top.stage = "union", Top.asks = <<>>,
           UnionQuestions(Top.goal) # <<>>, Top.kept = NoResult
    PROVE  Counterexamples(Top.goal) = {}
<1>1. Known(Top)
  BY TopFacts
<1>2. Len(Top.asks) = 0
  OBVIOUS
<1> QED
  BY <1>1, <1>2 DEF Known, BranchesLeft

LEMMA NoLengthIsShared ==
    ASSUME NEW q \in Pairs, AboutNodes(q), NoLengthInCommon(q)
    PROVE  Counterexamples(q) = {}
<1> SUFFICES ASSUME NEW v \in Counterexamples(q) PROVE FALSE
  OBVIOUS
<1>1. Joint(q) = {"array"} /\ Shape[q.lhs].lengths # {} /\ Shape[q.rhs].lengths # {}
      /\ Shape[q.lhs].lengths \cap Shape[q.rhs].lengths = {}
  BY DEF NoLengthInCommon, LengthsKnown, SharedLengths
<1>2. TypeOf[v] = "array"
  BY <1>1, JointType
<1> QED
  BY <1>1, <1>2, LengthsAreShared

LEMMA NoObjectIsShared ==
    ASSUME NEW q \in Pairs, AboutNodes(q), BothClosed(q), Uninhabited(q)
    PROVE  Counterexamples(q) = {}
<1> SUFFICES ASSUME NEW v \in Counterexamples(q) PROVE FALSE
  OBVIOUS
<1>1. v \in Accepts[q.lhs] /\ v \in Accepts[q.rhs] /\ TypeOf[v] = "object"
  BY JointType DEF BothClosed
<1>2. /\ RequiredByEither(q) \subseteq DOMAIN PropertiesOf[v]
      /\ DOMAIN PropertiesOf[v] \subseteq NamesOf(q.lhs) \cap NamesOf(q.rhs)
  BY <1>1, ObjectAssumption DEF AboutNodes, RequiredByEither, BothClosed
<1> QED
  BY <1>2 DEF Uninhabited

LEMMA EndStageHolds ==
    ASSUME Inv, EndStage
    PROVE  Inv'
<1> DEFINE q == Top.goal
<1>1. /\ stack # <<>> /\ call = NoCall /\ Top.stage \in AskingStages \ {"conjuncts"}
      /\ Top.asks = <<>>
  BY DEF EndStage, At
<1>2. q \in Pairs /\ AboutNodes(q) /\ Top.stage # "fallback"
  BY <1>1, TopFacts DEF AskingStages
<1>3. \/ /\ Return(Proved)
         /\ \/ Top.stage = "union" /\ UnionQuestions(q) # <<>> /\ Top.kept = NoResult
            \/ NoLengthInCommon(q)
            \/ BothClosed(q) /\ Uninhabited(q)
      \/ GoOn
      \/ \E v \in Value : Confirmed(q, v) /\ Return(Refuted(v))
  BY DEF EndStage
<1>4. CASE GoOn
  BY <1>1, <1>2, <1>4, GoOnHolds
<1>5. CASE \E v \in Value : Confirmed(q, v) /\ Return(Refuted(v))
  BY <1>1, <1>2, <1>5, ConfirmedFacts, ReturnHolds DEF Confirmed
<1>6. CASE /\ Return(Proved)
           /\ \/ Top.stage = "union" /\ UnionQuestions(q) # <<>> /\ Top.kept = NoResult
              \/ NoLengthInCommon(q)
              \/ BothClosed(q) /\ Uninhabited(q)
  <2>1. Counterexamples(q) = {}
    BY <1>1, <1>2, <1>6, NoBranchIsLeft, NoLengthIsShared, NoObjectIsShared
  <2> QED
    BY <1>1, <1>6, <2>1, ResultFacts, SoundFacts, ReturnHolds
<1> QED
  BY <1>3, <1>4, <1>5, <1>6

LEMMA DecideByFactsHolds ==
    ASSUME Inv, DecideByFacts
    PROVE  Inv'
<1> DEFINE q == Top.goal
<1>1. /\ stack # <<>> /\ call = NoCall /\ Top.stage = "facts"
      /\ \/ Counterexamples(q) = {} /\ Return(Proved)
         \/ \E v \in Counterexamples(q) : Return(Refuted(v))
         \/ Return(Exhausted)
         \/ GoOn
  BY DEF DecideByFacts, At
<1>2. q \in Pairs /\ AboutNodes(q)
  BY <1>1, TopFacts
<1>3. CASE Counterexamples(q) = {} /\ Return(Proved)
  BY <1>1, <1>3, ResultFacts, SoundFacts, ReturnHolds
<1>4. CASE \E v \in Counterexamples(q) : Return(Refuted(v))
  BY <1>1, <1>2, <1>4, PairFacts, ResultFacts, SoundFacts, ReturnHolds
<1>5. CASE Return(Exhausted)
  BY <1>1, <1>5, ResultFacts, SoundFacts, ReturnHolds
<1>6. CASE GoOn
  BY <1>1, <1>2, <1>6, GoOnHolds
<1> QED
  BY <1>1, <1>3, <1>4, <1>5, <1>6

LEMMA AskContextHolds ==
    ASSUME Inv, AskContext
    PROVE  Inv'
  BY ReturnHolds DEF AskContext, At

-----------------------------------------------------------------------------
LEMMA StutterHolds ==
    ASSUME Inv, UNCHANGED vars
    PROVE  Inv'
<1>1. UNCHANGED <<stack, call, answer, overflow>>
  BY DEF vars
<1>2. Stack'
  BY <1>1 DEF Inv, Stack, Known, Asked, BranchesLeft, Waits
<1>3. Control'
  BY <1>1 DEF Inv, Control, Waits, Top
<1> QED
  BY <1>1, <1>2, <1>3 DEF Inv, AnswersAreSound

LEMMA InvHolds == Spec => []Inv
<1>1. Init => Inv
  BY InitHolds
<1>2. Inv /\ [Next]_vars => Inv'
  BY EnterHolds, OverflowHolds, DecideConstantsHolds, AskHolds, SkipHolds, AnswerConjunctHolds,
     EndConjunctsHolds, DecideByValuesHolds, DecideByComplementHolds, AnswerReferenceHolds,
     AnswerBranchHolds, AnswerPartHolds, EndStageHolds, DecideByFactsHolds, AskContextHolds,
     StutterHolds DEF Next
<1> QED
  BY <1>1, <1>2, PTL DEF Spec

(* Whatever the schemas refer to, the questions on the stack stay within   *)
(* the limit and go through the stages terms_are_disjoint has; what a loop *)
(* keeps is an inconclusive result.                                        *)
THEOREM TypeCorrect == Spec => []TypeOK
<1>1. Inv => TypeOK
  <2> SUFFICES ASSUME Inv PROVE TypeOK
    OBVIOUS
  <2>1. ASSUME NEW k \in DOMAIN stack
        PROVE  stack[k] \in Frames
    <3>1. stack \in Seq(Frames)
      BY DEF Inv, Stack
    <3> QED
      BY <2>1, <3>1, ElementOfSeq, LenProperties
  <2>2. \A k \in DOMAIN stack :
          /\ stack[k].goal \in Pairs
          /\ stack[k].stage \in ToSet(Stages)
          /\ stack[k].asks \in Seq(Pairs \cup {NoCall})
          /\ stack[k].kept \in {NoResult, Unsupported, Exhausted}
    BY <2>1, FrameFacts, StageFacts
  <2> QED
    BY <2>2 DEF Inv, Stack, Control, TypeOK
<1> QED
  BY <1>1, InvHolds, PTL

(* terms_are_disjoint reports two schemas disjoint only when no value is   *)
(* in both, and intersecting only with a value of both, for every set of   *)
(* values and schemas, recursive ones included, at whatever nesting.       *)
THEOREM AnswersSound == Spec => []AnswersAreSound
<1>1. Inv => AnswersAreSound
  BY DEF Inv
<1> QED
  BY <1>1, InvHolds, PTL
=============================================================================

------------------------ MODULE SubproofEngineProofs ------------------------
(***************************************************************************)
(* Proofs about SubproofEngine, for every set of terms, every work limit   *)
(* and every set of questions.                                             *)
(*                                                                         *)
(* The first part proves the type invariant.  The indexes of a frame must  *)
(* be known to lie inside the children it walks for the next question to   *)
(* be a question at all, so the invariant that is inductive is TypeOK with *)
(* Shape, what each stage knows about its own goal and position.           *)
(***************************************************************************)
EXTENDS SubproofEngine, TLAPS, FiniteSetTheorems, SequenceTheorems

-----------------------------------------------------------------------------
(* Facts about terms and questions.                                        *)

(* A child of a term is a term.                                            *)
LEMMA ChildIsTerm ==
    ASSUME NEW t \in Term, NEW i \in ChildIndexes(t)
    PROVE  t.children[i] \in Term
  BY TermAssumption DEF ChildIndexes

(* The children of "not" are one term, whose complement it is.             *)
LEMMA NotChild ==
    ASSUME NEW t \in Term, t.kind = "not"
    PROVE  /\ t.children[1] \in Term
           /\ t = NotTerm(t.children[1])
  BY TermAssumption DEF ChildIndexes

(* The complement of a term accepts the other values.                      *)
LEMMA NotAccepts ==
    ASSUME NEW t \in Term, NotTerm(t) \in Term
    PROVE  Accepts[NotTerm(t)] = Value \ Accepts[t]
  <1>1. CASE t.kind = "true"
    <2>1. NotTerm(t).kind = "false"
      BY <1>1 DEF NotTerm, FalseTerm
    <2> QED BY <1>1, <2>1, AcceptsAssumption
  <1>2. CASE t.kind = "false"
    <2>1. NotTerm(t).kind = "true"
      BY <1>2 DEF NotTerm, TrueTerm
    <2> QED BY <1>2, <2>1, AcceptsAssumption
  <1>3. CASE t.kind \notin {"true", "false"}
    <2>1. NotTerm(t) = [kind |-> "not", ref |-> NoRef, children |-> <<t>>]
      BY <1>3 DEF NotTerm
    <2>2. /\ NotTerm(t).kind = "not"
          /\ NotTerm(t).children[1] = t
      BY <2>1
    <2> QED BY <2>2, AcceptsAssumption
  <1> QED BY <1>1, <1>2, <1>3

(* What a question's fields are, and that no question is of both kinds.    *)
LEMMA GoalFields ==
    ASSUME NEW q \in Goals
    PROVE  /\ q.fn = "subproof" /\ q.level \in {"terms", "ir"}
           /\ q.lhs \in Term /\ q.rhs \in Term
           /\ q.level = "ir" => q.lhs.kind = "node" /\ q.rhs.kind = "node"
           /\ q \in Calls /\ q # NoCall /\ q \notin DisjointGoals
  BY DEF Goals, Subproof, IrSubproof, Nodes, Calls, NoCall, DisjointGoals, Disjoint

LEMMA DisjointFields ==
    ASSUME NEW q \in DisjointGoals
    PROVE  /\ q.fn = "disjoint" /\ q.level = "terms"
           /\ q.lhs \in Term /\ q.rhs \in Term /\ NotTerm(q.rhs) \in Term
           /\ q \in Calls /\ q # NoCall /\ q \notin Goals
  BY DEF Goals, Subproof, IrSubproof, Nodes, Calls, NoCall, DisjointGoals, Disjoint

LEMMA SubproofIsGoal ==
    ASSUME NEW l \in Term, NEW r \in Term
    PROVE  Subproof(l, r) \in Goals
  BY DEF Goals

LEMMA DisjointIsGoal ==
    ASSUME NEW l \in Term, NEW r \in Term, NotTerm(r) \in Term
    PROVE  Disjoint(l, r) \in DisjointGoals
  BY DEF DisjointGoals

(* The results differ from the marks that there is none.                   *)
LEMMA ResultKinds ==
    /\ NoReply \notin Results /\ Raised \notin Results /\ NoReply # Raised
    /\ Unsupported \in Results /\ Exhausted \in Results /\ Proved \in Results
    /\ Unsupported # NoReply /\ Exhausted # NoReply
  BY DEF Results, Refutations, Refuted, NoReply, Raised, Unsupported, Exhausted, Proved

LEMMA ResultByStatus ==
    ASSUME NEW r \in Results
    PROVE  /\ r.status \in {"proved_true", "proved_false", "unsupported",
                            "resource_exhausted"}
           /\ r.status = "unsupported" => r = Unsupported
           /\ r.status = "resource_exhausted" => r = Exhausted
           /\ r.status = "proved_true" => r = Proved
  BY DEF Results, Refutations, Refuted, Unsupported, Exhausted, Proved

-----------------------------------------------------------------------------
(* Facts about the stack.                                                  *)

LEMMA PopFacts ==
    ASSUME NEW S, NEW s \in Seq(S), s # <<>>
    PROVE  /\ SubSeq(s, 1, Len(s) - 1) \in Seq(S) /\ Len(s) \in Nat \ {0}
           /\ Len(SubSeq(s, 1, Len(s) - 1)) = Len(s) - 1
           /\ \A k \in 1 .. Len(s) - 1 : SubSeq(s, 1, Len(s) - 1)[k] = s[k]
           /\ s[Len(s)] \in S
  <1>1. Len(s) \in Nat \ {0} /\ \A k \in 1 .. Len(s) : s[k] \in S
    OBVIOUS
  <1>2. SubSeq(s, 1, Len(s) - 1) \in Seq(S) BY <1>1
  <1>3. Len(SubSeq(s, 1, Len(s) - 1)) = Len(s) - 1
    <2> DEFINE n == Len(s) - 1
    <2>1. 1 \in Int /\ n \in Int /\ \A k \in 1 .. n : s[k] \in S
      BY <1>1 DEF n
    <2>2. Len(SubSeq(s, 1, n)) = IF 1 <= n THEN n - 1 + 1 ELSE 0
      <3> HIDE DEF n
      <3> QED BY <2>1, SubSeqProperties
    <2>3. n \in Nat
      BY <1>1 DEF n
    <2>4. (IF 1 <= n THEN n - 1 + 1 ELSE 0) = n
      <3> HIDE DEF n
      <3> QED BY <2>3
    <2> QED BY <2>2, <2>4 DEF n
  <1>4. \A k \in 1 .. Len(s) - 1 : SubSeq(s, 1, Len(s) - 1)[k] = s[k] BY <1>1
  <1>5. s[Len(s)] \in S BY <1>1
  <1> QED BY <1>1, <1>2, <1>3, <1>4, <1>5

LEMMA PushFacts ==
    ASSUME NEW S, NEW s \in Seq(S), NEW f \in S
    PROVE  /\ Append(s, f) \in Seq(S)
           /\ Len(Append(s, f)) = Len(s) + 1 /\ Append(s, f) # <<>>
           /\ \A k \in 1 .. Len(s) : Append(s, f)[k] = s[k]
           /\ Append(s, f)[Len(s) + 1] = f
  OBVIOUS

-----------------------------------------------------------------------------
(* The invariant that is inductive.                                        *)

(* What a stage knows about the goal it works on.                          *)
FrameShape(f) ==
    /\ f.mode \in (IF f.goal \in Goals THEN SubproofModes ELSE DisjointModes)
    /\ f.mode = "all_rhs"   => f.goal.rhs.kind = "all_of"
    /\ f.mode = "any_lhs"   => f.goal.lhs.kind = "any_of"
    /\ f.mode = "all_lhs"   => f.goal.lhs.kind = "all_of"
    /\ f.mode = "any_rhs"   => f.goal.rhs.kind = "any_of"
    /\ f.mode = "negation"  => f.goal.rhs.kind = "not"
    /\ f.mode = "conjuncts" => HasConjuncts(f.goal) /\ OtherTerm(f.goal).kind = "node"

(* A frame can be waiting: its position points at something to ask.        *)
Waiting(f) ==
    /\ f.mode \in Loops \cup {"negation", "target", "rule", "conjuncts", "fallback"}
    /\ f.mode \in Loops => f.i <= Len(LoopChildren(f))
    /\ f.mode = "rule" => f.i <= Len(RuleGoals[f.goal])
    /\ f.mode = "conjuncts" => /\ f.i <= Len(Conjuncts(f.goal))
                               /\ Conjuncts(f.goal)[f.i].kind = "node"

(* An every-loop that keeps nothing has seen a proof of each child so far. *)
FrameSound(f) ==
    /\ f.mode \in EveryLoops /\ f.kept = NoReply
       => \A j \in 1 .. f.i - 1 :
            Counterexamples(LoopGoal([f EXCEPT !.i = j])) = {}

(* Each frame waits for the one above it, the top one for the pending      *)
(* call or for the reply.                                                  *)
Linked ==
    /\ \A k \in 1 .. Len(stack) : FrameShape(stack[k]) /\ FrameSound(stack[k])
    /\ \A k \in 1 .. Len(stack) - 1 :
         Waiting(stack[k]) /\ Awaited(stack[k]) = stack[k + 1].goal
    /\ stack # <<>> => stack[1].goal = question
    /\ call # NoCall =>
         /\ reply = NoReply
         /\ IF stack = <<>> THEN call = question
            ELSE Waiting(Top) /\ Awaited(Top) = call
    /\ reply \in Results =>
         IF stack = <<>> THEN Sound(question, reply)
         ELSE Waiting(Top) /\ Sound(Awaited(Top), reply)

CacheSound == \A g \in DOMAIN cache : Sound(g, cache[g])

IInv == TypeOK /\ Linked /\ CacheSound

(* What a waiting frame awaits is a question of the context.               *)
LEMMA AwaitedIsCall ==
    ASSUME NEW f \in Frames, FrameShape(f), Waiting(f)
    PROVE  Awaited(f) \in Calls
  <1>1. f.goal \in Calls /\ f.i \in Nat \ {0}
    BY DEF Frames
  <1>2. f.goal.lhs \in Term /\ f.goal.rhs \in Term
    BY <1>1, GoalFields, DisjointFields DEF Calls
  <1>3. CASE f.mode \in Loops
    <2>1. Awaited(f) = LoopGoal(f)
      BY <1>3 DEF Awaited, Loops, EveryLoops, SomeLoops
    <2>2. LoopGoal(f) \in Goals
      <3>1. CASE f.mode \in {"all_rhs", "any_rhs"}
        <4>1. f.i \in ChildIndexes(f.goal.rhs)
          BY <3>1, <1>1, <1>2, <1>3, TermAssumption DEF Waiting, LoopChildren, ChildIndexes
        <4>2. f.goal.rhs.children[f.i] \in Term
          BY <4>1, <1>2, ChildIsTerm
        <4> QED BY <3>1, <4>2, <1>2, SubproofIsGoal DEF LoopGoal
      <3>2. CASE f.mode \notin {"all_rhs", "any_rhs"}
        <4>1. f.i \in ChildIndexes(f.goal.lhs)
          BY <3>2, <1>1, <1>2, <1>3, TermAssumption DEF Waiting, LoopChildren, ChildIndexes
        <4>2. f.goal.lhs.children[f.i] \in Term
          BY <4>1, <1>2, ChildIsTerm
        <4> QED BY <3>2, <4>2, <1>2, SubproofIsGoal DEF LoopGoal
      <3> QED BY <3>1, <3>2
    <2> QED BY <2>1, <2>2 DEF Calls
  <1>4. CASE f.mode = "negation"
    <2>1. Awaited(f) = Disjoint(f.goal.lhs, f.goal.rhs.children[1])
      BY <1>4 DEF Awaited, Loops, EveryLoops, SomeLoops
    <2>2. f.goal.rhs.kind = "not"
      BY <1>4 DEF FrameShape
    <2>3. f.goal.rhs.children[1] \in Term /\ NotTerm(f.goal.rhs.children[1]) \in Term
      BY <2>2, <1>2, NotChild
    <2> QED BY <2>1, <2>3, <1>2, DisjointIsGoal DEF Calls
  <1>5. CASE f.mode = "target"
    <2>1. Awaited(f) = Subproof(Target[f.goal.lhs], Target[f.goal.rhs])
      BY <1>5 DEF Awaited, Loops, EveryLoops, SomeLoops
    <2>2. Target[f.goal.lhs] \in Term /\ Target[f.goal.rhs] \in Term
      BY <1>2, TargetAssumption
    <2> QED BY <2>1, <2>2, SubproofIsGoal DEF Calls
  <1>6. CASE f.mode = "rule"
    <2>1. Awaited(f) = RuleGoals[f.goal][f.i]
      BY <1>6 DEF Awaited, Loops, EveryLoops, SomeLoops
    <2>2. f.goal \in Goals
      BY <1>6 DEF FrameShape, DisjointModes
    <2>3. RuleGoals[f.goal] \in Seq(Calls) /\ f.i \in 1 .. Len(RuleGoals[f.goal])
      BY <2>2, <1>6, <1>1, EngineAssumption DEF Waiting
    <2> QED BY <2>1, <2>3
  <1>7. CASE f.mode = "conjuncts"
    <2>1. Awaited(f) = Disjoint(Conjuncts(f.goal)[f.i], OtherTerm(f.goal))
      BY <1>7 DEF Awaited, Loops, EveryLoops, SomeLoops
    <2>2. OtherTerm(f.goal) \in Term /\ OtherTerm(f.goal).kind = "node"
      BY <1>7, <1>2 DEF FrameShape, OtherTerm
    <2>3. NotTerm(OtherTerm(f.goal)) \in Term
      BY <2>2, TermAssumption
    <2>4. Conjuncts(f.goal)[f.i] \in Term
      <3>1. Conjuncts(f.goal) \in Seq(Term)
        BY <1>2, TermAssumption DEF Conjuncts
      <3>2. f.i \in 1 .. Len(Conjuncts(f.goal))
        BY <1>7, <1>1, <3>1 DEF Waiting
      <3> QED BY <3>1, <3>2
    <2> QED BY <2>1, <2>2, <2>3, <2>4, DisjointIsGoal DEF Calls
  <1>8. CASE f.mode = "fallback"
    <2>1. Awaited(f) = Subproof(f.goal.lhs, NotTerm(f.goal.rhs))
      BY <1>8 DEF Awaited, Loops, EveryLoops, SomeLoops
    <2>2. f.goal \in DisjointGoals
      BY <1>8, <1>1 DEF FrameShape, SubproofModes, Loops, EveryLoops, SomeLoops, Calls
    <2>3. NotTerm(f.goal.rhs) \in Term
      BY <2>2, DisjointFields
    <2> QED BY <2>1, <2>3, <1>2, SubproofIsGoal DEF Calls
  <1> QED BY <1>3, <1>4, <1>5, <1>6, <1>7, <1>8 DEF Waiting

(* The top frame replaced.                                                 *)
LEMMA ReplaceFacts ==
    ASSUME NEW S, NEW s \in Seq(S), s # <<>>, NEW f \in S
    PROVE  LET u == Append(SubSeq(s, 1, Len(s) - 1), f) IN
           /\ u \in Seq(S) /\ Len(u) = Len(s) /\ u # <<>>
           /\ \A k \in 1 .. Len(s) - 1 : u[k] = s[k]
           /\ u[Len(s)] = f
  <1> DEFINE r == SubSeq(s, 1, Len(s) - 1)
  <1>1. /\ r \in Seq(S) /\ Len(s) \in Nat \ {0} /\ Len(r) = Len(s) - 1
        /\ \A k \in 1 .. Len(s) - 1 : r[k] = s[k]
    BY PopFacts
  <1> HIDE DEF r
  <1>2. /\ Append(r, f) \in Seq(S)
        /\ Len(Append(r, f)) = Len(r) + 1 /\ Append(r, f) # <<>>
        /\ \A k \in 1 .. Len(r) : Append(r, f)[k] = r[k]
        /\ Append(r, f)[Len(r) + 1] = f
    BY <1>1, PushFacts
  <1>3. Len(r) + 1 = Len(s)
    BY <1>1
  <1>4. /\ Append(r, f) \in Seq(S) /\ Len(Append(r, f)) = Len(s) /\ Append(r, f) # <<>>
        /\ \A k \in 1 .. Len(s) - 1 : Append(r, f)[k] = s[k]
        /\ Append(r, f)[Len(s)] = f
    BY <1>1, <1>2, <1>3
  <1> QED BY <1>4 DEF r

-----------------------------------------------------------------------------
(* What each kind of step does to the invariant.                           *)

(* An activation that returns a sound result.                              *)
LEMMA ReturnKeeps ==
    ASSUME IInv, stack # <<>>, call = NoCall, NEW r \in Results,
           Sound(Top.goal, r), Return(r), limit' = limit, spent' \in Nat
    PROVE  IInv'
  <1> DEFINE n == Len(stack)
  <1>1. /\ stack \in Seq(Frames) /\ n \in Nat \ {0} /\ Top \in Frames
        /\ stack' \in Seq(Frames) /\ Len(stack') = n - 1
        /\ \A k \in 1 .. n - 1 : stack'[k] = stack[k]
    BY PopFacts DEF IInv, TypeOK, Return, Top, Rest
  <1>2. Top.goal \in Calls /\ (Top.goal.fn = "subproof" => Top.goal \in Goals)
    BY <1>1, DisjointFields DEF Frames, Calls
  <1>3. TypeOK'
    <2>1. DOMAIN cache' \subseteq Goals /\ \A g \in DOMAIN cache' : cache'[g] \in Results
      BY <1>2 DEF IInv, TypeOK, Return
    <2>2. active' \subseteq Goals
      BY DEF IInv, TypeOK, Return
    <2>3. \A k \in 1 .. Len(stack') :
            stack'[k].mode \in IF stack'[k].goal \in Goals THEN SubproofModes ELSE DisjointModes
      BY <1>1 DEF IInv, TypeOK
    <2> QED BY <1>1, <2>1, <2>2, <2>3 DEF IInv, TypeOK, Return
  <1>4. CacheSound'
    BY <1>2 DEF IInv, CacheSound, Return
  <1>5. Linked'
    <2>1. \A k \in 1 .. Len(stack') : FrameShape(stack'[k]) /\ FrameSound(stack'[k])
      BY <1>1 DEF IInv, Linked
    <2>2. \A k \in 1 .. Len(stack') - 1 :
            Waiting(stack'[k]) /\ Awaited(stack'[k]) = stack'[k + 1].goal
      BY <1>1 DEF IInv, Linked
    <2>3. stack' # <<>> => stack'[1].goal = question'
      BY <1>1 DEF IInv, Linked, Return
    <2>4. call' = NoCall /\ reply' = r
      BY DEF Return
    <2>5. CASE stack' = <<>>
      <3>1. n = 1
        BY <1>1, <2>5
      <3>2. Top.goal = question'
        BY <3>1 DEF IInv, Linked, Top, Return
      <3> QED BY <2>1, <2>2, <2>3, <2>4, <2>5, <3>2 DEF Linked
    <2>6. CASE stack' # <<>>
      <3>1. n - 1 \in 1 .. n - 1 /\ Len(stack') = n - 1
        BY <1>1, <2>6
      <3>2. Waiting(stack[n - 1]) /\ Awaited(stack[n - 1]) = Top.goal
        BY <3>1, <1>1 DEF IInv, Linked, Top
      <3>3. stack'[n - 1] = stack[n - 1]
        BY <3>1, <1>1
      <3>4. Waiting(stack'[Len(stack')]) /\ Sound(Awaited(stack'[Len(stack')]), reply')
        BY <3>1, <3>2, <3>3, <2>4
      <3>5. Waiting(Top)' /\ Sound(Awaited(Top), reply)'
        BY <3>4 DEF Top
      <3> QED BY <2>1, <2>2, <2>3, <2>4, <2>6, <3>5 DEF Linked
    <2> QED BY <2>5, <2>6
  <1> QED BY <1>3, <1>4, <1>5 DEF IInv

(* The top activation goes on to another position or stage.                *)
LEMMA BecomeKeeps ==
    ASSUME IInv, stack # <<>>, call = NoCall, NEW f \in Frames,
           f.goal = Top.goal, FrameShape(f), FrameSound(f),
           Become(f), limit' = limit, spent' \in Nat
    PROVE  IInv'
  <1> DEFINE n == Len(stack)
  <1>1. /\ stack \in Seq(Frames) /\ n \in Nat \ {0}
        /\ stack' \in Seq(Frames) /\ Len(stack') = n /\ stack' # <<>>
        /\ \A k \in 1 .. n - 1 : stack'[k] = stack[k]
        /\ stack'[n] = f
    BY ReplaceFacts, PopFacts DEF IInv, TypeOK, Become, Rest
  <1>2. TypeOK'
    <2>1. \A k \in 1 .. Len(stack') :
            stack'[k].mode \in IF stack'[k].goal \in Goals THEN SubproofModes ELSE DisjointModes
      BY <1>1 DEF IInv, TypeOK, FrameShape
    <2> QED BY <1>1, <2>1 DEF IInv, TypeOK, Become
  <1>3. CacheSound'
    BY DEF IInv, CacheSound, Become
  <1>4. Linked'
    <2>1. \A k \in 1 .. Len(stack') : FrameShape(stack'[k]) /\ FrameSound(stack'[k])
      BY <1>1 DEF IInv, Linked
    <2>2. \A k \in 1 .. n : stack'[k].goal = stack[k].goal
      BY <1>1 DEF Top
    <2>3. \A k \in 1 .. Len(stack') - 1 :
            Waiting(stack'[k]) /\ Awaited(stack'[k]) = stack'[k + 1].goal
      BY <1>1, <2>2 DEF IInv, Linked
    <2>4. stack'[1].goal = question'
      BY <1>1, <2>2 DEF IInv, Linked, Become
    <2>5. call' = NoCall /\ reply' = NoReply
      BY DEF Become
    <2> QED BY <2>1, <2>3, <2>4, <2>5, ResultKinds DEF Linked
  <1> QED BY <1>2, <1>3, <1>4 DEF IInv

(* The top activation asks the question it will wait for.                  *)
LEMMA AskOfKeeps ==
    ASSUME IInv, stack # <<>>, reply = NoReply, NEW f \in Frames,
           f.goal = Top.goal, FrameShape(f), FrameSound(f), Waiting(f),
           AskOf(f), limit' = limit
    PROVE  IInv'
  <1> DEFINE n == Len(stack)
  <1>1. /\ stack \in Seq(Frames) /\ n \in Nat \ {0}
        /\ stack' \in Seq(Frames) /\ Len(stack') = n /\ stack' # <<>>
        /\ \A k \in 1 .. n - 1 : stack'[k] = stack[k]
        /\ stack'[n] = f
    BY ReplaceFacts, PopFacts DEF IInv, TypeOK, AskOf, Rest
  <1>2. Awaited(f) \in Calls
    BY AwaitedIsCall
  <1>3. TypeOK'
    <2>1. \A k \in 1 .. Len(stack') :
            stack'[k].mode \in IF stack'[k].goal \in Goals THEN SubproofModes ELSE DisjointModes
      BY <1>1 DEF IInv, TypeOK, FrameShape
    <2> QED BY <1>1, <1>2, <2>1 DEF IInv, TypeOK, AskOf
  <1>4. CacheSound'
    BY DEF IInv, CacheSound, AskOf
  <1>5. Linked'
    <2>1. \A k \in 1 .. Len(stack') : FrameShape(stack'[k]) /\ FrameSound(stack'[k])
      BY <1>1 DEF IInv, Linked
    <2>2. \A k \in 1 .. n : stack'[k].goal = stack[k].goal
      BY <1>1 DEF Top
    <2>3. \A k \in 1 .. Len(stack') - 1 :
            Waiting(stack'[k]) /\ Awaited(stack'[k]) = stack'[k + 1].goal
      BY <1>1, <2>2 DEF IInv, Linked
    <2>4. stack'[1].goal = question'
      BY <1>1, <2>2 DEF IInv, Linked, AskOf
    <2>5. call' = Awaited(f) /\ reply' = NoReply
      BY DEF AskOf
    <2>6. Waiting(Top)' /\ Awaited(Top)' = call'
      BY <1>1, <2>5 DEF Top
    <2> QED BY <1>1, <2>1, <2>3, <2>4, <2>5, <2>6, ResultKinds DEF Linked
  <1> QED BY <1>3, <1>4, <1>5 DEF IInv

(* A pending call is answered at once.                                     *)
LEMMA AnswerKeeps ==
    ASSUME IInv, call # NoCall, NEW r \in Results, Sound(call, r), Answer(r),
           UNCHANGED <<stack, cache, active, limit, spent, question, asked>>
    PROVE  IInv'
  <1>1. TypeOK'
    BY DEF IInv, TypeOK, Answer
  <1>2. CacheSound'
    BY DEF IInv, CacheSound
  <1>3. Top' = Top
    BY DEF Top
  <1>4. Linked'
    BY <1>3 DEF IInv, Linked, Answer
  <1> QED BY <1>1, <1>2, <1>4 DEF IInv

(* The first stage of an activation fits its question.                     *)
LEMMA FirstFrame ==
    ASSUME NEW q \in Calls
    PROVE  /\ Frame(q, FirstMode(q)) \in Frames
           /\ FrameShape(Frame(q, FirstMode(q)))
           /\ FrameSound(Frame(q, FirstMode(q)))
           /\ Frame(q, FirstMode(q)).goal = q
  <1> DEFINE f == Frame(q, FirstMode(q))
  <1>1. f.goal = q /\ f.mode = FirstMode(q) /\ f.i = 1 /\ f.kept = NoReply
    BY DEF Frame
  <1>2. FrameSound(f)
    BY <1>1 DEF FrameSound
  <1>3. CASE q \in DisjointGoals
    <2>1. FirstMode(q) = "start" /\ q \notin Goals
      BY <1>3, DisjointFields DEF FirstMode
    <2>2. FrameShape(f)
      BY <1>1, <2>1 DEF FrameShape, DisjointModes
    <2>3. f \in Frames
      BY <2>1 DEF Frame, Frames, DisjointModes
    <2> QED BY <1>1, <1>2, <2>2, <2>3
  <1>4. CASE q \in Goals
    <2>1. FirstMode(q) = Decomposition(q)
      BY <1>4, GoalFields DEF FirstMode
    <2>2. \/ Decomposition(q) \in {"solver", "true_node"}
          \/ Decomposition(q) = "negation" /\ q.rhs.kind = "not"
          \/ Decomposition(q) = "all_rhs" /\ q.rhs.kind = "all_of"
          \/ Decomposition(q) = "any_lhs" /\ q.lhs.kind = "any_of"
          \/ Decomposition(q) = "all_lhs" /\ q.lhs.kind = "all_of"
          \/ Decomposition(q) = "any_rhs" /\ q.rhs.kind = "any_of"
      BY DEF Decomposition
    <2>3. FirstMode(q) \in SubproofModes
      BY <2>1, <2>2 DEF SubproofModes, Loops, EveryLoops, SomeLoops
    <2>4. FrameShape(f)
      BY <1>1, <1>4, <2>1, <2>2, <2>3 DEF FrameShape
    <2>5. f \in Frames
      BY <2>3 DEF Frame, Frames
    <2> QED BY <1>1, <1>2, <2>4, <2>5
  <1> QED BY <1>3, <1>4 DEF Calls

(* A pending call starts an activation.                                    *)
LEMMA EnterKeeps ==
    ASSUME IInv, call \in Calls, call # NoCall,
           stack' = Append(stack, Frame(call, FirstMode(call))), call' = NoCall,
           active' \subseteq Goals, spent' \in Nat,
           UNCHANGED <<reply, cache, limit, question, asked>>
    PROVE  IInv'
  <1> DEFINE n == Len(stack)
             f == Frame(call, FirstMode(call))
  <1>1. f \in Frames /\ FrameShape(f) /\ FrameSound(f) /\ f.goal = call
    BY FirstFrame
  <1> HIDE DEF f
  <1>2. /\ stack \in Seq(Frames) /\ n \in Nat
        /\ stack' \in Seq(Frames) /\ Len(stack') = n + 1 /\ stack' # <<>>
        /\ \A k \in 1 .. n : stack'[k] = stack[k]
        /\ stack'[n + 1] = f
    <2>1. stack' = Append(stack, f)
      BY DEF f
    <2> QED BY <1>1, <2>1, PushFacts DEF IInv, TypeOK
  <1>3. TypeOK'
    <2>1. \A k \in 1 .. Len(stack') :
            stack'[k].mode \in IF stack'[k].goal \in Goals THEN SubproofModes ELSE DisjointModes
      BY <1>1, <1>2 DEF IInv, TypeOK, FrameShape
    <2> QED BY <1>2, <2>1 DEF IInv, TypeOK
  <1>4. CacheSound'
    BY DEF IInv, CacheSound
  <1>5. Linked'
    <2>1. \A k \in 1 .. Len(stack') : FrameShape(stack'[k]) /\ FrameSound(stack'[k])
      BY <1>1, <1>2 DEF IInv, Linked
    <2>2. reply = NoReply
      BY DEF IInv, Linked
    <2>3. ASSUME NEW k \in 1 .. Len(stack') - 1
          PROVE  Waiting(stack'[k]) /\ Awaited(stack'[k]) = stack'[k + 1].goal
      <3>1. CASE k < n
        BY <3>1, <1>2 DEF IInv, Linked
      <3>2. CASE k = n
        <4>1. stack # <<>> /\ stack'[k] = Top
          BY <3>2, <1>2 DEF Top
        <4>2. Waiting(Top) /\ Awaited(Top) = call
          BY <4>1 DEF IInv, Linked
        <4> QED BY <4>1, <4>2, <3>2, <1>1, <1>2
      <3> QED BY <3>1, <3>2, <1>2
    <2>4. stack'[1].goal = question'
      <3>1. CASE stack = <<>>
        BY <3>1, <1>1, <1>2 DEF IInv, Linked
      <3>2. CASE stack # <<>>
        BY <3>2, <1>2 DEF IInv, Linked
      <3> QED BY <3>1, <3>2
    <2> QED BY <2>1, <2>2, <2>3, <2>4, ResultKinds DEF Linked
  <1> QED BY <1>3, <1>4, <1>5 DEF IInv

-----------------------------------------------------------------------------
(* How an answer to one question bears on another.                         *)

LEMMA RefutationCarries ==
    ASSUME NEW q, NEW g, NEW r, Counterexamples(q) \subseteq Counterexamples(g),
           Sound(q, r), r.status = "proved_false"
    PROVE  Sound(g, r)
  BY DEF Sound

LEMMA ProofCarries ==
    ASSUME NEW q, NEW g, NEW r, Counterexamples(g) \subseteq Counterexamples(q),
           Sound(q, r), r.status = "proved_true"
    PROVE  Sound(g, r)
  BY DEF Sound

LEMMA InconclusiveIsSound ==
    ASSUME NEW g
    PROVE  Sound(g, Unsupported) /\ Sound(g, Exhausted)
  BY DEF Sound, Unsupported, Exhausted

LEMMA SubproofCounterexamples ==
    ASSUME NEW l, NEW r
    PROVE  Counterexamples(Subproof(l, r)) = Accepts[l] \ Accepts[r]
  BY DEF Counterexamples, Subproof

(* A loop's question differs from its goal in one child.                   *)
LEMMA LoopFrame ==
    ASSUME NEW f \in Frames, FrameShape(f), f.mode \in Loops
    PROVE  /\ f.goal \in Goals /\ f.goal.fn = "subproof"
           /\ f.goal.lhs \in Term /\ f.goal.rhs \in Term
           /\ f.i \in Nat \ {0}
           /\ Len(LoopChildren(f)) \in Nat
  <1>1. f.goal \in Goals /\ f.i \in Nat \ {0}
    BY DEF Frames, FrameShape, Loops, EveryLoops, SomeLoops, DisjointModes
  <1> QED BY <1>1, GoalFields, TermAssumption DEF LoopChildren

(* An every-loop: a value that refutes a child refutes the goal, and a     *)
(* value that refutes the goal refutes some child.                         *)
LEMMA EveryLoopCounterexamples ==
    ASSUME NEW f \in Frames, FrameShape(f), f.mode \in EveryLoops
    PROVE  /\ \A j \in 1 .. Len(LoopChildren(f)) :
                Counterexamples(LoopGoal([f EXCEPT !.i = j])) \subseteq Counterexamples(f.goal)
           /\ \A v \in Counterexamples(f.goal) : \E j \in 1 .. Len(LoopChildren(f)) :
                v \in Counterexamples(LoopGoal([f EXCEPT !.i = j]))
  <1>1. /\ f.goal \in Goals /\ f.goal.fn = "subproof"
        /\ f.goal.lhs \in Term /\ f.goal.rhs \in Term
    BY LoopFrame DEF Loops
  <1> DEFINE l == f.goal.lhs
             r == f.goal.rhs
  <1>2. Counterexamples(f.goal) = Accepts[l] \ Accepts[r]
    BY <1>1 DEF Counterexamples
  <1>3. Accepts[l] \subseteq Value /\ Accepts[r] \subseteq Value
    BY <1>1, AcceptsAssumption
  <1>4. CASE f.mode = "all_rhs"
    <2>1. LoopChildren(f) = r.children /\ r.kind = "all_of"
      BY <1>4 DEF LoopChildren, FrameShape
    <2>2. \A j : LoopGoal([f EXCEPT !.i = j]) = Subproof(l, r.children[j])
      BY <1>4 DEF LoopGoal, Frames
    <2>3. \A j : Counterexamples(LoopGoal([f EXCEPT !.i = j]))
                  = Accepts[l] \ Accepts[r.children[j]]
      BY <2>2, SubproofCounterexamples, Zenon
    <2>4. Accepts[r] = {v \in Value : \A j \in 1 .. Len(r.children) :
                            v \in Accepts[r.children[j]]}
      BY <2>1, <1>1, AcceptsAssumption DEF ChildIndexes
    <2> HIDE DEF l, r
    <2> QED BY <1>2, <1>3, <2>1, <2>3, <2>4
  <1>5. CASE f.mode = "any_lhs"
    <2>1. LoopChildren(f) = l.children /\ l.kind = "any_of"
      BY <1>5 DEF LoopChildren, FrameShape
    <2>2. \A j : LoopGoal([f EXCEPT !.i = j]) = Subproof(l.children[j], r)
      BY <1>5 DEF LoopGoal, Frames
    <2>3. \A j : Counterexamples(LoopGoal([f EXCEPT !.i = j]))
                  = Accepts[l.children[j]] \ Accepts[r]
      BY <2>2, SubproofCounterexamples, Zenon
    <2>4. Accepts[l] = {v \in Value : \E j \in 1 .. Len(l.children) :
                            v \in Accepts[l.children[j]]}
      BY <2>1, <1>1, AcceptsAssumption DEF ChildIndexes
    <2>5. \A j \in 1 .. Len(l.children) : Accepts[l.children[j]] \subseteq Value
      BY <1>1, ChildIsTerm, AcceptsAssumption DEF ChildIndexes
    <2> HIDE DEF l, r
    <2> QED BY <1>2, <1>3, <2>1, <2>3, <2>4, <2>5
  <1> QED BY <1>4, <1>5 DEF EveryLoops

(* A some-loop: a value that refutes the goal refutes every child.         *)
LEMMA SomeLoopCounterexamples ==
    ASSUME NEW f \in Frames, FrameShape(f), f.mode \in SomeLoops,
           f.i <= Len(LoopChildren(f))
    PROVE  Counterexamples(f.goal) \subseteq Counterexamples(LoopGoal(f))
  <1>1. /\ f.goal \in Goals /\ f.goal.fn = "subproof"
        /\ f.goal.lhs \in Term /\ f.goal.rhs \in Term
        /\ f.i \in 1 .. Len(LoopChildren(f))
    BY LoopFrame DEF Loops
  <1> DEFINE l == f.goal.lhs
             r == f.goal.rhs
  <1>2. Counterexamples(f.goal) = Accepts[l] \ Accepts[r]
    BY <1>1 DEF Counterexamples
  <1>3. CASE f.mode = "all_lhs"
    <2>1. LoopChildren(f) = l.children /\ l.kind = "all_of"
      BY <1>3 DEF LoopChildren, FrameShape
    <2>2. Counterexamples(LoopGoal(f)) = Accepts[l.children[f.i]] \ Accepts[r]
      BY <1>3 DEF LoopGoal, Counterexamples, Subproof
    <2>3. Accepts[l] \subseteq Accepts[l.children[f.i]]
      BY <2>1, <1>1, AcceptsAssumption DEF ChildIndexes
    <2> QED BY <1>2, <2>2, <2>3
  <1>4. CASE f.mode = "any_rhs"
    <2>1. LoopChildren(f) = r.children /\ r.kind = "any_of"
      BY <1>4 DEF LoopChildren, FrameShape
    <2>2. Counterexamples(LoopGoal(f)) = Accepts[l] \ Accepts[r.children[f.i]]
      BY <1>4 DEF LoopGoal, Counterexamples, Subproof
    <2>3. Accepts[r.children[f.i]] \in SUBSET Value
      BY <2>1, <1>1, ChildIsTerm, AcceptsAssumption DEF ChildIndexes
    <2>4. Accepts[r.children[f.i]] \subseteq Accepts[r]
      BY <2>1, <2>3, <1>1, AcceptsAssumption DEF ChildIndexes
    <2> QED BY <1>2, <2>2, <2>4
  <1> QED BY <1>3, <1>4 DEF SomeLoops

(* A value in both terms is in every conjunct of either.                   *)
LEMMA ConjunctCounterexamples ==
    ASSUME NEW q \in DisjointGoals, HasConjuncts(q),
           NEW i \in 1 .. Len(Conjuncts(q))
    PROVE  Counterexamples(q) \subseteq
               Counterexamples(Disjoint(Conjuncts(q)[i], OtherTerm(q)))
  <1>1. q.fn = "disjoint" /\ q.lhs \in Term /\ q.rhs \in Term
    BY DisjointFields
  <1>2. Counterexamples(q) = Accepts[q.lhs] \cap Accepts[q.rhs]
    BY <1>1 DEF Counterexamples
  <1>3. Counterexamples(Disjoint(Conjuncts(q)[i], OtherTerm(q)))
        = Accepts[Conjuncts(q)[i]] \cap Accepts[OtherTerm(q)]
    BY DEF Counterexamples, Disjoint
  <1>4. CASE q.lhs.kind = "all_of"
    <2>1. Conjuncts(q) = q.lhs.children /\ OtherTerm(q) = q.rhs
      BY <1>4 DEF Conjuncts, OtherTerm
    <2>2. Accepts[q.lhs] \subseteq Accepts[q.lhs.children[i]]
      BY <1>4, <2>1, <1>1, AcceptsAssumption DEF ChildIndexes
    <2> QED BY <1>2, <1>3, <2>1, <2>2
  <1>5. CASE q.lhs.kind # "all_of"
    <2>1. Conjuncts(q) = q.rhs.children /\ OtherTerm(q) = q.lhs /\ q.rhs.kind = "all_of"
      BY <1>5 DEF Conjuncts, OtherTerm, HasConjuncts
    <2>2. Accepts[q.rhs] \subseteq Accepts[q.rhs.children[i]]
      BY <2>1, <1>1, AcceptsAssumption DEF ChildIndexes
    <2> QED BY <1>2, <1>3, <2>1, <2>2
  <1> QED BY <1>4, <1>5

(* Being inside the complement is being disjoint.                          *)
LEMMA ComplementCounterexamples ==
    ASSUME NEW l \in Term, NEW r \in Term, NotTerm(r) \in Term
    PROVE  Counterexamples(Subproof(l, NotTerm(r))) = Counterexamples(Disjoint(l, r))
  <1>1. Accepts[NotTerm(r)] = Value \ Accepts[r]
    BY NotAccepts
  <1>2. Accepts[l] \subseteq Value
    BY AcceptsAssumption
  <1> QED BY <1>1, <1>2 DEF Counterexamples, Subproof, Disjoint

-----------------------------------------------------------------------------
(* The actions, one by one.                                                *)

LEMMA TopFacts ==
    ASSUME IInv, stack # <<>>
    PROVE  /\ Top \in Frames /\ FrameShape(Top) /\ FrameSound(Top)
           /\ Top.goal \in Calls /\ Top.i \in Nat \ {0}
           /\ Top.kept \in {NoReply, Unsupported, Exhausted}
           /\ Top.goal.lhs \in Term /\ Top.goal.rhs \in Term
           /\ Top.mode \in SubproofModes => Top.goal \in Goals /\ Top.goal.fn = "subproof"
           /\ Top.mode \in DisjointModes =>
                Top.goal \in DisjointGoals /\ Top.goal.fn = "disjoint"
  <1>1. Top \in Frames /\ Len(stack) \in Nat \ {0}
    BY PopFacts DEF IInv, TypeOK, Top
  <1>2. FrameShape(Top) /\ FrameSound(Top)
    BY <1>1 DEF IInv, Linked, Top
  <1>3. Top.goal \in Calls /\ Top.i \in Nat \ {0}
        /\ Top.kept \in {NoReply, Unsupported, Exhausted}
    BY <1>1 DEF Frames
  <1>4. Top.goal.lhs \in Term /\ Top.goal.rhs \in Term
    BY <1>3, GoalFields, DisjointFields DEF Calls
  <1>5. Top.mode \in SubproofModes => Top.goal \in Goals
    BY <1>2 DEF FrameShape, SubproofModes, DisjointModes, Loops, EveryLoops, SomeLoops
  <1>6. Top.mode \in DisjointModes => Top.goal \in DisjointGoals
    BY <1>2, <1>3 DEF FrameShape, SubproofModes, DisjointModes, Loops, EveryLoops,
       SomeLoops, Calls
  <1> QED BY <1>1, <1>2, <1>3, <1>4, <1>5, <1>6, GoalFields, DisjointFields

LEMMA ResumedFacts ==
    ASSUME IInv, NEW modes, Resumed(modes)
    PROVE  /\ stack # <<>> /\ call = NoCall /\ reply \in Results
           /\ Waiting(Top) /\ Sound(Awaited(Top), reply)
  BY DEF IInv, TypeOK, Linked, Resumed

LEMMA KeptIsSound ==
    ASSUME IInv, stack # <<>>, Top.kept # NoReply
    PROVE  Top.kept \in Results /\ Sound(Top.goal, Top.kept)
  BY TopFacts, InconclusiveIsSound, ResultKinds

LEMMA AskKeeps ==
    ASSUME IInv, Ask
    PROVE  IInv'
  <1>1. PICK q \in Questions : call' = q /\ question' = q
    BY DEF Ask
  <1>2. q \in Calls /\ q # NoCall
    BY EngineAssumption, GoalFields, DisjointFields DEF Calls
  <1>3. TypeOK'
    BY <1>1, <1>2, EngineAssumption DEF IInv, TypeOK, Ask
  <1>4. Linked'
    BY <1>1, <1>2, ResultKinds DEF IInv, Linked, Ask
  <1> QED BY <1>3, <1>4 DEF IInv, CacheSound, Ask

LEMMA EntryKeeps ==
    ASSUME IInv, Entry, limit' = limit
    PROVE  IInv'
  <1>1. CASE AnswerFromCache
    <2>1. call # NoCall /\ cache[call] \in Results /\ Sound(call, cache[call])
      BY <1>1, GoalFields DEF IInv, TypeOK, CacheSound, AnswerFromCache
    <2> QED BY <1>1, <2>1, AnswerKeeps DEF AnswerFromCache
  <1>2. CASE RefuseCycle
    <2>1. call # NoCall
      BY <1>2 DEF RefuseCycle, NoCall
    <2> QED BY <1>2, <2>1, AnswerKeeps, InconclusiveIsSound, ResultKinds DEF RefuseCycle
  <1>3. CASE RefuseExhausted
    <2>1. call # NoCall
      BY <1>3 DEF RefuseExhausted, NoCall
    <2> QED BY <1>3, <2>1, AnswerKeeps, InconclusiveIsSound, ResultKinds
            DEF RefuseExhausted
  <1>4. CASE EnterSubproof
    <2>1. call # NoCall /\ call \in Calls
      BY <1>4 DEF EnterSubproof, NoCall, IInv, TypeOK
    <2>2. call \in Goals
      BY <1>4, <2>1, DisjointFields DEF EnterSubproof, Calls
    <2>3. active' \subseteq Goals /\ spent' \in Nat
      BY <1>4, <2>2 DEF EnterSubproof, Spend, IInv, TypeOK
    <2> QED BY <1>4, <2>1, <2>3, EnterKeeps DEF EnterSubproof
  <1>5. CASE EnterDisjoint
    <2>1. call # NoCall /\ call \in Calls
      BY <1>5 DEF EnterDisjoint, NoCall, IInv, TypeOK
    <2>2. active' \subseteq Goals /\ spent' \in Nat
      BY <1>5 DEF EnterDisjoint, IInv, TypeOK
    <2> QED BY <1>5, <2>1, <2>2, EnterKeeps DEF EnterDisjoint
  <1> QED BY <1>1, <1>2, <1>3, <1>4, <1>5 DEF Entry

(* Moving on, with a result kept or not.                                   *)
LEMMA AdvanceFrame ==
    ASSUME NEW f \in Frames
    PROVE  /\ Advance(f) \in Frames /\ Advance(f).goal = f.goal
           /\ Advance(f).mode = f.mode /\ Advance(f).kept = f.kept
           /\ Advance(f).i = f.i + 1
  BY DEF Advance, Frames

LEMMA KeepFrame ==
    ASSUME NEW f \in Frames, NEW r \in {Unsupported, Exhausted}
    PROVE  /\ Keep(f, r) \in Frames /\ Keep(f, r).goal = f.goal
           /\ Keep(f, r).mode = f.mode /\ Keep(f, r).kept = r
  <1> DEFINE g == [f EXCEPT !.kept = r]
  <1>1. g \in Frames /\ g.goal = f.goal /\ g.mode = f.mode /\ g.kept = r
    BY DEF Frames
  <1>2. Keep(f, r) = Advance(g)
    BY DEF Keep
  <1> HIDE DEF g
  <1> QED BY <1>1, <1>2, AdvanceFrame

LEMMA KeepFirstFrame ==
    ASSUME NEW f \in Frames, NEW r \in {Unsupported, Exhausted}
    PROVE  /\ KeepFirst(f, r) \in Frames /\ KeepFirst(f, r).goal = f.goal
           /\ KeepFirst(f, r).mode = f.mode /\ KeepFirst(f, r).kept # NoReply
  BY KeepFrame, AdvanceFrame, ResultKinds DEF KeepFirst

(* The four loops.                                                         *)
LEMMA AskLoopChildKeeps ==
    ASSUME IInv, AskLoopChild, limit' = limit
    PROVE  IInv'
  <1>1. stack # <<>> /\ reply = NoReply /\ Top.mode \in Loops
        /\ Top.i <= Len(LoopChildren(Top)) /\ AskOf(Top)
    BY DEF AskLoopChild, Running
  <1>2. Waiting(Top)
    BY <1>1 DEF Waiting, Loops, EveryLoops, SomeLoops
  <1> QED BY <1>1, <1>2, TopFacts, AskOfKeeps

LEMMA AnswerEveryLoopKeeps ==
    ASSUME IInv, AnswerEveryLoop, limit' = limit
    PROVE  IInv'
  <1>1. /\ stack # <<>> /\ call = NoCall /\ reply \in Results
        /\ Waiting(Top) /\ Sound(Awaited(Top), reply)
        /\ Top.mode \in EveryLoops /\ spent' \in Nat
    BY ResumedFacts DEF AnswerEveryLoop, Resumed, IInv, TypeOK
  <1>2. Awaited(Top) = LoopGoal(Top) /\ Top.i \in 1 .. Len(LoopChildren(Top))
    BY <1>1, TopFacts, LoopFrame DEF Awaited, Waiting, Loops, EveryLoops, SomeLoops
  <1>3. [Top EXCEPT !.i = Top.i] = Top
    BY <1>1, TopFacts DEF Frames
  <1>4. Counterexamples(LoopGoal(Top)) \subseteq Counterexamples(Top.goal)
    BY <1>1, <1>2, <1>3, TopFacts, EveryLoopCounterexamples
  <1>5. CASE reply.status = "proved_false"
    <2>1. Sound(Top.goal, reply)
      BY <1>1, <1>2, <1>4, <1>5, RefutationCarries
    <2> QED BY <1>1, <1>5, <2>1, ReturnKeeps DEF AnswerEveryLoop
  <1>6. CASE reply.status = "resource_exhausted"
    <2>1. Sound(Top.goal, reply)
      BY <1>6 DEF Sound
    <2> QED BY <1>1, <1>6, <2>1, ReturnKeeps DEF AnswerEveryLoop
  <1>7. CASE reply.status = "unsupported"
    <2> DEFINE f == KeepFirst(Top, reply)
    <2>1. Become(f)
      BY <1>7 DEF AnswerEveryLoop
    <2>2. reply = Unsupported
      BY <1>1, <1>7, ResultByStatus
    <2>3. /\ f \in Frames /\ f.goal = Top.goal /\ f.mode = Top.mode
          /\ f.kept # NoReply
      BY <1>1, <2>2, TopFacts, KeepFirstFrame
    <2>4. FrameShape(f) /\ FrameSound(f)
      BY <1>1, <2>3, TopFacts DEF FrameShape, FrameSound
    <2> HIDE DEF f
    <2> QED BY <1>1, <2>1, <2>3, <2>4, BecomeKeeps
  <1>8. CASE reply.status = "proved_true"
    <2> DEFINE f == Advance(Top)
    <2>1. Become(f)
      BY <1>8 DEF AnswerEveryLoop
    <2>2. /\ f \in Frames /\ f.goal = Top.goal /\ f.mode = Top.mode
          /\ f.kept = Top.kept /\ f.i = Top.i + 1
      BY <1>1, TopFacts DEF Advance, Frames
    <2>3. FrameShape(f)
      BY <1>1, <2>2, TopFacts DEF FrameShape
    <2>4. FrameSound(f)
      <3>1. SUFFICES ASSUME Top.kept = NoReply, NEW j \in 1 .. Top.i
                     PROVE  Counterexamples(LoopGoal([f EXCEPT !.i = j])) = {}
        BY <1>1, <2>2, TopFacts DEF FrameSound
      <3>2. [f EXCEPT !.i = j] = [Top EXCEPT !.i = j]
        BY <2>2, TopFacts, <1>1 DEF Frames, Advance
      <3>3. CASE j = Top.i
        <4>1. Counterexamples(LoopGoal(Top)) = {}
          BY <1>1, <1>2, <1>8 DEF Sound
        <4> QED BY <4>1, <3>2, <3>3, <1>3
      <3>4. CASE j # Top.i
        <4>1. j \in 1 .. Top.i - 1
          BY <1>1, <3>4, TopFacts
        <4>2. Counterexamples(LoopGoal([Top EXCEPT !.i = j])) = {}
          BY <1>1, <3>1, <4>1, TopFacts DEF FrameSound
        <4> QED BY <4>2, <3>2
      <3> QED BY <3>3, <3>4
    <2> HIDE DEF f
    <2> QED BY <1>1, <2>1, <2>2, <2>3, <2>4, TopFacts, BecomeKeeps
  <1> QED BY <1>1, <1>5, <1>6, <1>7, <1>8, ResultByStatus

LEMMA AnswerSomeLoopKeeps ==
    ASSUME IInv, AnswerSomeLoop, limit' = limit
    PROVE  IInv'
  <1>1. /\ stack # <<>> /\ call = NoCall /\ reply \in Results
        /\ Waiting(Top) /\ Sound(Awaited(Top), reply)
        /\ Top.mode \in SomeLoops /\ spent' \in Nat
    BY ResumedFacts DEF AnswerSomeLoop, Resumed, IInv, TypeOK
  <1>2. Awaited(Top) = LoopGoal(Top) /\ Top.i <= Len(LoopChildren(Top))
    BY <1>1 DEF Awaited, Waiting, Loops, EveryLoops, SomeLoops
  <1>3. Counterexamples(Top.goal) \subseteq Counterexamples(LoopGoal(Top))
    BY <1>1, <1>2, TopFacts, SomeLoopCounterexamples
  <1>4. CASE reply.status = "proved_true"
    <2>1. Sound(Top.goal, reply)
      BY <1>1, <1>2, <1>3, <1>4, ProofCarries
    <2> QED BY <1>1, <1>4, <2>1, ReturnKeeps DEF AnswerSomeLoop
  <1>5. CASE reply.status = "resource_exhausted"
    <2>1. Sound(Top.goal, reply)
      BY <1>5 DEF Sound
    <2> QED BY <1>1, <1>5, <2>1, ReturnKeeps DEF AnswerSomeLoop
  <1>6. CASE reply.status = "unsupported"
    <2> DEFINE f == KeepFirst(Top, reply)
    <2>1. Become(f)
      BY <1>6 DEF AnswerSomeLoop
    <2>2. reply = Unsupported
      BY <1>1, <1>6, ResultByStatus
    <2>3. /\ f \in Frames /\ f.goal = Top.goal /\ f.mode = Top.mode
      BY <1>1, <2>2, TopFacts, KeepFirstFrame
    <2>4. FrameShape(f) /\ FrameSound(f)
      BY <1>1, <2>3, TopFacts DEF FrameShape, FrameSound, EveryLoops, SomeLoops
    <2> HIDE DEF f
    <2> QED BY <1>1, <2>1, <2>3, <2>4, BecomeKeeps
  <1>7. CASE reply.status = "proved_false"
    <2> DEFINE f == Advance(Top)
    <2>1. Become(f)
      BY <1>7 DEF AnswerSomeLoop
    <2>2. /\ f \in Frames /\ f.goal = Top.goal /\ f.mode = Top.mode
      BY <1>1, TopFacts DEF Advance, Frames
    <2>3. FrameShape(f) /\ FrameSound(f)
      BY <1>1, <2>2, TopFacts DEF FrameShape, FrameSound, EveryLoops, SomeLoops
    <2> HIDE DEF f
    <2> QED BY <1>1, <2>1, <2>2, <2>3, BecomeKeeps
  <1> QED BY <1>1, <1>4, <1>5, <1>6, <1>7, ResultByStatus

(* An every-loop that ends without a kept result has proved every child.   *)
LEMMA EndLoopKeeps ==
    ASSUME IInv, EndLoop, limit' = limit
    PROVE  IInv'
  <1>1. /\ stack # <<>> /\ call = NoCall /\ reply = NoReply
        /\ Top.mode \in Loops /\ Top.i > Len(LoopChildren(Top)) /\ spent' \in Nat
    BY DEF EndLoop, Running, IInv, TypeOK
  <1>2. CASE Top.kept # NoReply
    <2>1. Return(Top.kept)
      BY <1>2 DEF EndLoop
    <2> QED BY <1>1, <1>2, <2>1, KeptIsSound, ReturnKeeps
  <1>3. CASE Top.kept = NoReply /\ Top.mode \in EveryLoops
    <2>1. \A j \in 1 .. Len(LoopChildren(Top)) :
            Counterexamples(LoopGoal([Top EXCEPT !.i = j])) = {}
      BY <1>1, <1>3, TopFacts, LoopFrame DEF FrameSound
    <2>2. Counterexamples(Top.goal) = {}
      BY <1>1, <1>3, <2>1, TopFacts, EveryLoopCounterexamples
    <2>3. Sound(Top.goal, Proved)
      BY <2>2 DEF Sound, Proved
    <2>4. Return(Proved)
      BY <1>3 DEF EndLoop
    <2> QED BY <1>1, <2>3, <2>4, ResultKinds, ReturnKeeps
  <1>4. CASE Top.kept = NoReply /\ Top.mode \notin EveryLoops
    <2> DEFINE f == Frame(Top.goal, "solver")
    <2>1. Become(f)
      BY <1>4 DEF EndLoop
    <2>2. /\ f \in Frames /\ f.goal = Top.goal /\ f.mode = "solver"
          /\ f.goal \in Goals
      <3>1. Top.mode \in SubproofModes
        BY <1>1 DEF SubproofModes
      <3>2. "solver" \in SubproofModes
        BY DEF SubproofModes
      <3> QED BY <1>1, <3>1, <3>2, TopFacts DEF Frames, Frame
    <2>3. FrameShape(f) /\ FrameSound(f)
      BY <2>2 DEF FrameShape, FrameSound, SubproofModes, EveryLoops
    <2> HIDE DEF f
    <2> QED BY <1>1, <2>1, <2>2, <2>3, BecomeKeeps
  <1> QED BY <1>2, <1>3, <1>4

(* A stage of the same activation, for a subproof and for a disjointness.  *)
LEMMA SubproofStage ==
    ASSUME NEW f \in Frames, f.goal \in Goals, NEW m \in {"solver", "target", "rule"}
    PROVE  LET g == [f EXCEPT !.mode = m] IN
           /\ g \in Frames /\ g.goal = f.goal /\ g.mode = m /\ g.i = f.i
           /\ FrameShape(g) /\ FrameSound(g)
  <1> DEFINE g == [f EXCEPT !.mode = m]
  <1>1. m \in SubproofModes
    BY DEF SubproofModes
  <1>2. g \in Frames /\ g.goal = f.goal /\ g.mode = m /\ g.i = f.i
    BY <1>1 DEF Frames
  <1> HIDE DEF g
  <1>3. FrameShape(g) /\ FrameSound(g)
    BY <1>1, <1>2 DEF FrameShape, FrameSound, EveryLoops
  <1> QED BY <1>2, <1>3 DEF g

LEMMA DisjointStage ==
    ASSUME NEW f \in Frames, f.goal \in DisjointGoals, NEW m \in {"nodes", "fallback"}
    PROVE  LET g == [f EXCEPT !.mode = m] IN
           /\ g \in Frames /\ g.goal = f.goal /\ g.mode = m
           /\ FrameShape(g) /\ FrameSound(g)
  <1> DEFINE g == [f EXCEPT !.mode = m]
  <1>1. m \in DisjointModes /\ f.goal \notin Goals
    BY DisjointFields DEF DisjointModes
  <1>2. g \in Frames /\ g.goal = f.goal /\ g.mode = m
    BY <1>1 DEF Frames
  <1> HIDE DEF g
  <1>3. FrameShape(g) /\ FrameSound(g)
    BY <1>1, <1>2 DEF FrameShape, FrameSound, EveryLoops
  <1> QED BY <1>2, <1>3 DEF g

LEMMA TrueAgainstNodeKeeps ==
    ASSUME IInv, TrueAgainstNode, limit' = limit
    PROVE  IInv'
  <1>1. /\ stack # <<>> /\ call = NoCall /\ Top.mode = "true_node" /\ spent' \in Nat
        /\ Top.goal \in Goals /\ Top.goal.fn = "subproof"
    BY TopFacts DEF TrueAgainstNode, Running, IInv, TypeOK, SubproofModes
  <1>2. CASE \E w \in Counterexamples(Top.goal) : Return(Refuted(w))
    <2>1. PICK w \in Counterexamples(Top.goal) : Return(Refuted(w))
      BY <1>2
    <2>2. w \in Value
      BY <1>1, TopFacts, AcceptsAssumption DEF Counterexamples
    <2>3. Refuted(w) \in Results /\ Sound(Top.goal, Refuted(w))
      BY <2>2 DEF Results, Refutations, Refuted, Sound
    <2> QED BY <1>1, <2>1, <2>3, ReturnKeeps
  <1>3. CASE Become([Top EXCEPT !.mode = "solver"])
    BY <1>1, <1>3, TopFacts, SubproofStage, BecomeKeeps
  <1> QED BY <1>2, <1>3 DEF TrueAgainstNode

LEMMA NegationKeeps ==
    ASSUME IInv, AskNegation \/ AnswerNegation, limit' = limit
    PROVE  IInv'
  <1>1. CASE AskNegation
    <2>1. stack # <<>> /\ reply = NoReply /\ Top.mode = "negation" /\ AskOf(Top)
      BY <1>1 DEF AskNegation, Running
    <2>2. Waiting(Top)
      BY <2>1 DEF Waiting, Loops, EveryLoops, SomeLoops
    <2> QED BY <2>1, <2>2, TopFacts, AskOfKeeps
  <1>2. CASE AnswerNegation
    <2>1. /\ stack # <<>> /\ call = NoCall /\ reply \in Results
          /\ Sound(Awaited(Top), reply)
          /\ Top.mode = "negation" /\ Return(reply) /\ spent' \in Nat
      BY <1>2, ResumedFacts DEF AnswerNegation, Resumed, IInv, TypeOK
    <2>2. Top.goal \in Goals /\ Top.goal.fn = "subproof" /\ Top.goal.rhs.kind = "not"
      BY <2>1, TopFacts DEF FrameShape, SubproofModes
    <2> DEFINE c == Top.goal.rhs.children[1]
    <2>3. c \in Term /\ Top.goal.rhs = NotTerm(c)
      BY <2>1, <2>2, TopFacts, NotChild
    <2>4. Awaited(Top) = Disjoint(Top.goal.lhs, c)
      BY <2>1 DEF Awaited, Loops, EveryLoops, SomeLoops
    <2>5. Counterexamples(Top.goal) = Counterexamples(Subproof(Top.goal.lhs, Top.goal.rhs))
      BY <2>2 DEF Counterexamples, Subproof
    <2>6. Counterexamples(Top.goal) = Counterexamples(Awaited(Top))
      <3> HIDE DEF c
      <3> QED BY <2>1, <2>3, <2>4, <2>5, TopFacts, ComplementCounterexamples
    <2>7. Sound(Top.goal, reply)
      BY <2>1, <2>6 DEF Sound
    <2> QED BY <2>1, <2>7, ReturnKeeps
  <1> QED BY <1>1, <1>2

LEMMA DecomposeKeeps ==
    ASSUME IInv, Decompose, limit' = limit
    PROVE  IInv'
  BY TrueAgainstNodeKeeps, NegationKeeps, AskLoopChildKeeps, AnswerEveryLoopKeeps,
     AnswerSomeLoopKeeps, EndLoopKeeps DEF Decompose

LEMMA AtRulesFacts ==
    ASSUME IInv, Running("solver")
    PROVE  /\ stack # <<>> /\ call = NoCall /\ reply = NoReply
           /\ Top.mode = "solver" /\ Top \in Frames
           /\ Top.goal \in Goals /\ Top.goal.fn = "subproof"
           /\ Top.goal.lhs \in Term /\ Top.goal.rhs \in Term
           /\ Counterexamples(Top.goal) = Accepts[Top.goal.lhs] \ Accepts[Top.goal.rhs]
  BY TopFacts DEF Running, SubproofModes, Counterexamples

LEMMA SolverConstantsKeep ==
    ASSUME IInv, SolverTrivial \/ SolverBuildsWitness, limit' = limit
    PROVE  IInv'
  <1>1. CASE SolverTrivial
    <2>1. Running("solver") /\ Return(Proved) /\ spent' \in Nat
          /\ (Top.goal.lhs.kind = "false" \/ Top.goal.rhs.kind = "true")
      BY <1>1 DEF SolverTrivial, IInv, TypeOK
    <2>2. Accepts[Top.goal.lhs] = {} \/ Accepts[Top.goal.rhs] = Value
      BY <2>1, AtRulesFacts, AcceptsAssumption
    <2>3. Counterexamples(Top.goal) = {}
      BY <2>1, <2>2, AtRulesFacts, AcceptsAssumption
    <2>4. Sound(Top.goal, Proved)
      BY <2>3 DEF Sound, Proved
    <2> QED BY <2>1, <2>4, AtRulesFacts, ResultKinds, ReturnKeeps
  <1>2. CASE SolverBuildsWitness
    <2>1. Running("solver") /\ Top.goal.rhs.kind = "false"
      BY <1>2 DEF SolverBuildsWitness
    <2>2. Counterexamples(Top.goal) = Accepts[Top.goal.lhs]
          /\ Accepts[Top.goal.lhs] \subseteq Value
      <3>1. Accepts[Top.goal.rhs] = {} /\ Accepts[Top.goal.lhs] \subseteq Value
        BY <2>1, AtRulesFacts, AcceptsAssumption
      <3> QED BY <2>1, <3>1, AtRulesFacts
    <2>3. PICK n \in 0 .. RuleUnits :
            IF CanSpend(n)
            THEN /\ Spend(n)
                 /\ \E r \in {Refuted(w) : w \in Accepts[Top.goal.lhs]} \cup {Unsupported} :
                        Return(r)
            ELSE /\ Return(Exhausted)
                 /\ UNCHANGED spent
      BY <1>2 DEF SolverBuildsWitness
    <2>4. CASE CanSpend(n)
      <3>1. spent' \in Nat
        BY <2>3, <2>4, EngineAssumption DEF Spend, IInv, TypeOK
      <3>2. PICK r \in {Refuted(w) : w \in Accepts[Top.goal.lhs]} \cup {Unsupported} :
              Return(r)
        BY <2>3, <2>4
      <3>3. r \in Results /\ Sound(Top.goal, r)
        BY <2>2, InconclusiveIsSound DEF Results, Refutations, Refuted, Sound
      <3> QED BY <2>1, <3>1, <3>2, <3>3, AtRulesFacts, ReturnKeeps
    <2>5. CASE ~CanSpend(n)
      <3>1. Return(Exhausted) /\ spent' \in Nat
        BY <2>3, <2>5 DEF IInv, TypeOK
      <3> QED BY <2>1, <3>1, AtRulesFacts, InconclusiveIsSound, ResultKinds, ReturnKeeps
    <2> QED BY <2>4, <2>5
  <1> QED BY <1>1, <1>2

(* An oracle's own conclusion, or the next rule.                           *)
LEMMA RuleDecidesKeeps ==
    ASSUME IInv, RuleDecides, limit' = limit
    PROVE  IInv'
  <1>1. Running("solver")
    BY DEF RuleDecides, AtRules
  <1>2. PICK n \in 0 .. RuleUnits :
          IF CanSpend(n)
          THEN /\ Spend(n)
               /\ \/ \E r \in {q \in Results \ {Exhausted} : Sound(Top.goal, q)} :
                          Return(r)
                  \/ Become(Advance(Top))
          ELSE /\ Return(Exhausted)
               /\ UNCHANGED spent
    BY DEF RuleDecides
  <1>3. CASE CanSpend(n)
    <2>1. spent' \in Nat
      BY <1>2, <1>3, EngineAssumption DEF Spend, IInv, TypeOK
    <2>2. CASE \E r \in {q \in Results \ {Exhausted} : Sound(Top.goal, q)} : Return(r)
      BY <1>1, <2>1, <2>2, AtRulesFacts, ReturnKeeps
    <2>3. CASE Become(Advance(Top))
      <3> DEFINE f == Advance(Top)
      <3>1. /\ f \in Frames /\ f.goal = Top.goal /\ f.mode = "solver"
            /\ f.goal \in Goals
        BY <1>1, AtRulesFacts, AdvanceFrame
      <3>2. Become(f)
        BY <2>3
      <3> HIDE DEF f
      <3>3. FrameShape(f) /\ FrameSound(f)
        BY <3>1 DEF FrameShape, FrameSound, SubproofModes, EveryLoops
      <3> QED BY <1>1, <2>1, <3>1, <3>2, <3>3, AtRulesFacts, BecomeKeeps
    <2> QED BY <1>2, <1>3, <2>2, <2>3
  <1>4. CASE ~CanSpend(n)
    <2>1. Return(Exhausted) /\ spent' \in Nat
      BY <1>2, <1>4 DEF IInv, TypeOK
    <2> QED BY <1>1, <2>1, AtRulesFacts, InconclusiveIsSound, ResultKinds, ReturnKeeps
  <1> QED BY <1>3, <1>4

(* A reference and its target have the same counterexamples.               *)
LEMMA TargetKeeps ==
    ASSUME IInv, AskTarget \/ AnswerTarget, limit' = limit
    PROVE  IInv'
  <1>1. CASE AskTarget
    <2> DEFINE f == [Top EXCEPT !.mode = "target"]
    <2>1. Running("solver") /\ AskOf(f)
      BY <1>1 DEF AskTarget, AtRules
    <2>2. /\ f \in Frames /\ f.goal = Top.goal /\ f.mode = "target"
          /\ FrameShape(f) /\ FrameSound(f)
      BY <2>1, AtRulesFacts, SubproofStage
    <2> HIDE DEF f
    <2>3. Waiting(f)
      BY <2>2 DEF Waiting, Loops, EveryLoops, SomeLoops
    <2> QED BY <2>1, <2>2, <2>3, AtRulesFacts, AskOfKeeps
  <1>2. CASE AnswerTarget
    <2>1. /\ stack # <<>> /\ call = NoCall /\ reply \in Results
          /\ Sound(Awaited(Top), reply)
          /\ Top.mode = "target" /\ spent' \in Nat
          /\ Return(reply) \/ Return(Unsupported)
      BY <1>2, ResumedFacts DEF AnswerTarget, Resumed, IInv, TypeOK
    <2>2. Awaited(Top) = Subproof(Target[Top.goal.lhs], Target[Top.goal.rhs])
      BY <2>1 DEF Awaited, Loops, EveryLoops, SomeLoops
    <2>3. Top.goal.fn = "subproof"
      BY <2>1, TopFacts DEF SubproofModes
    <2>4. /\ Accepts[Target[Top.goal.lhs]] = Accepts[Top.goal.lhs]
          /\ Accepts[Target[Top.goal.rhs]] = Accepts[Top.goal.rhs]
      BY <2>1, TopFacts, TargetAssumption
    <2>5. Counterexamples(Awaited(Top)) = Counterexamples(Top.goal)
      BY <2>2, <2>3, <2>4 DEF Counterexamples, Subproof
    <2>6. Sound(Top.goal, reply)
      BY <2>1, <2>5 DEF Sound
    <2> QED BY <2>1, <2>6, InconclusiveIsSound, ResultKinds, ReturnKeeps
  <1> QED BY <1>1, <1>2

LEMMA RuleGoalKeeps ==
    ASSUME IInv, AskRuleGoal \/ AnswerRuleGoal, limit' = limit
    PROVE  IInv'
  <1>1. CASE AskRuleGoal
    <2> DEFINE f == [Top EXCEPT !.mode = "rule"]
    <2>1. Running("solver") /\ AskOf(f) /\ Top.i <= Len(RuleGoals[Top.goal])
      BY <1>1 DEF AskRuleGoal, AtRules, Rules
    <2>2. /\ f \in Frames /\ f.goal = Top.goal /\ f.mode = "rule" /\ f.i = Top.i
          /\ FrameShape(f) /\ FrameSound(f)
      BY <2>1, AtRulesFacts, SubproofStage
    <2> HIDE DEF f
    <2>3. Waiting(f)
      BY <2>1, <2>2 DEF Waiting, Loops, EveryLoops, SomeLoops
    <2> QED BY <2>1, <2>2, <2>3, AtRulesFacts, AskOfKeeps
  <1>2. CASE AnswerRuleGoal
    <2>1. /\ stack # <<>> /\ call = NoCall /\ Top.mode = "rule" /\ spent' \in Nat
          /\ Top \in Frames /\ Top.goal \in Goals
      BY <1>2, ResumedFacts, TopFacts DEF AnswerRuleGoal, Resumed, IInv, TypeOK, SubproofModes
    <2>2. CASE Return(Exhausted)
      BY <2>1, <2>2, InconclusiveIsSound, ResultKinds, ReturnKeeps
    <2>3. CASE \E r \in {q \in Results \ {Exhausted} : Sound(Top.goal, q)} : Return(r)
      BY <2>1, <2>3, ReturnKeeps
    <2>4. CASE Become([Advance(Top) EXCEPT !.mode = "solver"])
      <3> DEFINE g == Advance(Top)
                 f == [g EXCEPT !.mode = "solver"]
      <3>1. g \in Frames /\ g.goal = Top.goal
        BY <2>1, AdvanceFrame
      <3> HIDE DEF g
      <3>2. f \in Frames /\ f.goal = Top.goal /\ FrameShape(f) /\ FrameSound(f)
        BY <3>1, <2>1, SubproofStage
      <3>3. Become(f)
        BY <2>4 DEF g
      <3> HIDE DEF f
      <3> QED BY <2>1, <3>2, <3>3, BecomeKeeps
    <2> QED BY <1>2, <2>2, <2>3, <2>4 DEF AnswerRuleGoal
  <1> QED BY <1>1, <1>2

LEMMA RulesEndKeeps ==
    ASSUME IInv, RulesEnd, limit' = limit
    PROVE  IInv'
  <1>1. Running("solver") /\ Return(Unsupported) /\ spent' \in Nat
    BY DEF RulesEnd, AtRules, IInv, TypeOK
  <1> QED BY <1>1, AtRulesFacts, InconclusiveIsSound, ResultKinds, ReturnKeeps

LEMMA SolveKeeps ==
    ASSUME IInv, Solve, limit' = limit
    PROVE  IInv'
  BY SolverConstantsKeep, RuleDecidesKeeps, TargetKeeps, RuleGoalKeeps, RulesEndKeeps
     DEF Solve

(* The stages of terms_are_disjoint.                                       *)
LEMMA DisjointTopFacts ==
    ASSUME IInv, stack # <<>>, Top.mode \in DisjointModes
    PROVE  /\ Top \in Frames /\ FrameShape(Top) /\ FrameSound(Top)
           /\ Top.goal \in DisjointGoals /\ Top.goal.fn = "disjoint"
           /\ Top.goal.lhs \in Term /\ Top.goal.rhs \in Term
           /\ Counterexamples(Top.goal) = Accepts[Top.goal.lhs] \cap Accepts[Top.goal.rhs]
  BY TopFacts DEF Counterexamples

LEMMA StartDisjointKeeps ==
    ASSUME IInv, StartDisjoint, limit' = limit
    PROVE  IInv'
  <1> DEFINE q == Top.goal
  <1>1. /\ stack # <<>> /\ call = NoCall /\ Top.mode = "start" /\ spent' \in Nat
        /\ Top.mode \in DisjointModes
    BY DEF StartDisjoint, Running, IInv, TypeOK, DisjointModes
  <1>2. CASE "false" \in {q.lhs.kind, q.rhs.kind}
    <2>1. Return(Proved)
      BY <1>2 DEF StartDisjoint
    <2>2. Accepts[q.lhs] = {} \/ Accepts[q.rhs] = {}
      BY <1>1, <1>2, DisjointTopFacts, AcceptsAssumption
    <2>3. Sound(Top.goal, Proved)
      BY <1>1, <2>2, DisjointTopFacts DEF Sound, Proved
    <2> QED BY <1>1, <2>1, <2>3, ResultKinds, ReturnKeeps
  <1>3. CASE Return(Unsupported)
    BY <1>1, <1>3, InconclusiveIsSound, ResultKinds, ReturnKeeps
  <1>4. CASE /\ HasConjuncts(q) /\ OtherTerm(q).kind = "node"
             /\ Become([Top EXCEPT !.mode = "conjuncts"])
    <2> DEFINE f == [Top EXCEPT !.mode = "conjuncts"]
    <2>1. "conjuncts" \in DisjointModes /\ q \notin Goals
      BY <1>1, DisjointTopFacts, DisjointFields DEF DisjointModes
    <2>2. f \in Frames /\ f.goal = Top.goal /\ f.mode = "conjuncts"
      BY <1>1, <2>1, DisjointTopFacts DEF Frames
    <2>3. Become(f)
      BY <1>4
    <2> HIDE DEF f
    <2>4. FrameShape(f) /\ FrameSound(f)
      BY <1>4, <2>1, <2>2 DEF FrameShape, FrameSound, EveryLoops
    <2> QED BY <1>1, <2>2, <2>3, <2>4, BecomeKeeps
  <1>5. CASE Become([Top EXCEPT !.mode = "nodes"])
    <2> DEFINE f == [Top EXCEPT !.mode = "nodes"]
    <2>1. f \in Frames /\ f.goal = Top.goal /\ FrameShape(f) /\ FrameSound(f)
      BY <1>1, DisjointTopFacts, DisjointStage
    <2>2. Become(f)
      BY <1>5
    <2> HIDE DEF f
    <2> QED BY <1>1, <2>1, <2>2, BecomeKeeps
  <1> QED BY <1>2, <1>3, <1>4, <1>5 DEF StartDisjoint

LEMMA ConjunctsKeep ==
    ASSUME IInv, AskConjunct \/ SkipConjunct \/ AnswerConjunct \/ EndConjuncts,
           limit' = limit
    PROVE  IInv'
  <1>1. CASE AskConjunct
    <2>1. /\ stack # <<>> /\ reply = NoReply /\ Top.mode = "conjuncts" /\ AskOf(Top)
          /\ Top.i <= Len(Conjuncts(Top.goal)) /\ Conjuncts(Top.goal)[Top.i].kind = "node"
      BY <1>1 DEF AskConjunct, AtConjunct, NextConjunct, Running
    <2>2. Waiting(Top)
      BY <2>1 DEF Waiting, Loops, EveryLoops, SomeLoops
    <2> QED BY <2>1, <2>2, TopFacts, AskOfKeeps
  <1> SUFFICES ASSUME SkipConjunct \/ AnswerConjunct \/ EndConjuncts
               PROVE  IInv'
    BY <1>1
  <1>2. /\ stack # <<>> /\ call = NoCall /\ Top.mode = "conjuncts" /\ spent' \in Nat
        /\ Top.mode \in DisjointModes
    BY DEF SkipConjunct, AnswerConjunct, EndConjuncts, AtConjunct, Running, Resumed,
       IInv, TypeOK, DisjointModes
  <1>3. ASSUME NEW f \in Frames, f.goal = Top.goal, f.mode = Top.mode, Become(f)
        PROVE  IInv'
    <2>1. FrameShape(f) /\ FrameSound(f)
      BY <1>2, <1>3, DisjointTopFacts DEF FrameShape, FrameSound, EveryLoops
    <2> QED BY <1>2, <1>3, <2>1, BecomeKeeps
  <1>4. CASE SkipConjunct
    <2>1. Become(KeepFirst(Top, Unsupported))
      BY <1>4 DEF SkipConjunct
    <2> QED BY <1>2, <1>3, <2>1, DisjointTopFacts, KeepFirstFrame
  <1>5. CASE AnswerConjunct
    <2>1. /\ reply \in Results /\ Waiting(Top) /\ Sound(Awaited(Top), reply)
      BY <1>5, ResumedFacts DEF AnswerConjunct
    <2>2. Awaited(Top) = Disjoint(Conjuncts(Top.goal)[Top.i], OtherTerm(Top.goal))
      BY <1>2 DEF Awaited, Loops, EveryLoops, SomeLoops
    <2>3. HasConjuncts(Top.goal)
      BY <1>2, DisjointTopFacts DEF FrameShape
    <2>4. Top.i \in 1 .. Len(Conjuncts(Top.goal))
      <3>1. Len(Conjuncts(Top.goal)) \in Nat
        BY <1>2, DisjointTopFacts, TermAssumption DEF Conjuncts
      <3> QED BY <1>2, <2>1, <3>1, TopFacts DEF Waiting
    <2>5. Counterexamples(Top.goal) \subseteq Counterexamples(Awaited(Top))
      BY <1>2, <2>2, <2>3, <2>4, DisjointTopFacts, ConjunctCounterexamples
    <2>6. CASE reply.status = "proved_true"
      <3>1. Sound(Top.goal, reply) /\ Return(reply)
        BY <1>5, <2>1, <2>5, <2>6, ProofCarries DEF AnswerConjunct
      <3> QED BY <1>2, <2>1, <3>1, ReturnKeeps
    <2>7. CASE reply.status \in {"unsupported", "resource_exhausted"}
      <3>1. reply \in {Unsupported, Exhausted} /\ Become(Keep(Top, reply))
        BY <1>5, <2>1, <2>7, ResultByStatus DEF AnswerConjunct
      <3> QED BY <1>2, <1>3, <3>1, DisjointTopFacts, KeepFrame
    <2>8. CASE reply.status = "proved_false"
      <3>1. Become(Advance(Top))
        BY <1>5, <2>8 DEF AnswerConjunct
      <3> QED BY <1>2, <1>3, <3>1, DisjointTopFacts, AdvanceFrame
    <2> QED BY <2>1, <2>6, <2>7, <2>8, ResultByStatus
  <1>6. CASE EndConjuncts
    <2>1. CASE Return(Exhausted)
      BY <1>2, <2>1, InconclusiveIsSound, ResultKinds, ReturnKeeps
    <2>2. CASE Become([Top EXCEPT !.mode = "nodes"])
      <3> DEFINE f == [Top EXCEPT !.mode = "nodes"]
      <3>1. f \in Frames /\ f.goal = Top.goal /\ FrameShape(f) /\ FrameSound(f)
        BY <1>2, DisjointTopFacts, DisjointStage
      <3>2. Become(f)
        BY <2>2
      <3> HIDE DEF f
      <3> QED BY <1>2, <3>1, <3>2, BecomeKeeps
    <2> QED BY <1>6, <2>1, <2>2 DEF EndConjuncts
  <1> QED BY <1>4, <1>5, <1>6

LEMMA NodesKeep ==
    ASSUME IInv, DecideNodes \/ AskFallback \/ AnswerFallback, limit' = limit
    PROVE  IInv'
  <1>1. CASE DecideNodes
    <2>1. /\ stack # <<>> /\ call = NoCall /\ Top.mode = "nodes"
      BY <1>1 DEF DecideNodes, Running
    <2>2. PICK n \in 0 .. RuleUnits :
            IF CanSpend(n)
            THEN /\ Spend(n)
                 /\ \E r \in {q \in {Proved} \cup Refutations : Sound(Top.goal, q)} :
                        Return(r)
            ELSE /\ Return(Exhausted)
                 /\ UNCHANGED spent
      BY <1>1 DEF DecideNodes
    <2>3. CASE CanSpend(n)
      <3>1. spent' \in Nat
        BY <2>2, <2>3, EngineAssumption DEF Spend, IInv, TypeOK
      <3>2. PICK r \in {q \in {Proved} \cup Refutations : Sound(Top.goal, q)} : Return(r)
        BY <2>2, <2>3
      <3>3. r \in Results /\ Sound(Top.goal, r)
        BY DEF Results
      <3> QED BY <2>1, <3>1, <3>2, <3>3, ReturnKeeps
    <2>4. CASE ~CanSpend(n)
      <3>1. Return(Exhausted) /\ spent' \in Nat
        BY <2>2, <2>4 DEF IInv, TypeOK
      <3> QED BY <2>1, <3>1, InconclusiveIsSound, ResultKinds, ReturnKeeps
    <2> QED BY <2>3, <2>4
  <1>2. CASE AskFallback
    <2> DEFINE f == [Top EXCEPT !.mode = "fallback"]
    <2>1. /\ stack # <<>> /\ reply = NoReply /\ Top.mode = "nodes" /\ AskOf(f)
          /\ Top.mode \in DisjointModes
      BY <1>2 DEF AskFallback, Running, DisjointModes
    <2>2. /\ f \in Frames /\ f.goal = Top.goal /\ f.mode = "fallback"
          /\ FrameShape(f) /\ FrameSound(f)
      BY <2>1, DisjointTopFacts, DisjointStage
    <2> HIDE DEF f
    <2>3. Waiting(f)
      BY <2>2 DEF Waiting, Loops, EveryLoops, SomeLoops
    <2> QED BY <2>1, <2>2, <2>3, AskOfKeeps
  <1>3. CASE AnswerFallback
    <2>1. /\ stack # <<>> /\ call = NoCall /\ reply \in Results
          /\ Sound(Awaited(Top), reply) /\ Return(reply) /\ spent' \in Nat
          /\ Top.mode = "fallback" /\ Top.mode \in DisjointModes
      BY <1>3, ResumedFacts DEF AnswerFallback, Resumed, IInv, TypeOK, DisjointModes
    <2>2. Awaited(Top) = Subproof(Top.goal.lhs, NotTerm(Top.goal.rhs))
      BY <2>1 DEF Awaited, Loops, EveryLoops, SomeLoops
    <2>3. Counterexamples(Awaited(Top)) = Counterexamples(Top.goal)
      <3>1. NotTerm(Top.goal.rhs) \in Term
        BY <2>1, DisjointTopFacts, DisjointFields
      <3>2. Counterexamples(Disjoint(Top.goal.lhs, Top.goal.rhs)) = Counterexamples(Top.goal)
        BY <2>1, DisjointTopFacts DEF Counterexamples, Disjoint
      <3> QED BY <2>1, <2>2, <3>1, <3>2, DisjointTopFacts, ComplementCounterexamples
    <2>4. Sound(Top.goal, reply)
      BY <2>1, <2>3 DEF Sound
    <2> QED BY <2>1, <2>4, ReturnKeeps
  <1> QED BY <1>1, <1>2, <1>3

LEMMA SeparateKeeps ==
    ASSUME IInv, Separate, limit' = limit
    PROVE  IInv'
  BY StartDisjointKeeps, ConjunctsKeep, NodesKeep DEF Separate

LEMMA ExceptionKeeps ==
    ASSUME IInv, Raise \/ Unwind, limit' = limit
    PROVE  IInv'
  <1>1. CASE Raise
    <2>1. stack # <<>> /\ call = NoCall
      BY <1>1 DEF Raise, Running
    <2>2. TypeOK'
      BY <1>1, <2>1 DEF Raise, IInv, TypeOK
    <2>3. Top' = Top
      BY <1>1 DEF Raise, Top
    <2>4. Linked'
      BY <1>1, <2>1, <2>3, ResultKinds DEF Raise, IInv, Linked
    <2> QED BY <1>1, <2>2, <2>4 DEF Raise, IInv, CacheSound
  <1>2. CASE Unwind
    <2> DEFINE n == Len(stack)
    <2>1. /\ stack \in Seq(Frames) /\ n \in Nat \ {0}
          /\ stack' \in Seq(Frames) /\ Len(stack') = n - 1
          /\ \A k \in 1 .. n - 1 : stack'[k] = stack[k]
      BY <1>2, PopFacts DEF IInv, TypeOK, Unwind, Rest
    <2>2. \A k \in 1 .. Len(stack') :
            stack'[k].mode \in IF stack'[k].goal \in Goals THEN SubproofModes ELSE DisjointModes
      BY <2>1 DEF IInv, TypeOK
    <2>3. TypeOK'
      BY <1>2, <2>1, <2>2 DEF IInv, TypeOK, Unwind
    <2>4. call = NoCall /\ reply = Raised
      BY <1>2, ResultKinds DEF Unwind, IInv, Linked
    <2>5. /\ \A k \in 1 .. Len(stack') : FrameShape(stack'[k]) /\ FrameSound(stack'[k])
          /\ \A k \in 1 .. Len(stack') - 1 :
               Waiting(stack'[k]) /\ Awaited(stack'[k]) = stack'[k + 1].goal
          /\ stack' # <<>> => stack'[1].goal = question'
      BY <1>2, <2>1 DEF IInv, Linked, Unwind
    <2>6. call' = NoCall /\ reply' = Raised
      BY <1>2, <2>4 DEF Unwind
    <2>7. Linked'
      BY <2>5, <2>6, ResultKinds DEF Linked
    <2> QED BY <1>2, <2>3, <2>7 DEF Unwind, IInv, CacheSound
  <1> QED BY <1>1, <1>2

-----------------------------------------------------------------------------
(* The inductive invariant, and what it gives.                             *)

LEMMA InitIInv == Init => IInv
  <1> SUFFICES ASSUME Init PROVE IInv
    OBVIOUS
  <1>1. TypeOK
    BY EngineAssumption DEF Init, TypeOK
  <1>2. Linked
    BY ResultKinds DEF Init, Linked
  <1> QED BY <1>1, <1>2 DEF Init, IInv, CacheSound

LEMMA StepIInv == IInv /\ [Next]_vars => IInv'
  <1> SUFFICES ASSUME IInv, [Next]_vars PROVE IInv'
    OBVIOUS
  <1>1. CASE UNCHANGED vars
    BY <1>1 DEF vars, IInv, TypeOK, Linked, CacheSound, Top
  <1>2. CASE Ask
    BY <1>2, AskKeeps
  <1>3. CASE Work
    BY <1>3, EntryKeeps, DecomposeKeeps, SolveKeeps, SeparateKeeps, ExceptionKeeps
       DEF Work
  <1> QED BY <1>1, <1>2, <1>3 DEF Next

LEMMA SpecIInv == Spec => []IInv
  BY InitIInv, StepIInv, PTL DEF Spec

(* Every variable keeps its type, whatever the terms and the questions.    *)
THEOREM TypeCorrect == Spec => []TypeOK
  <1>1. IInv => TypeOK
    BY DEF IInv
  <1> QED BY <1>1, SpecIInv, PTL

(* Soundness of the recursion: given rules that are sound by themselves, no*)
(* order of questions, no cycle, no cached result, no exhausted budget and *)
(* no exception makes the context return or remember a wrong result.       *)
THEOREM Soundness == Spec => []AnswersAreSound
  <1>1. IInv => AnswersAreSound
    <2> SUFFICES ASSUME IInv PROVE AnswersAreSound
      OBVIOUS
    <2>1. stack = <<>> => Sound(question, reply)
      BY DEF IInv, Linked, TypeOK, Sound, NoReply, Raised
    <2> QED BY <2>1 DEF IInv, CacheSound, AnswersAreSound
  <1> QED BY <1>1, SpecIInv, PTL
-----------------------------------------------------------------------------
(* The second part: the keys in progress mirror the call stack, every      *)
(* question entered was paid for, and the context implements SubtypeOracle.*)
(*                                                                         *)
(* What a step does to the stack, the cache and the keys falls into four   *)
(* cases, whichever handler takes it: the activations stay, one is added   *)
(* for a subproof or for a disjointness question, or the innermost ends.   *)
(* The actions are sorted into the cases first, and the proofs look at     *)
(* nothing else.                                                           *)

SameActivations ==
    /\ Len(stack') = Len(stack)
    /\ \A k \in 1 .. Len(stack) : stack'[k].goal = stack[k].goal
    /\ UNCHANGED <<cache, active>>

(* The innermost activation ends, with a result of its own or without.     *)
Ends ==
    /\ stack # <<>>
    /\ stack' = Rest
    /\ active' = active \ {Top.goal}
    /\ \/ cache' = cache
       \/ /\ Top.goal \in Goals
          /\ DOMAIN cache' = DOMAIN cache \cup {Top.goal}
          /\ \A g \in DOMAIN cache \ {Top.goal} : cache'[g] = cache[g]

(* The work of a step is paid for before it is done.                       *)
Pays == spent' = spent \/ \E n \in Nat : CanSpend(n) /\ Spend(n)

-----------------------------------------------------------------------------
(* The building blocks of the actions.                                     *)

LEMMA ReplaceSame ==
    ASSUME IInv, stack # <<>>, NEW f, f.goal = Top.goal,
           stack' = Append(Rest, f), UNCHANGED <<cache, active>>
    PROVE  SameActivations
  <1> DEFINE S == Frames \cup {f}
  <1>1. stack \in Seq(S) /\ f \in S
    BY DEF IInv, TypeOK
  <1> HIDE DEF S
  <1>2. /\ Len(stack') = Len(stack)
        /\ \A k \in 1 .. Len(stack) - 1 : stack'[k] = stack[k]
        /\ stack'[Len(stack)] = f
    BY <1>1, ReplaceFacts DEF Rest
  <1>3. Len(stack) \in Nat \ {0}
    BY PopFacts DEF IInv, TypeOK
  <1>4. \A k \in 1 .. Len(stack) : k \in 1 .. Len(stack) - 1 \/ k = Len(stack)
    BY <1>3
  <1> QED BY <1>2, <1>4 DEF SameActivations, Top

LEMMA BecomeSame ==
    ASSUME IInv, stack # <<>>, NEW f, f.goal = Top.goal, Become(f)
    PROVE  SameActivations
  BY ReplaceSame DEF Become

LEMMA AskOfSame ==
    ASSUME IInv, stack # <<>>, NEW f, f.goal = Top.goal, AskOf(f)
    PROVE  SameActivations
  BY ReplaceSame DEF AskOf

LEMMA ReturnEnds ==
    ASSUME IInv, stack # <<>>, NEW r, Return(r)
    PROVE  Ends
  <1>1. CASE Top.goal.fn = "subproof"
    <2>1. Top.goal \in Goals
      BY <1>1, TopFacts, DisjointFields DEF Calls
    <2> QED BY <1>1, <2>1 DEF Return, Ends
  <1>2. CASE Top.goal.fn # "subproof"
    <2>1. Top.goal \notin Goals
      BY <1>2, GoalFields
    <2>2. active' = active \ {Top.goal}
      BY <1>2, <2>1 DEF Return, IInv, TypeOK
    <2> QED BY <1>2, <2>2 DEF Return, Ends
  <1> QED BY <1>1, <1>2

LEMMA StaySame ==
    ASSUME UNCHANGED <<stack, cache, active>>
    PROVE  SameActivations
  BY DEF SameActivations
-----------------------------------------------------------------------------
(* The actions, sorted.                                                    *)

LEMMA EntryCases ==
    ASSUME Entry
    PROVE  SameActivations \/ EnterSubproof \/ EnterDisjoint
  BY StaySame DEF Entry, AnswerFromCache, RefuseCycle, RefuseExhausted

LEMMA TopStays ==
    ASSUME IInv, stack # <<>>
    PROVE  /\ Advance(Top).goal = Top.goal
           /\ \A r \in {Unsupported, Exhausted} :
                KeepFirst(Top, r).goal = Top.goal /\ Keep(Top, r).goal = Top.goal
           /\ \A mode : /\ [Top EXCEPT !.mode = mode].goal = Top.goal
                        /\ [Advance(Top) EXCEPT !.mode = mode].goal = Top.goal
           /\ Frame(Top.goal, "solver").goal = Top.goal
  <1>1. Top \in Frames /\ Advance(Top) \in Frames /\ Advance(Top).goal = Top.goal
    BY TopFacts, AdvanceFrame
  <1>2. \A r \in {Unsupported, Exhausted} :
          KeepFirst(Top, r).goal = Top.goal /\ Keep(Top, r).goal = Top.goal
    BY <1>1, KeepFrame, KeepFirstFrame
  <1>3. \A mode : /\ [Top EXCEPT !.mode = mode].goal = Top.goal
                 /\ [Advance(Top) EXCEPT !.mode = mode].goal = Top.goal
    BY <1>1 DEF Frames
  <1> QED BY <1>1, <1>2, <1>3 DEF Frame

LEMMA DecomposeCases ==
    ASSUME IInv, Decompose
    PROVE  SameActivations \/ Ends
  <1>1. CASE TrueAgainstNode
    BY <1>1, TopStays, ReturnEnds, BecomeSame DEF TrueAgainstNode, Running
  <1>2. CASE AskNegation
    BY <1>2, AskOfSame DEF AskNegation, Running
  <1>3. CASE AnswerNegation
    BY <1>3, ReturnEnds DEF AnswerNegation, Resumed
  <1>4. CASE AskLoopChild
    BY <1>4, AskOfSame DEF AskLoopChild, Running
  <1>5. CASE AnswerEveryLoop
    <2>1. stack # <<>> /\ reply \in Results
      BY <1>5, ResumedFacts DEF AnswerEveryLoop
    <2>2. \/ Return(reply)
          \/ reply = Unsupported /\ Become(KeepFirst(Top, reply))
          \/ Become(Advance(Top))
      BY <1>5, <2>1, ResultByStatus DEF AnswerEveryLoop
    <2> QED BY <2>1, <2>2, TopStays, ReturnEnds, BecomeSame
  <1>6. CASE AnswerSomeLoop
    <2>1. stack # <<>> /\ reply \in Results
      BY <1>6, ResumedFacts DEF AnswerSomeLoop
    <2>2. \/ Return(reply)
          \/ reply = Unsupported /\ Become(KeepFirst(Top, reply))
          \/ Become(Advance(Top))
      BY <1>6, <2>1, ResultByStatus DEF AnswerSomeLoop
    <2> QED BY <2>1, <2>2, TopStays, ReturnEnds, BecomeSame
  <1>7. CASE EndLoop
    BY <1>7, TopStays, ReturnEnds, BecomeSame DEF EndLoop, Running
  <1> QED BY <1>1, <1>2, <1>3, <1>4, <1>5, <1>6, <1>7 DEF Decompose

LEMMA SolveCases ==
    ASSUME IInv, Solve
    PROVE  SameActivations \/ Ends
  <1>1. CASE SolverTrivial
    BY <1>1, ReturnEnds DEF SolverTrivial, Running
  <1>2. CASE SolverBuildsWitness
    BY <1>2, ReturnEnds DEF SolverBuildsWitness, Running
  <1>3. CASE RuleDecides
    BY <1>3, TopStays, ReturnEnds, BecomeSame DEF RuleDecides, AtRules, Running
  <1>4. CASE AskTarget
    BY <1>4, TopStays, AskOfSame DEF AskTarget, AtRules, Running
  <1>5. CASE AnswerTarget
    BY <1>5, ReturnEnds DEF AnswerTarget, Resumed
  <1>6. CASE AskRuleGoal
    BY <1>6, TopStays, AskOfSame DEF AskRuleGoal, AtRules, Running
  <1>7. CASE AnswerRuleGoal
    BY <1>7, TopStays, ReturnEnds, BecomeSame DEF AnswerRuleGoal, Resumed
  <1>8. CASE RulesEnd
    BY <1>8, ReturnEnds DEF RulesEnd, AtRules, Running
  <1> QED BY <1>1, <1>2, <1>3, <1>4, <1>5, <1>6, <1>7, <1>8 DEF Solve

LEMMA SeparateCases ==
    ASSUME IInv, Separate
    PROVE  SameActivations \/ Ends
  <1>1. CASE StartDisjoint
    BY <1>1, TopStays, ReturnEnds, BecomeSame DEF StartDisjoint, Running
  <1>2. CASE AskConjunct
    BY <1>2, AskOfSame DEF AskConjunct, AtConjunct, Running
  <1>3. CASE SkipConjunct
    BY <1>3, TopStays, BecomeSame DEF SkipConjunct, AtConjunct, Running
  <1>4. CASE AnswerConjunct
    <2>1. stack # <<>> /\ reply \in Results
      BY <1>4, ResumedFacts DEF AnswerConjunct
    <2>2. \/ Return(reply)
          \/ reply \in {Unsupported, Exhausted} /\ Become(Keep(Top, reply))
          \/ Become(Advance(Top))
      BY <1>4, <2>1, ResultByStatus DEF AnswerConjunct
    <2> QED BY <2>1, <2>2, TopStays, ReturnEnds, BecomeSame
  <1>5. CASE EndConjuncts
    BY <1>5, TopStays, ReturnEnds, BecomeSame DEF EndConjuncts, Running
  <1>6. CASE DecideNodes
    BY <1>6, ReturnEnds DEF DecideNodes, Running
  <1>7. CASE AskFallback
    BY <1>7, TopStays, AskOfSame DEF AskFallback, Running
  <1>8. CASE AnswerFallback
    BY <1>8, ReturnEnds DEF AnswerFallback, Resumed
  <1> QED BY <1>1, <1>2, <1>3, <1>4, <1>5, <1>6, <1>7, <1>8 DEF Separate

(* Whatever the context does, it is one of the four.                       *)
LEMMA StepCases ==
    ASSUME IInv, [Next]_vars
    PROVE  SameActivations \/ EnterSubproof \/ EnterDisjoint \/ Ends
  <1>1. CASE UNCHANGED vars
    BY <1>1, StaySame DEF vars
  <1>2. CASE Ask
    BY <1>2, StaySame DEF Ask
  <1>3. CASE Raise
    BY <1>3, StaySame DEF Raise
  <1>4. CASE Unwind
    BY <1>4 DEF Unwind, Ends
  <1>5. CASE Entry \/ Decompose \/ Solve \/ Separate
    BY <1>5, EntryCases, DecomposeCases, SolveCases, SeparateCases
  <1> QED BY <1>1, <1>2, <1>3, <1>4, <1>5 DEF Next, Work
-----------------------------------------------------------------------------
(* The keys in progress.                                                   *)

LEMMA InitStack == Init => InProgressIsTheStack
  BY DEF Init, InProgressIsTheStack, SubproofFrames

LEMMA SameKeepsStack ==
    ASSUME IInv, InProgressIsTheStack, SameActivations
    PROVE  InProgressIsTheStack'
  <1>1. /\ Len(stack') = Len(stack) /\ active' = active /\ cache' = cache
        /\ \A k \in 1 .. Len(stack) : stack'[k].goal = stack[k].goal
    BY DEF SameActivations
  <1>2. SubproofFrames' = SubproofFrames
    BY <1>1 DEF SubproofFrames
  <1>3. \A k \in SubproofFrames : stack'[k].goal = stack[k].goal
    BY <1>1 DEF SubproofFrames
  <1> QED BY <1>1, <1>2, <1>3 DEF InProgressIsTheStack

(* An activation on top, the others as they were.                          *)
LEMMA PushedFrames ==
    ASSUME IInv, NEW f, stack' = Append(stack, f)
    PROVE  /\ Len(stack) \in Nat /\ stack'[Len(stack) + 1].goal = f.goal
           /\ \A k \in SubproofFrames : stack'[k].goal = stack[k].goal
           /\ SubproofFrames' =
                SubproofFrames
                \cup {k \in {Len(stack) + 1} : f.goal.fn = "subproof"}
  <1> DEFINE S == Frames \cup {f}
  <1>1. stack \in Seq(S) /\ f \in S
    BY DEF IInv, TypeOK
  <1> HIDE DEF S
  <1>2. /\ Len(stack') = Len(stack) + 1 /\ Len(stack) \in Nat
        /\ \A k \in 1 .. Len(stack) : stack'[k] = stack[k]
        /\ stack'[Len(stack) + 1] = f
    BY <1>1, PushFacts
  <1>3. \A k : k \in 1 .. Len(stack') <=> k \in 1 .. Len(stack) \/ k = Len(stack) + 1
    BY <1>2
  <1>4. SubproofFrames' =
          SubproofFrames \cup {k \in {Len(stack) + 1} : f.goal.fn = "subproof"}
    BY <1>2, <1>3 DEF SubproofFrames
  <1> QED BY <1>2, <1>4 DEF SubproofFrames

LEMMA EnterDisjointKeepsStack ==
    ASSUME IInv, InProgressIsTheStack, EnterDisjoint
    PROVE  InProgressIsTheStack'
  <1> DEFINE f == Frame(call, FirstMode(call))
  <1>1. stack' = Append(stack, f) /\ f.goal = call /\ call.fn # "subproof"
        /\ active' = active /\ cache' = cache
    BY DEF EnterDisjoint, Frame
  <1> HIDE DEF f
  <1>2. /\ SubproofFrames' = SubproofFrames
        /\ \A k \in SubproofFrames : stack'[k].goal = stack[k].goal
    BY <1>1, PushedFrames
  <1>3. {stack'[k].goal : k \in SubproofFrames'} = {stack[k].goal : k \in SubproofFrames}
    BY <1>2
  <1>4. active' = {stack'[k].goal : k \in SubproofFrames'}
    BY <1>1, <1>3 DEF InProgressIsTheStack
  <1>5. \A j, k \in SubproofFrames' : stack'[j].goal = stack'[k].goal => j = k
    BY <1>2 DEF InProgressIsTheStack
  <1> QED BY <1>1, <1>4, <1>5 DEF InProgressIsTheStack

(* A question is entered only when it is not in progress and has no result.*)
LEMMA EnterSubproofKeepsStack ==
    ASSUME IInv, InProgressIsTheStack, EnterSubproof
    PROVE  InProgressIsTheStack'
  <1> DEFINE f == Frame(call, FirstMode(call))
             n == Len(stack)
  <1>1. /\ stack' = Append(stack, f) /\ f.goal = call /\ call.fn = "subproof"
        /\ active' = active \cup {call} /\ cache' = cache
        /\ call \notin active /\ call \notin DOMAIN cache
    BY DEF EnterSubproof, Frame
  <1> HIDE DEF f
  <1>2. /\ n \in Nat /\ stack'[n + 1].goal = call
        /\ SubproofFrames' = SubproofFrames \cup {n + 1}
        /\ \A k \in SubproofFrames : stack'[k].goal = stack[k].goal
    BY <1>1, PushedFrames
  <1>3. \A k \in SubproofFrames : stack[k].goal # call
    BY <1>1 DEF InProgressIsTheStack
  <1>4. active' = {stack'[k].goal : k \in SubproofFrames'}
    <2>1. {stack'[k].goal : k \in SubproofFrames'}
            = {stack'[k].goal : k \in SubproofFrames} \cup {call}
      BY <1>2
    <2>2. {stack'[k].goal : k \in SubproofFrames} = {stack[k].goal : k \in SubproofFrames}
      BY <1>2
    <2> QED BY <1>1, <2>1, <2>2 DEF InProgressIsTheStack
  <1>5. \A j, k \in SubproofFrames' : stack'[j].goal = stack'[k].goal => j = k
    BY <1>2, <1>3 DEF InProgressIsTheStack
  <1>6. active' \cap DOMAIN cache' = {}
    BY <1>1 DEF InProgressIsTheStack
  <1> QED BY <1>4, <1>5, <1>6 DEF InProgressIsTheStack

(* The innermost activation is the only one of its key.                    *)
LEMMA EndsKeepsStack ==
    ASSUME IInv, InProgressIsTheStack, Ends
    PROVE  InProgressIsTheStack'
  <1> DEFINE n == Len(stack)
  <1>1. /\ n \in Nat \ {0} /\ Len(stack') = n - 1
        /\ \A k \in 1 .. n - 1 : stack'[k] = stack[k]
    BY PopFacts DEF IInv, TypeOK, Ends, Rest
  <1>2. \A k : k \in 1 .. Len(stack') <=> k \in 1 .. Len(stack) /\ k # n
    BY <1>1
  <1>3. SubproofFrames' = SubproofFrames \ {n}
    BY <1>1, <1>2 DEF SubproofFrames
  <1>4. \A k \in SubproofFrames' : k \in SubproofFrames /\ stack'[k] = stack[k]
    BY <1>1, <1>2, <1>3 DEF SubproofFrames
  <1>5. \A k \in SubproofFrames : stack[k].goal = Top.goal => k = n
    <2>1. CASE n \in SubproofFrames
      BY <2>1 DEF InProgressIsTheStack, Top
    <2>2. CASE n \notin SubproofFrames
      BY <2>2, <1>1 DEF SubproofFrames, Top
    <2> QED BY <2>1, <2>2
  <1>6. n \in SubproofFrames => stack[n].goal = Top.goal
    BY DEF Top
  <1>7. active' = {stack'[k].goal : k \in SubproofFrames'}
    BY <1>3, <1>4, <1>5, <1>6 DEF InProgressIsTheStack, Ends
  <1>8. \A j, k \in SubproofFrames' : stack'[j].goal = stack'[k].goal => j = k
    BY <1>4 DEF InProgressIsTheStack
  <1>9. active' \cap DOMAIN cache' = {}
    BY DEF InProgressIsTheStack, Ends
  <1> QED BY <1>7, <1>8, <1>9 DEF InProgressIsTheStack

LEMMA StepStack ==
    ASSUME IInv, InProgressIsTheStack, [Next]_vars
    PROVE  InProgressIsTheStack'
  BY StepCases, SameKeepsStack, EnterDisjointKeepsStack, EnterSubproofKeepsStack,
     EndsKeepsStack

(* The keys in progress are those of the activations, one each, for every  *)
(* order of questions and after every exception: a question met again is   *)
(* always recognized, and none is refused that is not being answered.      *)
THEOREM KeysMirrorTheStack == Spec => []InProgressIsTheStack
  <1>1. IInv /\ InProgressIsTheStack /\ [Next]_vars => InProgressIsTheStack'
    BY StepStack
  <1> QED BY <1>1, SpecIInv, InitStack, PTL DEF Spec
-----------------------------------------------------------------------------
(* The work meter.                                                         *)

LEMMA StepPays ==
    ASSUME IInv, [Next]_vars
    PROVE  Pays /\ limit' = limit /\ (EnterSubproof => spent' = spent + 1)
  <1>1. limit' = limit
    BY DEF Next, Ask, Work, vars
  <1>2. EnterSubproof => spent' = spent + 1 /\ CanSpend(1)
    BY DEF EnterSubproof, Spend
  <1>3. Pays
    <2>1. CASE UNCHANGED vars \/ Ask \/ Raise \/ Unwind
      BY <2>1 DEF vars, Ask, Raise, Unwind, Pays
    <2>2. CASE Entry
      BY <2>2 DEF Entry, AnswerFromCache, RefuseCycle, RefuseExhausted, EnterSubproof,
         EnterDisjoint, Pays
    <2>3. CASE Decompose
      BY <2>3 DEF Decompose, TrueAgainstNode, AskNegation, AnswerNegation, AskLoopChild,
         AnswerEveryLoop, AnswerSomeLoop, EndLoop, AskOf, Pays
    <2>4. CASE Solve
      <3>1. CASE SolverBuildsWitness \/ RuleDecides
        BY <3>1, EngineAssumption DEF SolverBuildsWitness, RuleDecides, Pays
      <3>2. CASE ~(SolverBuildsWitness \/ RuleDecides)
        BY <2>4, <3>2 DEF Solve, SolverTrivial, AskTarget, AnswerTarget, AskRuleGoal,
           AnswerRuleGoal, RulesEnd, AskOf, Pays
      <3> QED BY <3>1, <3>2
    <2>5. CASE Separate
      <3>1. CASE DecideNodes
        BY <3>1, EngineAssumption DEF DecideNodes, Pays
      <3>2. CASE ~DecideNodes
        BY <2>5, <3>2 DEF Separate, StartDisjoint, AskConjunct, SkipConjunct,
           AnswerConjunct, EndConjuncts, AskFallback, AnswerFallback, AskOf, Pays
      <3> QED BY <3>1, <3>2
    <2> QED BY <2>1, <2>2, <2>3, <2>4, <2>5 DEF Next, Work
  <1> QED BY <1>1, <1>2, <1>3

(* The invariant that is inductive: the counted sets are finite, and the   *)
(* keys of the stack have no results yet, so ending one moves it over.     *)
WorkInv ==
    /\ IsFiniteSet(DOMAIN cache)
    /\ IsFiniteSet(active)
    /\ WorkIsPaidFor

LEMMA InitWork == Init => WorkInv
  <1> SUFFICES ASSUME Init PROVE WorkInv
    OBVIOUS
  <1>1. DOMAIN cache = {} /\ active = {} /\ spent = 0
    BY DEF Init
  <1>2. limit # -1 => spent <= limit
    BY EngineAssumption DEF Init
  <1>3. /\ IsFiniteSet(DOMAIN cache) /\ Cardinality(DOMAIN cache) = 0
        /\ IsFiniteSet(active) /\ Cardinality(active) = 0
    BY <1>1, FS_EmptySet
  <1> QED BY <1>1, <1>2, <1>3 DEF WorkInv, WorkIsPaidFor

(* No step lowers the meter or takes it past its limit.                    *)
LEMMA MeterGrows ==
    ASSUME IInv, WorkInv, [Next]_vars
    PROVE  spent \in Nat /\ spent' \in Nat /\ spent' >= spent
           /\ (limit' # -1 => spent' <= limit')
  <1>1. spent \in Nat /\ limit \in Nat \cup {-1} /\ limit' = limit /\ Pays
    BY StepPays, EngineAssumption DEF IInv, TypeOK
  <1>2. CASE spent' = spent
    BY <1>1, <1>2 DEF WorkInv, WorkIsPaidFor
  <1>3. CASE \E n \in Nat : CanSpend(n) /\ Spend(n)
    <2>1. PICK n \in Nat : CanSpend(n) /\ Spend(n)
      BY <1>3
    <2> QED BY <1>1, <2>1 DEF WorkInv, WorkIsPaidFor, CanSpend, Spend
  <1> QED BY <1>1, <1>2, <1>3 DEF Pays

(* What a step does to the two counts together.                            *)
LEMMA StepCounts ==
    ASSUME IInv, InProgressIsTheStack, WorkInv,
           SameActivations \/ EnterSubproof \/ EnterDisjoint \/ Ends
    PROVE  /\ IsFiniteSet(DOMAIN cache') /\ IsFiniteSet(active')
           /\ \/ EnterSubproof
                /\ Cardinality(DOMAIN cache') + Cardinality(active')
                     = Cardinality(DOMAIN cache) + Cardinality(active) + 1
              \/ Cardinality(DOMAIN cache') + Cardinality(active')
                     <= Cardinality(DOMAIN cache) + Cardinality(active)
  <1> DEFINE C == DOMAIN cache
             c == Cardinality(C)
             a == Cardinality(active)
  <1>1. IsFiniteSet(C) /\ IsFiniteSet(active) /\ c \in Nat /\ a \in Nat
    BY FS_CardinalityType DEF WorkInv
  <1>2. CASE UNCHANGED <<cache, active>>
    BY <1>1, <1>2
  <1>3. CASE EnterSubproof
    <2>1. cache' = cache /\ active' = active \cup {call} /\ call \notin active
      BY <1>3 DEF EnterSubproof
    <2>2. IsFiniteSet(active') /\ Cardinality(active') = a + 1
      BY <1>1, <2>1, FS_AddElement
    <2> QED BY <1>1, <1>3, <2>1, <2>2
  <1>4. CASE Ends
    <2> DEFINE g == Top.goal
    <2>1. active' = active \ {g}
      BY <1>4 DEF Ends
    <2>2. /\ IsFiniteSet(active')
          /\ Cardinality(active') = IF g \in active THEN a - 1 ELSE a
      BY <1>1, <2>1, FS_RemoveElement
    <2>3. CASE cache' = cache
      BY <1>1, <2>2, <2>3
    <2>4. CASE g \in Goals /\ DOMAIN cache' = C \cup {g}
      <3>1. g \in active
        <4>1. Len(stack) \in SubproofFrames
          <5>1. Len(stack) \in Nat \ {0}
            BY <1>4, PopFacts DEF IInv, TypeOK, Ends
          <5> QED BY <5>1, <2>4, GoalFields DEF SubproofFrames, Top
        <4> QED BY <4>1 DEF InProgressIsTheStack, Top
      <3>2. g \notin C
        BY <3>1 DEF InProgressIsTheStack
      <3>3. IsFiniteSet(DOMAIN cache') /\ Cardinality(DOMAIN cache') = c + 1
        BY <1>1, <2>4, <3>2, FS_AddElement
      <3>4. Cardinality(active') = a - 1
        BY <2>2, <3>1
      <3> QED BY <1>1, <2>2, <3>3, <3>4
    <2> QED BY <1>4, <2>3, <2>4 DEF Ends
  <1> QED BY <1>2, <1>3, <1>4 DEF SameActivations, EnterDisjoint

LEMMA StepWork ==
    ASSUME IInv, InProgressIsTheStack, WorkInv, [Next]_vars
    PROVE  WorkInv'
  <1> DEFINE n == Cardinality(DOMAIN cache) + Cardinality(active)
             m == Cardinality(DOMAIN cache') + Cardinality(active')
  <1>1. /\ spent \in Nat /\ spent' \in Nat /\ spent' >= spent
        /\ limit' # -1 => spent' <= limit'
    BY MeterGrows
  <1>2. /\ IsFiniteSet(DOMAIN cache') /\ IsFiniteSet(active')
        /\ (EnterSubproof /\ m = n + 1) \/ m <= n
    BY StepCases, StepCounts
  <1>3. n \in Nat /\ m \in Nat /\ n <= spent
    BY <1>2, FS_CardinalityType DEF WorkInv, WorkIsPaidFor
  <1>4. m <= spent'
    <2>1. EnterSubproof => spent' = spent + 1
      BY StepPays
    <2> HIDE DEF n, m
    <2> QED BY <1>1, <1>2, <1>3, <2>1
  <1> QED BY <1>1, <1>2, <1>4 DEF WorkInv, WorkIsPaidFor

(* An endeavor budget bounds the recursion: the meter stays at or below its*)
(* limit, and there are never more questions answered or in progress than  *)
(* it counts.                                                              *)
THEOREM MeterCoversTheWork == Spec => []WorkIsPaidFor
  <1>1. Init => InProgressIsTheStack /\ WorkInv
    BY InitStack, InitWork
  <1>2. IInv /\ (InProgressIsTheStack /\ WorkInv) /\ [Next]_vars
          => (InProgressIsTheStack /\ WorkInv)'
    BY StepStack, StepWork
  <1>3. InProgressIsTheStack /\ WorkInv => WorkIsPaidFor
    BY DEF WorkInv
  <1> QED BY <1>1, <1>2, <1>3, SpecIInv, PTL DEF Spec

-----------------------------------------------------------------------------
(* The refinement.                                                         *)

(* The two modules speak of the same questions and the same right results. *)
LEMMA OracleVocabulary ==
    /\ Oracle!Goals = Goals /\ Oracle!Results = Results
    /\ \A g, r : Oracle!Sound(g, r) <=> Sound(g, r)
  BY DEF Oracle!Goals, Goals, Oracle!Subproof, Subproof, Oracle!IrSubproof, IrSubproof,
     Oracle!Nodes, Nodes, Oracle!Results, Results, Oracle!Proved, Proved,
     Oracle!Unsupported, Unsupported, Oracle!Exhausted, Exhausted,
     Oracle!Refutations, Refutations, Oracle!Refuted, Refuted, Oracle!Sound, Sound,
     Oracle!Counterexamples, Counterexamples

LEMMA StepRefines ==
    ASSUME IInv, IInv', InProgressIsTheStack, [Next]_vars
    PROVE  [Oracle!Next]_cache
  <1>1. CASE SameActivations \/ EnterSubproof \/ EnterDisjoint
    BY <1>1 DEF SameActivations, EnterSubproof, EnterDisjoint
  <1>2. CASE Ends
    <2> DEFINE g == Top.goal
    <2>1. CASE cache' = cache
      BY <2>1
    <2>2. CASE /\ g \in Goals
               /\ DOMAIN cache' = DOMAIN cache \cup {g}
               /\ \A h \in DOMAIN cache \ {g} : cache'[h] = cache[h]
      <3>1. g \notin DOMAIN cache
        <4>1. Len(stack) \in SubproofFrames
          <5>1. Len(stack) \in Nat \ {0}
            BY <1>2, PopFacts DEF IInv, TypeOK, Ends
          <5> QED BY <5>1, <2>2, GoalFields DEF SubproofFrames, Top
        <4> QED BY <4>1 DEF InProgressIsTheStack, Top
      <3>2. cache'[g] \in Results /\ Sound(g, cache'[g])
        BY <2>2 DEF IInv, TypeOK, CacheSound
      <3>3. \A h \in DOMAIN cache : cache'[h] = cache[h]
        BY <2>2, <3>1
      <3> HIDE DEF g
      <3>4. Oracle!Decide(g)
        BY <2>2, <3>2, <3>3, OracleVocabulary DEF Oracle!Decide
      <3> QED BY <2>2, <3>1, <3>4, OracleVocabulary DEF Oracle!Next
    <2> QED BY <1>2, <2>1, <2>2 DEF Ends
  <1> QED BY <1>1, <1>2, StepCases

(* The context implements the oracle, whatever the terms, the rules and the*)
(* limit: a result enters the cache once, is right when it does, and is the*)
(* answer for the life of the context.                                     *)
THEOREM EngineImplementsOracle == Spec => ImplementsOracle
  <1>1. Init => Oracle!Init
    BY DEF Init, Oracle!Init, Oracle!Unsupported, Unsupported
  <1>2. IInv /\ IInv' /\ InProgressIsTheStack /\ [Next]_vars => [Oracle!Next]_cache
    BY StepRefines
  <1> QED BY <1>1, <1>2, SpecIInv, KeysMirrorTheStack, PTL
          DEF Spec, ImplementsOracle, Oracle!Spec
=============================================================================

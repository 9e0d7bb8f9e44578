---------------------------- MODULE CommonLemmas -----------------------------
(***************************************************************************)
(* What the proofs about several modules use.  In the place of induction:  *)
(* a set of numbers has a least one, and a function is defined by what it  *)
(* is at 0 and how it goes on; both are about sets, not operators, and can *)
(* be cited.  Of stacks: what is left when the top is taken off.           *)
(*                                                                         *)
(* The last part is about CountIntervals, which the array and the object   *)
(* rules share.  The compiler's sets of counts are intervals, merged in    *)
(* order and apart (Merged): they hold the same counts, an interval lies   *)
(* in such a set only if it lies in one of them, and the gaps between them *)
(* are the complement.  So the shapes of schemas that are met, joined and  *)
(* complemented bound what the schemas accept together.                    *)
(***************************************************************************)
EXTENDS CountIntervals, SequenceTheorems, FiniteSetTheorems, NaturalsInduction,
        WellFoundedInduction, TLAPS

(* A set of natural numbers has a least one.                               *)
LEMMA LeastNatural ==
    ASSUME NEW T \in SUBSET Nat, T # {}
    PROVE  \E n \in T : \A m \in T : n <= m
<1> DEFINE R == OpToRel(<, Nat)
<1>1. IsWellFoundedOn(R, Nat)
  BY NatLessThanWellFounded
<1>2. \A m, n \in Nat : <<m, n>> \in R <=> m < n
  BY DEF OpToRel
<1> HIDE DEF R
<1>3. PICK n \in T : \A m \in T : ~(<<m, n>> \in R)
  BY <1>1, WFMin
<1>4. \A m \in T : ~(m < n)
  BY <1>2, <1>3, Zenon
<1>5. \A m \in T : n <= m
  BY <1>4
<1> QED
  BY <1>5

(* The beginning of a sequence of values, each given by the one before.    *)
Begins(n, g, s0, G) ==
    /\ g[0] = s0
    /\ \A i \in 0 .. n - 1 : g[i + 1] = G[<<i, g[i]>>]

LEMMA OneBeginning ==
    ASSUME NEW s0, NEW G, NEW n \in Nat, NEW m \in Nat, n <= m, NEW g, NEW h,
           Begins(n, g, s0, G), Begins(m, h, s0, G)
    PROVE  \A i \in 0 .. n : g[i] = h[i]
<1> DEFINE T == {i \in 0 .. n : g[i] # h[i]}
<1>1. SUFFICES ASSUME T # {} PROVE FALSE
  OBVIOUS
<1>2. T \subseteq Nat
  OBVIOUS
<1> HIDE DEF T
<1>3. PICK i \in T : \A j \in T : i <= j
  BY <1>1, <1>2, LeastNatural
<1>4. i \in 0 .. n /\ g[i] # h[i]
  BY <1>3 DEF T
<1>5. i # 0
  BY <1>4 DEF Begins
<1>6. i - 1 \in 0 .. n - 1 /\ i - 1 \in 0 .. m - 1 /\ (i - 1) + 1 = i
  BY <1>4, <1>5
<1>7. g[i - 1] = h[i - 1]
  <2>1. i - 1 \notin T
    <3>1. ~(i <= i - 1)
      BY <1>4
    <3> QED
      BY <1>3, <3>1
  <2>2. i - 1 \in 0 .. n
    BY <1>4, <1>5
  <2> QED
    BY <2>1, <2>2 DEF T
<1>8. g[i] = G[<<i - 1, g[i - 1]>>] /\ h[i] = G[<<i - 1, h[i - 1]>>]
  BY <1>6 DEF Begins
<1> QED
  BY <1>4, <1>7, <1>8

LEMMA BeginningExists ==
    ASSUME NEW S, NEW s0 \in S, NEW G \in [Nat \X S -> S], NEW n \in Nat
    PROVE  \E g \in [0 .. n -> S] : Begins(n, g, s0, G)
<1> DEFINE T == {k \in Nat : ~ \E g \in [0 .. k -> S] : Begins(k, g, s0, G)}
<1>1. SUFFICES ASSUME T # {} PROVE FALSE
  OBVIOUS
<1>2. T \subseteq Nat
  OBVIOUS
<1> HIDE DEF T
<1>3. PICK k \in T : \A j \in T : k <= j
  BY <1>1, <1>2, LeastNatural
<1>4. k \in Nat /\ ~ \E g \in [0 .. k -> S] : Begins(k, g, s0, G)
  BY <1>3 DEF T
<1>5. CASE k = 0
  <2> DEFINE g == [i \in 0 .. 0 |-> s0]
  <2>1. g \in [0 .. k -> S] /\ Begins(k, g, s0, G)
    BY <1>5 DEF Begins
  <2> QED
    BY <1>4, <2>1
<1>6. CASE k # 0
  <2>1. k - 1 \in Nat /\ k - 1 \notin T
    <3>1. k - 1 \in Nat /\ ~(k <= k - 1)
      BY <1>4, <1>6
    <3> QED
      BY <1>3, <3>1
  <2>2. PICK h \in [0 .. k - 1 -> S] : Begins(k - 1, h, s0, G)
    BY <2>1 DEF T
  <2> DEFINE g == [i \in 0 .. k |-> IF i = k THEN G[<<k - 1, h[k - 1]>>] ELSE h[i]]
  <2>3. h[k - 1] \in S /\ G[<<k - 1, h[k - 1]>>] \in S
    BY <2>1, <2>2
  <2>4. \A i \in 0 .. k : i # k => i \in 0 .. k - 1
    BY <1>4
  <2>5. g \in [0 .. k -> S]
    BY <2>2, <2>3, <2>4
  <2>6. g[0] = s0
    BY <1>4, <1>6, <2>2 DEF Begins
  <2>7. ASSUME NEW i \in 0 .. k - 1
        PROVE  g[i + 1] = G[<<i, g[i]>>]
    <3>1. g[i] = h[i] /\ i \in 0 .. k /\ i + 1 \in 0 .. k
      BY <1>4, <2>7
    <3>2. CASE i = k - 1
      <4>1. i + 1 = k
        BY <1>4, <3>2
      <4> QED
        BY <3>1, <3>2, <4>1
    <3>3. CASE i # k - 1
      <4>1. i \in 0 .. (k - 1) - 1 /\ i + 1 # k
        BY <1>4, <3>3
      <4>2. h[i + 1] = G[<<i, h[i]>>]
        BY <2>2, <4>1 DEF Begins
      <4> QED
        BY <3>1, <4>1, <4>2
    <3> QED
      BY <3>2, <3>3
  <2> HIDE DEF g
  <2> QED
    BY <1>4, <2>5, <2>6, <2>7 DEF Begins
<1> QED
  BY <1>5, <1>6

(* A function of the numbers is given by its first value and a rule for    *)
(* the next one.                                                           *)
Follows(f, s0, G) ==
    /\ f[0] = s0
    /\ \A n \in Nat : f[n + 1] = G[<<n, f[n]>>]

LEMMA RecursiveFunction ==
    ASSUME NEW S, NEW s0 \in S, NEW G \in [Nat \X S -> S]
    PROVE  \E f \in [Nat -> S] : Follows(f, s0, G)
<1> DEFINE B(n) == CHOOSE g \in [0 .. n -> S] : Begins(n, g, s0, G)
           f == [n \in Nat |-> B(n)[n]]
<1>1. \A n \in Nat : B(n) \in [0 .. n -> S] /\ Begins(n, B(n), s0, G)
  BY BeginningExists
<1> HIDE DEF B
<1>2. f \in [Nat -> S]
  <2>1. \A n \in Nat : n \in 0 .. n
    OBVIOUS
  <2> QED
    BY <1>1, <2>1
<1>3. f[0] = s0
  BY <1>1 DEF Begins
<1>4. ASSUME NEW n \in Nat
      PROVE  f[n + 1] = G[<<n, f[n]>>]
  <2>1. n + 1 \in Nat /\ n <= n + 1 /\ n \in 0 .. (n + 1) - 1 /\ n \in 0 .. n
    OBVIOUS
  <2>2. Begins(n, B(n), s0, G) /\ Begins(n + 1, B(n + 1), s0, G)
    BY <1>1, <2>1
  <2>3. B(n)[n] = B(n + 1)[n]
    BY <2>1, <2>2, OneBeginning
  <2>4. B(n + 1)[n + 1] = G[<<n, B(n + 1)[n]>>]
    BY <2>1, <2>2 DEF Begins
  <2> QED
    BY <2>1, <2>3, <2>4
<1> HIDE DEF f
<1> QED
  BY <1>2, <1>3, <1>4 DEF Follows

(* A stack without its top.                                                *)
LEMMA PopFacts ==
    ASSUME NEW S, NEW s \in Seq(S), s # <<>>
    PROVE  LET n == Len(s)
               p == SubSeq(s, 1, n - 1)
           IN  /\ n \in Nat \ {0} /\ p \in Seq(S) /\ Len(p) = n - 1
               /\ \A i \in 1 .. n - 1 : p[i] = s[i]
<1> DEFINE n == Len(s)
<1>1. n \in Nat \ {0}
  BY EmptySeq
<1>2. \A i \in 1 .. n - 1 : s[i] \in S
  BY <1>1
<1> HIDE DEF n
<1>3. /\ SubSeq(s, 1, n - 1) \in Seq(S)
      /\ Len(SubSeq(s, 1, n - 1)) = IF 1 <= n - 1 THEN n - 1 - 1 + 1 ELSE 0
      /\ \A i \in 1 .. n - 1 - 1 + 1 : SubSeq(s, 1, n - 1)[i] = s[1 + i - 1]
  BY <1>1, <1>2, SubSeqProperties
<1>4. Len(SubSeq(s, 1, n - 1)) = n - 1
  BY <1>1, <1>3
<1>5. \A i \in 1 .. n - 1 : SubSeq(s, 1, n - 1)[i] = s[i]
  <2> TAKE i \in 1 .. n - 1
  <2>1. i \in 1 .. n - 1 - 1 + 1 /\ 1 + i - 1 = i
    BY <1>1
  <2> QED
    BY <1>3, <2>1
<1>6. /\ n \in Nat \ {0} /\ SubSeq(s, 1, n - 1) \in Seq(S) /\ Len(SubSeq(s, 1, n - 1)) = n - 1
      /\ \A i \in 1 .. n - 1 : SubSeq(s, 1, n - 1)[i] = s[i]
  BY <1>1, <1>3, <1>4, <1>5
<1> QED
  BY <1>6 DEF n
(* The greatest of a set of positions.                                     *)
LEMMA GreatestIndex ==
    ASSUME NEW n \in Nat, NEW s \in SUBSET (1 .. n), s # {}
    PROVE  Max(s) \in s /\ \A i \in s : i <= Max(s)
<1> DEFINE T == {n - i : i \in s}
<1>1. T \in SUBSET Nat /\ T # {}
  <2>1. \A i \in s : n - i \in Nat
    OBVIOUS
  <2>2. PICK i \in s : TRUE
    OBVIOUS
  <2> QED BY <2>1, <2>2
<1>2. PICK t \in T : \A m \in T : t <= m
  <2> HIDE DEF T
  <2> QED BY <1>1, LeastNatural
<1>3. PICK k \in s : t = n - k
  BY <1>2
<1>4. ASSUME NEW i \in s PROVE i <= k
  <2>1. n - i \in T
    OBVIOUS
  <2>2. n - k <= n - i
    <3> HIDE DEF T
    <3> QED BY <1>2, <1>3, <2>1
  <2>3. i \in Int /\ k \in Int
    OBVIOUS
  <2> HIDE DEF T
  <2> QED BY <2>2, <2>3
<1>5. \E x \in s : \A y \in s : x >= y
  <2> HIDE DEF T
  <2> QED BY <1>4
<1>6. Max(s) \in s /\ \A y \in s : Max(s) >= y
  <2> HIDE DEF T
  <2> QED BY <1>5 DEF Max
<1>7. \A y \in s : y \in Int
  OBVIOUS
<1> HIDE DEF T
<1> QED BY <1>6, <1>7

LEMMA LastIndex ==
    ASSUME NEW n \in Nat
    PROVE  /\ 1 .. n + 1 # {} /\ Max(1 .. n + 1) = n + 1
           /\ (1 .. n + 1) \ {n + 1} = 1 .. n
<1>1. 1 .. n + 1 # {} /\ n + 1 \in 1 .. n + 1
  OBVIOUS
<1>2. Max(1 .. n + 1) \in 1 .. n + 1 /\ n + 1 <= Max(1 .. n + 1)
  <2>1. n + 1 \in Nat /\ 1 .. n + 1 \in SUBSET (1 .. n + 1)
    OBVIOUS
  <2> QED BY <1>1, <2>1, GreatestIndex
<1>3. (1 .. n + 1) \ {n + 1} = 1 .. n
  OBVIOUS
<1> QED BY <1>1, <1>2, <1>3

(* Folds.  A fold takes the positions of a sequence off their set, the     *)
(* greatest first; G gives the value at a position from the value before.  *)
IsFold(n, f, s0, G) ==
    \A s \in SUBSET (1 .. n) :
      f[s] = IF s = {} THEN s0 ELSE G[<<Max(s) - 1, f[s \ {Max(s)}]>>]

LEMMA FoldExists ==
    ASSUME NEW n \in Nat, NEW S, NEW s0 \in S, NEW G \in [Nat \X S -> S]
    PROVE  \E f \in [SUBSET (1 .. n) -> S] : IsFold(n, f, s0, G)
<1> DEFINE D == SUBSET (1 .. n)
           F == [D -> S]
           f0 == [s \in D |-> s0]
           Upto(k, f) == [s \in D |-> IF k + 1 \in s /\ \A i \in s : i <= k + 1
                                      THEN G[<<k, f[s \ {k + 1}]>>] ELSE f[s]]
           H == [p \in Nat \X F |-> Upto(p[1], p[2])]
<1>1. f0 \in F
  OBVIOUS
<1>2. ASSUME NEW k \in Nat, NEW f \in F
      PROVE  Upto(k, f) \in F
  <2>1. ASSUME NEW s \in D
        PROVE  f[s] \in S /\ G[<<k, f[s \ {k + 1}]>>] \in S
    <3>1. s \ {k + 1} \in D
      OBVIOUS
    <3>2. f[s] \in S /\ f[s \ {k + 1}] \in S
      BY <3>1
    <3> QED BY <3>2
  <2> QED BY <2>1
<1>3. H \in [Nat \X F -> F]
  <2> HIDE DEF Upto, F
  <2> QED BY <1>2
<1>4. PICK h \in [Nat -> F] : Follows(h, f0, H)
  <2> HIDE DEF H, F, f0
  <2> QED BY <1>1, <1>3, RecursiveFunction
<1>5. ASSUME NEW k \in Nat
      PROVE  h[k] \in F /\ h[k + 1] = Upto(k, h[k])
  <2>1. h[k] \in F /\ h[k + 1] = H[<<k, h[k]>>]
    <3> HIDE DEF H, F, f0
    <3> QED BY <1>4 DEF Follows
  <2> HIDE DEF Upto, F
  <2> QED BY <2>1
<1>6. h[0] = f0
  BY <1>4 DEF Follows
<1> HIDE DEF H
(* What is said of a set is not changed once its greatest position is due. *)
<1> DEFINE T(s, m) == {j \in Nat : j >= m /\ h[j][s] # h[m][s]}
<1>7. ASSUME NEW s \in D, NEW m \in Nat, \A i \in s : i <= m, NEW j \in Nat, j >= m
      PROVE  h[j][s] = h[m][s]
  <2>1. SUFFICES ASSUME T(s, m) # {} PROVE FALSE
    BY <1>7
  <2>2. T(s, m) \in SUBSET Nat
    OBVIOUS
  <2>3. PICK l \in T(s, m) : \A i \in T(s, m) : l <= i
    <3> HIDE DEF T
    <3> QED BY <2>1, <2>2, LeastNatural
  <2>4. l \in Nat /\ l >= m /\ h[l][s] # h[m][s]
    BY <2>3
  <2>5. l # m /\ l - 1 \in Nat /\ l - 1 >= m /\ (l - 1) + 1 = l
    <3>1. l # m
      BY <2>4, Zenon
    <3> HIDE DEF T
    <3> QED BY <2>4, <3>1
  <2>6. h[l - 1][s] = h[m][s]
    <3>1. l - 1 \notin T(s, m)
      <4>1. ~(l <= l - 1)
        BY <2>4
      <4> HIDE DEF T
      <4> QED BY <2>3, <4>1
    <3> QED BY <2>5, <3>1
  <2>7. h[l] = Upto(l - 1, h[l - 1])
    <3> HIDE DEF Upto, F, D, T
    <3> QED BY <1>5, <2>5
  <2>8. l \notin s
    <3>1. ~(l <= m)
      BY <2>4, <2>5
    <3> QED BY <1>7, <3>1
  <2>9. h[l][s] = h[l - 1][s]
    <3>1. h[l][s] = IF l \in s /\ \A i \in s : i <= l
                    THEN G[<<l - 1, h[l - 1][s \ {l}]>>] ELSE h[l - 1][s]
      BY <2>5, <2>7
    <3> QED BY <2>8, <3>1
  <2> QED BY <2>4, <2>6, <2>9
<1>8. IsFold(n, h[n], s0, G)
  <2> SUFFICES ASSUME NEW s \in D
               PROVE  h[n][s] = IF s = {} THEN s0
                                ELSE G[<<Max(s) - 1, h[n][s \ {Max(s)}]>>]
    BY DEF IsFold
  <2>1. CASE s = {}
    <3>1. h[n][s] = h[0][s]
      <4> HIDE DEF D
      <4> QED BY <1>7, <2>1
    <3> QED BY <1>6, <2>1, <3>1
  <2>2. CASE s # {}
    <3> DEFINE m == Max(s)
    <3>1. m \in s /\ \A i \in s : i <= m
      BY <2>2, GreatestIndex
    <3> HIDE DEF m
    <3>2. m \in 1 .. n /\ m - 1 \in Nat /\ (m - 1) + 1 = m
      BY <3>1
    <3>3. h[n][s] = h[m][s]
      <4>1. n \in Nat /\ n >= m /\ m \in Nat
        BY <3>2
      <4> HIDE DEF D
      <4> QED BY <1>7, <3>1, <4>1
    <3>4. h[m] = Upto(m - 1, h[m - 1])
      <4> HIDE DEF Upto, F, D
      <4> QED BY <1>5, <3>2
    <3>5. h[m][s] = G[<<m - 1, h[m - 1][s \ {m}]>>]
      BY <3>1, <3>2, <3>4
    <3>6. h[n][s \ {m}] = h[m - 1][s \ {m}]
      <4>1. \A i \in s \ {m} : i <= m - 1
        <5>1. \A i \in s : i \in Int
          OBVIOUS
        <5> QED BY <3>1, <3>2, <5>1
      <4>2. s \ {m} \in D /\ n \in Nat /\ n >= m - 1
        BY <3>2
      <4> HIDE DEF D
      <4> QED BY <1>7, <3>2, <4>1, <4>2
    <3> QED BY <2>2, <3>3, <3>5, <3>6 DEF m
  <2> QED BY <2>1, <2>2
<1>9. h[n] \in [SUBSET (1 .. n) -> S]
  BY <1>5
<1> QED BY <1>8, <1>9

(* What holds at 0 and goes on to the next number holds up to n.           *)
LEMMA HoldsUpTo ==
    ASSUME NEW n \in Nat, NEW K, 0 \in K, \A k \in 0 .. n - 1 : k \in K => k + 1 \in K
    PROVE  \A k \in 0 .. n : k \in K
<1> DEFINE T == {k \in 0 .. n : k \notin K}
<1>1. SUFFICES ASSUME T # {} PROVE FALSE
  OBVIOUS
<1>2. T \in SUBSET Nat
  OBVIOUS
<1>3. PICK k \in T : \A j \in T : k <= j
  <2> HIDE DEF T
  <2> QED BY <1>1, <1>2, LeastNatural
<1>4. k \in 0 .. n /\ k \notin K /\ k # 0
  BY <1>3
<1>5. k - 1 \in 0 .. n - 1 /\ (k - 1) + 1 = k /\ k - 1 \in 0 .. n /\ ~(k <= k - 1)
  <2> HIDE DEF T
  <2> QED BY <1>4
<1>6. k - 1 \in K
  BY <1>3, <1>5
<1> HIDE DEF T
<1> QED BY <1>4, <1>5, <1>6

(* A sequence that grows step by step has what each step adds.             *)
LEMMA Collected ==
    ASSUME NEW n \in Nat, NEW T, NEW E, NEW g, g[0] = <<>>,
           \A k \in 0 .. n - 1 : g[k] \in Seq(T) =>
              g[k + 1] \in Seq(T) /\ ToSet(g[k + 1]) = ToSet(g[k]) \cup E[k + 1]
    PROVE  /\ g[n] \in Seq(T)
           /\ \A x : x \in ToSet(g[n]) <=> \E k \in 1 .. n : x \in E[k]
<1> DEFINE From(k) == \A x : x \in ToSet(g[k]) <=> \E j \in 1 .. k : x \in E[j]
           K == {k \in 0 .. n : g[k] \in Seq(T) /\ From(k)}
<1>1. 0 \in K
  <2>1. ToSet(g[0]) = {}
    <3>1. ToSet(<<>>) = {}
      BY DEF ToSet
    <3> QED BY <3>1
  <2>2. g[0] \in Seq(T)
    BY EmptySeq
  <2>3. From(0)
    BY <2>1
  <2>4. 0 \in 0 .. n
    OBVIOUS
  <2> HIDE DEF From
  <2> QED BY <2>2, <2>3, <2>4
<1>2. ASSUME NEW k \in 0 .. n - 1, k \in K
      PROVE  k + 1 \in K
  <2>1. k + 1 \in 0 .. n /\ 1 .. k + 1 = (1 .. k) \cup {k + 1}
    OBVIOUS
  <2>2. g[k + 1] \in Seq(T) /\ ToSet(g[k + 1]) = ToSet(g[k]) \cup E[k + 1]
    BY <1>2
  <2>3. From(k + 1)
    BY <1>2, <2>1, <2>2
  <2> HIDE DEF From
  <2> QED BY <2>1, <2>2, <2>3
<1>3. n \in K
  <2>1. n \in 0 .. n
    OBVIOUS
  <2> HIDE DEF K
  <2> QED BY <1>1, <1>2, <2>1, HoldsUpTo
<1> QED BY <1>3

LEMMA AppendSet ==
    ASSUME NEW T, NEW s \in Seq(T), NEW e \in T
    PROVE  Append(s, e) \in Seq(T) /\ ToSet(Append(s, e)) = ToSet(s) \cup {e}
<1> DEFINE a == Append(s, e)
<1>1. /\ a \in Seq(T) /\ Len(a) = Len(s) + 1 /\ a[Len(s) + 1] = e
      /\ \A i \in 1 .. Len(s) : a[i] = s[i]
  BY AppendProperties
<1>2. Len(s) \in Nat /\ DOMAIN s = 1 .. Len(s) /\ DOMAIN a = 1 .. Len(s) + 1
  BY <1>1, LenProperties
<1> HIDE DEF a
<1>3. 1 .. Len(s) + 1 = (1 .. Len(s)) \cup {Len(s) + 1}
  BY <1>2
<1>4. ToSet(a) = {a[i] : i \in (1 .. Len(s)) \cup {Len(s) + 1}}
  BY <1>2, <1>3 DEF ToSet
<1>5. ToSet(s) = {s[i] : i \in 1 .. Len(s)}
  BY <1>2 DEF ToSet
<1>6. ToSet(a) = ToSet(s) \cup {e}
  BY <1>1, <1>4, <1>5
<1> QED BY <1>1, <1>6 DEF a

LEMMA ConcatSet ==
    ASSUME NEW T, NEW s \in Seq(T), NEW t \in Seq(T)
    PROVE  s \o t \in Seq(T) /\ ToSet(s \o t) = ToSet(s) \cup ToSet(t)
<1> DEFINE a == s \o t
           m == Len(s)
           n == Len(t)
<1>1. /\ a \in Seq(T) /\ Len(a) = m + n
      /\ \A i \in 1 .. m + n : a[i] = IF i <= m THEN s[i] ELSE t[i - m]
  BY ConcatProperties
<1>2. /\ m \in Nat /\ n \in Nat /\ DOMAIN s = 1 .. m /\ DOMAIN t = 1 .. n
      /\ DOMAIN a = 1 .. m + n
  BY <1>1, LenProperties
<1> HIDE DEF a, m, n
<1>3. ASSUME NEW x \in ToSet(a) PROVE x \in ToSet(s) \cup ToSet(t)
  <2>1. PICK i \in 1 .. m + n : x = a[i]
    BY <1>2 DEF ToSet
  <2>2. i <= m => i \in 1 .. m
    BY <1>2
  <2>3. ~(i <= m) => i - m \in 1 .. n
    BY <1>2
  <2> QED BY <1>1, <1>2, <2>1, <2>2, <2>3 DEF ToSet
<1>4. ASSUME NEW x \in ToSet(s) PROVE x \in ToSet(a)
  <2>1. PICK i \in 1 .. m : x = s[i]
    BY <1>2 DEF ToSet
  <2>2. i \in 1 .. m + n /\ i <= m
    BY <1>2
  <2> QED BY <1>1, <1>2, <2>1, <2>2 DEF ToSet
<1>5. ASSUME NEW x \in ToSet(t) PROVE x \in ToSet(a)
  <2>1. PICK i \in 1 .. n : x = t[i]
    BY <1>2 DEF ToSet
  <2>2. i + m \in 1 .. m + n /\ ~(i + m <= m) /\ (i + m) - m = i
    BY <1>2
  <2>3. x = a[i + m]
    BY <1>1, <2>1, <2>2
  <2> QED BY <1>2, <2>2, <2>3 DEF ToSet
<1>6. ToSet(a) = ToSet(s) \cup ToSet(t)
  BY <1>3, <1>4, <1>5
<1> QED BY <1>1, <1>6 DEF a

LEMMA InsertSet ==
    ASSUME NEW T, NEW s \in Seq(T), NEW e \in T, NEW k \in 0 .. Len(s)
    PROVE  /\ InsertAt(s, 1 + k, e) \in Seq(T)
           /\ ToSet(InsertAt(s, 1 + k, e)) = ToSet(s) \cup {e}
<1> DEFINE n == Len(s)
           p == SubSeq(s, 1, k)
           q == SubSeq(s, k + 1, n)
           m == <<e>>
<1>1. n \in Nat /\ k \in Nat /\ k <= n
  BY LenProperties
<1>2. \A i \in 1 .. n : s[i] \in T
  BY ElementOfSeq
<1>3. p \in Seq(T) /\ q \in Seq(T)
  <2>1. \A i \in 1 .. k : s[i] \in T
    BY <1>1, <1>2
  <2>2. \A i \in k + 1 .. n : s[i] \in T
    BY <1>1, <1>2
  <2>3. 1 \in Int /\ k \in Int /\ k + 1 \in Int /\ n \in Int
    BY <1>1
  <2> HIDE DEF n
  <2> QED BY <2>1, <2>2, <2>3, SubSeqProperties
<1>4. p \o q = s
  <2>1. /\ 1 \in 1 .. n + 1 /\ k \in 1 - 1 .. n /\ n \in k .. n
    BY <1>1
  <2>2. p \o q = SubSeq(s, 1, n)
    BY <2>1, ConcatAdjacentSubSeq
  <2> QED BY <2>2, SubSeqFull
<1>5. m \in Seq(T) /\ ToSet(m) = {e}
  <2>1. m \in Seq(T)
    OBVIOUS
  <2>2. DOMAIN m = {1} /\ m[1] = e
    OBVIOUS
  <2> HIDE DEF m
  <2> QED BY <2>1, <2>2 DEF ToSet
<1>6. InsertAt(s, 1 + k, e) = (p \o m) \o q
  <2>1. (1 + k) - 1 = k /\ 1 + k = k + 1
    BY <1>1
  <2> QED BY <2>1 DEF InsertAt
<1> HIDE DEF p, q, m, n
<1>7. p \o m \in Seq(T) /\ ToSet(p \o m) = ToSet(p) \cup {e}
  BY <1>3, <1>5, ConcatSet
<1>8. (p \o m) \o q \in Seq(T) /\ ToSet((p \o m) \o q) = ToSet(p \o m) \cup ToSet(q)
  <2> DEFINE r == p \o m
  <2>1. r \in Seq(T)
    BY <1>7
  <2> HIDE DEF r
  <2>2. r \o q \in Seq(T) /\ ToSet(r \o q) = ToSet(r) \cup ToSet(q)
    BY <1>3, <2>1, ConcatSet
  <2> QED BY <2>2 DEF r
<1>9. ToSet(s) = ToSet(p) \cup ToSet(q)
  BY <1>3, <1>4, ConcatSet
<1> QED BY <1>6, <1>7, <1>8, <1>9

(* The sequences of a sequence, one after the other.                       *)
LEMMA Flattened ==
    ASSUME NEW T, NEW s \in Seq(Seq(T))
    PROVE  /\ FlattenSeq(s) \in Seq(T)
           /\ \A x : x \in ToSet(FlattenSeq(s)) <=> \E k \in DOMAIN s : x \in ToSet(s[k])
<1> DEFINE n == Len(s)
<1>1. n \in Nat /\ DOMAIN s = 1 .. n /\ \A k \in 1 .. n : s[k] \in Seq(T)
  BY LenProperties, ElementOfSeq
<1>2. CASE n = 0
  <2>1. FlattenSeq(s) = s /\ s = <<>> /\ <<>> \in Seq(T) /\ 1 .. 0 = {}
    BY <1>2, EmptySeq DEF FlattenSeq
  <2> QED BY <1>1, <1>2, <2>1 DEF ToSet
<1>3. CASE n # 0
  <2> DEFINE IsFlat(f) == f = [i \in 1 .. n |-> IF i = 1 THEN s[i] ELSE f[i - 1] \o s[i]]
             c == CHOOSE f : IsFlat(f)
             G == [p \in Nat \X Seq(T) |->
                     IF p[1] + 2 \in 1 .. n THEN p[2] \o s[p[1] + 2] ELSE p[2]]
  <2>1. FlattenSeq(s) = c[n]
    BY <1>3 DEF FlattenSeq
  <2>2. G \in [Nat \X Seq(T) -> Seq(T)]
    <3>1. ASSUME NEW p \in Nat \X Seq(T), p[1] + 2 \in 1 .. n
          PROVE  p[2] \o s[p[1] + 2] \in Seq(T)
      BY <1>1, <3>1, ConcatProperties
    <3> QED BY <3>1
  <2>3. s[1] \in Seq(T) /\ n - 1 \in Nat
    BY <1>1, <1>3
  <2>4. PICK g \in [0 .. n - 1 -> Seq(T)] : Begins(n - 1, g, s[1], G)
    <3> HIDE DEF G
    <3> QED BY <2>2, <2>3, BeginningExists
  <2>5. IsFlat([i \in 1 .. n |-> g[i - 1]])
    <3> DEFINE f == [i \in 1 .. n |-> g[i - 1]]
    <3>1. ASSUME NEW i \in 1 .. n
          PROVE  f[i] = IF i = 1 THEN s[i] ELSE f[i - 1] \o s[i]
      <4>1. CASE i = 1
        BY <1>1, <2>4, <4>1 DEF Begins
      <4>2. CASE i # 1
        <5>1. /\ i - 2 \in 0 .. (n - 1) - 1 /\ (i - 2) + 1 = i - 1 /\ i - 1 \in 1 .. n
              /\ (i - 1) - 1 = i - 2 /\ i - 2 \in Nat /\ (i - 2) + 2 = i /\ i - 2 \in 0 .. n - 1
          BY <1>1, <4>2
        <5>2. g[i - 1] = G[<<i - 2, g[i - 2]>>]
          BY <2>4, <5>1 DEF Begins
        <5>3. g[i - 1] = g[i - 2] \o s[i]
          BY <2>4, <5>1, <5>2
        <5> QED BY <4>2, <5>1, <5>3
      <4> QED BY <4>1, <4>2
    <3>2. f = [i \in 1 .. n |-> f[i]]
      OBVIOUS
    <3> HIDE DEF f
    <3>3. f = [i \in 1 .. n |-> IF i = 1 THEN s[i] ELSE f[i - 1] \o s[i]]
      BY <3>1, <3>2
    <3> QED BY <3>3 DEF f
  <2>6. IsFlat(c)
    <3> HIDE DEF IsFlat
    <3> QED BY <2>5
  <2> DEFINE h == [k \in 0 .. n |-> IF k = 0 THEN <<>> ELSE c[k]]
             E == [k \in 1 .. n |-> ToSet(s[k])]
  <2>7. h[0] = <<>>
    BY <1>1
  <2>8. ASSUME NEW k \in 0 .. n - 1, h[k] \in Seq(T)
        PROVE  h[k + 1] \in Seq(T) /\ ToSet(h[k + 1]) = ToSet(h[k]) \cup E[k + 1]
    <3>1. k + 1 \in 1 .. n /\ k + 1 \in 0 .. n /\ k + 1 # 0 /\ (k + 1) - 1 = k /\ k \in 0 .. n
      BY <1>1
    <3>2. h[k + 1] = c[k + 1]
      BY <3>1
    <3>3. c[k + 1] = IF k + 1 = 1 THEN s[k + 1] ELSE c[k] \o s[k + 1]
      <4> HIDE DEF c
      <4> QED BY <2>6, <3>1
    <3>4. CASE k = 0
      <4>1. h[k] = <<>> /\ ToSet(<<>>) = {} /\ h[k + 1] = s[k + 1]
        BY <3>2, <3>3, <3>4, <2>7 DEF ToSet
      <4> QED BY <1>1, <3>1, <4>1
    <3>5. CASE k # 0
      <4>1. h[k] = c[k] /\ h[k + 1] = h[k] \o s[k + 1]
        <5>1. h[k] = c[k]
          <6> HIDE DEF c
          <6> QED BY <3>1, <3>5
        <5>2. k + 1 # 1
          BY <3>1, <3>5
        <5>3. h[k + 1] = c[k] \o s[k + 1]
          <6> HIDE DEF c, h
          <6> QED BY <3>2, <3>3, <5>2
        <5> HIDE DEF c, h
        <5> QED BY <5>1, <5>3
      <4>2. /\ h[k] \o s[k + 1] \in Seq(T)
            /\ ToSet(h[k] \o s[k + 1]) = ToSet(h[k]) \cup ToSet(s[k + 1])
        <5> HIDE DEF h
        <5> QED BY <1>1, <2>8, <3>1, ConcatSet
      <4> QED BY <3>1, <4>1, <4>2
    <3> QED BY <3>4, <3>5
  <2> HIDE DEF h, E
  <2>9. h[n] \in Seq(T) /\ \A x : x \in ToSet(h[n]) <=> \E k \in 1 .. n : x \in E[k]
    BY <1>1, <2>7, <2>8, Collected
  <2>10. h[n] = c[n]
    BY <1>1, <1>3 DEF h
  <2>11. \A x, k : k \in 1 .. n => (x \in E[k] <=> x \in ToSet(s[k]))
    BY DEF E
  <2> QED BY <1>1, <2>1, <2>9, <2>10, <2>11
<1> QED BY <1>2, <1>3

-----------------------------------------------------------------------------
(* Divisibility.                                                           *)

(* A remainder of zero says that there is a factor.                        *)
Factor(x, m) == \E k \in Int : x = m * k

(* The remainder of a division is zero just when there is a factor.        *)
LEMMA Multiples ==
    ASSUME NEW x \in Int, NEW m \in Nat \ {0}
    PROVE  x % m = 0 <=> Factor(x, m)
  <1>1. x % m = 0 => Factor(x, m)
    <2>1. x % m = 0 => x = m * (x \div m) /\ x \div m \in Int
      OBVIOUS
    <2> QED BY <2>1 DEF Factor
  <1>2. ASSUME NEW k \in Int PROVE (m * k) % m = 0
    OBVIOUS
  <1> QED BY <1>1, <1>2 DEF Factor

(* Sums of multiples of two multiples of m are multiples of m.             *)
LEMMA Sums ==
    ASSUME NEW m \in Int, NEW x \in Int, NEW y \in Int, Factor(x, m), Factor(y, m),
           NEW s \in Int, NEW t \in Int
    PROVE  Factor(s * x + t * y, m)
  <1>1. PICK j \in Int : x = m * j
    BY DEF Factor
  <1>2. PICK k \in Int : y = m * k
    BY DEF Factor
  <1>3. s * x + t * y = m * (s * j + t * k) /\ s * j + t * k \in Int
    BY <1>1, <1>2
  <1> QED BY <1>3 DEF Factor

(* A divisor of a positive number is not greater than it.                  *)
LEMMA FactorBound ==
    ASSUME NEW x \in Nat \ {0}, NEW m \in Nat \ {0}, Factor(x, m)
    PROVE  m <= x
  <1>1. PICK k \in Int : x = m * k
    BY DEF Factor
  <1>2. k >= 1
    <2>1. k <= 0 => m * k <= 0
      OBVIOUS
    <2> QED BY <1>1, <2>1
  <1>3. m * k = m + m * (k - 1) /\ m * (k - 1) >= 0
    BY <1>2
  <1> QED BY <1>1, <1>3

(* Divisibility is transitive.                                             *)
LEMMA FactorOfFactor ==
    ASSUME NEW x \in Int, NEW m \in Int, NEW d \in Int, Factor(x, m), Factor(m, d)
    PROVE  Factor(x, d)
  <1>1. PICK j \in Int : x = m * j
    BY DEF Factor
  <1>2. PICK k \in Int : m = d * k
    BY DEF Factor
  <1>3. x = d * (k * j) /\ k * j \in Int
    BY <1>1, <1>2
  <1> QED BY <1>3 DEF Factor

(* The greatest common divisor is a sum of multiples of the two numbers.   *)
Combination(x, y, d) == \E s \in Int, t \in Int : d = s * x + t * y

(* The least positive sum of multiples of two numbers divides both.        *)
LEMMA LeastCombination ==
    ASSUME NEW x \in Nat \ {0}, NEW y \in Nat \ {0}
    PROVE  \E d \in Nat \ {0} : Combination(x, y, d) /\ Factor(x, d) /\ Factor(y, d)
  <1> DEFINE S == {d \in Nat \ {0} : Combination(x, y, d)}
  <1>1. x \in S /\ S \in SUBSET Nat
    <2>1. x = 1 * x + 0 * y
      OBVIOUS
    <2> QED BY <2>1 DEF Combination
  <1>2. PICK d \in S : \A e \in S : d <= e
    <2> HIDE DEF S
    <2> QED BY <1>1, LeastNatural
  <1>3. d \in Nat \ {0}
    OBVIOUS
  <1>4. PICK s \in Int, t \in Int : d = s * x + t * y
    BY DEF Combination
  <1>5. x % d = 0
    <2> DEFINE q == x \div d
    <2>1. q \in Int /\ x = d * q + (x % d) /\ x % d \in 0 .. d - 1
      BY <1>3
    <2> HIDE DEF q
    <2>2. x % d = (1 - s * q) * x + (0 - t * q) * y
      <3>1. d * q = s * q * x + t * q * y
        BY <1>4, <2>1
      <3>2. (1 - s * q) * x + (0 - t * q) * y = x - (s * q * x + t * q * y)
        BY <2>1
      <3>3. s * q * x + t * q * y \in Int
        BY <2>1
      <3> QED BY <2>1, <3>1, <3>2, <3>3
    <2>3. 1 - s * q \in Int /\ 0 - t * q \in Int
      BY <2>1
    <2>4. Combination(x, y, x % d)
      BY <2>2, <2>3 DEF Combination
    <2>5. x % d \in S => d <= x % d
      <3> HIDE DEF S
      <3> QED BY <1>2
    <2> QED BY <1>3, <2>1, <2>4, <2>5
  <1>6. y % d = 0
    <2> DEFINE q == y \div d
    <2>1. q \in Int /\ y = d * q + (y % d) /\ y % d \in 0 .. d - 1
      BY <1>3
    <2> HIDE DEF q
    <2>2. y % d = (0 - s * q) * x + (1 - t * q) * y
      <3>1. d * q = s * q * x + t * q * y
        BY <1>4, <2>1
      <3>2. (0 - s * q) * x + (1 - t * q) * y = y - (s * q * x + t * q * y)
        BY <2>1
      <3>3. s * q * x + t * q * y \in Int
        BY <2>1
      <3> QED BY <2>1, <3>1, <3>2, <3>3
    <2>3. 0 - s * q \in Int /\ 1 - t * q \in Int
      BY <2>1
    <2>4. Combination(x, y, y % d)
      BY <2>2, <2>3 DEF Combination
    <2>5. y % d \in S => d <= y % d
      <3> HIDE DEF S
      <3> QED BY <1>2
    <2> QED BY <1>3, <2>1, <2>4, <2>5
  <1> QED BY <1>2, <1>3, <1>5, <1>6, Multiples

(* Two numbers without a common divisor.                                   *)
Coprime(x, y) == \E s \in Int, t \in Int : s * x + t * y = 1

(* What is coprime to a number is coprime to its divisors.                 *)
LEMMA CoprimeToFactor ==
    ASSUME NEW x \in Int, NEW y \in Int, NEW z \in Int, Coprime(x, z), Factor(z, y)
    PROVE  Coprime(x, y)
  <1>1. PICK s \in Int, t \in Int : s * x + t * z = 1
    BY DEF Coprime
  <1>2. PICK h \in Int : z = y * h
    BY DEF Factor
  <1>3. s * x + (t * h) * y = 1 /\ t * h \in Int
    BY <1>1, <1>2
  <1> QED BY <1>3 DEF Coprime

(* Being coprime goes both ways.                                           *)
LEMMA CoprimeSymmetric ==
    ASSUME NEW x \in Int, NEW y \in Int, Coprime(x, y)
    PROVE  Coprime(y, x)
  <1>1. PICK s \in Int, t \in Int : s * x + t * y = 1
    BY DEF Coprime
  <1>2. t * y + s * x = 1
    BY <1>1
  <1> QED BY <1>2 DEF Coprime

(* A number coprime to one factor of a product divides the other.          *)
LEMMA Euclid ==
    ASSUME NEW x \in Int, NEW y \in Int, NEW z \in Int, Coprime(x, y), Factor(x * z, y)
    PROVE  Factor(z, y)
  <1>1. PICK s \in Int, t \in Int : s * x + t * y = 1
    BY DEF Coprime
  <1>2. PICK k \in Int : x * z = y * k
    BY DEF Factor
  <1>3. z = y * (s * k + t * z)
    <2>1. z = (s * x + t * y) * z
      BY <1>1
    <2>2. (s * x + t * y) * z = s * (x * z) + t * y * z
      OBVIOUS
    <2>3. s * (y * k) + t * y * z = y * (s * k + t * z)
      OBVIOUS
    <2> QED BY <1>2, <2>1, <2>2, <2>3
  <1>4. s * k + t * z \in Int
    OBVIOUS
  <1> QED BY <1>3, <1>4 DEF Factor

(* A positive factor of both sides of an equation may be dropped.          *)
LEMMA Cancel ==
    ASSUME NEW g \in Nat \ {0}, NEW x \in Int, NEW y \in Int, g * x = g * y
    PROVE  x = y
  OBVIOUS

-----------------------------------------------------------------------------
(* Folding a sequence, and taking it apart.                                *)

(* The first k + 1 positions of n: the greatest is k + 1, and k are before *)
(* it.                                                                     *)
LEMMA UpToHere ==
    ASSUME NEW n \in Nat, NEW k \in 0 .. n - 1
    PROVE  /\ 1 .. k + 1 \in SUBSET (1 .. n) /\ 1 .. k + 1 # {} /\ Max(1 .. k + 1) = k + 1
           /\ (1 .. k + 1) \ {k + 1} = 1 .. k
           /\ k \in Nat /\ k + 1 \in 1 .. n
  <1>1. k \in Nat /\ k + 1 \in 1 .. n /\ 1 .. k + 1 \in SUBSET (1 .. n)
    OBVIOUS
  <1> QED BY <1>1, LastIndex

(* f folds t with H: the value of a set of positions is that of the        *)
(* greatest with the values before.                                        *)
FoldsOver(n, f, base, H, t, C) ==
    \A S \in SUBSET (1 .. n) :
      /\ S = {} => f[S] = base
      /\ S # {} => /\ Max(S) \in 1 .. n /\ f[S \ {Max(S)}] \in C
                   /\ f[S] = H[<<f[S \ {Max(S)}], t[Max(S)]>>]

(* Every fold of a sequence has its value.                                 *)
LEMMA FoldBy ==
    ASSUME NEW C, NEW B, NEW n \in Nat, NEW t, \A k \in 1 .. n : t[k] \in B,
           NEW base \in C, NEW H \in [C \X B -> C]
    PROVE  \E f \in [SUBSET (1 .. n) -> C] : FoldsOver(n, f, base, H, t, C)
  <1> DEFINE D == SUBSET (1 .. n)
             G == [p \in Nat \X C |-> IF p[1] + 1 \in 1 .. n THEN H[<<p[2], t[p[1] + 1]>>]
                                      ELSE p[2]]
  <1>1. G \in [Nat \X C -> C]
    OBVIOUS
  <1>2. PICK f \in [D -> C] : IsFold(n, f, base, G)
    <2> HIDE DEF G
    <2> QED BY <1>1, FoldExists
  <1>3. ASSUME NEW S \in D
        PROVE  /\ S = {} => f[S] = base
               /\ S # {} => /\ Max(S) \in 1 .. n /\ f[S \ {Max(S)}] \in C
                            /\ f[S] = H[<<f[S \ {Max(S)}], t[Max(S)]>>]
    <2>1. f[S] = IF S = {} THEN base ELSE G[<<Max(S) - 1, f[S \ {Max(S)}]>>]
      BY <1>2 DEF IsFold
    <2>2. CASE S = {}
      BY <2>1, <2>2
    <2>3. CASE S # {}
      <3> DEFINE m == Max(S)
      <3>1. m \in 1 .. n
        BY <2>3, GreatestIndex
      <3> HIDE DEF m
      <3>2. m - 1 \in Nat /\ (m - 1) + 1 = m
        BY <3>1
      <3>3. S \ {m} \in D
        OBVIOUS
      <3>4. f[S \ {m}] \in C
        <4> HIDE DEF D
        <4> QED BY <3>3
      <3>5. G[<<m - 1, f[S \ {m}]>>] = H[<<f[S \ {m}], t[m]>>]
        BY <3>1, <3>2, <3>4
      <3> QED BY <2>1, <2>3, <3>1, <3>4, <3>5 DEF m
    <2> QED BY <2>2, <2>3
  <1>4. FoldsOver(n, f, base, H, t, C)
    BY <1>3 DEF FoldsOver
  <1> QED BY <1>4

(* A sequence has its first element and those of its tail.                 *)
LEMMA HeadAndTail ==
    ASSUME NEW T, NEW s \in Seq(T), s # <<>>
    PROVE  /\ Head(s) \in T /\ Tail(s) \in Seq(T)
           /\ ToSet(s) = {Head(s)} \cup ToSet(Tail(s))
  <1> DEFINE n == Len(s)
             t == Tail(s)
  <1>1. /\ Head(s) = s[1] /\ t \in Seq(T) /\ Len(t) = n - 1
        /\ n \in Nat \ {0} /\ DOMAIN s = 1 .. n /\ DOMAIN t = 1 .. n - 1
        /\ s[1] \in T /\ \A k \in 1 .. n - 1 : t[k] = s[k + 1]
    BY EmptySeq, LenProperties, ElementOfSeq, HeadTailProperties
  <1> HIDE DEF n, t
  <1>2. \A k \in 1 .. n : k = 1 \/ (k - 1 \in 1 .. n - 1 /\ s[k] = t[k - 1])
    BY <1>1
  <1>3. \A k \in 1 .. n - 1 : k + 1 \in 1 .. n
    BY <1>1
  <1>5. /\ \A x : x \in ToSet(s) <=> \E k \in 1 .. n : x = s[k]
        /\ \A x : x \in ToSet(t) <=> \E k \in 1 .. n - 1 : x = t[k]
    BY <1>1 DEF ToSet
  <1>6. ASSUME NEW x \in ToSet(s) PROVE x = s[1] \/ x \in ToSet(t)
    BY <1>2, <1>5
  <1>7. ASSUME NEW x \in ToSet(t) PROVE x \in ToSet(s)
    BY <1>1, <1>3, <1>5
  <1>8. s[1] \in ToSet(s)
    BY <1>1, <1>5
  <1>4. \A x : x \in ToSet(s) <=> x = s[1] \/ x \in ToSet(t)
    BY <1>6, <1>7, <1>8
  <1> QED BY <1>1, <1>4 DEF t

-----------------------------------------------------------------------------
(* Order: the members of a finite set one after the other.                 *)

(* How many members of S come before x.                                    *)
RankIn(S, R, x) == Cardinality({y \in S : <<y, x>> \in R})

(* In a finite set that is totally ordered, each position has one member.  *)
LEMMA Ranks ==
    ASSUME NEW S, IsFiniteSet(S), NEW R,
           \A x \in S : <<x, x>> \notin R,
           \A x, y, z \in S : <<x, y>> \in R /\ <<y, z>> \in R => <<x, z>> \in R,
           \A x, y \in S : x = y \/ <<x, y>> \in R \/ <<y, x>> \in R
    PROVE  /\ Cardinality(S) \in Nat
           /\ \A x \in S : RankIn(S, R, x) \in 0 .. Cardinality(S) - 1
           /\ \A x, y \in S : <<x, y>> \in R => RankIn(S, R, x) < RankIn(S, R, y)
           /\ \A k \in 1 .. Cardinality(S) : \E x \in S : RankIn(S, R, x) = k - 1
  <1> DEFINE n == Cardinality(S)
             Up(x) == {y \in S : <<y, x>> \in R}
             f == [x \in S |-> RankIn(S, R, x) + 1]
  <1>1. n \in Nat
    BY FS_CardinalityType
  <1>2. ASSUME NEW x \in S
        PROVE  /\ IsFiniteSet(Up(x)) /\ Cardinality(Up(x)) \in Nat
               /\ RankIn(S, R, x) = Cardinality(Up(x))
    <2>1. Up(x) \in SUBSET S
      OBVIOUS
    <2>2. IsFiniteSet(Up(x))
      BY <2>1, FS_Subset
    <2> QED BY <2>2, FS_CardinalityType DEF RankIn
  <1>3. ASSUME NEW x \in S
        PROVE  Cardinality(Up(x)) < n
    <2>1. Up(x) \in SUBSET S /\ x \notin Up(x)
      OBVIOUS
    <2>2. Cardinality(Up(x)) <= n /\ (n = Cardinality(Up(x)) => S = Up(x))
      <3> HIDE DEF Up
      <3> QED BY <2>1, FS_Subset
    <2>3. n # Cardinality(Up(x))
      BY <2>1, <2>2
    <2> HIDE DEF Up
    <2> QED BY <1>1, <1>2, <2>2, <2>3
  <1>4. ASSUME NEW x \in S, NEW y \in S, <<x, y>> \in R
        PROVE  Cardinality(Up(x)) < Cardinality(Up(y))
    <2>1. Up(x) \in SUBSET Up(y) /\ x \notin Up(x) /\ x \in Up(y)
      BY <1>4
    <2>2. IsFiniteSet(Up(y)) /\ Cardinality(Up(x)) \in Nat /\ Cardinality(Up(y)) \in Nat
      BY <1>2
    <2>3. /\ Cardinality(Up(x)) <= Cardinality(Up(y))
          /\ Cardinality(Up(y)) = Cardinality(Up(x)) => Up(y) = Up(x)
      <3> HIDE DEF Up
      <3> QED BY <2>1, <2>2, FS_Subset
    <2>4. Cardinality(Up(y)) # Cardinality(Up(x))
      BY <2>1, <2>3
    <2> HIDE DEF Up
    <2> QED BY <2>2, <2>3, <2>4
  <1>5. \A x \in S : RankIn(S, R, x) \in 0 .. n - 1
    <2> HIDE DEF Up
    <2> QED BY <1>1, <1>2, <1>3
  <1>6. \A x, y \in S : <<x, y>> \in R => RankIn(S, R, x) < RankIn(S, R, y)
    <2> HIDE DEF Up
    <2> QED BY <1>2, <1>4
  <1>7. f \in Injection(S, 1 .. n)
    <2> DEFINE rank(x) == RankIn(S, R, x)
    <2>1. \A x \in S : rank(x) \in 0 .. n - 1
      BY <1>5
    <2>2. \A x, y \in S : <<x, y>> \in R => rank(x) < rank(y)
      BY <1>6
    <2>3. \A x \in S : rank(x) \in Int /\ f[x] = rank(x) + 1 /\ f[x] \in 1 .. n
      <3> HIDE DEF rank
      <3>1. f = [x \in S |-> rank(x) + 1]
        BY DEF rank
      <3> QED BY <1>1, <2>1, <3>1
    <2>4. f \in [S -> 1 .. n]
      <3>1. f = [x \in S |-> f[x]]
        OBVIOUS
      <3> HIDE DEF f
      <3> QED BY <2>3, <3>1
    <2>5. \A x, y \in S : x # y => rank(x) # rank(y)
      <3>1. ASSUME NEW x \in S, NEW y \in S, x # y PROVE rank(x) # rank(y)
        <4>1. rank(x) < rank(y) \/ rank(y) < rank(x)
          BY <2>2, <3>1
        <4>2. rank(x) \in Int /\ rank(y) \in Int
          BY <2>3
        <4> HIDE DEF rank
        <4> QED BY <4>1, <4>2
      <3> HIDE DEF rank
      <3> QED BY <3>1
    <2>6. \A x, y \in S : f[x] = f[y] => x = y
      <3> HIDE DEF rank, f
      <3> QED BY <2>3, <2>5
    <2> HIDE DEF f, rank
    <2> QED BY <2>4, <2>6 DEF Injection, IsInjective
  <1>8. IsFiniteSet(1 .. n) /\ Cardinality(1 .. n) = n
    BY <1>1, FS_Interval
  <1>9. f \in Surjection(S, 1 .. n)
    <2> HIDE DEF f
    <2> QED BY <1>7, <1>8, FS_Injection DEF n
  <1>10. \A k \in 1 .. n : \E x \in S : f[x] = k
    <2> HIDE DEF f
    <2> QED BY <1>9 DEF Surjection
  <1>11. ASSUME NEW k \in 1 .. n PROVE \E x \in S : RankIn(S, R, x) = k - 1
    <2>1. PICK x \in S : f[x] = k
      BY <1>10
    <2>2. k = RankIn(S, R, x) + 1
      BY <2>1
    <2>3. RankIn(S, R, x) \in Int
      BY <1>5
    <2> QED BY <2>2, <2>3
  <1> HIDE DEF f
  <1> QED BY <1>1, <1>5, <1>6, <1>11

-----------------------------------------------------------------------------
(* Folds, as steps.                                                        *)

(* g merges the intervals of s one after the other.                        *)
MergesTo(g, s) ==
    /\ g[0] = <<>> /\ FoldLeft(MergeNext, <<>>, s) = g[Len(s)]
    /\ \A k \in 0 .. Len(s) - 1 : g[k + 1] = MergeNext(g[k], s[k + 1])

(* Merging goes through the intervals from the first.                      *)
LEMMA MergeSteps ==
    ASSUME NEW B, NEW C, NEW s \in Seq(B), <<>> \in C,
           \A c \in C, b \in B : MergeNext(c, b) \in C
    PROVE  \E g : MergesTo(g, s)
  <1> DEFINE n == Len(s)
             D == SUBSET (1 .. n)
             start == <<>>
             Step(c, b) == MergeNext(c, b)
             IsIt(k) == k = [S \in D |-> IF S = {} THEN start
                                         ELSE Step(k[S \ {Max(S)}], s[Max(S)])]
             c == CHOOSE k : IsIt(k)
             H == [p \in C \X B |-> Step(p[1], p[2])]
  <1>1. n \in Nat /\ DOMAIN s = 1 .. n /\ \A k \in 1 .. n : s[k] \in B
    BY LenProperties, ElementOfSeq
  <1>2. FoldLeft(MergeNext, <<>>, s) = c[1 .. n]
    BY <1>1 DEF FoldLeft, MapThenFoldSet
  <1>3. start \in C /\ \A e \in C, b \in B : Step(e, b) \in C
    OBVIOUS
  <1> HIDE DEF start, Step
  <1>4. H \in [C \X B -> C]
    BY <1>3
  <1>5. PICK f \in [D -> C] : FoldsOver(n, f, start, H, s, C)
    <2> HIDE DEF H, n
    <2> QED BY <1>1, <1>3, <1>4, FoldBy
  <1>6. IsIt(c)
    <2>1. IsIt(f)
      BY <1>1, <1>5 DEF FoldsOver
    <2> HIDE DEF IsIt
    <2> QED BY <2>1
  <1> HIDE DEF c
  <1> DEFINE g == [k \in 0 .. n |-> c[1 .. k]]
  <1>7. g[0] = start
    <2>1. 1 .. 0 = {} /\ {} \in D /\ 0 \in 0 .. n
      BY <1>1
    <2> QED BY <1>6, <2>1
  <1>8. ASSUME NEW k \in 0 .. n - 1
        PROVE  g[k + 1] = Step(g[k], s[k + 1])
    <2>1. /\ 1 .. k + 1 \in D /\ 1 .. k + 1 # {} /\ Max(1 .. k + 1) = k + 1
          /\ (1 .. k + 1) \ {k + 1} = 1 .. k
      BY <1>1, UpToHere
    <2>2. c[1 .. k + 1] = Step(c[1 .. k], s[k + 1])
      BY <1>6, <2>1
    <2>3. g[k + 1] = c[1 .. k + 1] /\ g[k] = c[1 .. k]
      BY <1>1
    <2> QED BY <2>2, <2>3
  <1>9. FoldLeft(MergeNext, <<>>, s) = g[n]
    BY <1>1, <1>2
  <1> HIDE DEF g
  <1>10. MergesTo(g, s)
    BY <1>7, <1>8, <1>9 DEF start, Step, MergesTo
  <1> QED BY <1>10

(* g is the start after each of the intervals of s.                        *)
PassesAt(g, s, low) ==
    /\ g[0] = low /\ Pass(low, s) = g[Len(s)]
    /\ \A k \in 0 .. Len(s) - 1 : g[k + 1] = Advance(g[k], s[k + 1])

(* A start is moved by the intervals one after the other.                  *)
LEMMA PassSteps ==
    ASSUME NEW B, NEW C, NEW low, NEW s \in Seq(B), low \in C,
           \A c \in C, b \in B : Advance(c, b) \in C
    PROVE  \E g : PassesAt(g, s, low)
  <1> DEFINE n == Len(s)
             D == SUBSET (1 .. n)
             start == low
             Step(c, b) == Advance(c, b)
             IsIt(k) == k = [S \in D |-> IF S = {} THEN start
                                         ELSE Step(k[S \ {Max(S)}], s[Max(S)])]
             c == CHOOSE k : IsIt(k)
             H == [p \in C \X B |-> Step(p[1], p[2])]
  <1>1. n \in Nat /\ DOMAIN s = 1 .. n /\ \A k \in 1 .. n : s[k] \in B
    BY LenProperties, ElementOfSeq
  <1>2. Pass(low, s) = c[1 .. n]
    BY <1>1 DEF Pass, FoldLeft, MapThenFoldSet
  <1>3. start \in C /\ \A e \in C, b \in B : Step(e, b) \in C
    OBVIOUS
  <1> HIDE DEF start, Step
  <1>4. H \in [C \X B -> C]
    BY <1>3
  <1>5. PICK f \in [D -> C] : FoldsOver(n, f, start, H, s, C)
    <2> HIDE DEF H, n
    <2> QED BY <1>1, <1>3, <1>4, FoldBy
  <1>6. IsIt(c)
    <2>1. IsIt(f)
      BY <1>1, <1>5 DEF FoldsOver
    <2> HIDE DEF IsIt
    <2> QED BY <2>1
  <1> HIDE DEF c
  <1> DEFINE g == [k \in 0 .. n |-> c[1 .. k]]
  <1>7. g[0] = start
    <2>1. 1 .. 0 = {} /\ {} \in D /\ 0 \in 0 .. n
      BY <1>1
    <2> QED BY <1>6, <2>1
  <1>8. ASSUME NEW k \in 0 .. n - 1
        PROVE  g[k + 1] = Step(g[k], s[k + 1])
    <2>1. /\ 1 .. k + 1 \in D /\ 1 .. k + 1 # {} /\ Max(1 .. k + 1) = k + 1
          /\ (1 .. k + 1) \ {k + 1} = 1 .. k
      BY <1>1, UpToHere
    <2>2. c[1 .. k + 1] = Step(c[1 .. k], s[k + 1])
      BY <1>6, <2>1
    <2>3. g[k + 1] = c[1 .. k + 1] /\ g[k] = c[1 .. k]
      BY <1>1
    <2> QED BY <2>2, <2>3
  <1>9. Pass(low, s) = g[n]
    BY <1>1, <1>2
  <1> HIDE DEF g
  <1>10. PassesAt(g, s, low)
    BY <1>7, <1>8, <1>9 DEF start, Step, PassesAt
  <1> QED BY <1>10

(* g meets the shapes of s one after the other.                            *)
MeetsTo(g, s, base) ==
    /\ g[0] = base /\ FoldLeft(MeetShapes, base, s) = g[Len(s)]
    /\ \A k \in 0 .. Len(s) - 1 : g[k + 1] = MeetShapes(g[k], s[k + 1])

(* Shapes are met from the first.                                          *)
LEMMA MeetSteps ==
    ASSUME NEW B, NEW C, NEW base, NEW s \in Seq(B), base \in C,
           \A c \in C, b \in B : MeetShapes(c, b) \in C
    PROVE  \E g : MeetsTo(g, s, base)
  <1> DEFINE n == Len(s)
             D == SUBSET (1 .. n)
             start == base
             Step(c, b) == MeetShapes(c, b)
             IsIt(k) == k = [S \in D |-> IF S = {} THEN start
                                         ELSE Step(k[S \ {Max(S)}], s[Max(S)])]
             c == CHOOSE k : IsIt(k)
             H == [p \in C \X B |-> Step(p[1], p[2])]
  <1>1. n \in Nat /\ DOMAIN s = 1 .. n /\ \A k \in 1 .. n : s[k] \in B
    BY LenProperties, ElementOfSeq
  <1>2. FoldLeft(MeetShapes, base, s) = c[1 .. n]
    BY <1>1 DEF FoldLeft, MapThenFoldSet
  <1>3. start \in C /\ \A e \in C, b \in B : Step(e, b) \in C
    OBVIOUS
  <1> HIDE DEF start, Step
  <1>4. H \in [C \X B -> C]
    BY <1>3
  <1>5. PICK f \in [D -> C] : FoldsOver(n, f, start, H, s, C)
    <2> HIDE DEF H, n
    <2> QED BY <1>1, <1>3, <1>4, FoldBy
  <1>6. IsIt(c)
    <2>1. IsIt(f)
      BY <1>1, <1>5 DEF FoldsOver
    <2> HIDE DEF IsIt
    <2> QED BY <2>1
  <1> HIDE DEF c
  <1> DEFINE g == [k \in 0 .. n |-> c[1 .. k]]
  <1>7. g[0] = start
    <2>1. 1 .. 0 = {} /\ {} \in D /\ 0 \in 0 .. n
      BY <1>1
    <2> QED BY <1>6, <2>1
  <1>8. ASSUME NEW k \in 0 .. n - 1
        PROVE  g[k + 1] = Step(g[k], s[k + 1])
    <2>1. /\ 1 .. k + 1 \in D /\ 1 .. k + 1 # {} /\ Max(1 .. k + 1) = k + 1
          /\ (1 .. k + 1) \ {k + 1} = 1 .. k
      BY <1>1, UpToHere
    <2>2. c[1 .. k + 1] = Step(c[1 .. k], s[k + 1])
      BY <1>6, <2>1
    <2>3. g[k + 1] = c[1 .. k + 1] /\ g[k] = c[1 .. k]
      BY <1>1
    <2> QED BY <2>2, <2>3
  <1>9. FoldLeft(MeetShapes, base, s) = g[n]
    BY <1>1, <1>2
  <1> HIDE DEF g
  <1>10. MeetsTo(g, s, base)
    BY <1>7, <1>8, <1>9 DEF start, Step, MeetsTo
  <1> QED BY <1>10

(* g joins the shapes of s one after the other.                            *)
JoinsTo(g, s, base) ==
    /\ g[0] = base /\ FoldLeft(JoinShapes, base, s) = g[Len(s)]
    /\ \A k \in 0 .. Len(s) - 1 : g[k + 1] = JoinShapes(g[k], s[k + 1])

(* Shapes are joined from the first.                                       *)
LEMMA JoinSteps ==
    ASSUME NEW B, NEW C, NEW base, NEW s \in Seq(B), base \in C,
           \A c \in C, b \in B : JoinShapes(c, b) \in C
    PROVE  \E g : JoinsTo(g, s, base)
  <1> DEFINE n == Len(s)
             D == SUBSET (1 .. n)
             start == base
             Step(c, b) == JoinShapes(c, b)
             IsIt(k) == k = [S \in D |-> IF S = {} THEN start
                                         ELSE Step(k[S \ {Max(S)}], s[Max(S)])]
             c == CHOOSE k : IsIt(k)
             H == [p \in C \X B |-> Step(p[1], p[2])]
  <1>1. n \in Nat /\ DOMAIN s = 1 .. n /\ \A k \in 1 .. n : s[k] \in B
    BY LenProperties, ElementOfSeq
  <1>2. FoldLeft(JoinShapes, base, s) = c[1 .. n]
    BY <1>1 DEF FoldLeft, MapThenFoldSet
  <1>3. start \in C /\ \A e \in C, b \in B : Step(e, b) \in C
    OBVIOUS
  <1> HIDE DEF start, Step
  <1>4. H \in [C \X B -> C]
    BY <1>3
  <1>5. PICK f \in [D -> C] : FoldsOver(n, f, start, H, s, C)
    <2> HIDE DEF H, n
    <2> QED BY <1>1, <1>3, <1>4, FoldBy
  <1>6. IsIt(c)
    <2>1. IsIt(f)
      BY <1>1, <1>5 DEF FoldsOver
    <2> HIDE DEF IsIt
    <2> QED BY <2>1
  <1> HIDE DEF c
  <1> DEFINE g == [k \in 0 .. n |-> c[1 .. k]]
  <1>7. g[0] = start
    <2>1. 1 .. 0 = {} /\ {} \in D /\ 0 \in 0 .. n
      BY <1>1
    <2> QED BY <1>6, <2>1
  <1>8. ASSUME NEW k \in 0 .. n - 1
        PROVE  g[k + 1] = Step(g[k], s[k + 1])
    <2>1. /\ 1 .. k + 1 \in D /\ 1 .. k + 1 # {} /\ Max(1 .. k + 1) = k + 1
          /\ (1 .. k + 1) \ {k + 1} = 1 .. k
      BY <1>1, UpToHere
    <2>2. c[1 .. k + 1] = Step(c[1 .. k], s[k + 1])
      BY <1>6, <2>1
    <2>3. g[k + 1] = c[1 .. k + 1] /\ g[k] = c[1 .. k]
      BY <1>1
    <2> QED BY <2>2, <2>3
  <1>9. FoldLeft(JoinShapes, base, s) = g[n]
    BY <1>1, <1>2
  <1> HIDE DEF g
  <1>10. JoinsTo(g, s, base)
    BY <1>7, <1>8, <1>9 DEF start, Step, JoinsTo
  <1> QED BY <1>10

-----------------------------------------------------------------------------
(* Intervals, merged.                                                      *)

(* An interval of counts: a lower bound, and an upper one or none.         *)
LEMMA IntervalFacts ==
    ASSUME NEW i \in Intervals
    PROVE  /\ i.low \in Nat /\ (i.high \in Int \/ i.high = None) /\ None \notin Int
           /\ i = Interval(i.low, i.high)
  BY NoneAssumption DEF Intervals, Interval

(* Intervals are totally ordered.                                          *)
LEMMA BeforeIsTotal ==
    ASSUME NEW S \in SUBSET Intervals
    PROVE  /\ \A x \in S : ~Before(x, x)
           /\ \A x, y, z \in S : Before(x, y) /\ Before(y, z) => Before(x, z)
           /\ \A x, y \in S : x = y \/ Before(x, y) \/ Before(y, x)
  <1>1. \A x \in S : x \in Intervals
    OBVIOUS
  <1>2. ASSUME NEW x \in S PROVE ~Before(x, x)
    BY <1>1, IntervalFacts DEF Before
  <1>3. ASSUME NEW x \in S, NEW y \in S, NEW z \in S, Before(x, y), Before(y, z)
        PROVE  Before(x, z)
    <2>1. /\ x.low \in Nat /\ y.low \in Nat /\ z.low \in Nat
          /\ x.high \in Int \/ x.high = None
          /\ y.high \in Int \/ y.high = None
          /\ z.high \in Int \/ z.high = None
      BY <1>1, IntervalFacts
    <2> QED BY <1>3, <2>1, NoneAssumption DEF Before
  <1>4. ASSUME NEW x \in S, NEW y \in S, x # y PROVE Before(x, y) \/ Before(y, x)
    <2>1. /\ x.low \in Nat /\ y.low \in Nat
          /\ x.high \in Int \/ x.high = None
          /\ y.high \in Int \/ y.high = None
          /\ x.low = y.low => x.high # y.high
      BY <1>1, <1>4, IntervalFacts
    <2> QED BY <2>1, NoneAssumption DEF Before
  <1> QED BY <1>2, <1>3, <1>4

(* Ordered has the intervals, by their lower bounds.                       *)
LEMMA OrderedFacts ==
    ASSUME NEW S \in SUBSET Intervals, IsFiniteSet(S)
    PROVE  /\ Ordered(S) \in Seq(S) /\ Len(Ordered(S)) = Cardinality(S)
           /\ \A x \in S : \E k \in 1 .. Cardinality(S) : Ordered(S)[k] = x
           /\ \A j, k \in 1 .. Cardinality(S) :
                j < k => Ordered(S)[j].low <= Ordered(S)[k].low
  <1> DEFINE n == Cardinality(S)
             R == {p \in S \X S : Before(p[1], p[2])}
             t == Ordered(S)
  <1>1. \A x, y \in S : <<x, y>> \in R <=> Before(x, y)
    OBVIOUS
  <1>2. /\ n \in Nat
        /\ \A x \in S : RankIn(S, R, x) \in 0 .. n - 1
        /\ \A x, y \in S : <<x, y>> \in R => RankIn(S, R, x) < RankIn(S, R, y)
        /\ \A k \in 1 .. n : \E x \in S : RankIn(S, R, x) = k - 1
    <2>1. /\ \A x \in S : <<x, x>> \notin R
          /\ \A x, y, z \in S : <<x, y>> \in R /\ <<y, z>> \in R => <<x, z>> \in R
          /\ \A x, y \in S : x = y \/ <<x, y>> \in R \/ <<y, x>> \in R
      <3> HIDE DEF R
      <3> QED BY <1>1, BeforeIsTotal
    <2> HIDE DEF R
    <2> QED BY <2>1, Ranks
  <1>3. \A x \in S : RankIn(S, R, x) = Cardinality({j \in S : Before(j, x)})
    <2>1. ASSUME NEW x \in S
          PROVE  {j \in S : <<j, x>> \in R} = {j \in S : Before(j, x)}
      <3> HIDE DEF R
      <3> QED BY <1>1
    <2> HIDE DEF R
    <2> QED BY <2>1 DEF RankIn
  <1> HIDE DEF R
  <1>4. \A k \in 1 .. n : t[k] \in S /\ RankIn(S, R, t[k]) = k - 1
    <2>1. ASSUME NEW k \in 1 .. n
          PROVE  t[k] \in S /\ RankIn(S, R, t[k]) = k - 1
      <3>1. t[k] = CHOOSE i \in S : Cardinality({j \in S : Before(j, i)}) = k - 1
        BY DEF Ordered
      <3>2. \E i \in S : Cardinality({j \in S : Before(j, i)}) = k - 1
        BY <1>2, <1>3
      <3> QED BY <1>3, <3>1, <3>2
    <2> QED BY <2>1
  <1>5. t \in [1 .. n -> S]
    <2> DEFINE F(k) == CHOOSE i \in S : Cardinality({j \in S : Before(j, i)}) = k - 1
    <2>1. t = [k \in 1 .. n |-> F(k)]
      BY DEF Ordered
    <2> HIDE DEF F, t
    <2>2. \A k \in 1 .. n : F(k) \in S
      BY <1>4, <2>1
    <2> QED BY <2>1, <2>2
  <1>6. t \in Seq(S) /\ Len(t) = n
    <2> HIDE DEF t, n
    <2> QED BY <1>2, <1>5
  <1> HIDE DEF t
  <1>7. ASSUME NEW x \in S PROVE \E k \in 1 .. n : t[k] = x
    <2> DEFINE r == RankIn(S, R, x)
    <2>1. r \in 0 .. n - 1
      BY <1>2
    <2>2. r + 1 \in 1 .. n /\ (r + 1) - 1 = r
      <3> HIDE DEF r, n
      <3> QED BY <1>2, <2>1
    <2>3. t[r + 1] \in S /\ RankIn(S, R, t[r + 1]) = r
      <3> HIDE DEF n
      <3> QED BY <1>4, <2>2
    <2>4. t[r + 1] = x
      <3>1. t[r + 1] = x \/ <<t[r + 1], x>> \in R \/ <<x, t[r + 1]>> \in R
        BY <1>1, <2>3, BeforeIsTotal
      <3>2. ~(r < r)
        BY <2>1
      <3> QED BY <1>2, <2>3, <3>1, <3>2
    <2> QED BY <2>2, <2>4
  <1>8. ASSUME NEW j \in 1 .. n, NEW k \in 1 .. n, j < k
        PROVE  t[j].low <= t[k].low
    <2>1. t[j] \in Intervals /\ t[k] \in Intervals /\ t[j] \in S /\ t[k] \in S
      BY <1>4
    <2>2. t[j].low \in Nat /\ t[k].low \in Nat
      BY <2>1, IntervalFacts
    <2>3. ~Before(t[k], t[j])
      <3>1. RankIn(S, R, t[j]) = j - 1 /\ RankIn(S, R, t[k]) = k - 1
        BY <1>4
      <3>2. ~(k - 1 < j - 1)
        BY <1>2, <1>8
      <3> QED BY <1>1, <1>2, <2>1, <3>1, <3>2
    <2> QED BY <2>2, <2>3 DEF Before
  <1> QED BY <1>6, <1>7, <1>8 DEF t

(* Intervals apart, in order and none empty.                               *)
Apart(s) ==
    /\ s \in Seq(Intervals)
    /\ \A k \in 1 .. Len(s) :
         /\ s[k].high # None => s[k].low <= s[k].high
         /\ \A j \in 1 .. Len(s) : j < k => s[j].high # None /\ s[j].high + 1 < s[k].low

(* An interval that starts at or after the last is merged with it or comes *)
(* behind it: exactly its counts are added.                                *)
LEMMA MergeFacts ==
    ASSUME NEW m, Apart(m), NEW i \in Intervals, ~EmptyInterval(i),
           m # <<>> => m[Len(m)].low <= i.low
    PROVE  LET r == MergeNext(m, i)
           IN  /\ Apart(r) /\ r # <<>> /\ r[Len(r)].low <= i.low
               /\ \A n \in Nat : Counts(r, n) <=> Counts(m, n) \/ InInterval(i, n)
  <1> DEFINE r == MergeNext(m, i)
             l == Len(m)
  <1>1. /\ l \in Nat /\ m \in Seq(Intervals) /\ DOMAIN m = 1 .. l
        /\ m # <<>> <=> l # 0
        /\ \A k \in 1 .. l : m[k] \in Intervals
        /\ l = Len(m) /\ (m # <<>> => m[l].low <= i.low)
    BY LenProperties, EmptySeq, ElementOfSeq DEF Apart
  <1>2. /\ i.low \in Nat /\ (i.high \in Int \/ i.high = None) /\ None \notin Int
        /\ i.high # None => i.low <= i.high
    BY IntervalFacts DEF EmptyInterval
  <1>3. \A k \in 1 .. l : /\ m[k].low \in Nat
                          /\ m[k].high \in Int \/ m[k].high = None
                          /\ m[k].high # None => m[k].low <= m[k].high
                          /\ \A j \in 1 .. l : j < k => m[j].high # None /\ m[j].high + 1 < m[k].low
    BY <1>1, IntervalFacts DEF Apart
  <1>0. l \in Nat
    BY <1>1
  <1> HIDE DEF l
  <1>4. CASE m # <<>> /\ Touches(Last(m), i)
    <2> DEFINE p == Front(m)
               x == Joined(m[l], i)
    <2>1. /\ l \in 1 .. l /\ m[l] \in Intervals /\ Last(m) = m[l]
          /\ m[l].low \in Nat /\ (m[l].high \in Int \/ m[l].high = None)
      BY <1>1, <1>3, <1>4 DEF Last
    <2>2. /\ p \in Seq(Intervals) /\ Len(p) = l - 1
          /\ \A k \in 1 .. l - 1 : p[k] = m[k]
      BY <1>1, <1>4, PopFacts DEF Front
    <2>3. x \in Intervals /\ x.low = m[l].low
          /\ x.high = IF m[l].high = None \/ i.high = None THEN None
                      ELSE IF m[l].high < i.high THEN i.high ELSE m[l].high
      BY <1>2, <2>1 DEF Joined, Interval, Larger, Intervals
    <2>4. /\ r = Append(p, x) /\ r \in Seq(Intervals) /\ Len(r) = l /\ r[l] = x
          /\ \A k \in 1 .. l - 1 : r[k] = m[k]
      <3>1. r = Append(p, x)
        BY <1>4, <2>1 DEF MergeNext
      <3> HIDE DEF r, p, x
      <3>2. /\ r \in Seq(Intervals) /\ Len(r) = Len(p) + 1 /\ r[Len(p) + 1] = x
            /\ \A k \in 1 .. Len(p) : r[k] = p[k]
        BY <2>2, <2>3, <3>1, AppendProperties
      <3>3. Len(p) + 1 = l
        BY <1>1, <2>2
      <3> QED BY <2>2, <3>1, <3>2, <3>3
    <2> HIDE DEF r, p, x
    <2>5. m[l].low <= i.low /\ (m[l].high = None \/ i.low <= m[l].high + 1)
      BY <1>1, <1>4, <2>1 DEF Touches
    <2>6. x.high # None => x.low <= x.high
      BY <1>2, <1>3, <2>1, <2>3, <2>5
    <2>7. \A k \in 1 .. l : /\ r[k].high # None => r[k].low <= r[k].high
                            /\ \A j \in 1 .. l : j < k => r[j].high # None /\ r[j].high + 1 < r[k].low
      <3>1. ASSUME NEW k \in 1 .. l
            PROVE  /\ r[k].high # None => r[k].low <= r[k].high
                   /\ \A j \in 1 .. l : j < k => r[j].high # None /\ r[j].high + 1 < r[k].low
        <4>1. r[k].low = m[k].low
          BY <1>1, <2>3, <2>4
        <4>2. \A j \in 1 .. l : j < k => r[j] = m[j]
          BY <1>1, <2>4
        <4>3. r[k].high # None => r[k].low <= r[k].high
          BY <1>1, <1>3, <2>4, <2>6
        <4> QED BY <1>3, <4>1, <4>2, <4>3
      <3> QED BY <3>1
    <2>8. Apart(r) /\ r # <<>> /\ r[Len(r)].low <= i.low
      BY <1>1, <1>4, <2>3, <2>4, <2>5, <2>7 DEF Apart
    <2>9. ASSUME NEW n \in Nat
          PROVE  InInterval(x, n) <=> InInterval(m[l], n) \/ InInterval(i, n)
      BY <1>2, <1>3, <2>1, <2>3, <2>5 DEF InInterval, UpTo
    <2>10. ASSUME NEW n \in Nat
           PROVE  Counts(r, n) <=> Counts(m, n) \/ InInterval(i, n)
      <3>1. DOMAIN r = 1 .. l
        BY <2>4, LenProperties
      <3>2. Counts(r, n) <=> \E k \in 1 .. l : InInterval(r[k], n)
        BY <3>1 DEF Counts
      <3>3. Counts(m, n) <=> \E k \in 1 .. l : InInterval(m[k], n)
        BY <1>1 DEF Counts
      <3>4. \A k \in 1 .. l : k = l \/ (k \in 1 .. l - 1 /\ r[k] = m[k])
        <4>1. \A k \in 1 .. l : k = l \/ k \in 1 .. l - 1
          BY <1>0
        <4> QED BY <2>4, <4>1
      <3> QED BY <2>1, <2>4, <2>9, <3>2, <3>3, <3>4
    <2> QED BY <2>8, <2>10 DEF r
  <1>5. CASE ~(m # <<>> /\ Touches(Last(m), i))
    <2>1. /\ r = Append(m, i) /\ r \in Seq(Intervals) /\ Len(r) = l + 1 /\ r[l + 1] = i
          /\ \A k \in 1 .. l : r[k] = m[k]
      <3>1. r = Append(m, i)
        BY <1>5 DEF MergeNext
      <3> HIDE DEF r
      <3> QED BY <1>1, <3>1, AppendProperties
    <2> HIDE DEF r
    <2>2. l # 0 => m[l].high # None /\ m[l].high + 1 < i.low /\ l \in 1 .. l
      <3>1. l # 0 => Last(m) = m[l] /\ l \in 1 .. l
        BY <1>1 DEF Last
      <3> QED BY <1>1, <1>2, <1>3, <1>5, <3>1 DEF Touches
    <2>3. \A j \in 1 .. l : m[j].high # None /\ m[j].high + 1 < i.low
      <3>1. ASSUME NEW j \in 1 .. l PROVE m[j].high # None /\ m[j].high + 1 < i.low
        <4>1. CASE j = l
          BY <1>1, <2>2, <4>1
        <4>2. CASE j < l
          <5>1. l \in 1 .. l /\ m[j].high # None /\ m[j].high + 1 < m[l].low
            BY <1>1, <1>3, <4>2
          <5>2. m[l].low <= m[l].high /\ m[l].high + 1 < i.low /\ m[l].high \in Int
                /\ m[l].low \in Nat /\ m[j].high \in Int
            BY <1>1, <1>3, <2>2, <5>1
          <5> QED BY <1>2, <5>1, <5>2
        <4>3. j = l \/ j < l
          BY <1>0
        <4> QED BY <4>1, <4>2, <4>3
      <3> QED BY <3>1
    <2>4. \A k \in 1 .. l + 1 : k = l + 1 \/ k \in 1 .. l
      BY <1>1
    <2>5. \A k \in 1 .. l + 1 : /\ r[k].high # None => r[k].low <= r[k].high
                                /\ \A j \in 1 .. l + 1 : j < k => r[j].high # None /\ r[j].high + 1 < r[k].low
      <3>1. ASSUME NEW k \in 1 .. l + 1
            PROVE  /\ r[k].high # None => r[k].low <= r[k].high
                   /\ \A j \in 1 .. l + 1 : j < k => r[j].high # None /\ r[j].high + 1 < r[k].low
        <4>1. CASE k = l + 1
          <5>1. \A j \in 1 .. l + 1 : j < k => j \in 1 .. l
            BY <1>1, <4>1
          <5> QED BY <1>2, <2>1, <2>3, <4>1, <5>1
        <4>2. CASE k \in 1 .. l
          <5>1. \A j \in 1 .. l + 1 : j < k => j \in 1 .. l
            BY <1>1, <4>2
          <5> QED BY <1>3, <2>1, <4>2, <5>1
        <4> QED BY <2>4, <4>1, <4>2
      <3> QED BY <3>1
    <2>6. Apart(r) /\ r # <<>> /\ r[Len(r)].low <= i.low
      <3>1. r # <<>>
        BY <1>1, <2>1, EmptySeq
      <3> QED BY <1>2, <2>1, <2>5, <3>1 DEF Apart
    <2>7. ASSUME NEW n \in Nat
          PROVE  Counts(r, n) <=> Counts(m, n) \/ InInterval(i, n)
      <3>1. DOMAIN r = 1 .. l + 1
        BY <2>1, LenProperties
      <3>2. Counts(r, n) <=> \E k \in 1 .. l + 1 : InInterval(r[k], n)
        BY <3>1 DEF Counts
      <3>3. Counts(m, n) <=> \E k \in 1 .. l : InInterval(m[k], n)
        BY <1>1 DEF Counts
      <3>4. l + 1 \in 1 .. l + 1 /\ \A k \in 1 .. l : k \in 1 .. l + 1
        BY <1>1
      <3> QED BY <2>1, <2>4, <3>2, <3>3, <3>4
    <2> QED BY <2>6, <2>7 DEF r
  <1> QED BY <1>4, <1>5

(* Merging keeps the counts.                                               *)
LEMMA MergedFacts ==
    ASSUME NEW S \in SUBSET Intervals, IsFiniteSet(S)
    PROVE  /\ Apart(Merged(S))
           /\ \A n \in Nat : Counts(Merged(S), n) <=> \E i \in S : InInterval(i, n)
  <1> DEFINE T == {i \in S : ~EmptyInterval(i)}
             t == Ordered(T)
             N == Cardinality(T)
  <1>1. /\ T \in SUBSET Intervals /\ IsFiniteSet(T)
        /\ \A i \in T : i \in Intervals /\ ~EmptyInterval(i)
    <2>1. T \in SUBSET S
      OBVIOUS
    <2>2. IsFiniteSet(T)
      <3> HIDE DEF T
      <3> QED BY <2>1, FS_Subset
    <2> QED BY <2>2
  <1>2. /\ t \in Seq(T) /\ Len(t) = N /\ N \in Nat
        /\ \A x \in T : \E k \in 1 .. N : t[k] = x
        /\ \A j, k \in 1 .. N : j < k => t[j].low <= t[k].low
        /\ \A k \in 1 .. N : t[k] \in T
    <2> HIDE DEF T
    <2>1. N \in Nat
      BY <1>1, FS_CardinalityType
    <2>2. /\ t \in Seq(T) /\ Len(t) = N
          /\ \A x \in T : \E k \in 1 .. N : t[k] = x
          /\ \A j, k \in 1 .. N : j < k => t[j].low <= t[k].low
      BY <1>1, OrderedFacts
    <2>3. \A k \in 1 .. N : t[k] \in T
      BY <2>2, ElementOfSeq
    <2> QED BY <2>1, <2>2, <2>3
  <1>3. Merged(S) = FoldLeft(MergeNext, <<>>, t)
    BY DEF Merged
  <1> HIDE DEF T, t, N
  <1>4. PICK g : MergesTo(g, t)
    <2>1. \E C : <<>> \in C /\ \A c \in C, b \in T : MergeNext(c, b) \in C
      <3>1. <<>> \in Seq(Intervals)
        BY EmptySeq
      <3>2. ASSUME NEW c \in Seq(Intervals), NEW b \in T PROVE MergeNext(c, b) \in Seq(Intervals)
        <4>1. b \in Intervals
          BY <1>1
        <4>2. CASE c # <<>> /\ Touches(Last(c), b)
          <5>1. /\ Front(c) \in Seq(Intervals) /\ Last(c) \in Intervals
            <6>1. Len(c) \in 1 .. Len(c)
              BY <4>2, EmptySeq, LenProperties
            <6> QED BY <4>2, <6>1, PopFacts, ElementOfSeq DEF Front, Last
          <5>2. Joined(Last(c), b) \in Intervals
            BY <4>1, <5>1 DEF Joined, Interval, Larger, Intervals
          <5> QED BY <4>2, <5>1, <5>2, AppendProperties DEF MergeNext
        <4>3. CASE ~(c # <<>> /\ Touches(Last(c), b))
          BY <4>1, <4>3, AppendProperties DEF MergeNext
        <4> QED BY <4>2, <4>3
      <3> QED BY <3>1, <3>2
    <2>2. PICK D : <<>> \in D /\ \A c \in D, b \in T : MergeNext(c, b) \in D
      BY <2>1
    <2> QED BY <1>2, <2>2, MergeSteps
  <1>5. /\ g[0] = <<>> /\ Merged(S) = g[N]
        /\ \A k \in 0 .. N - 1 : g[k + 1] = MergeNext(g[k], t[k + 1])
    BY <1>2, <1>3, <1>4 DEF MergesTo
  <1> DEFINE So(k) == /\ Apart(g[k])
                      /\ g[k] # <<>> => k # 0 /\ g[k][Len(g[k])].low <= t[k].low
                      /\ \A n \in Nat : Counts(g[k], n) <=> \E j \in 1 .. k : InInterval(t[j], n)
             K == {k \in 0 .. N : So(k)}
  <1>6. 0 \in K
    <2>1. Apart(<<>>)
      <3>1. <<>> \in Seq(Intervals) /\ Len(<<>>) = 0
        BY EmptySeq
      <3> QED BY <3>1 DEF Apart
    <2>2. \A n \in Nat : ~Counts(<<>>, n)
      BY DEF Counts
    <2>3. 0 \in 0 .. N /\ 1 .. 0 = {}
      BY <1>2
    <2> QED BY <1>5, <2>1, <2>2, <2>3
  <1>7. ASSUME NEW k \in 0 .. N - 1, k \in K PROVE k + 1 \in K
    <2> DEFINE i == t[k + 1]
               m == g[k]
    <2>1. k + 1 \in 1 .. N /\ k + 1 \in 0 .. N /\ k \in Nat
      BY <1>2
    <2>2. i \in Intervals /\ ~EmptyInterval(i) /\ g[k + 1] = MergeNext(m, i)
      BY <1>1, <1>2, <1>5, <2>1
    <2>3. Apart(m) /\ (m # <<>> => k # 0 /\ m[Len(m)].low <= t[k].low)
      BY <1>7
    <2>4. m # <<>> => m[Len(m)].low <= i.low
      <3> SUFFICES ASSUME m # <<>> PROVE m[Len(m)].low <= i.low
        OBVIOUS
      <3>1. k \in 1 .. N /\ k < k + 1
        BY <1>2, <2>1, <2>3
      <3>2. t[k].low <= i.low /\ t[k].low \in Nat /\ i.low \in Nat
        BY <1>1, <1>2, <2>1, <2>2, <3>1, IntervalFacts
      <3>3. m[Len(m)].low \in Nat
        <4>1. Len(m) \in 1 .. Len(m) /\ m \in Seq(Intervals)
          BY <2>3, EmptySeq, LenProperties DEF Apart
        <4>2. m[Len(m)] \in Intervals
          BY <4>1, ElementOfSeq
        <4> QED BY <4>2, IntervalFacts
      <3> QED BY <2>3, <3>2, <3>3
    <2>5. /\ Apart(g[k + 1]) /\ g[k + 1][Len(g[k + 1])].low <= i.low
          /\ \A n \in Nat : Counts(g[k + 1], n) <=> Counts(m, n) \/ InInterval(i, n)
      <3> HIDE DEF i, m
      <3> QED BY <2>2, <2>3, <2>4, MergeFacts
    <2>6. ASSUME NEW n \in Nat
          PROVE  Counts(g[k + 1], n) <=> \E j \in 1 .. k + 1 : InInterval(t[j], n)
      <3>1. Counts(m, n) <=> \E j \in 1 .. k : InInterval(t[j], n)
        BY <1>7
      <3>2. \A j : j \in 1 .. k + 1 <=> j \in 1 .. k \/ j = k + 1
        BY <2>1
      <3> QED BY <2>5, <3>1, <3>2
    <2>7. k + 1 # 0
      BY <2>1
    <2>8. So(k + 1)
      BY <2>5, <2>6, <2>7
    <2> HIDE DEF So
    <2> QED BY <2>1, <2>8
  <1>8. So(N)
    <2>1. N \in 0 .. N
      BY <1>2
    <2> HIDE DEF K
    <2>2. N \in K
      BY <1>2, <1>6, <1>7, <2>1, HoldsUpTo
    <2> QED BY <2>2 DEF K
  <1>9. ASSUME NEW n \in Nat
        PROVE  (\E j \in 1 .. N : InInterval(t[j], n)) <=> \E i \in S : InInterval(i, n)
    <2>1. \A i \in S : InInterval(i, n) => i \in T
      <3>1. ASSUME NEW i \in S, InInterval(i, n) PROVE i \in T
        <4>1. i.low \in Nat /\ (i.high \in Int \/ i.high = None)
          BY IntervalFacts
        <4> QED BY <3>1, <4>1 DEF InInterval, UpTo, EmptyInterval, T
      <3> QED BY <3>1
    <2>2. \A i \in T : i \in S
      BY DEF T
    <2> QED BY <1>2, <2>1, <2>2
  <1> QED BY <1>5, <1>8, <1>9

(* When an interval is covered, each of its counts is in another.          *)
LEMMA CoveredByFacts ==
    ASSUME NEW i \in Intervals, NEW s \in Seq(Intervals), CoveredBy(i, s),
           NEW n \in Nat, InInterval(i, n)
    PROVE  Counts(s, n)
  <1> DEFINE N == Len(s)
             C == Int \cup {None}
  <1>1. N \in Nat /\ DOMAIN s = 1 .. N /\ \A k \in 1 .. N : s[k] \in Intervals
    BY LenProperties, ElementOfSeq
  <1>2. /\ i.low \in Nat /\ i.low <= n /\ (i.high \in Int \/ i.high = None)
        /\ i.high # None => n <= i.high
    BY IntervalFacts DEF InInterval, UpTo
  <1>3. \A c \in C, b \in Intervals : Advance(c, b) \in C
    BY NoneAssumption DEF Advance, Intervals
  <1>4. PICK g : PassesAt(g, s, i.low)
    <2>1. i.low \in C
      BY <1>2
    <2> HIDE DEF C
    <2> QED BY <1>3, <2>1, PassSteps
  <1>5. /\ g[0] = i.low /\ Pass(i.low, s) = g[N]
        /\ \A k \in 0 .. N - 1 : g[k + 1] = Advance(g[k], s[k + 1])
    BY <1>4 DEF PassesAt
  <1>6. g[N] = None \/ (g[N] \in C => n < g[N])
    BY <1>2, <1>5, NoneAssumption DEF CoveredBy, FirstUncovered, UpTo
  <1> HIDE DEF N
  <1> DEFINE So(k) == /\ g[k] \in C
                      /\ (g[k] = None \/ n < g[k]) => \E j \in 1 .. k : InInterval(s[j], n)
             K == {k \in 0 .. N : So(k)}
  <1>7. 0 \in K
    <2>1. 0 \in 0 .. N
      BY <1>1
    <2>2. g[0] \in C /\ g[0] # None /\ ~(n < g[0])
      BY <1>2, <1>5, NoneAssumption
    <2> QED BY <2>1, <2>2
  <1>8. ASSUME NEW k \in 0 .. N - 1, k \in K PROVE k + 1 \in K
    <2>1. /\ k + 1 \in 1 .. N /\ k + 1 \in 0 .. N
          /\ \A j : j \in 1 .. k + 1 <=> j \in 1 .. k \/ j = k + 1
      BY <1>1
    <2> DEFINE b == s[k + 1]
               c == g[k]
    <2>2. b \in Intervals /\ c \in C /\ g[k + 1] = Advance(c, b)
      BY <1>1, <1>5, <1>8, <2>1
    <2>3. (c = None \/ n < c) => \E j \in 1 .. k : InInterval(s[j], n)
      BY <1>8
    <2>4. g[k + 1] \in C
      BY <1>3, <2>2
    <2>5. (g[k + 1] = None \/ n < g[k + 1]) => c = None \/ n < c \/ InInterval(b, n)
      <3> HIDE DEF b, c
      <3>1. b.low \in Nat /\ (b.high \in Int \/ b.high = None)
        BY <2>2, IntervalFacts
      <3> QED BY <2>2, <3>1, NoneAssumption DEF Advance, InInterval, UpTo
    <2>6. So(k + 1)
      BY <2>1, <2>3, <2>4, <2>5
    <2> HIDE DEF So
    <2> QED BY <2>1, <2>6
  <1>9. So(N)
    <2>1. N \in 0 .. N
      BY <1>1
    <2> HIDE DEF K
    <2>2. N \in K
      BY <1>1, <1>7, <1>8, <2>1, HoldsUpTo
    <2> QED BY <2>2 DEF K
  <1> QED BY <1>1, <1>6, <1>9 DEF Counts

-----------------------------------------------------------------------------
(* Gaps and complements.                                                   *)

(* A finite sequence has finitely many members.                            *)
LEMMA FiniteRange ==
    ASSUME NEW N \in Nat, NEW f, DOMAIN f = 1 .. N
    PROVE  IsFiniteSet({f[k] : k \in 1 .. N})
  <1> DEFINE T == {f[k] : k \in 1 .. N}
             h == [k \in 1 .. N |-> f[k]]
  <1>1. h \in Surjection(1 .. N, T)
    BY DEF Surjection
  <1>2. IsFiniteSet(1 .. N)
    BY FS_Interval
  <1> HIDE DEF h, T
  <1>3. IsFiniteSet(T)
    BY <1>1, <1>2, FS_Surjection
  <1> QED BY <1>3 DEF T

(* What Apart says of one interval, and of two.                            *)
LEMMA ApartFacts ==
    ASSUME NEW s, Apart(s)
    PROVE  /\ Len(s) \in Nat /\ DOMAIN s = 1 .. Len(s) /\ s \in Seq(Intervals)
           /\ s = <<>> <=> Len(s) = 0
           /\ \A k \in 1 .. Len(s) :
                /\ s[k] \in Intervals /\ s[k].low \in Nat
                /\ s[k].high = None \/ (s[k].high \in Nat /\ s[k].low <= s[k].high)
                /\ \A j \in 1 .. Len(s) : j < k => s[j].high \in Nat /\ s[j].high + 1 < s[k].low
           /\ \A n : Counts(s, n) <=> \E k \in 1 .. Len(s) : InInterval(s[k], n)
  <1>1. /\ Len(s) \in Nat /\ DOMAIN s = 1 .. Len(s) /\ s \in Seq(Intervals)
        /\ s = <<>> <=> Len(s) = 0
        /\ \A k \in 1 .. Len(s) : s[k] \in Intervals
    BY LenProperties, EmptySeq, ElementOfSeq DEF Apart
  <1>2. ASSUME NEW k \in 1 .. Len(s)
        PROVE  /\ s[k].low \in Nat
               /\ s[k].high = None \/ (s[k].high \in Nat /\ s[k].low <= s[k].high)
    <2>1. s[k].low \in Nat /\ (s[k].high \in Int \/ s[k].high = None)
      BY <1>1, IntervalFacts
    <2>2. s[k].high # None => s[k].low <= s[k].high
      BY DEF Apart
    <2> QED BY <2>1, <2>2
  <1>3. ASSUME NEW k \in 1 .. Len(s), NEW j \in 1 .. Len(s), j < k
        PROVE  s[j].high \in Nat /\ s[j].high + 1 < s[k].low
    <2>1. s[j].high # None /\ s[j].high + 1 < s[k].low
      BY <1>3 DEF Apart
    <2> QED BY <1>2, <2>1
  <1> QED BY <1>1, <1>2, <1>3 DEF Counts

(* The gaps hold exactly the counts that the intervals do not.             *)
LEMMA GapsFacts ==
    ASSUME NEW s, Apart(s)
    PROVE  /\ Apart(Gaps(s))
           /\ \A n \in Nat : Counts(Gaps(s), n) <=> ~Counts(s, n)
  <1> DEFINE N == Len(s)
             Start(k) == IF k = 1 THEN 0 ELSE s[k - 1].high + 1
             gap == [k \in 1 .. N |-> Interval(Start(k), s[k].low - 1)]
             between == {gap[k] : k \in 1 .. N}
             after == IF N = 0 THEN {Interval(0, None)}
                      ELSE IF s[N].high = None THEN {}
                      ELSE {Interval(s[N].high + 1, None)}
  <1>1. N \in Nat /\ DOMAIN s = 1 .. N
    BY ApartFacts
  <1>2. Gaps(s) = Merged(between \cup after)
    <2>1. {Interval(Start(k), s[k].low - 1) : k \in DOMAIN s} = between
      BY <1>1
    <2> HIDE DEF between
    <2> QED BY <2>1 DEF Gaps
  <1>3. ASSUME NEW k \in 1 .. N
        PROVE  /\ s[k].low \in Nat
               /\ s[k].high = None \/ (s[k].high \in Nat /\ s[k].low <= s[k].high)
               /\ \A j \in 1 .. N : j < k => s[j].high \in Nat /\ s[j].high + 1 < s[k].low
    BY ApartFacts
  <1>4. ASSUME NEW k \in 1 .. N
        PROVE  Start(k) \in Nat
    <2>1. CASE k = 1
      BY <2>1
    <2>2. CASE k # 1
      <3>1. k - 1 \in 1 .. N /\ k - 1 < k
        BY <1>1, <2>2
      <3> QED BY <1>3, <2>2, <3>1
    <2> QED BY <2>1, <2>2
  <1>5. ASSUME NEW k \in 1 .. N
        PROVE  gap[k] \in Intervals /\ gap[k].low = Start(k) /\ gap[k].high = s[k].low - 1
    <2>1. gap[k] = Interval(Start(k), s[k].low - 1)
      OBVIOUS
    <2> HIDE DEF gap, Start
    <2> QED BY <1>3, <1>4, <2>1 DEF Interval, Intervals
  <1>6. IsFiniteSet(between)
    <2>1. DOMAIN gap = 1 .. N
      OBVIOUS
    <2> HIDE DEF gap, N
    <2> QED BY <1>1, <2>1, FiniteRange
  <1>7. N # 0 => N \in 1 .. N
    BY <1>1
  <1>8. after \in SUBSET Intervals /\ IsFiniteSet(after)
    <2>1. after \in SUBSET Intervals
      <3> HIDE DEF N
      <3> QED BY <1>1, <1>3, <1>7 DEF Interval, Intervals
    <2>2. IsFiniteSet(after)
      BY FS_EmptySet, FS_Singleton
    <2> QED BY <2>1, <2>2
  <1>9. between \cup after \in SUBSET Intervals /\ IsFiniteSet(between \cup after)
    <2>1. between \in SUBSET Intervals
      <3> HIDE DEF gap
      <3> QED BY <1>5
    <2> HIDE DEF between, after
    <2> QED BY <1>6, <1>8, <2>1, FS_Union
  <1>10. /\ Apart(Gaps(s))
         /\ \A n \in Nat : Counts(Gaps(s), n) <=> \E i \in between \cup after : InInterval(i, n)
    <2> HIDE DEF between, after
    <2> QED BY <1>2, <1>9, MergedFacts
  <1>11. ASSUME NEW n \in Nat
         PROVE  Counts(s, n) <=> \E k \in 1 .. N : InInterval(s[k], n)
    BY ApartFacts
  <1>12. ASSUME NEW n \in Nat
         PROVE  (\E i \in between \cup after : InInterval(i, n))
                <=> \/ \E k \in 1 .. N : Start(k) <= n /\ n < s[k].low
                    \/ N = 0
                    \/ N # 0 /\ s[N].high # None /\ s[N].high < n
    <2>1. \A k \in 1 .. N : InInterval(gap[k], n) <=> Start(k) <= n /\ n < s[k].low
      <3>1. ASSUME NEW k \in 1 .. N PROVE InInterval(gap[k], n) <=> Start(k) <= n /\ n < s[k].low
        <4> DEFINE G == gap[k]
                   S == Start(k)
        <4>1. G.low = S /\ G.high = s[k].low - 1 /\ s[k].low \in Nat /\ S \in Nat
          BY <1>3, <1>4, <1>5
        <4> HIDE DEF G, S
        <4>2. InInterval(G, n) <=> S <= n /\ n < s[k].low
          BY <4>1, NoneAssumption DEF InInterval, UpTo
        <4> QED BY <4>2 DEF G, S
      <3> QED BY <3>1
    <2>2. (\E i \in after : InInterval(i, n)) <=> N = 0 \/ (N # 0 /\ s[N].high # None /\ s[N].high < n)
      <3> HIDE DEF N
      <3>1. N # 0 => s[N].high = None \/ s[N].high \in Nat
        BY <1>3, <1>7
      <3>2. InInterval(Interval(0, None), n)
        BY DEF InInterval, UpTo, Interval
      <3>3. N # 0 /\ s[N].high # None => (InInterval(Interval(s[N].high + 1, None), n) <=> s[N].high < n)
        BY <3>1 DEF InInterval, UpTo, Interval
      <3> QED BY <3>2, <3>3
    <2>3. \A i : i \in between <=> \E k \in 1 .. N : i = gap[k]
      OBVIOUS
    <2> HIDE DEF between, after, gap, Start, N
    <2> QED BY <2>1, <2>2, <2>3
  <1>13. ASSUME NEW n \in Nat, Counts(s, n)
         PROVE  ~\E i \in between \cup after : InInterval(i, n)
    <2>1. PICK j \in 1 .. N : InInterval(s[j], n)
      BY <1>11, <1>13
    <2>2. s[j].low <= n /\ (s[j].high = None \/ n <= s[j].high)
      BY <2>1 DEF InInterval, UpTo
    <2>3. ASSUME NEW k \in 1 .. N, Start(k) <= n, n < s[k].low PROVE FALSE
      <3>1. j < k
        <4>1. ~(k < j)
          <5> SUFFICES ASSUME k < j PROVE FALSE
            OBVIOUS
          <5>1. s[k].high \in Nat /\ s[k].high + 1 < s[j].low /\ s[k].low <= s[k].high
            BY <1>3, NoneAssumption
          <5> HIDE DEF Start
          <5> QED BY <1>3, <2>2, <2>3, <5>1
        <4>2. j # k
          BY <1>3, <2>2, <2>3
        <4> QED BY <1>1, <4>1, <4>2
      <3>2. s[j].high \in Nat /\ n <= s[j].high
        BY <1>3, <2>2, <3>1, NoneAssumption
      <3>3. k # 1 /\ k - 1 \in 1 .. N /\ Start(k) = s[k - 1].high + 1
        BY <1>1, <3>1
      <3>4. s[k - 1].high \in Nat /\ s[j].high <= s[k - 1].high
        <4>1. CASE j = k - 1
          BY <3>2, <4>1
        <4>2. CASE j < k - 1
          <5>1. s[j].high + 1 < s[k - 1].low
            BY <1>3, <3>3, <4>2
          <5>2. s[k - 1].high \in Nat
            BY <1>1, <1>3, <3>3
          <5>3. s[k - 1].low \in Nat /\ s[k - 1].low <= s[k - 1].high
            BY <1>3, <3>3, <5>2, NoneAssumption
          <5> QED BY <3>2, <5>1, <5>2, <5>3
        <4> QED BY <1>1, <3>1, <4>1, <4>2
      <3> HIDE DEF Start
      <3> QED BY <2>3, <3>2, <3>3, <3>4
    <2>4. ~(N # 0 /\ s[N].high # None /\ s[N].high < n)
      <3> SUFFICES ASSUME N # 0, s[N].high # None, s[N].high < n PROVE FALSE
        OBVIOUS
      <3>1. s[N].high \in Nat /\ s[N].low <= s[N].high /\ s[N].low \in Nat
        BY <1>3, <1>7
      <3>2. CASE j = N
        BY <2>2, <3>1, <3>2
      <3>3. CASE j < N
        <4>1. s[j].high \in Nat /\ s[j].high + 1 < s[N].low
          BY <1>3, <1>7, <3>3
        <4> QED BY <2>2, <3>1, <4>1, NoneAssumption
      <3>4. j = N \/ j < N
        <4> HIDE DEF N
        <4> QED BY <1>1
      <3> QED BY <3>2, <3>3, <3>4
    <2>5. N # 0
      BY <1>1
    <2> HIDE DEF N, Start, between, after
    <2> QED BY <1>12, <2>3, <2>4, <2>5
  <1>14. ASSUME NEW n \in Nat, ~Counts(s, n)
         PROVE  \E i \in between \cup after : InInterval(i, n)
    <2> DEFINE T == {k \in 1 .. N : n < s[k].low}
    <2>1. CASE T # {}
      <3>1. PICK k \in T : \A j \in T : k <= j
        <4>1. T \in SUBSET Nat
          BY <1>1
        <4> HIDE DEF T
        <4> QED BY <2>1, <4>1, LeastNatural
      <3>2. k \in 1 .. N /\ n < s[k].low
        OBVIOUS
      <3>3. Start(k) <= n
        <4>1. CASE k = 1
          BY <4>1
        <4>2. CASE k # 1
          <5>1. k - 1 \in 1 .. N /\ k - 1 < k
            BY <1>1, <4>2
          <5>2. s[k - 1].high \in Nat
            BY <1>3, <3>2, <5>1
          <5>3. ~(n < s[k - 1].low) /\ s[k - 1].low \in Nat
            BY <1>3, <3>1, <5>1
          <5>4. ~InInterval(s[k - 1], n)
            BY <1>11, <1>14, <5>1
          <5>5. s[k - 1].high < n
            BY <5>2, <5>3, <5>4 DEF InInterval, UpTo
          <5> QED BY <4>2, <5>2, <5>5
        <4> QED BY <4>1, <4>2
      <3> HIDE DEF N, Start, between, after, T
      <3> QED BY <1>12, <3>2, <3>3
    <2>2. CASE T = {} /\ N # 0
      <3>1. s[N].low \in Nat /\ ~(n < s[N].low) /\ ~InInterval(s[N], n)
            /\ (s[N].high = None \/ s[N].high \in Nat)
        BY <1>3, <1>7, <1>11, <1>14, <2>2
      <3>2. s[N].high # None /\ s[N].high < n
        BY <3>1 DEF InInterval, UpTo
      <3> HIDE DEF N, Start, between, after, T
      <3> QED BY <1>12, <2>2, <3>2
    <2>3. CASE N = 0
      <3> HIDE DEF N, Start, between, after, T
      <3> QED BY <1>12, <2>3
    <2> QED BY <2>1, <2>2, <2>3
  <1> HIDE DEF between, after
  <1> QED BY <1>10, <1>13, <1>14

-----------------------------------------------------------------------------
(* Shapes, met and joined.                                                 *)

(* What a shape says of a count, or of a value without one.                *)
Admits(a, c) == IF c = None THEN a.others ELSE Counts(a.intervals, c)

(* A shape bounds a set X of values: each is admitted, and if the shape is *)
(* exact no others are.                                                    *)
Bounds(a, X, V, size) ==
    a # None =>
      /\ a \in Shapes /\ Apart(a.intervals)
      /\ \A v \in V : /\ v \in X => Admits(a, size[v])
                      /\ a.exact /\ Admits(a, size[v]) => v \in X

(* The counts of the values of V, None for those that have none.           *)
Sizes(V) == [V -> Nat \cup {None}]

(* The shape of a finite set of intervals admits the counts of any of      *)
(* them.                                                                   *)
LEMMA ShapeFacts ==
    ASSUME NEW S \in SUBSET Intervals, IsFiniteSet(S), NEW o \in BOOLEAN, NEW e \in BOOLEAN
    PROVE  LET a == Shape(S, o, e)
           IN  /\ a \in Shapes /\ a # None /\ Apart(a.intervals)
               /\ (a.others <=> o) /\ (a.exact <=> e)
               /\ \A c \in Nat \cup {None} :
                    Admits(a, c) <=> IF c = None THEN o ELSE \E i \in S : InInterval(i, c)
  <1> DEFINE a == Shape(S, o, e)
             m == Merged(S)
  <1>1. Apart(m) /\ \A n \in Nat : Counts(m, n) <=> \E i \in S : InInterval(i, n)
    BY MergedFacts
  <1>2. m \in Seq(Intervals)
    BY <1>1 DEF Apart
  <1>3. a = [intervals |-> m, others |-> o, exact |-> e]
    BY DEF Shape
  <1> HIDE DEF a, m
  <1>4. a \in Shapes /\ a.intervals = m
    BY <1>2, <1>3 DEF Shapes
  <1>5. (a.others <=> o) /\ (a.exact <=> e)
    BY <1>3
  <1>6. a # None
    BY <1>4, NoneAssumption
  <1>7. ASSUME NEW c \in Nat \cup {None}
        PROVE  Admits(a, c) <=> IF c = None THEN o ELSE \E i \in S : InInterval(i, c)
    <2>1. CASE c = None
      BY <1>5, <2>1 DEF Admits
    <2>2. CASE c # None
      BY <1>1, <1>4, <2>2 DEF Admits
    <2> QED BY <2>1, <2>2
  <1> QED BY <1>1, <1>4, <1>5, <1>6, <1>7 DEF a

(* Two intervals meet in the counts that are in both.                      *)
LEMMA MeetIntervalsFacts ==
    ASSUME NEW i \in Intervals, NEW j \in Intervals
    PROVE  /\ MeetIntervals(i, j) \in Intervals
           /\ \A n \in Nat : InInterval(MeetIntervals(i, j), n) <=> InInterval(i, n) /\ InInterval(j, n)
  <1> DEFINE m == MeetIntervals(i, j)
  <1>1. /\ i.low \in Nat /\ (i.high \in Int \/ i.high = None)
        /\ j.low \in Nat /\ (j.high \in Int \/ j.high = None)
    BY IntervalFacts
  <1>2. /\ m \in Intervals
        /\ m.low = IF i.low < j.low THEN j.low ELSE i.low
        /\ m.high = IF i.high = None THEN j.high ELSE IF j.high = None THEN i.high
                    ELSE IF i.high < j.high THEN i.high ELSE j.high
    BY <1>1 DEF MeetIntervals, Interval, Larger, LowerBound, Intervals
  <1> HIDE DEF m
  <1>3. \A n \in Nat : InInterval(m, n) <=> InInterval(i, n) /\ InInterval(j, n)
    BY <1>1, <1>2, NoneAssumption DEF InInterval, UpTo
  <1> QED BY <1>2, <1>3 DEF m

(* The intervals of a shape as a set.                                      *)
LEMMA IntervalSet ==
    ASSUME NEW a \in Shapes, Apart(a.intervals)
    PROVE  LET T == ToSet(a.intervals)
           IN  /\ T \in SUBSET Intervals /\ IsFiniteSet(T)
               /\ \A n \in Nat : Counts(a.intervals, n) <=> \E i \in T : InInterval(i, n)
  <1> DEFINE s == a.intervals
             N == Len(s)
  <1>1. N \in Nat /\ DOMAIN s = 1 .. N /\ \A k \in 1 .. N : s[k] \in Intervals
    BY ApartFacts
  <1>2. \A n : Counts(s, n) <=> \E k \in 1 .. N : InInterval(s[k], n)
    BY ApartFacts
  <1> HIDE DEF s, N
  <1>3. ToSet(s) = {s[k] : k \in 1 .. N}
    BY <1>1 DEF ToSet
  <1>4. IsFiniteSet({s[k] : k \in 1 .. N})
    BY <1>1, FiniteRange
  <1> QED BY <1>1, <1>2, <1>3, <1>4 DEF s

(* The shape of a conjunction admits what both sides admit.                *)
LEMMA MeetFacts ==
    ASSUME NEW a \in Shapes, NEW b \in Shapes, Apart(a.intervals), Apart(b.intervals),
           a # None, b # None
    PROVE  LET m == MeetShapes(a, b)
           IN  /\ m \in Shapes /\ m # None /\ Apart(m.intervals)
               /\ m.exact <=> a.exact /\ b.exact
               /\ \A c \in Nat \cup {None} : Admits(m, c) <=> Admits(a, c) /\ Admits(b, c)
  <1> DEFINE A == ToSet(a.intervals)
             B == ToSet(b.intervals)
             M == UNION {{MeetIntervals(i, j) : j \in B} : i \in A}
             m == Shape(M, a.others /\ b.others, a.exact /\ b.exact)
  <1>3. /\ A \in SUBSET Intervals /\ IsFiniteSet(A)
        /\ \A n \in Nat : Counts(a.intervals, n) <=> \E i \in A : InInterval(i, n)
        /\ B \in SUBSET Intervals /\ IsFiniteSet(B)
        /\ \A n \in Nat : Counts(b.intervals, n) <=> \E i \in B : InInterval(i, n)
    BY IntervalSet
  <1>4. MeetShapes(a, b) = m
    <2>1. {MeetIntervals(i, j) : i \in A, j \in B} = M
      <3> HIDE DEF A, B
      <3> QED OBVIOUS
    <2> HIDE DEF M
    <2> QED BY <2>1 DEF MeetShapes
  <1> HIDE DEF A, B
  <1>5. M \in SUBSET Intervals /\ IsFiniteSet(M)
    <2>1. M \in SUBSET Intervals
      BY <1>3, MeetIntervalsFacts
    <2>2. IsFiniteSet(A \X B)
      BY <1>3, FS_Product
    <2> DEFINE f == [p \in A \X B |-> MeetIntervals(p[1], p[2])]
    <2>3. f \in Surjection(A \X B, M)
      <3>1. \A x \in M : \E p \in A \X B : f[p] = x
        <4>1. ASSUME NEW x \in M PROVE \E p \in A \X B : f[p] = x
          <5>1. PICK i \in A : x \in {MeetIntervals(i, j) : j \in B}
            OBVIOUS
          <5>2. PICK j \in B : x = MeetIntervals(i, j)
            BY <5>1
          <5>3. <<i, j>> \in A \X B /\ f[<<i, j>>] = x
            BY <5>2
          <5> QED BY <5>3
        <4> QED BY <4>1
      <3>2. \A p \in A \X B : f[p] \in M
        OBVIOUS
      <3>3. f = [p \in A \X B |-> f[p]]
        OBVIOUS
      <3> HIDE DEF f, M
      <3>4. f \in [A \X B -> M]
        BY <3>2, <3>3
      <3> QED BY <3>1, <3>4 DEF Surjection
    <2> HIDE DEF f, M
    <2> QED BY <2>1, <2>2, <2>3, FS_Surjection
  <1>6. ASSUME NEW n \in Nat
        PROVE  (\E i \in M : InInterval(i, n)) <=> Counts(a.intervals, n) /\ Counts(b.intervals, n)
    <2>1. \A i \in A, j \in B : InInterval(MeetIntervals(i, j), n) <=> InInterval(i, n) /\ InInterval(j, n)
      BY <1>3, MeetIntervalsFacts
    <2>2. (\E x \in M : InInterval(x, n)) <=> \E i \in A : \E j \in B : InInterval(MeetIntervals(i, j), n)
      OBVIOUS
    <2> HIDE DEF M
    <2> QED BY <1>3, <2>1, <2>2
  <1> HIDE DEF M
  <1>7. (a.others /\ b.others) \in BOOLEAN /\ (a.exact /\ b.exact) \in BOOLEAN
    OBVIOUS
  <1>8. /\ m \in Shapes /\ m # None /\ Apart(m.intervals)
        /\ m.exact <=> a.exact /\ b.exact
        /\ \A c \in Nat \cup {None} :
             Admits(m, c) <=> IF c = None THEN a.others /\ b.others ELSE \E i \in M : InInterval(i, c)
    BY <1>5, <1>7, ShapeFacts
  <1> HIDE DEF m
  <1>9. \A c \in Nat \cup {None} : Admits(m, c) <=> Admits(a, c) /\ Admits(b, c)
    BY <1>6, <1>8 DEF Admits
  <1> QED BY <1>4, <1>8, <1>9

(* The shape of a conjunction bounds what both sides accept.               *)
LEMMA MeetBounds ==
    ASSUME NEW a, NEW b, NEW X, NEW Y, NEW V, NEW size \in Sizes(V),
           Bounds(a, X, V, size), Bounds(b, Y, V, size)
    PROVE  Bounds(MeetShapes(a, b), X \cap Y, V, size)
  <1> SUFFICES ASSUME MeetShapes(a, b) # None
               PROVE  Bounds(MeetShapes(a, b), X \cap Y, V, size)
    BY DEF Bounds
  <1> DEFINE m == MeetShapes(a, b)
  <1>1. a # None /\ b # None
    BY DEF MeetShapes
  <1>2. /\ a \in Shapes /\ Apart(a.intervals) /\ b \in Shapes /\ Apart(b.intervals)
        /\ \A v \in V : /\ v \in X => Admits(a, size[v])
                        /\ a.exact /\ Admits(a, size[v]) => v \in X
        /\ \A v \in V : /\ v \in Y => Admits(b, size[v])
                        /\ b.exact /\ Admits(b, size[v]) => v \in Y
    BY <1>1 DEF Bounds
  <1>3. /\ m \in Shapes /\ Apart(m.intervals)
        /\ m.exact <=> a.exact /\ b.exact
        /\ \A c \in Nat \cup {None} : Admits(m, c) <=> Admits(a, c) /\ Admits(b, c)
    BY <1>1, <1>2, MeetFacts
  <1> HIDE DEF m
  <1>4. \A v \in V : size[v] \in Nat \cup {None}
    BY DEF Sizes
  <1>5. \A v \in V : Admits(m, size[v]) <=> Admits(a, size[v]) /\ Admits(b, size[v])
    BY <1>3, <1>4
  <1>6. Bounds(m, X \cap Y, V, size)
    BY <1>2, <1>3, <1>5 DEF Bounds
  <1> QED BY <1>6 DEF m

(* The shape of a disjunction bounds what either side accepts.             *)
LEMMA JoinBounds ==
    ASSUME NEW a, NEW b, NEW X, NEW Y, NEW V, NEW size \in Sizes(V),
           Bounds(a, X, V, size), Bounds(b, Y, V, size)
    PROVE  Bounds(JoinShapes(a, b), X \cup Y, V, size)
  <1> SUFFICES ASSUME JoinShapes(a, b) # None
               PROVE  Bounds(JoinShapes(a, b), X \cup Y, V, size)
    BY DEF Bounds
  <1> DEFINE A == ToSet(a.intervals)
             B == ToSet(b.intervals)
             M == A \cup B
             m == Shape(M, a.others \/ b.others, a.exact /\ b.exact)
  <1>1. a # None /\ b # None
    BY DEF JoinShapes
  <1>2. /\ a \in Shapes /\ Apart(a.intervals) /\ b \in Shapes /\ Apart(b.intervals)
        /\ \A v \in V : /\ v \in X => Admits(a, size[v])
                        /\ a.exact /\ Admits(a, size[v]) => v \in X
        /\ \A v \in V : /\ v \in Y => Admits(b, size[v])
                        /\ b.exact /\ Admits(b, size[v]) => v \in Y
    BY <1>1 DEF Bounds
  <1>3. /\ A \in SUBSET Intervals /\ IsFiniteSet(A)
        /\ \A n \in Nat : Counts(a.intervals, n) <=> \E i \in A : InInterval(i, n)
        /\ B \in SUBSET Intervals /\ IsFiniteSet(B)
        /\ \A n \in Nat : Counts(b.intervals, n) <=> \E i \in B : InInterval(i, n)
    BY <1>2, IntervalSet
  <1>4. JoinShapes(a, b) = m
    BY <1>1 DEF JoinShapes
  <1> HIDE DEF A, B
  <1>5. M \in SUBSET Intervals /\ IsFiniteSet(M)
    BY <1>3, FS_Union
  <1>6. ASSUME NEW n \in Nat
        PROVE  (\E i \in M : InInterval(i, n)) <=> Counts(a.intervals, n) \/ Counts(b.intervals, n)
    BY <1>3
  <1> HIDE DEF M
  <1>7. (a.others \/ b.others) \in BOOLEAN /\ (a.exact /\ b.exact) \in BOOLEAN
    OBVIOUS
  <1>8. /\ m \in Shapes /\ m # None /\ Apart(m.intervals)
        /\ m.exact <=> a.exact /\ b.exact
        /\ \A c \in Nat \cup {None} :
             Admits(m, c) <=> IF c = None THEN a.others \/ b.others ELSE \E i \in M : InInterval(i, c)
    BY <1>5, <1>7, ShapeFacts
  <1> HIDE DEF m
  <1>9. \A c \in Nat \cup {None} : Admits(m, c) <=> Admits(a, c) \/ Admits(b, c)
    BY <1>6, <1>8 DEF Admits
  <1>10. \A v \in V : size[v] \in Nat \cup {None}
    BY DEF Sizes
  <1>11. \A v \in V : Admits(m, size[v]) <=> Admits(a, size[v]) \/ Admits(b, size[v])
    BY <1>9, <1>10
  <1>12. Bounds(m, X \cup Y, V, size)
    BY <1>2, <1>8, <1>11 DEF Bounds
  <1> QED BY <1>4, <1>12

(* The complement of an exact shape bounds, exactly, what is not accepted. *)
LEMMA ComplementBounds ==
    ASSUME NEW a, NEW X, NEW V, NEW size \in Sizes(V), Bounds(a, X, V, size)
    PROVE  Bounds(Complement(a), V \ X, V, size)
  <1> SUFFICES ASSUME Complement(a) # None
               PROVE  Bounds(Complement(a), V \ X, V, size)
    BY DEF Bounds
  <1> DEFINE s == Gaps(a.intervals)
             m == [intervals |-> s, others |-> ~a.others, exact |-> TRUE]
  <1>1. a # None /\ a.exact /\ Complement(a) = m
    BY DEF Complement
  <1>2. /\ a \in Shapes /\ Apart(a.intervals)
        /\ \A v \in V : v \in X <=> Admits(a, size[v])
    BY <1>1 DEF Bounds
  <1>3. Apart(s) /\ \A n \in Nat : Counts(s, n) <=> ~Counts(a.intervals, n)
    BY <1>2, GapsFacts
  <1> HIDE DEF s
  <1>4. m \in Shapes /\ m.intervals = s /\ (m.others <=> ~a.others)
    <2>1. s \in Seq(Intervals)
      BY <1>3 DEF Apart
    <2> QED BY <2>1 DEF Shapes
  <1> HIDE DEF m
  <1>5. \A c \in Nat \cup {None} : Admits(m, c) <=> ~Admits(a, c)
    BY <1>3, <1>4 DEF Admits
  <1>6. \A v \in V : size[v] \in Nat \cup {None}
    BY DEF Sizes
  <1>7. \A v \in V : Admits(m, size[v]) <=> v \notin X
    BY <1>2, <1>5, <1>6
  <1>8. Bounds(m, V \ X, V, size)
    BY <1>3, <1>4, <1>7 DEF Bounds
  <1> QED BY <1>1, <1>8

(* The shapes that may be met and joined.                                  *)
GoodShapes == {c \in Shapes \cup {None} : Bounds(c, {}, {}, [v \in {} |-> 0])}

(* Shapes that may be met and joined stay so.                              *)
LEMMA GoodShapesFacts ==
    /\ \A a, X, V, size : Bounds(a, X, V, size) => a \in GoodShapes
    /\ \A a \in GoodShapes, b \in GoodShapes : MeetShapes(a, b) \in GoodShapes
    /\ \A a \in GoodShapes, b \in GoodShapes : JoinShapes(a, b) \in GoodShapes
  <1> DEFINE e == [v \in {} |-> 0]
  <1>1. ASSUME NEW a, NEW X, NEW V, NEW size, Bounds(a, X, V, size)
        PROVE  a \in GoodShapes
    BY <1>1 DEF Bounds, GoodShapes
  <1>2. e \in Sizes({})
    BY DEF Sizes
  <1>3. \A a : a \in GoodShapes <=> Bounds(a, {}, {}, e)
    BY <1>1 DEF GoodShapes
  <1> HIDE DEF e
  <1>4. ASSUME NEW a \in GoodShapes, NEW b \in GoodShapes
        PROVE  MeetShapes(a, b) \in GoodShapes /\ JoinShapes(a, b) \in GoodShapes
    <2>1. Bounds(MeetShapes(a, b), {} \cap {}, {}, e)
      BY <1>2, <1>3, MeetBounds
    <2>2. Bounds(JoinShapes(a, b), {} \cup {}, {}, e)
      BY <1>2, <1>3, JoinBounds
    <2> QED BY <2>1, <2>2, <1>1
  <1> QED BY <1>1, <1>4

(* Shapes met one after the other bound the values all of them stand for.  *)
LEMMA MeetAllBounds ==
    ASSUME NEW N \in Nat, NEW s, s = [k \in 1 .. N |-> s[k]], NEW base, NEW X, NEW Y, NEW V,
           NEW size \in Sizes(V), Bounds(base, X, V, size),
           \A k \in 1 .. N : Bounds(s[k], Y[k], V, size)
    PROVE  Bounds(FoldLeft(MeetShapes, base, s), {v \in X : \A k \in 1 .. N : v \in Y[k]}, V, size)
  <1>1. base \in GoodShapes /\ \A k \in 1 .. N : s[k] \in GoodShapes
    BY GoodShapesFacts
  <1>2. s \in Seq(GoodShapes) /\ Len(s) = N
    <2>1. s \in [1 .. N -> GoodShapes]
      BY <1>1
    <2> QED BY <2>1
  <1>3. PICK g : MeetsTo(g, s, base)
    <2>1. \A a \in GoodShapes, b \in GoodShapes : MeetShapes(a, b) \in GoodShapes
      BY GoodShapesFacts
    <2> QED BY <1>1, <1>2, <2>1, MeetSteps
  <1> DEFINE Z(k) == {v \in X : \A j \in 1 .. k : v \in Y[j]}
             K == {k \in 0 .. N : Bounds(g[k], Z(k), V, size)}
  <1>4. 0 \in K
    <2>1. Z(0) = X
      OBVIOUS
    <2>2. 0 \in 0 .. N /\ g[0] = base
      BY <1>3 DEF MeetsTo
    <2> HIDE DEF Z
    <2> QED BY <2>1, <2>2
  <1>5. ASSUME NEW k \in 0 .. N - 1, k \in K
        PROVE  k + 1 \in K
    <2>1. Bounds(g[k], Z(k), V, size)
      BY <1>5
    <2>2. k + 1 \in 1 .. N /\ k + 1 \in 0 .. N
      OBVIOUS
    <2>3. Z(k + 1) = Z(k) \cap Y[k + 1]
      <3>1. 1 .. k + 1 = (1 .. k) \cup {k + 1}
        OBVIOUS
      <3> QED BY <3>1
    <2> HIDE DEF Z
    <2>4. Bounds(MeetShapes(g[k], s[k + 1]), Z(k) \cap Y[k + 1], V, size)
      BY <2>1, <2>2, MeetBounds
    <2>5. g[k + 1] = MeetShapes(g[k], s[k + 1])
      BY <1>2, <1>3 DEF MeetsTo
    <2> QED BY <2>2, <2>3, <2>4, <2>5
  <1> HIDE DEF K
  <1>6. \A k \in 0 .. N : k \in K
    BY <1>4, <1>5, HoldsUpTo
  <1>7. Bounds(g[N], Z(N), V, size)
    <2>1. N \in 0 .. N
      OBVIOUS
    <2> QED BY <1>6, <2>1 DEF K
  <1> QED BY <1>2, <1>3, <1>7 DEF MeetsTo

(* There is no shape of a conjunction unless both sides have one.          *)
LEMMA MeetOfBoth ==
    ASSUME NEW a, NEW b, MeetShapes(a, b) # None
    PROVE  a # None /\ b # None
  BY DEF MeetShapes

(* Shapes met one after the other: there is a shape when there is one each *)
(* time, and it admits the counts all of them admit.                       *)
LEMMA MeetAllCounts ==
    ASSUME NEW N \in Nat, NEW s, s = [k \in 1 .. N |-> s[k]], NEW base \in GoodShapes,
           \A k \in 1 .. N : s[k] \in GoodShapes
    PROVE  LET m == FoldLeft(MeetShapes, base, s)
           IN  /\ m \in GoodShapes
               /\ m # None <=> base # None /\ \A k \in 1 .. N : s[k] # None
               /\ m # None =>
                    /\ Apart(m.intervals)
                    /\ \A n \in Nat : Counts(m.intervals, n) =>
                         Counts(base.intervals, n) /\ \A k \in 1 .. N : Counts(s[k].intervals, n)
  <1>1. s \in Seq(GoodShapes) /\ Len(s) = N
    <2>1. s \in [1 .. N -> GoodShapes]
      OBVIOUS
    <2> QED BY <2>1
  <1>2. PICK g : MeetsTo(g, s, base)
    <2>1. \A a \in GoodShapes, b \in GoodShapes : MeetShapes(a, b) \in GoodShapes
      BY GoodShapesFacts
    <2> QED BY <1>1, <2>1, MeetSteps
  <1>3. \A c \in GoodShapes : c # None => c \in Shapes /\ Apart(c.intervals)
    BY DEF GoodShapes, Bounds
  <1>4. None \notin Int
    BY NoneAssumption
  <1> DEFINE Below(k, n) == Counts(base.intervals, n) /\ \A j \in 1 .. k : Counts(s[j].intervals, n)
             K == {k \in 0 .. N :
                     /\ g[k] \in GoodShapes
                     /\ g[k] # None <=> base # None /\ \A j \in 1 .. k : s[j] # None
                     /\ g[k] # None => \A n \in Nat : Counts(g[k].intervals, n) => Below(k, n)}
  <1>5. 0 \in K
    <2>1. g[0] = base /\ 0 \in 0 .. N /\ 1 .. 0 = {}
      BY <1>2 DEF MeetsTo
    <2> QED BY <2>1
  <1>6. ASSUME NEW k \in 0 .. N - 1, k \in K
        PROVE  k + 1 \in K
    <2>1. /\ g[k] \in GoodShapes
          /\ g[k] # None <=> base # None /\ \A j \in 1 .. k : s[j] # None
          /\ g[k] # None => \A n \in Nat : Counts(g[k].intervals, n) => Below(k, n)
      BY <1>6
    <2>2. k + 1 \in 1 .. N /\ k + 1 \in 0 .. N /\ 1 .. k + 1 = (1 .. k) \cup {k + 1}
      OBVIOUS
    <2>3. g[k + 1] = MeetShapes(g[k], s[k + 1])
      BY <1>1, <1>2 DEF MeetsTo
    <2>4. g[k + 1] \in GoodShapes
      BY <2>1, <2>2, <2>3, GoodShapesFacts
    <2>5. ASSUME g[k + 1] # None, NEW n \in Nat, Counts(g[k + 1].intervals, n)
          PROVE  Below(k + 1, n)
      <3>1. g[k] # None /\ s[k + 1] # None
        BY <2>3, <2>5, MeetOfBoth
      <3>2. Admits(g[k + 1], n) <=> Admits(g[k], n) /\ Admits(s[k + 1], n)
        BY <1>3, <2>1, <2>2, <2>3, <3>1, MeetFacts
      <3>3. Counts(g[k].intervals, n) /\ Counts(s[k + 1].intervals, n)
        BY <1>4, <2>5, <3>2 DEF Admits
      <3>4. Below(k, n)
        BY <2>1, <3>1, <3>3
      <3> QED BY <2>2, <3>3, <3>4
    <2>6. g[k + 1] # None <=> base # None /\ \A j \in 1 .. k + 1 : s[j] # None
      <3>1. g[k + 1] # None => g[k] # None /\ s[k + 1] # None
        BY <2>3, MeetOfBoth
      <3>2. g[k] # None /\ s[k + 1] # None => g[k + 1] # None
        BY <1>3, <2>1, <2>2, <2>3, MeetFacts
      <3> QED BY <2>1, <2>2, <3>1, <3>2
    <2> HIDE DEF Below
    <2> QED BY <2>2, <2>4, <2>5, <2>6
  <1> HIDE DEF K
  <1>7. \A k \in 0 .. N : k \in K
    BY <1>5, <1>6, HoldsUpTo
  <1>8. N \in K
    <2>1. N \in 0 .. N
      OBVIOUS
    <2> QED BY <1>7, <2>1
  <1>9. FoldLeft(MeetShapes, base, s) = g[N]
    BY <1>1, <1>2 DEF MeetsTo
  <1> QED BY <1>3, <1>8, <1>9 DEF K

(* The least and the greatest count of a shape are read off its ends.      *)
LEMMA EndsFacts ==
    ASSUME NEW a \in Shapes, Apart(a.intervals), a.intervals # <<>>
    PROVE  /\ LeastCount(a) \in Nat /\ Counts(a.intervals, LeastCount(a))
           /\ \A n \in Nat : Counts(a.intervals, n) => LeastCount(a) <= n
           /\ GreatestCount(a) = None => \A n \in Nat : \E m \in Nat : n <= m /\ Counts(a.intervals, m)
           /\ GreatestCount(a) # None =>
                /\ GreatestCount(a) \in Nat /\ Counts(a.intervals, GreatestCount(a))
                /\ \A n \in Nat : Counts(a.intervals, n) => n <= GreatestCount(a)
  <1> DEFINE s == a.intervals
             N == Len(s)
  <1>1. /\ N \in Nat /\ N # 0
        /\ \A k \in 1 .. N :
                /\ s[k].low \in Nat
                /\ s[k].high = None \/ (s[k].high \in Nat /\ s[k].low <= s[k].high)
                /\ \A j \in 1 .. N : j < k => s[j].high \in Nat /\ s[j].high + 1 < s[k].low
        /\ \A n : Counts(s, n) <=> \E k \in 1 .. N : InInterval(s[k], n)
    BY ApartFacts
  <1>2. LeastCount(a) = s[1].low /\ GreatestCount(a) = s[N].high
    BY DEF LeastCount, GreatestCount
  <1>3. None \notin Int
    BY NoneAssumption
  <1> HIDE DEF N, s
  <1>4. 1 \in 1 .. N /\ N \in 1 .. N
    BY <1>1
  <1>5. s[1].low \in Nat /\ Counts(s, s[1].low)
    <2>1. InInterval(s[1], s[1].low)
      BY <1>1, <1>4 DEF InInterval, UpTo
    <2> QED BY <1>1, <1>4, <2>1
  <1>6. ASSUME NEW n \in Nat, Counts(s, n)
        PROVE  s[1].low <= n /\ (s[N].high # None => n <= s[N].high)
    <2>1. PICK k \in 1 .. N : InInterval(s[k], n)
      BY <1>1, <1>6
    <2>2. s[k].low <= n /\ (s[k].high # None => n <= s[k].high)
      BY <2>1 DEF InInterval, UpTo
    <2>3. s[1].low <= n
      <3>1. CASE k = 1
        BY <2>2, <3>1
      <3>2. CASE k # 1
        <4>1. 1 < k
          BY <3>2
        <4>2. s[1].high \in Nat /\ s[1].high + 1 < s[k].low
          BY <1>1, <1>4, <4>1
        <4>3. s[1].low \in Nat /\ s[1].low <= s[1].high /\ s[k].low \in Nat
          BY <1>1, <1>3, <1>4, <4>2
        <4> QED BY <2>2, <4>2, <4>3
      <3> QED BY <3>1, <3>2
    <2>4. ASSUME s[N].high # None PROVE n <= s[N].high
      <3>1. CASE k = N
        BY <2>2, <2>4, <3>1
      <3>2. CASE k # N
        <4>1. k < N
          BY <1>1, <3>2
        <4>2. s[k].high \in Nat /\ s[k].high + 1 < s[N].low
          BY <1>1, <1>4, <4>1
        <4>3. s[N].low \in Nat /\ s[N].high \in Nat /\ s[N].low <= s[N].high
          BY <1>1, <1>4, <2>4
        <4>4. n <= s[k].high
          BY <1>3, <2>2, <4>2
        <4> QED BY <4>2, <4>3, <4>4
      <3> QED BY <3>1, <3>2
    <2> QED BY <2>3, <2>4
  <1>7. ASSUME s[N].high = None, NEW n \in Nat
        PROVE  \E m \in Nat : n <= m /\ Counts(s, m)
    <2> DEFINE m == Larger(n, s[N].low)
    <2>1. m \in Nat /\ n <= m /\ s[N].low <= m
      BY <1>1, <1>4 DEF Larger
    <2>2. InInterval(s[N], m)
      BY <1>7, <2>1 DEF InInterval, UpTo
    <2> QED BY <1>1, <1>4, <2>1, <2>2
  <1>8. s[N].high # None => s[N].high \in Nat /\ Counts(s, s[N].high)
    <2>1. ASSUME s[N].high # None
          PROVE  s[N].high \in Nat /\ s[N].low <= s[N].high
      BY <1>1, <1>4, <2>1
    <2>2. s[N].high # None => InInterval(s[N], s[N].high)
      BY <2>1 DEF InInterval, UpTo
    <2> QED BY <1>1, <1>4, <2>1, <2>2
  <1> QED BY <1>2, <1>5, <1>6, <1>7, <1>8 DEF s

(* Shapes joined one after the other bound the values any of them stands   *)
(* for.                                                                    *)
LEMMA JoinAllBounds ==
    ASSUME NEW N \in Nat, NEW s, s = [k \in 1 .. N |-> s[k]], NEW base, NEW X, NEW Y, NEW V,
           NEW size \in Sizes(V), Bounds(base, X, V, size),
           \A k \in 1 .. N : Bounds(s[k], Y[k], V, size)
    PROVE  Bounds(FoldLeft(JoinShapes, base, s), X \cup UNION {Y[k] : k \in 1 .. N}, V, size)
  <1>1. base \in GoodShapes /\ \A k \in 1 .. N : s[k] \in GoodShapes
    BY GoodShapesFacts
  <1>2. s \in Seq(GoodShapes) /\ Len(s) = N
    <2>1. s \in [1 .. N -> GoodShapes]
      BY <1>1
    <2> QED BY <2>1
  <1>3. PICK g : JoinsTo(g, s, base)
    <2>1. \A a \in GoodShapes, b \in GoodShapes : JoinShapes(a, b) \in GoodShapes
      BY GoodShapesFacts
    <2> QED BY <1>1, <1>2, <2>1, JoinSteps
  <1> DEFINE Z(k) == X \cup UNION {Y[j] : j \in 1 .. k}
             K == {k \in 0 .. N : Bounds(g[k], Z(k), V, size)}
  <1>4. 0 \in K
    <2>1. Z(0) = X
      OBVIOUS
    <2>2. 0 \in 0 .. N /\ g[0] = base
      BY <1>3 DEF JoinsTo
    <2> HIDE DEF Z
    <2> QED BY <2>1, <2>2
  <1>5. ASSUME NEW k \in 0 .. N - 1, k \in K
        PROVE  k + 1 \in K
    <2>1. Bounds(g[k], Z(k), V, size)
      BY <1>5
    <2>2. k + 1 \in 1 .. N /\ k + 1 \in 0 .. N
      OBVIOUS
    <2>3. Z(k + 1) = Z(k) \cup Y[k + 1]
      <3>1. 1 .. k + 1 = (1 .. k) \cup {k + 1}
        OBVIOUS
      <3> QED BY <3>1
    <2> HIDE DEF Z
    <2>4. Bounds(JoinShapes(g[k], s[k + 1]), Z(k) \cup Y[k + 1], V, size)
      BY <2>1, <2>2, JoinBounds
    <2>5. g[k + 1] = JoinShapes(g[k], s[k + 1])
      BY <1>2, <1>3 DEF JoinsTo
    <2> QED BY <2>2, <2>3, <2>4, <2>5
  <1> HIDE DEF K
  <1>6. \A k \in 0 .. N : k \in K
    BY <1>4, <1>5, HoldsUpTo
  <1>7. Bounds(g[N], Z(N), V, size)
    <2>1. N \in 0 .. N
      OBVIOUS
    <2> QED BY <1>6, <2>1 DEF K
  <1> QED BY <1>2, <1>3, <1>7 DEF JoinsTo
=============================================================================

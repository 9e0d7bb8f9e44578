----------------------- MODULE NumericConstraintsProofs -----------------------
(***************************************************************************)
(* Proofs about numbers, for every unit and all integers, where TLC        *)
(* compares schemas on a grid: the algebra of numeric atoms, that keywords *)
(* keep their meaning when they are compiled to atoms, that an atom said   *)
(* to be covered is, and from these that what is concluded is so.          *)
(***************************************************************************)
EXTENDS NumericConstraints, CommonLemmas

-----------------------------------------------------------------------------
(* Multiples of whole numbers and of fractions.                            *)

(* The atoms the compiler builds: bounds that may be missing, open or      *)
(* closed, and the multiples of a positive number, if of any.              *)
AtomEnds == [at : Int \cup {Absent}, closed : BOOLEAN]

Atoms == [integer : BOOLEAN, lower : AtomEnds, upper : AtomEnds,
          multiple : (Nat \ {0}) \cup {Absent}]

(* Divisibility is transitive, in terms of remainders.                     *)
LEMMA MultipleOfMultiple ==
    ASSUME NEW x \in Int, NEW m \in Nat \ {0}, NEW d \in Nat \ {0},
           x % m = 0, m % d = 0
    PROVE  x % d = 0
  <1>1. Factor(x, m) /\ Factor(m, d)
    BY Multiples
  <1>2. Factor(x, d)
    BY <1>1, FactorOfFactor
  <1> QED BY <1>2, Multiples

(* Gcd, as the code searches for it, is that sum: every common divisor     *)
(* divides it.                                                             *)
LEMMA GcdCombines ==
    ASSUME NEW x \in Nat \ {0}, NEW y \in Nat \ {0}
    PROVE  /\ Gcd(x, y) \in Nat \ {0} /\ Combination(x, y, Gcd(x, y))
           /\ Factor(x, Gcd(x, y)) /\ Factor(y, Gcd(x, y))
  <1> DEFINE n == SmallerOf(x, y)
  <1>1. n \in Nat \ {0} /\ n <= x /\ n <= y
    BY DEF SmallerOf
  <1>2. PICK d \in Nat \ {0} : Combination(x, y, d) /\ Factor(x, d) /\ Factor(y, d)
    BY LeastCombination
  <1>3. PICK s \in Int, t \in Int : d = s * x + t * y
    BY <1>2 DEF Combination
  <1>4. d \in 1 .. n
    BY <1>1, <1>2, FactorBound DEF SmallerOf
  <1>5. ASSUME NEW e \in 1 .. n, Factor(x, e), Factor(y, e)
        PROVE  e <= d
    <2>1. Factor(d, e)
      BY <1>3, <1>5, Sums
    <2> QED BY <1>1, <2>1, FactorBound
  <1>6. \A e \in 1 .. n : e \in Nat \ {0}
    BY <1>1
  <1>7. x % d = 0 /\ y % d = 0
    BY <1>2, Multiples
  <1>8. \A e \in 1 .. n : x % e = 0 /\ y % e = 0 => e <= d
    BY <1>5, <1>6, Multiples
  <1> DEFINE IsGcd(c) == /\ x % c = 0 /\ y % c = 0
                         /\ \A e \in c + 1 .. n : x % e # 0 \/ y % e # 0
  <1>9. \A e \in d + 1 .. n : x % e # 0 \/ y % e # 0
    <2>1. \A e \in d + 1 .. n : e \in 1 .. n /\ ~(e <= d)
      BY <1>1
    <2> QED BY <1>8, <2>1
  <1>10. IsGcd(d)
    BY <1>7, <1>9
  <1>11. Gcd(x, y) \in 1 .. n /\ IsGcd(Gcd(x, y))
    <2>1. Gcd(x, y) = CHOOSE c \in 1 .. n : IsGcd(c)
      BY DEF Gcd
    <2> HIDE DEF IsGcd, n
    <2> QED BY <1>4, <1>10, <2>1
  <1>12. Gcd(x, y) <= d
    BY <1>8, <1>11
  <1>13. ~(d \in Gcd(x, y) + 1 .. n)
    BY <1>7, <1>11
  <1>14. Gcd(x, y) = d
    BY <1>4, <1>11, <1>12, <1>13
  <1> QED BY <1>2, <1>14

(* Two numbers over their greatest common divisor are coprime.             *)
LEMMA Reduced ==
    ASSUME NEW x \in Nat \ {0}, NEW y \in Nat \ {0}
    PROVE  /\ Gcd(x, y) \in Nat \ {0}
           /\ x \div Gcd(x, y) \in Nat \ {0} /\ y \div Gcd(x, y) \in Nat \ {0}
           /\ x = Gcd(x, y) * (x \div Gcd(x, y)) /\ y = Gcd(x, y) * (y \div Gcd(x, y))
           /\ Coprime(x \div Gcd(x, y), y \div Gcd(x, y))
  <1> DEFINE g == Gcd(x, y)
             p == x \div g
             q == y \div g
  <1>1. /\ g \in Nat \ {0} /\ Combination(x, y, g)
        /\ x % g = 0 /\ y % g = 0
    BY GcdCombines, Multiples
  <1>2. PICK s \in Int, t \in Int : g = s * x + t * y
    BY <1>1 DEF Combination
  <1> HIDE DEF g
  <1>3. p \in Int /\ q \in Int /\ x = g * p /\ y = g * q
    BY <1>1
  <1> HIDE DEF p, q
  <1>4. p \in Nat \ {0} /\ q \in Nat \ {0}
    <2>1. /\ p <= 0 => g * p <= 0
          /\ q <= 0 => g * q <= 0
      BY <1>1, <1>3
    <2> QED BY <1>3, <2>1
  <1>5. s * p + t * q = 1
    <2>1. g = g * (s * p + t * q) /\ s * p + t * q \in Int
      BY <1>1, <1>2, <1>3
    <2>2. \A w \in Int : g = g * w => w = 1
      BY <1>1
    <2> DEFINE w == s * p + t * q
    <2>3. w \in Int /\ g = g * w
      BY <2>1
    <2> HIDE DEF w
    <2>4. w = 1
      BY <2>2, <2>3
    <2> QED BY <2>4 DEF w
  <1>6. Coprime(p, q)
    BY <1>5 DEF Coprime
  <1> QED BY <1>1, <1>3, <1>4, <1>6 DEF g, p, q

(* The least common multiple divides every common multiple.                *)
LEMMA LcmDivides ==
    ASSUME NEW x \in Nat \ {0}, NEW y \in Nat \ {0}
    PROVE  /\ Lcm(x, y) \in Nat \ {0} /\ Factor(Lcm(x, y), x) /\ Factor(Lcm(x, y), y)
           /\ \A z \in Int : Factor(z, x) /\ Factor(z, y) => Factor(z, Lcm(x, y))
  <1> DEFINE g == Gcd(x, y)
             p == x \div g
             q == y \div g
  <1>1. /\ g \in Nat \ {0} /\ p \in Nat \ {0} /\ q \in Nat \ {0}
        /\ x = g * p /\ y = g * q /\ Coprime(p, q)
    BY Reduced
  <1>2. Lcm(x, y) = (x * y) \div g
    BY DEF Lcm
  <1> HIDE DEF g, p, q
  <1>3. Lcm(x, y) = g * p * q
    <2>1. x * y = g * (g * p * q) /\ g * p * q \in Int
      BY <1>1
    <2>2. \A k \in Int : (g * k) \div g = k
      BY <1>1
    <2> HIDE DEF Lcm
    <2> QED BY <1>2, <2>1, <2>2
  <1>4. g * p * q = x * q /\ g * p * q = y * p /\ g * p * q \in Nat \ {0}
    BY <1>1
  <1>5. ASSUME NEW z \in Int, Factor(z, x), Factor(z, y)
        PROVE  Factor(z, g * p * q)
    <2>1. PICK i \in Int : z = x * i
      BY <1>5 DEF Factor
    <2>2. PICK j \in Int : z = y * j
      BY <1>5 DEF Factor
    <2>3. p * i = q * j
      <3>1. g * (p * i) = g * (q * j)
        BY <1>1, <2>1, <2>2
      <3>2. p * i \in Int /\ q * j \in Int
        BY <1>1
      <3>3. \A u, v \in Int : g * u = g * v => u = v
        BY <1>1
      <3> QED BY <3>1, <3>2, <3>3
    <2>4. Factor(p * i, q)
      BY <2>3 DEF Factor
    <2>5. Factor(i, q)
      BY <1>1, <2>4, Euclid
    <2>6. PICK k \in Int : i = q * k
      BY <2>5 DEF Factor
    <2>7. z = g * p * q * k
      BY <1>1, <2>1, <2>6
    <2> QED BY <2>7 DEF Factor
  <1>6. Factor(g * p * q, x) /\ Factor(g * p * q, y)
    BY <1>1, <1>4 DEF Factor
  <1> QED BY <1>3, <1>4, <1>5, <1>6

(* A divisor that leaves 1 when it divides a number is the number.         *)
LEMMA DivisorOfUnit ==
    ASSUME NEW g \in Nat \ {0}, NEW u \in Nat \ {0}, u % g = 0, u \div g = 1
    PROVE  g = u
  OBVIOUS

(* Multiples of a fraction with denominator 1 are whole.                   *)
LEMMA WholeMultiples ==
    ASSUME NEW x \in Int, NEW m \in Nat \ {0}, Denominator(m) = 1, x % m = 0
    PROVE  IsWhole(x)
  <1> DEFINE g == Gcd(m, Unit)
  <1>1. Unit \in Nat \ {0}
    BY UnitAssumption
  <1>2. g \in Nat \ {0} /\ m % g = 0 /\ Unit % g = 0
    <2>1. Unit \in Nat \ {0} /\ m % Gcd(m, Unit) = 0
      BY <1>1, GcdCombines, Multiples
    <2>2. Unit % Gcd(m, Unit) = 0 /\ Gcd(m, Unit) \in Nat \ {0}
      BY <1>1, GcdCombines, Multiples
    <2> QED BY <2>1, <2>2
  <1>3. Unit \div g = 1
    BY DEF Denominator
  <1> HIDE DEF g
  <1>4. g = Unit
    BY <1>1, <1>2, <1>3, DivisorOfUnit
  <1> QED BY <1>1, <1>2, <1>4, MultipleOfMultiple DEF IsWhole

(* The parts of two fractions that LcmFraction puts together.              *)
AreParts(a, b, e, f, n, p, k, q) ==
    /\ a = e * n /\ b = f * p /\ e * k = f * q
    /\ Coprime(n, k) /\ Coprime(p, q) /\ Coprime(k, q)
    /\ LcmFraction(a, b) = e * k * Lcm(n, p)

(* Every two multiples have such parts.                                    *)
LEMMA LcmFractionParts ==
    ASSUME NEW a \in Nat \ {0}, NEW b \in Nat \ {0}
    PROVE  \E e, f, n, p, k, q \in Nat \ {0} : AreParts(a, b, e, f, n, p, k, q)
  <1> DEFINE e == Gcd(a, Unit)
             f == Gcd(b, Unit)
             n == Numerator(a)
             p == Numerator(b)
             d == Denominator(a)
             c == Denominator(b)
             h == Gcd(d, c)
             k == d \div h
             q == c \div h
  <1>1. Unit \in Nat \ {0} /\ a # Absent /\ b # Absent
    BY UnitAssumption, AbsentAssumption
  <1>2. /\ e \in Nat \ {0} /\ n \in Nat \ {0} /\ d \in Nat \ {0}
        /\ a = e * n /\ Unit = e * d /\ Coprime(n, d)
    BY <1>1, Reduced DEF Numerator, Denominator
  <1>3. /\ f \in Nat \ {0} /\ p \in Nat \ {0} /\ c \in Nat \ {0}
        /\ b = f * p /\ Unit = f * c /\ Coprime(p, c)
    BY <1>1, Reduced DEF Numerator, Denominator
  <1>4. LcmFraction(a, b) = (Unit * Lcm(n, p)) \div h
    BY <1>1 DEF LcmFraction
  <1> HIDE DEF e, f, n, p, d, c
  <1>5. /\ h \in Nat \ {0} /\ k \in Nat \ {0} /\ q \in Nat \ {0}
        /\ d = h * k /\ c = h * q /\ Coprime(k, q)
    BY <1>2, <1>3, Reduced
  <1> HIDE DEF h, k, q
  <1>6. Coprime(n, k) /\ Coprime(p, q)
    <2>1. d = k * h /\ c = q * h
      BY <1>5
    <2>2. Factor(d, k) /\ Factor(c, q)
      BY <1>5, <2>1 DEF Factor
    <2> QED BY <1>2, <1>3, <1>5, <2>2, CoprimeToFactor
  <1>7. e * k = f * q
    <2>1. h * (e * k) = h * (f * q)
      BY <1>2, <1>3, <1>5
    <2>2. e * k \in Int /\ f * q \in Int
      BY <1>2, <1>3, <1>5
    <2> QED BY <1>5, <2>1, <2>2, Cancel
  <1>8. LcmFraction(a, b) = e * k * Lcm(n, p)
    <2>1. Lcm(n, p) \in Nat \ {0}
      BY <1>2, <1>3, LcmDivides
    <2> DEFINE l == Lcm(n, p)
    <2> HIDE DEF l
    <2>2. l \in Nat /\ LcmFraction(a, b) = (Unit * l) \div h
      BY <1>4, <2>1 DEF l
    <2>3. Unit * l = h * (e * k * l) /\ e * k * l \in Int
      BY <1>2, <1>5, <2>2
    <2>4. \A z \in Int : (h * z) \div h = z
      BY <1>5
    <2>5. LcmFraction(a, b) = e * k * l
      <3> HIDE DEF LcmFraction
      <3> QED BY <2>2, <2>3, <2>4
    <2> QED BY <2>5 DEF l
  <1>9. AreParts(a, b, e, f, n, p, k, q)
    BY <1>2, <1>3, <1>5, <1>6, <1>7, <1>8 DEF AreParts
  <1> QED BY <1>2, <1>3, <1>5, <1>9

(* The multiples of two numbers, whole or not, are the multiples of their  *)
(* least common multiple as the code computes it from numerators and       *)
(* denominators.                                                           *)
THEOREM LcmFractionIsExact ==
    ASSUME NEW a \in Nat \ {0}, NEW b \in Nat \ {0}
    PROVE  /\ LcmFraction(a, b) \in Nat \ {0}
           /\ \A x \in Int : IsMultiple(x, LcmFraction(a, b))
                                <=> IsMultiple(x, a) /\ IsMultiple(x, b)
  <1>1. PICK e, f, n, p, k, q \in Nat \ {0} :
             /\ a = e * n /\ b = f * p /\ e * k = f * q
             /\ Coprime(n, k) /\ Coprime(p, q) /\ Coprime(k, q)
             /\ LcmFraction(a, b) = e * k * Lcm(n, p)
    BY LcmFractionParts DEF AreParts
  <1> DEFINE l == Lcm(n, p)
             m == LcmFraction(a, b)
  <1>2. /\ l \in Nat \ {0} /\ Factor(l, n) /\ Factor(l, p)
        /\ \A z \in Int : Factor(z, n) /\ Factor(z, p) => Factor(z, l)
    BY LcmDivides
  <1>3. m = e * k * l
    BY <1>1
  <1> HIDE DEF l, m
  <1>4. m \in Nat \ {0} /\ m = f * q * l
    BY <1>1, <1>2, <1>3
  <1>5. Factor(m, a) /\ Factor(m, b)
    <2>1. PICK r \in Int : l = n * r
      BY <1>2 DEF Factor
    <2>2. PICK s \in Int : l = p * s
      BY <1>2 DEF Factor
    <2>3. m = a * (k * r) /\ k * r \in Int
      BY <1>1, <1>3, <2>1
    <2>4. m = b * (q * s) /\ q * s \in Int
      BY <1>1, <1>4, <2>2
    <2> QED BY <2>3, <2>4 DEF Factor
  <1>6. ASSUME NEW x \in Int, Factor(x, a), Factor(x, b)
        PROVE  Factor(x, m)
    <2>1. PICK i \in Int : x = a * i
      BY <1>6 DEF Factor
    <2>2. PICK j \in Int : x = b * j
      BY <1>6 DEF Factor
    <2>3. q * (n * i) = k * (p * j)
      <3>1. e * (n * i) = f * (p * j)
        BY <1>1, <2>1, <2>2
      <3>2. (f * q) * (n * i) = f * (k * (p * j))
        <4>1. (e * k) * (n * i) = k * (e * (n * i))
          OBVIOUS
        <4>2. k * (f * (p * j)) = f * (k * (p * j))
          OBVIOUS
        <4> QED BY <1>1, <3>1, <4>1, <4>2
      <3>3. (f * q) * (n * i) = f * (q * (n * i))
        OBVIOUS
      <3>4. q * (n * i) \in Int /\ k * (p * j) \in Int
        OBVIOUS
      <3> QED BY <3>2, <3>3, <3>4, Cancel
    <2>4. Factor(i, k)
      <3>1. Factor(q * (n * i), k)
        <4> DEFINE w == q * (n * i)
                   v == p * j
        <4>1. v \in Int /\ w = k * v
          BY <2>3
        <4> HIDE DEF w, v
        <4>2. Factor(w, k)
          BY <4>1 DEF Factor
        <4> QED BY <4>2 DEF w
      <3>2. n * i \in Int
        OBVIOUS
      <3>3. Factor(n * i, k)
        BY <1>1, <3>1, <3>2, CoprimeSymmetric, Euclid
      <3> QED BY <1>1, <3>3, Euclid
    <2>5. Factor(j, q)
      <3>1. Factor(k * (p * j), q)
        <4> DEFINE w == k * (p * j)
                   v == n * i
        <4>1. v \in Int /\ w = q * v
          BY <2>3
        <4> HIDE DEF w, v
        <4>2. Factor(w, q)
          BY <4>1 DEF Factor
        <4> QED BY <4>2 DEF w
      <3>2. p * j \in Int
        OBVIOUS
      <3>3. Factor(p * j, q)
        BY <1>1, <3>1, <3>2, Euclid
      <3> QED BY <1>1, <3>3, Euclid
    <2>6. PICK u \in Int : i = k * u
      BY <2>4 DEF Factor
    <2>7. PICK v \in Int : j = q * v
      BY <2>5 DEF Factor
    <2>8. n * u = p * v
      <3>1. k * q \in Nat \ {0} /\ n * u \in Int /\ p * v \in Int
        OBVIOUS
      <3>2. (k * q) * (n * u) = (k * q) * (p * v)
        <4>1. q * (n * (k * u)) = (k * q) * (n * u)
          OBVIOUS
        <4>2. k * (p * (q * v)) = (k * q) * (p * v)
          OBVIOUS
        <4> QED BY <2>3, <2>6, <2>7, <4>1, <4>2
      <3> QED BY <3>1, <3>2, Cancel
    <2>9. Factor(n * u, n) /\ Factor(n * u, p) /\ n * u \in Int
      BY <2>8 DEF Factor
    <2>10. PICK w \in Int : n * u = l * w
      BY <1>2, <2>9 DEF Factor
    <2>11. x = m * w
      <3>1. x = (e * k) * (n * u)
        <4>1. x = e * n * (k * u)
          BY <1>1, <2>1, <2>6
        <4>2. e * n * (k * u) = (e * k) * (n * u)
          OBVIOUS
        <4> QED BY <4>1, <4>2
      <3>2. (e * k) * (l * w) = e * k * l * w
        BY <1>2
      <3> QED BY <1>3, <2>10, <3>1, <3>2
    <2> QED BY <2>11 DEF Factor
  <1>7. ASSUME NEW x \in Int
        PROVE  IsMultiple(x, m) <=> IsMultiple(x, a) /\ IsMultiple(x, b)
    <2>1. /\ IsMultiple(x, m) <=> Factor(x, m)
          /\ IsMultiple(x, a) <=> Factor(x, a)
          /\ IsMultiple(x, b) <=> Factor(x, b)
      BY <1>4, Multiples DEF IsMultiple
    <2>2. Factor(x, m) => Factor(x, a) /\ Factor(x, b)
      BY <1>4, <1>5, FactorOfFactor
    <2> QED BY <1>6, <2>1, <2>2
  <1> QED BY <1>4, <1>7 DEF m

(* LastMultiple gives the last multiple that is not greater.               *)
LEMMA LastMultipleFacts ==
    ASSUME NEW y \in Int, NEW m \in Nat \ {0}
    PROVE  /\ LastMultiple(y, m) \in Int /\ IsMultiple(LastMultiple(y, m), m)
           /\ LastMultiple(y, m) <= y /\ y < LastMultiple(y, m) + m
  <1> DEFINE p == y \div m
  <1>1. p \in Int /\ y = p * m + (y % m) /\ y % m \in 0 .. m - 1
    OBVIOUS
  <1> HIDE DEF p
  <1>2. p * m \in Int /\ (p * m) % m = 0
    BY <1>1
  <1>3. LastMultiple(y, m) = p * m
    BY DEF LastMultiple, p
  <1> QED BY <1>1, <1>2, <1>3 DEF IsMultiple

(* Multiples of a number are that number apart.                            *)
LEMMA MultiplesApart ==
    ASSUME NEW m \in Nat \ {0}, NEW x \in Int, NEW y \in Int,
           IsMultiple(x, m), IsMultiple(y, m), x < y
    PROVE  x + m <= y
  <1>1. PICK p \in Int : x = m * p
    BY Multiples DEF IsMultiple, Factor
  <1>2. PICK q \in Int : y = m * q
    BY Multiples DEF IsMultiple, Factor
  <1>3. q - p >= 1
    <2>1. q - p <= 0 => m * (q - p) <= 0
      OBVIOUS
    <2>2. y - x = m * (q - p)
      BY <1>1, <1>2
    <2> QED BY <2>1, <2>2
  <1>4. m * (q - p) = m + m * (q - p - 1) /\ m * (q - p - 1) >= 0
    BY <1>3
  <1> QED BY <1>1, <1>2, <1>4

(* The multiples next to a multiple, and its negation, are multiples.      *)
LEMMA MultiplesAdd ==
    ASSUME NEW m \in Nat \ {0}, NEW x \in Int, IsMultiple(x, m)
    PROVE  IsMultiple(x + m, m) /\ IsMultiple(x - m, m) /\ IsMultiple(-x, m)
  <1>1. PICK p \in Int : x = m * p
    BY Multiples DEF IsMultiple, Factor
  <1> DEFINE u == x + m
             v == x - m
             w == -x
  <1>2. /\ u = m * (p + 1) /\ p + 1 \in Int /\ u \in Int
        /\ v = m * (p - 1) /\ p - 1 \in Int /\ v \in Int
        /\ w = m * (-p) /\ -p \in Int /\ w \in Int
    BY <1>1
  <1> HIDE DEF u, v, w
  <1>3. Factor(u, m) /\ Factor(v, m) /\ Factor(w, m)
    BY <1>2 DEF Factor
  <1>4. IsMultiple(u, m) /\ IsMultiple(v, m) /\ IsMultiple(w, m)
    BY <1>2, <1>3, Multiples DEF IsMultiple
  <1> QED BY <1>4 DEF u, v, w

(* FirstMultiple gives the first multiple that is not less.                *)
LEMMA FirstMultipleFacts ==
    ASSUME NEW y \in Int, NEW m \in Nat \ {0}
    PROVE  /\ FirstMultiple(y, m) \in Int /\ IsMultiple(FirstMultiple(y, m), m)
           /\ y <= FirstMultiple(y, m) /\ FirstMultiple(y, m) < y + m
  <1> DEFINE l == LastMultiple(-y, m)
  <1>1. -y \in Int /\ FirstMultiple(y, m) = -l
    BY DEF FirstMultiple
  <1>2. l \in Int /\ IsMultiple(l, m) /\ l <= -y /\ -y < l + m
    BY <1>1, LastMultipleFacts
  <1> HIDE DEF l
  <1> QED BY <1>1, <1>2, MultiplesAdd

(* The multiples tried around an end have one that is not beyond any       *)
(* multiple on the right side of the end.                                  *)
LEMMA LowestMultiple ==
    ASSUME NEW m \in Nat \ {0}, NEW l \in Int, NEW x \in Int, IsMultiple(x, m),
           NEW closed \in BOOLEAN, x > l \/ (x = l /\ closed)
    PROVE  \E c \in {FirstMultiple(l, m), FirstMultiple(l, m) + m} :
             c \in Int /\ IsMultiple(c, m) /\ c <= x /\ (c > l \/ (c = l /\ closed))
  <1> DEFINE f == FirstMultiple(l, m)
  <1>1. f \in Int /\ IsMultiple(f, m) /\ l <= f /\ f < l + m
    BY FirstMultipleFacts
  <1>2. IsMultiple(f + m, m) /\ f + m \in Int
    BY <1>1, MultiplesAdd
  <1> HIDE DEF f
  <1>3. f <= x
    <2>1. x < f => x + m <= f
      BY <1>1, MultiplesApart
    <2> QED BY <1>1, <2>1
  <1>4. f < x => f + m <= x
    BY <1>1, MultiplesApart
  <1>5. CASE f > l \/ closed
    BY <1>1, <1>3, <1>5 DEF f
  <1>6. CASE f = l /\ ~closed
    BY <1>1, <1>2, <1>3, <1>4, <1>6 DEF f
  <1> QED BY <1>1, <1>5, <1>6

(* The same on the other side: one that is not below any multiple on the   *)
(* left of the end.                                                        *)
LEMMA HighestMultiple ==
    ASSUME NEW m \in Nat \ {0}, NEW l \in Int, NEW x \in Int, IsMultiple(x, m),
           NEW closed \in BOOLEAN, x < l \/ (x = l /\ closed)
    PROVE  \E c \in {LastMultiple(l, m), LastMultiple(l, m) - m} :
             c \in Int /\ IsMultiple(c, m) /\ c >= x /\ (c < l \/ (c = l /\ closed))
  <1> DEFINE f == LastMultiple(l, m)
  <1>1. f \in Int /\ IsMultiple(f, m) /\ f <= l /\ l < f + m
    BY LastMultipleFacts
  <1>2. IsMultiple(f - m, m) /\ f - m \in Int
    BY <1>1, MultiplesAdd
  <1> HIDE DEF f
  <1>3. f >= x
    <2>1. f < x => f + m <= x
      BY <1>1, MultiplesApart
    <2> QED BY <1>1, <2>1
  <1>4. x < f => x + m <= f
    BY <1>1, MultiplesApart
  <1>5. CASE f < l \/ closed
    BY <1>1, <1>3, <1>5 DEF f
  <1>6. CASE f = l /\ ~closed
    BY <1>1, <1>2, <1>3, <1>4, <1>6 DEF f
  <1> QED BY <1>1, <1>5, <1>6

-----------------------------------------------------------------------------
(* Inclusion of atoms.                                                     *)

(* Inclusion.                                                              *)
LEMMA RoundedIsInteger ==
    ASSUME NEW x \in Int
    PROVE  Floor(x) \in Int /\ Ceil(x) \in Int
  BY UnitAssumption DEF Floor, Ceil

(* Rounding an atom of integers gives an atom with the same multiples.     *)
LEMMA NormalizedFacts ==
    ASSUME Absent \notin Int, NEW a \in Atoms
    PROVE  /\ Normalized(a) \in Atoms
           /\ Normalized(a).integer = a.integer
           /\ Normalized(a).multiple = a.multiple
  <1>1. CASE ~a.integer
    BY <1>1 DEF Normalized
  <1>2. CASE a.integer
    <2> DEFINE low == IF a.lower.at = Absent THEN NoBound
                      ELSE Bound(Ceil(a.lower.at) +
                                 (IF ~a.lower.closed /\ IsWhole(a.lower.at)
                                  THEN Unit ELSE 0), TRUE)
               high == IF a.upper.at = Absent THEN NoBound
                       ELSE Bound(Floor(a.upper.at) -
                                  (IF ~a.upper.closed /\ IsWhole(a.upper.at)
                                   THEN Unit ELSE 0), TRUE)
    <2>1. Normalized(a) = [a EXCEPT !.lower = low, !.upper = high]
      BY <1>2 DEF Normalized
    <2>2. low \in AtomEnds /\ high \in AtomEnds
      BY UnitAssumption, RoundedIsInteger DEF Atoms, AtomEnds, NoBound, Bound
    <2> HIDE DEF low, high
    <2> QED BY <2>1, <2>2 DEF Atoms
  <1> QED BY <1>1, <1>2

(* Whenever the code says that one atom lies within another, and has not   *)
(* found the first one empty, every number of the first is in the second:  *)
(* open and closed ends, missing ends, integers and fractional multiples.  *)
THEOREM InclusionOfAtomsIsSound ==
    ASSUME NEW l \in Atoms, NEW r \in Atoms,
           ~IsEmptyAtom(Normalized(l)), AtomWithin(l, r),
           NEW x \in Int, InAtom(l, x)
    PROVE  InAtom(r, x)
  <1> DEFINE a == Normalized(l)
             b == Normalized(r)
  <1>1. a \in Atoms /\ b \in Atoms
    BY NormalizedFacts, AbsentAssumption
  <1>2. /\ b.integer => AllWhole(a)
        /\ BoundsWithin(a, b)
        /\ MultiplesWithin(a, b)
    BY DEF AtomWithin
  <1>3. /\ a.integer => IsWhole(x)
        /\ a.lower.at # Absent => x > a.lower.at \/ (x = a.lower.at /\ a.lower.closed)
        /\ a.upper.at # Absent => x < a.upper.at \/ (x = a.upper.at /\ a.upper.closed)
        /\ a.multiple # Absent => IsMultiple(x, a.multiple)
    BY DEF InAtom
  <1> HIDE DEF a, b
  <1>4. b.integer => IsWhole(x)
    BY <1>1, <1>2, <1>3, WholeMultiples DEF AllWhole, IsMultiple, Atoms
  <1>5. /\ b.lower.at # Absent => x > b.lower.at \/ (x = b.lower.at /\ b.lower.closed)
        /\ b.upper.at # Absent => x < b.upper.at \/ (x = b.upper.at /\ b.upper.closed)
    BY <1>1, <1>2, <1>3, AbsentAssumption DEF BoundsWithin, Atoms, AtomEnds
  <1>6. b.multiple # Absent => IsMultiple(x, b.multiple)
    BY <1>1, <1>2, <1>3, MultipleOfMultiple, UnitAssumption
       DEF MultiplesWithin, IsMultiple, IsWhole, Atoms
  <1> QED BY <1>4, <1>5, <1>6 DEF InAtom, b

-----------------------------------------------------------------------------
(* Rounding and intersection.                                              *)

(* Rounding and intersection.                                              *)
(* What the bounds and the multiple of an atom say before any rounding.    *)
InRaw(a, x) ==
    /\ a.integer => IsWhole(x)
    /\ a.lower.at # Absent => x > a.lower.at \/ (x = a.lower.at /\ a.lower.closed)
    /\ a.upper.at # Absent => x < a.upper.at \/ (x = a.upper.at /\ a.upper.closed)
    /\ a.multiple # Absent => IsMultiple(x, a.multiple)

(* Rounding down gives the last whole number that is not greater.          *)
LEMMA FloorFacts ==
    ASSUME NEW y \in Int
    PROVE  /\ Floor(y) \in Int /\ Floor(y) <= y /\ y < Floor(y) + Unit
           /\ IsWhole(Floor(y)) /\ (IsWhole(y) <=> Floor(y) = y)
  <1>1. Unit \in Nat \ {0}
    BY UnitAssumption
  <1>2. Floor(y) = LastMultiple(y, Unit)
    BY DEF Floor, LastMultiple
  <1>3. /\ Floor(y) \in Int /\ IsMultiple(Floor(y), Unit)
        /\ Floor(y) <= y /\ y < Floor(y) + Unit
    BY <1>1, <1>2, LastMultipleFacts
  <1>4. IsMultiple(y, Unit) /\ Floor(y) < y => Floor(y) + Unit <= y
    BY <1>1, <1>3, MultiplesApart
  <1>5. \A z : IsWhole(z) <=> IsMultiple(z, Unit)
    BY DEF IsWhole, IsMultiple
  <1> QED BY <1>1, <1>3, <1>4, <1>5

(* Whole numbers are a unit apart.                                         *)
LEMMA WholeApart ==
    ASSUME NEW x \in Int, NEW y \in Int, IsWhole(x), IsWhole(y), x < y
    PROVE  x + Unit <= y
  BY MultiplesApart, UnitAssumption DEF IsWhole, IsMultiple

(* Whole numbers stay whole when they are negated.                         *)
LEMMA NegativeWhole ==
    ASSUME NEW z \in Int, IsWhole(z)
    PROVE  IsWhole(-z)
  BY MultiplesAdd, UnitAssumption DEF IsWhole, IsMultiple

(* Rounding up gives the first whole number that is not less.              *)
LEMMA CeilFacts ==
    ASSUME NEW y \in Int
    PROVE  /\ Ceil(y) \in Int /\ y <= Ceil(y) /\ Ceil(y) < y + Unit
           /\ IsWhole(Ceil(y)) /\ (IsWhole(y) <=> Ceil(y) = y)
  <1>1. Unit \in Nat \ {0}
    BY UnitAssumption
  <1>2. \A z \in Int : IsWhole(-z) <=> IsWhole(z)
    <2>1. ASSUME NEW z \in Int PROVE IsWhole(-z) <=> IsWhole(z)
      <3>1. -z \in Int /\ -(-z) = z
        OBVIOUS
      <3> QED BY <3>1, NegativeWhole
    <2> QED BY <2>1
  <1>3. Ceil(y) = -Floor(-y) /\ -y \in Int
    BY DEF Ceil
  <1> QED BY <1>1, <1>2, <1>3, FloorFacts

(* Rounding the bounds of an integer atom keeps its numbers: the open and  *)
(* the closed ends, whole or not, and the missing ones.                    *)
LEMMA RoundingKeepsTheNumbers ==
    ASSUME Absent \notin Int, NEW a \in Atoms, NEW x \in Int
    PROVE  InAtom(a, x) <=> InRaw(a, x)
  <1>1. CASE ~a.integer
    BY <1>1 DEF InAtom, InRaw, Normalized
  <1>2. CASE a.integer
    <2> DEFINE low == IF a.lower.at = Absent THEN NoBound
                      ELSE Bound(Ceil(a.lower.at) +
                                 (IF ~a.lower.closed /\ IsWhole(a.lower.at)
                                  THEN Unit ELSE 0), TRUE)
               high == IF a.upper.at = Absent THEN NoBound
                       ELSE Bound(Floor(a.upper.at) -
                                  (IF ~a.upper.closed /\ IsWhole(a.upper.at)
                                   THEN Unit ELSE 0), TRUE)
               b == [a EXCEPT !.lower = low, !.upper = high]
    <2>1. Normalized(a) = b
      BY <1>2 DEF Normalized
    <2>2. /\ b.integer /\ b.multiple = a.multiple /\ b.lower = low /\ b.upper = high
      <3> HIDE DEF low, high
      <3> QED BY <1>2 DEF Atoms
    <2>3. Unit \in Nat \ {0}
      BY UnitAssumption
    <2>4. CASE ~IsWhole(x)
      BY <1>2, <2>1, <2>2, <2>4 DEF InAtom, InRaw
    <2>5. CASE IsWhole(x)
      <3>1. (low.at # Absent => x > low.at \/ (x = low.at /\ low.closed))
              <=> (a.lower.at # Absent =>
                     x > a.lower.at \/ (x = a.lower.at /\ a.lower.closed))
        <4>1. CASE a.lower.at = Absent
          BY <4>1 DEF NoBound
        <4>2. CASE a.lower.at # Absent
          <5> DEFINE y == a.lower.at
          <5>1. y \in Int /\ a.lower.closed \in BOOLEAN
            BY <4>2 DEF Atoms, AtomEnds
          <5>2. /\ Ceil(y) \in Int /\ y <= Ceil(y) /\ Ceil(y) < y + Unit
                /\ IsWhole(Ceil(y)) /\ (IsWhole(y) <=> Ceil(y) = y)
            BY <5>1, CeilFacts
          <5>3. /\ x < Ceil(y) => x + Unit <= Ceil(y)
                /\ Ceil(y) < x => Ceil(y) + Unit <= x
            BY <5>2, <2>5, WholeApart
          <5>4. low = Bound(Ceil(y) + (IF ~a.lower.closed /\ IsWhole(y)
                                       THEN Unit ELSE 0), TRUE)
            BY <4>2
          <5> HIDE DEF low, y
          <5>5. CASE ~a.lower.closed /\ IsWhole(y)
            <6>1. low.at = y + Unit /\ low.closed /\ low.at # Absent
              BY <5>1, <5>2, <5>4, <5>5, <2>3 DEF Bound
            <6> QED BY <6>1, <5>1, <5>2, <5>3, <5>5, <4>2, <2>3 DEF y
          <5>6. CASE ~(~a.lower.closed /\ IsWhole(y))
            <6>1. low.at = Ceil(y) /\ low.closed /\ low.at # Absent
              BY <5>1, <5>2, <5>4, <5>6 DEF Bound
            <6> QED BY <6>1, <5>1, <5>2, <5>3, <5>6, <4>2, <2>3, <2>5 DEF y
          <5> QED BY <5>5, <5>6
        <4> QED BY <4>1, <4>2
      <3>2. (high.at # Absent => x < high.at \/ (x = high.at /\ high.closed))
              <=> (a.upper.at # Absent =>
                     x < a.upper.at \/ (x = a.upper.at /\ a.upper.closed))
        <4>1. CASE a.upper.at = Absent
          BY <4>1 DEF NoBound
        <4>2. CASE a.upper.at # Absent
          <5> DEFINE y == a.upper.at
          <5>1. y \in Int /\ a.upper.closed \in BOOLEAN
            BY <4>2 DEF Atoms, AtomEnds
          <5>2. /\ Floor(y) \in Int /\ Floor(y) <= y /\ y < Floor(y) + Unit
                /\ IsWhole(Floor(y)) /\ (IsWhole(y) <=> Floor(y) = y)
            BY <5>1, FloorFacts
          <5>3. /\ x < Floor(y) => x + Unit <= Floor(y)
                /\ Floor(y) < x => Floor(y) + Unit <= x
            BY <5>2, <2>5, WholeApart
          <5>4. high = Bound(Floor(y) - (IF ~a.upper.closed /\ IsWhole(y)
                                         THEN Unit ELSE 0), TRUE)
            BY <4>2
          <5> HIDE DEF high, y
          <5>5. CASE ~a.upper.closed /\ IsWhole(y)
            <6>1. high.at = y - Unit /\ high.closed /\ high.at # Absent
              BY <5>1, <5>2, <5>4, <5>5, <2>3 DEF Bound
            <6> QED BY <6>1, <5>1, <5>2, <5>3, <5>5, <4>2, <2>3 DEF y
          <5>6. CASE ~(~a.upper.closed /\ IsWhole(y))
            <6>1. high.at = Floor(y) /\ high.closed /\ high.at # Absent
              BY <5>1, <5>2, <5>4, <5>6 DEF Bound
            <6> QED BY <6>1, <5>1, <5>2, <5>3, <5>6, <4>2, <2>3, <2>5 DEF y
          <5> QED BY <5>5, <5>6
        <4> QED BY <4>1, <4>2
      <3> HIDE DEF low, high
      <3> QED BY <1>2, <2>1, <2>2, <3>1, <3>2 DEF InAtom, InRaw
    <2> QED BY <2>4, <2>5
  <1> QED BY <1>1, <1>2

(* The stronger of two bounds says what both say.                          *)
LEMMA BothBounds ==
    ASSUME Absent \notin Int, NEW p \in AtomEnds, NEW q \in AtomEnds, NEW x \in Int
    PROVE  /\ StrongerLower(p, q) \in AtomEnds /\ StrongerUpper(p, q) \in AtomEnds
           /\ (StrongerLower(p, q).at # Absent =>
                  \/ x > StrongerLower(p, q).at
                  \/ x = StrongerLower(p, q).at /\ StrongerLower(p, q).closed)
                <=> /\ p.at # Absent => x > p.at \/ (x = p.at /\ p.closed)
                    /\ q.at # Absent => x > q.at \/ (x = q.at /\ q.closed)
           /\ (StrongerUpper(p, q).at # Absent =>
                  \/ x < StrongerUpper(p, q).at
                  \/ x = StrongerUpper(p, q).at /\ StrongerUpper(p, q).closed)
                <=> /\ p.at # Absent => x < p.at \/ (x = p.at /\ p.closed)
                    /\ q.at # Absent => x < q.at \/ (x = q.at /\ q.closed)
  BY DEF AtomEnds, StrongerLower, StrongerUpper, Bound

(* The intersection of two atoms holds exactly the numbers of both, though *)
(* each is rounded on its own, an open end may be stronger than a closed   *)
(* one, and both may be sets of multiples.                                 *)
THEOREM IntersectionOfAtomsIsExact ==
    ASSUME NEW a \in Atoms, NEW b \in Atoms
    PROVE  /\ IntersectAtoms(a, b) \in Atoms
           /\ \A x \in Int : InAtom(IntersectAtoms(a, b), x) <=> InAtom(a, x) /\ InAtom(b, x)
  <1> DEFINE c == IntersectAtoms(a, b)
  <1>1. /\ a.integer \in BOOLEAN /\ b.integer \in BOOLEAN
        /\ a.lower \in AtomEnds /\ b.lower \in AtomEnds
        /\ a.upper \in AtomEnds /\ b.upper \in AtomEnds
        /\ a.multiple \in (Nat \ {0}) \cup {Absent}
        /\ b.multiple \in (Nat \ {0}) \cup {Absent}
    BY DEF Atoms
  <1>2. /\ c.integer <=> a.integer \/ b.integer
        /\ c.lower = StrongerLower(a.lower, b.lower)
        /\ c.upper = StrongerUpper(a.upper, b.upper)
        /\ c.multiple = LcmFraction(a.multiple, b.multiple)
    BY DEF IntersectAtoms
  <1>6. /\ c.multiple \in (Nat \ {0}) \cup {Absent}
        /\ \A x \in Int : (c.multiple # Absent => IsMultiple(x, c.multiple))
                <=> /\ a.multiple # Absent => IsMultiple(x, a.multiple)
                    /\ b.multiple # Absent => IsMultiple(x, b.multiple)
    <2>1. CASE a.multiple = Absent \/ b.multiple = Absent
      BY <1>1, <1>2, <2>1 DEF LcmFraction
    <2>2. CASE a.multiple # Absent /\ b.multiple # Absent
      <3>1. c.multiple \in Nat \ {0} /\ c.multiple # Absent
        BY <1>1, <1>2, <2>2, LcmFractionIsExact, AbsentAssumption
      <3>2. \A x \in Int : IsMultiple(x, c.multiple)
                               <=> IsMultiple(x, a.multiple) /\ IsMultiple(x, b.multiple)
        BY <1>1, <1>2, <2>2, LcmFractionIsExact
      <3> HIDE DEF c
      <3> QED BY <2>2, <3>1, <3>2
    <2> QED BY <2>1, <2>2
  <1>3. c \in Atoms
    <2>1. StrongerLower(a.lower, b.lower) \in AtomEnds
          /\ StrongerUpper(a.upper, b.upper) \in AtomEnds
      BY <1>1, BothBounds, AbsentAssumption
    <2> QED BY <1>1, <1>2, <1>6, <2>1 DEF IntersectAtoms, Atoms
  <1> HIDE DEF c
  <1> SUFFICES ASSUME NEW x \in Int
               PROVE  InAtom(c, x) <=> InAtom(a, x) /\ InAtom(b, x)
    BY <1>3 DEF c
  <1>4. InRaw(c, x) <=> InRaw(a, x) /\ InRaw(b, x)
    <2>1. /\ (c.lower.at # Absent => x > c.lower.at \/ (x = c.lower.at /\ c.lower.closed))
                <=> /\ a.lower.at # Absent =>
                         x > a.lower.at \/ (x = a.lower.at /\ a.lower.closed)
                    /\ b.lower.at # Absent =>
                         x > b.lower.at \/ (x = b.lower.at /\ b.lower.closed)
          /\ (c.upper.at # Absent => x < c.upper.at \/ (x = c.upper.at /\ c.upper.closed))
                <=> /\ a.upper.at # Absent =>
                         x < a.upper.at \/ (x = a.upper.at /\ a.upper.closed)
                    /\ b.upper.at # Absent =>
                         x < b.upper.at \/ (x = b.upper.at /\ b.upper.closed)
      BY <1>1, <1>2, BothBounds, AbsentAssumption
    <2> QED BY <1>1, <1>2, <1>6, <2>1 DEF InRaw
  <1>5. /\ InAtom(c, x) <=> InRaw(c, x)
        /\ InAtom(a, x) <=> InRaw(a, x)
        /\ InAtom(b, x) <=> InRaw(b, x)
    BY <1>3, RoundingKeepsTheNumbers, AbsentAssumption
  <1> QED BY <1>4, <1>5

-----------------------------------------------------------------------------
(* Emptiness of atoms.                                                     *)

(* The atoms whose emptiness the candidates decide.                        *)
RegularAtom(a) == a \in Atoms /\ (a.integer => RegularMultiple(a.multiple))

(* The two ends of an atom, apart.                                         *)
AboveLower(a, x) == a.lower.at # Absent => x > a.lower.at \/ (x = a.lower.at /\ a.lower.closed)
BelowUpper(a, x) == a.upper.at # Absent => x < a.upper.at \/ (x = a.upper.at /\ a.upper.closed)

(* Integer atoms have whole, closed ends once they are rounded.            *)
LEMMA RoundedEnds ==
    ASSUME NEW a \in Atoms, a.integer
    PROVE  LET n == Normalized(a) IN
             /\ n.lower.at # Absent => IsWhole(n.lower.at) /\ n.lower.closed
             /\ n.upper.at # Absent => IsWhole(n.upper.at) /\ n.upper.closed
  <1> DEFINE l == a.lower.at
             h == a.upper.at
             low == IF l = Absent THEN NoBound
                    ELSE Bound(Ceil(l) + (IF ~a.lower.closed /\ IsWhole(l) THEN Unit ELSE 0),
                               TRUE)
             high == IF h = Absent THEN NoBound
                     ELSE Bound(Floor(h) - (IF ~a.upper.closed /\ IsWhole(h)
                                            THEN Unit ELSE 0), TRUE)
  <1>1. Normalized(a) = [a EXCEPT !.lower = low, !.upper = high]
    BY DEF Normalized
  <1>2. Normalized(a).lower = low /\ Normalized(a).upper = high
    <2> HIDE DEF low, high
    <2> QED BY <1>1 DEF Atoms
  <1>3. l \in Int \cup {Absent} /\ h \in Int \cup {Absent}
    BY DEF Atoms, AtomEnds
  <1>4. Unit \in Nat \ {0}
    BY UnitAssumption
  <1> HIDE DEF l, h
  <1>5. low.at # Absent => IsWhole(low.at) /\ low.closed
    <2>1. CASE l = Absent
      BY <2>1 DEF NoBound
    <2>2. CASE l # Absent
      <3>1. Ceil(l) \in Int /\ IsWhole(Ceil(l))
        BY <1>3, <2>2, CeilFacts
      <3>2. IsWhole(Ceil(l) + Unit) /\ Ceil(l) + 0 = Ceil(l)
        BY <1>4, <3>1, MultiplesAdd DEF IsWhole, IsMultiple
      <3> QED BY <2>2, <3>1, <3>2 DEF Bound
    <2> QED BY <2>1, <2>2
  <1>6. high.at # Absent => IsWhole(high.at) /\ high.closed
    <2>1. CASE h = Absent
      BY <2>1 DEF NoBound
    <2>2. CASE h # Absent
      <3>1. Floor(h) \in Int /\ IsWhole(Floor(h))
        BY <1>3, <2>2, FloorFacts
      <3>2. IsWhole(Floor(h) - Unit) /\ Floor(h) - 0 = Floor(h)
        BY <1>4, <3>1, MultiplesAdd DEF IsWhole, IsMultiple
      <3> QED BY <2>2, <3>1, <3>2 DEF Bound
    <2> QED BY <2>1, <2>2
  <1> HIDE DEF low, high
  <1> QED BY <1>2, <1>5, <1>6

(* Candidates of an atom that is not a set of multiples, or whose          *)
(* multiples take in every integer it could have.                          *)
LEMMA PlainCandidate ==
    ASSUME NEW a \in Atoms, NEW x \in Int, InRaw(a, x),
           a.integer => /\ a.lower.at # Absent => IsWhole(a.lower.at) /\ a.lower.closed
                        /\ a.upper.at # Absent => IsWhole(a.upper.at) /\ a.upper.closed
    PROVE  \E c \in {0} \cup (UNION {Around(b, a.integer, a.multiple) : b \in Ends(a)}) \cup Middle(a) :
             c \in Int /\ (a.integer => IsWhole(c)) /\ AboveLower(a, c) /\ BelowUpper(a, c)
  <1> DEFINE l == a.lower.at
             h == a.upper.at
             C == {0} \cup (UNION {Around(b, a.integer, a.multiple) : b \in Ends(a)}) \cup Middle(a)
             Good(c) == /\ c \in C /\ c \in Int /\ (a.integer => IsWhole(c))
                        /\ AboveLower(a, c) /\ BelowUpper(a, c)
  <1>1. /\ l \in Int \cup {Absent} /\ h \in Int \cup {Absent} /\ a.integer \in BOOLEAN
        /\ a.lower.closed \in BOOLEAN /\ a.upper.closed \in BOOLEAN
    BY DEF Atoms, AtomEnds
  <1>2. Unit \in Nat \ {0} /\ Absent \notin Int
    BY UnitAssumption, AbsentAssumption
  <1>3. AboveLower(a, x) /\ BelowUpper(a, x)
    BY DEF InRaw, AboveLower, BelowUpper
  <1>4. \A b \in Ends(a) : {b, b + Unit, b - Unit} \subseteq C
    BY DEF Around
  <1>5. /\ l # Absent => l \in Ends(a)
        /\ h # Absent => h \in Ends(a)
    BY DEF Ends
  <1>6. l # Absent /\ h # Absent => (l + h) \div 2 \in C
    BY DEF Middle
  <1>7. 0 \in C
    OBVIOUS
  <1>8. 0 % Unit = 0
    BY <1>2
  <1> HIDE DEF C
  <1>9. CASE l = Absent /\ h = Absent
    BY <1>7, <1>8, <1>9 DEF AboveLower, BelowUpper, IsWhole
  <1>10. CASE l # Absent /\ (a.lower.closed \/ h = Absent)
    <2>1. CASE a.lower.closed
      <3>1. Good(l)
        BY <1>1, <1>2, <1>3, <1>4, <1>5, <1>10, <2>1 DEF AboveLower, BelowUpper
      <3> QED BY <3>1 DEF C
    <2>2. CASE ~a.lower.closed
      <3>1. Good(l + Unit)
        BY <1>1, <1>2, <1>3, <1>4, <1>5, <1>10, <2>2 DEF AboveLower, BelowUpper
      <3> QED BY <3>1 DEF C
    <2> QED BY <2>1, <2>2
  <1>11. CASE h # Absent /\ (a.upper.closed \/ l = Absent)
    <2>1. CASE a.upper.closed
      <3>1. Good(h)
        BY <1>1, <1>2, <1>3, <1>4, <1>5, <1>11, <2>1 DEF AboveLower, BelowUpper
      <3> QED BY <3>1 DEF C
    <2>2. CASE ~a.upper.closed
      <3>1. Good(h - Unit)
        BY <1>1, <1>2, <1>3, <1>4, <1>5, <1>11, <2>2 DEF AboveLower, BelowUpper
      <3> QED BY <3>1 DEF C
    <2> QED BY <2>1, <2>2
  <1>12. CASE l # Absent /\ h # Absent /\ ~a.lower.closed /\ ~a.upper.closed
    <2>1. ~a.integer
      BY <1>12
    <2>2. l \in Int /\ h \in Int /\ l < x /\ x < h
      BY <1>1, <1>3, <1>12 DEF AboveLower, BelowUpper
    <2> DEFINE c == (l + h) \div 2
    <2>3. c \in Int /\ l < c /\ c < h
      BY <2>2
    <2>4. c \in C
      BY <1>6, <1>12
    <2> HIDE DEF c
    <2>5. Good(c)
      BY <2>1, <2>3, <2>4 DEF AboveLower, BelowUpper
    <2> QED BY <2>5 DEF C
  <1> QED BY <1>9, <1>10, <1>11, <1>12

(* Candidates of an atom that is a set of multiples.                       *)
LEMMA MultipleCandidate ==
    ASSUME NEW a \in Atoms, NEW x \in Int, InRaw(a, x), a.multiple # Absent
    PROVE  \E c \in {0} \cup (UNION {Around(b, a.integer, a.multiple) : b \in Ends(a)}) :
             /\ c \in Int /\ IsMultiple(c, a.multiple)
             /\ AboveLower(a, c) /\ BelowUpper(a, c)
  <1> DEFINE l == a.lower.at
             h == a.upper.at
             m == a.multiple
             C == {0} \cup (UNION {Around(b, a.integer, a.multiple) : b \in Ends(a)})
             Good(c) == /\ c \in C /\ c \in Int /\ IsMultiple(c, m)
                        /\ AboveLower(a, c) /\ BelowUpper(a, c)
  <1>1. /\ l \in Int \cup {Absent} /\ h \in Int \cup {Absent} /\ m \in Nat \ {0}
        /\ a.lower.closed \in BOOLEAN /\ a.upper.closed \in BOOLEAN
    BY DEF Atoms, AtomEnds
  <1>2. AboveLower(a, x) /\ BelowUpper(a, x) /\ IsMultiple(x, m) /\ Absent \notin Int
    BY AbsentAssumption DEF InRaw, AboveLower, BelowUpper
  <1>3. \A b \in Ends(a) : {FirstMultiple(b, m), FirstMultiple(b, m) + m,
                            LastMultiple(b, m), LastMultiple(b, m) - m} \subseteq C
    BY DEF Around
  <1>4. /\ l # Absent => l \in Ends(a)
        /\ h # Absent => h \in Ends(a)
    BY DEF Ends
  <1>5. 0 \in C
    OBVIOUS
  <1>6. IsMultiple(0, m)
    BY <1>1 DEF IsMultiple
  <1> HIDE DEF C
  <1>7. CASE l = Absent /\ h = Absent
    BY <1>5, <1>6, <1>7 DEF AboveLower, BelowUpper, C
  <1>8. CASE l # Absent
    <2>1. PICK c \in {FirstMultiple(l, m), FirstMultiple(l, m) + m} :
            c \in Int /\ IsMultiple(c, m) /\ c <= x /\ (c > l \/ (c = l /\ a.lower.closed))
      <3>1. x > l \/ (x = l /\ a.lower.closed)
        BY <1>2, <1>8 DEF AboveLower
      <3>2. l \in Int
        BY <1>1, <1>8
      <3> DEFINE k == a.lower.closed
      <3> HIDE DEF l, m, k
      <3>3. k \in BOOLEAN /\ (x > l \/ (x = l /\ k))
        BY <1>1, <3>1 DEF k
      <3>4. \E c \in {FirstMultiple(l, m), FirstMultiple(l, m) + m} :
              c \in Int /\ IsMultiple(c, m) /\ c <= x /\ (c > l \/ (c = l /\ k))
        <4>1. m \in Nat \ {0} /\ IsMultiple(x, m)
          BY <1>1, <1>2
        <4> QED BY <3>2, <3>3, <4>1, LowestMultiple
      <3> QED BY <3>4 DEF k
    <2>2. c \in C
      <3> HIDE DEF l, m
      <3> QED BY <1>3, <1>4, <1>8, <2>1
    <2>3. BelowUpper(a, c)
      BY <1>1, <1>2, <2>1 DEF BelowUpper
    <2>4. AboveLower(a, c)
      BY <2>1 DEF AboveLower
    <2>5. Good(c)
      BY <2>1, <2>2, <2>3, <2>4
    <2> QED BY <2>5 DEF C
  <1>9. CASE l = Absent /\ h # Absent
    <2>1. PICK c \in {LastMultiple(h, m), LastMultiple(h, m) - m} :
            c \in Int /\ IsMultiple(c, m) /\ c >= x /\ (c < h \/ (c = h /\ a.upper.closed))
      <3>1. x < h \/ (x = h /\ a.upper.closed)
        BY <1>2, <1>9 DEF BelowUpper
      <3>2. h \in Int
        BY <1>1, <1>9
      <3> DEFINE k == a.upper.closed
      <3> HIDE DEF h, m, k
      <3>3. k \in BOOLEAN /\ (x < h \/ (x = h /\ k))
        BY <1>1, <3>1 DEF k
      <3>4. \E c \in {LastMultiple(h, m), LastMultiple(h, m) - m} :
              c \in Int /\ IsMultiple(c, m) /\ c >= x /\ (c < h \/ (c = h /\ k))
        <4>1. m \in Nat \ {0} /\ IsMultiple(x, m)
          BY <1>1, <1>2
        <4> QED BY <3>2, <3>3, <4>1, HighestMultiple
      <3> QED BY <3>4 DEF k
    <2>2. c \in C
      <3> HIDE DEF h, m
      <3> QED BY <1>3, <1>4, <1>9, <2>1
    <2>3. BelowUpper(a, c)
      BY <2>1 DEF BelowUpper
    <2>4. AboveLower(a, c)
      BY <1>9 DEF AboveLower
    <2>5. Good(c)
      BY <2>1, <2>2, <2>3, <2>4
    <2> QED BY <2>5 DEF C
  <1> QED BY <1>7, <1>8, <1>9

(* The handful of candidates settles whether an atom is empty: an atom     *)
(* that has a number is never taken for empty, be it of integers, of       *)
(* fractions or of multiples, unless it is of integers that are multiples  *)
(* of a fraction with a numerator above one.                               *)
THEOREM EmptinessIsSound ==
    ASSUME NEW a, RegularAtom(a), NEW x \in Int, InAtom(a, x)
    PROVE  ~IsEmptyAtom(a)
  <1> DEFINE n == Normalized(a)
             m == n.multiple
  <1>1. /\ a \in Atoms /\ n \in Atoms /\ m = a.multiple
        /\ n.integer = a.integer
    BY NormalizedFacts, AbsentAssumption DEF RegularAtom
  <1>2. InRaw(n, x)
    BY DEF InAtom, InRaw
  <1>3. n.integer => /\ n.lower.at # Absent => IsWhole(n.lower.at) /\ n.lower.closed
                     /\ n.upper.at # Absent => IsWhole(n.upper.at) /\ n.upper.closed
    BY <1>1, RoundedEnds
  <1>4. /\ n.lower \in AtomEnds /\ n.upper \in AtomEnds /\ n.integer \in BOOLEAN
        /\ m \in (Nat \ {0}) \cup {Absent} /\ Unit \in Nat \ {0} /\ Absent \notin Int
    BY <1>1, UnitAssumption, AbsentAssumption DEF Atoms
  <1>5. OwnCandidates(a) = {0, Unit, -Unit}
      \cup (IF n.integer THEN {} ELSE {Unit \div 2, -(Unit \div 2)})
      \cup (IF m = Absent THEN {} ELSE {m * k : k \in -4 .. 4})
      \cup (UNION {Around(b, n.integer, m) : b \in Ends(n)})
      \cup Middle(n)
    BY DEF OwnCandidates
  <1>6. InAtom(a, x) = (InRaw(n, x)) /\ \A c \in Int : InRaw(n, c) => InAtom(a, c)
    BY DEF InAtom, InRaw
  <1>7. \E c \in OwnCandidates(a) : c \in Int /\ InRaw(n, c)
    <2> HIDE DEF n
    <2>1. CASE m = Absent \/ (n.integer /\ Unit % m = 0)
      <3>1. PICK c \in {0} \cup (UNION {Around(b, n.integer, m) : b \in Ends(n)}) \cup Middle(n) :
             c \in Int /\ (n.integer => IsWhole(c)) /\ AboveLower(n, c) /\ BelowUpper(n, c)
        BY <1>1, <1>2, <1>3, PlainCandidate
      <3>2. c \in OwnCandidates(a)
        BY <1>5
      <3>3. m # Absent => IsMultiple(c, m)
        BY <1>4, <2>1, <3>1, MultipleOfMultiple DEF IsMultiple, IsWhole
      <3> QED BY <3>1, <3>2, <3>3 DEF InRaw, AboveLower, BelowUpper
    <2>2. CASE m # Absent /\ (n.integer => m % Unit = 0)
      <3>1. PICK c \in {0} \cup (UNION {Around(b, n.integer, m) : b \in Ends(n)}) :
             c \in Int /\ IsMultiple(c, m) /\ AboveLower(n, c) /\ BelowUpper(n, c)
        BY <1>1, <1>2, <2>2, MultipleCandidate
      <3>2. c \in OwnCandidates(a)
        BY <1>5
      <3>3. n.integer => IsWhole(c)
        BY <1>4, <2>2, <3>1, MultipleOfMultiple DEF IsMultiple, IsWhole
      <3> QED BY <3>1, <3>2, <3>3 DEF InRaw, AboveLower, BelowUpper
    <2> QED BY <1>1, <2>1, <2>2 DEF RegularAtom, RegularMultiple
  <1>8. \E c \in OwnCandidates(a) : InAtom(a, c)
    BY <1>6, <1>7
  <1>9. ~(/\ Absent \notin {n.lower.at, n.upper.at}
          /\ \/ n.lower.at > n.upper.at
             \/ n.lower.at = n.upper.at /\ ~(n.lower.closed /\ n.upper.closed))
    <2> HIDE DEF n
    <2> QED BY <1>2, <1>4 DEF InRaw, AtomEnds
  <1> QED BY <1>8, <1>9 DEF IsEmptyAtom

(* The atoms a conjunction of branches may compile to: of integers only    *)
(* when a branch is, of regular multiples when all branches have them.     *)
Among(branches) ==
    {a \in Atoms :
        /\ a.integer => \E b \in branches : b.type = "integer"
        /\ (\A b \in branches : RegularMultiple(b.multipleOf)) => RegularMultiple(a.multiple)}

(* More branches allow more atoms.                                         *)
LEMMA AmongGrows ==
    ASSUME NEW S, NEW T, S \subseteq T
    PROVE  Among(S) \subseteq Among(T)
  BY DEF Among

(* Branches that fit compile to atoms whose emptiness is decided.          *)
LEMMA AmongFits ==
    ASSUME NEW S, Fits(S), NEW a \in Among(S)
    PROVE  RegularAtom(a)
  BY DEF Among, Fits, RegularAtom

(* The multiples two regular multiples share are regular.                  *)
LEMMA RegularLcm ==
    ASSUME NEW a \in (Nat \ {0}) \cup {Absent}, NEW b \in (Nat \ {0}) \cup {Absent},
           RegularMultiple(a), RegularMultiple(b)
    PROVE  RegularMultiple(LcmFraction(a, b))
  <1>1. CASE a = Absent \/ b = Absent
    BY <1>1 DEF LcmFraction
  <1>2. CASE a # Absent /\ b # Absent
    <2> DEFINE m == LcmFraction(a, b)
    <2>1. /\ m \in Nat \ {0}
          /\ \A x \in Int : IsMultiple(x, m) <=> IsMultiple(x, a) /\ IsMultiple(x, b)
      BY <1>2, LcmFractionIsExact
    <2> HIDE DEF m
    <2>2. Unit \in Nat \ {0} /\ a \in Nat \ {0} /\ b \in Nat \ {0}
      BY <1>2, UnitAssumption
    <2>3. m % a = 0 /\ m % b = 0
      <3>1. m % m = 0
        BY <2>1
      <3> QED BY <2>1, <3>1 DEF IsMultiple
    <2>4. CASE a % Unit = 0
      <3>1. Factor(m, a) /\ Factor(a, Unit)
        BY <2>1, <2>2, <2>3, <2>4, Multiples
      <3>2. Factor(m, Unit)
        BY <2>1, <2>2, <3>1, FactorOfFactor
      <3>3. m % Unit = 0
        BY <2>1, <2>2, <3>2, Multiples
      <3> QED BY <3>3 DEF RegularMultiple, m
    <2>5. CASE b % Unit = 0
      <3>1. Factor(m, b) /\ Factor(b, Unit)
        BY <2>1, <2>2, <2>3, <2>5, Multiples
      <3>2. Factor(m, Unit)
        BY <2>1, <2>2, <3>1, FactorOfFactor
      <3>3. m % Unit = 0
        BY <2>1, <2>2, <3>2, Multiples
      <3> QED BY <3>3 DEF RegularMultiple, m
    <2>6. CASE Unit % a = 0 /\ Unit % b = 0
      <3>1. Unit % m = 0
        BY <2>1, <2>2, <2>6 DEF IsMultiple
      <3> QED BY <3>1 DEF RegularMultiple, m
    <2> QED BY <1>2, <2>4, <2>5, <2>6 DEF RegularMultiple
  <1> QED BY <1>1, <1>2

(* What a conjunction may compile to is closed under intersection.         *)
LEMMA AmongIntersected ==
    ASSUME NEW S, NEW a \in Among(S), NEW b \in Among(S)
    PROVE  IntersectAtoms(a, b) \in Among(S)
  <1>1. a \in Atoms /\ b \in Atoms
    BY DEF Among
  <1>2. IntersectAtoms(a, b) \in Atoms
    BY <1>1, IntersectionOfAtomsIsExact
  <1>3. /\ a.multiple \in (Nat \ {0}) \cup {Absent} /\ b.multiple \in (Nat \ {0}) \cup {Absent}
        /\ a.integer \in BOOLEAN /\ b.integer \in BOOLEAN
    BY <1>1 DEF Atoms
  <1>4. /\ IntersectAtoms(a, b).integer <=> a.integer \/ b.integer
        /\ IntersectAtoms(a, b).multiple = LcmFraction(a.multiple, b.multiple)
    BY DEF IntersectAtoms
  <1>5. (\A c \in S : RegularMultiple(c.multipleOf)) =>
           RegularMultiple(LcmFraction(a.multiple, b.multiple))
    BY <1>3, RegularLcm DEF Among
  <1> QED BY <1>2, <1>4, <1>5 DEF Among

-----------------------------------------------------------------------------
(* Constraints: sequences of atoms.                                        *)

(* Dropping empty atoms goes through a sequence from its start.            *)
LEMMA NonEmptySteps ==
    ASSUME NEW T, NEW s \in Seq(T)
    PROVE  \E g : /\ g[0] = <<>> /\ NonEmpty(s) = g[Len(s)]
                  /\ \A k \in 0 .. Len(s) - 1 :
                       g[k + 1] = IF IsEmptyAtom(s[k + 1]) THEN g[k] ELSE Append(g[k], s[k + 1])
  <1> DEFINE n == Len(s)
             D == SUBSET (1 .. n)
             Step(c, a) == IF IsEmptyAtom(a) THEN c ELSE Append(c, a)
             IsIt(k) == k = [S \in D |-> IF S = {} THEN <<>>
                                         ELSE Step(k[S \ {Max(S)}], s[Max(S)])]
             c == CHOOSE k : IsIt(k)
             H == [p \in Seq(T) \X T |-> Step(p[1], p[2])]
  <1>1. n \in Nat /\ DOMAIN s = 1 .. n /\ \A k \in 1 .. n : s[k] \in T
    BY LenProperties, ElementOfSeq
  <1>2. NonEmpty(s) = c[1 .. n]
    BY <1>1 DEF NonEmpty, FoldLeft, MapThenFoldSet
  <1>3. <<>> \in Seq(T) /\ \A e \in Seq(T), a \in T : Step(e, a) \in Seq(T)
    BY EmptySeq, AppendProperties
  <1> HIDE DEF Step
  <1>4. H \in [Seq(T) \X T -> Seq(T)]
    BY <1>3
  <1>5. PICK f \in [D -> Seq(T)] : FoldsOver(n, f, <<>>, H, s, Seq(T))
    <2> HIDE DEF H, n
    <2> QED BY <1>1, <1>3, <1>4, FoldBy
  <1>6. IsIt(c)
    <2>1. IsIt(f)
      BY <1>1, <1>5 DEF FoldsOver
    <2> HIDE DEF IsIt
    <2> QED BY <2>1
  <1> HIDE DEF c
  <1> DEFINE g == [k \in 0 .. n |-> c[1 .. k]]
  <1>7. g[0] = <<>>
    <2>1. 1 .. 0 = {} /\ {} \in D /\ 0 \in 0 .. n
      BY <1>1
    <2> QED BY <1>6, <2>1
  <1>8. ASSUME NEW k \in 0 .. n - 1
        PROVE  g[k + 1] = Step(g[k], s[k + 1])
    <2>1. /\ 1 .. k + 1 \in D /\ 1 .. k + 1 # {} /\ Max(1 .. k + 1) = k + 1
          /\ (1 .. k + 1) \ {k + 1} = 1 .. k
      BY <1>1, UpToHere
    <2>2. c[1 .. k + 1] = Step(c[1 .. k], s[k + 1])
      BY <1>6, <2>1
    <2>3. g[k + 1] = c[1 .. k + 1] /\ g[k] = c[1 .. k]
      BY <1>1
    <2> QED BY <2>2, <2>3
  <1>9. NonEmpty(s) = g[n]
    BY <1>1, <1>2
  <1> HIDE DEF g
  <1> QED BY <1>7, <1>8, <1>9 DEF Step

(* Of a sequence of atoms, those that are not empty.                       *)
LEMMA NonEmptySet ==
    ASSUME NEW T, NEW s \in Seq(T)
    PROVE  /\ NonEmpty(s) \in Seq(T)
           /\ \A a : a \in ToSet(NonEmpty(s)) <=> a \in ToSet(s) /\ ~IsEmptyAtom(a)
  <1> DEFINE n == Len(s)
             E == [k \in 1 .. n |-> IF IsEmptyAtom(s[k]) THEN {} ELSE {s[k]}]
  <1>1. n \in Nat /\ DOMAIN s = 1 .. n /\ \A k \in 1 .. n : s[k] \in T
    BY LenProperties, ElementOfSeq
  <1>2. PICK g : /\ g[0] = <<>> /\ NonEmpty(s) = g[n]
                  /\ \A k \in 0 .. n - 1 :
                       g[k + 1] = IF IsEmptyAtom(s[k + 1]) THEN g[k] ELSE Append(g[k], s[k + 1])
    BY NonEmptySteps
  <1>3. ASSUME NEW k \in 0 .. n - 1, g[k] \in Seq(T)
        PROVE  g[k + 1] \in Seq(T) /\ ToSet(g[k + 1]) = ToSet(g[k]) \cup E[k + 1]
    <2>1. k + 1 \in 1 .. n
      BY <1>1
    <2>2. CASE IsEmptyAtom(s[k + 1])
      BY <1>2, <1>3, <2>1, <2>2
    <2>3. CASE ~IsEmptyAtom(s[k + 1])
      <3>1. Append(g[k], s[k + 1]) \in Seq(T)
            /\ ToSet(Append(g[k], s[k + 1])) = ToSet(g[k]) \cup {s[k + 1]}
        BY <1>1, <1>3, <2>1, AppendSet
      <3> QED BY <1>2, <2>1, <2>3, <3>1
    <2> QED BY <2>2, <2>3
  <1>4. g[n] \in Seq(T) /\ \A x : x \in ToSet(g[n]) <=> \E k \in 1 .. n : x \in E[k]
    <2> HIDE DEF E
    <2> QED BY <1>1, <1>2, <1>3, Collected
  <1>5. \A a : a \in ToSet(s) <=> \E k \in 1 .. n : a = s[k]
    BY <1>1 DEF ToSet
  <1>6. \A a : (\E k \in 1 .. n : a \in E[k]) <=> a \in ToSet(s) /\ ~IsEmptyAtom(a)
    BY <1>1, <1>5
  <1> QED BY <1>2, <1>4, <1>6

(* The constraints whose atoms are in T.                                   *)
ConstraintsOf(T) == [atoms : Seq(T), others : BOOLEAN]

(* A sequence of atoms and a Boolean make a constraint.                    *)
LEMMA MakesConstraint ==
    ASSUME NEW T, NEW atoms \in Seq(T), NEW others \in BOOLEAN
    PROVE  [atoms |-> atoms, others |-> others] \in ConstraintsOf(T)
  BY DEF ConstraintsOf

(* The parts of a constraint.                                              *)
LEMMA ConstraintFields ==
    ASSUME NEW T, NEW c \in ConstraintsOf(T)
    PROVE  c.atoms \in Seq(T) /\ c.others \in BOOLEAN
  BY DEF ConstraintsOf

(* A conjunction and a disjunction are Booleans.                           *)
LEMMA OthersBoolean ==
    ASSUME NEW b, NEW c
    PROVE  (b /\ c) \in BOOLEAN /\ (b \/ c) \in BOOLEAN
  BY Zenon

(* An atom with a number is never dropped, so what a constraint holds are  *)
(* the numbers of its atoms.                                               *)
LEMMA ConstraintHolds ==
    ASSUME NEW T, \A a \in T : RegularAtom(a),
           NEW c, c.atoms \in Seq(T), NEW x \in Int
    PROVE  InConstraint(c, x) <=> \E a \in ToSet(c.atoms) : InAtom(a, x)
  <1>1. \A a : a \in ToSet(c.atoms) <=> \E k \in DOMAIN c.atoms : a = c.atoms[k]
    BY DEF ToSet
  <1>2. \A k \in DOMAIN c.atoms : c.atoms[k] \in T
    BY LenProperties, ElementOfSeq
  <1>3. \A k \in DOMAIN c.atoms : InAtom(c.atoms[k], x) => ~IsEmptyAtom(c.atoms[k])
    BY <1>2, EmptinessIsSound
  <1> QED BY <1>1, <1>3 DEF InConstraint

(* Dropping empty atoms keeps what a constraint holds.                     *)
LEMMA NormalizedHolds ==
    ASSUME NEW T, NEW c, c.atoms \in Seq(T)
    PROVE  /\ NormalizedAtoms(c) \in Seq(T)
           /\ \A a \in ToSet(NormalizedAtoms(c)) : a \in T /\ ~IsEmptyAtom(a)
           /\ \A x : InConstraint(c, x) <=> \E a \in ToSet(NormalizedAtoms(c)) : InAtom(a, x)
  <1>1. \A a : a \in ToSet(c.atoms) <=> \E k \in DOMAIN c.atoms : a = c.atoms[k]
    BY DEF ToSet
  <1>2. \A k \in DOMAIN c.atoms : c.atoms[k] \in T
    BY LenProperties, ElementOfSeq
  <1>3. /\ NormalizedAtoms(c) \in Seq(T)
        /\ \A a : a \in ToSet(NormalizedAtoms(c)) <=> a \in ToSet(c.atoms) /\ ~IsEmptyAtom(a)
    BY NonEmptySet DEF NormalizedAtoms
  <1>4. \A x : InConstraint(c, x) <=> \E a \in ToSet(NormalizedAtoms(c)) : InAtom(a, x)
    BY <1>1, <1>3 DEF InConstraint
  <1>5. \A a \in ToSet(NormalizedAtoms(c)) : a \in T /\ ~IsEmptyAtom(a)
    BY <1>1, <1>2, <1>3
  <1> QED BY <1>3, <1>4, <1>5

(* Intersecting two constraints atom by atom gives what both hold.         *)
LEMMA IntersectHolds ==
    ASSUME NEW P, NEW Q, NEW R,
           P \subseteq Atoms, Q \subseteq Atoms, \A a \in R : RegularAtom(a),
           \A p \in P, q \in Q : IntersectAtoms(p, q) \in R,
           NEW c, c.atoms \in Seq(P), NEW d, d.atoms \in Seq(Q)
    PROVE  /\ Intersect(c, d) \in ConstraintsOf(R)
           /\ (Intersect(c, d).others <=> c.others /\ d.others)
           /\ \A x \in Int : InConstraint(Intersect(c, d), x)
                                <=> InConstraint(c, x) /\ InConstraint(d, x)
  <1> DEFINE p == NormalizedAtoms(c)
             q == NormalizedAtoms(d)
             row == [i \in DOMAIN p |-> [j \in DOMAIN q |-> IntersectAtoms(p[i], q[j])]]
             both == Intersect(c, d)
  <1>1. /\ p \in Seq(P) /\ \A x : InConstraint(c, x) <=> \E a \in ToSet(p) : InAtom(a, x)
        /\ q \in Seq(Q) /\ \A x : InConstraint(d, x) <=> \E a \in ToSet(q) : InAtom(a, x)
    BY NormalizedHolds
  <1>2. both.atoms = NonEmpty(FlattenSeq(row)) /\ (both.others <=> c.others /\ d.others)
    BY DEF Intersect
  <1> HIDE DEF p, q
  <1>3. /\ Len(p) \in Nat /\ DOMAIN p = 1 .. Len(p) /\ \A i \in DOMAIN p : p[i] \in P
        /\ Len(q) \in Nat /\ DOMAIN q = 1 .. Len(q) /\ \A j \in DOMAIN q : q[j] \in Q
    BY <1>1, LenProperties, ElementOfSeq
  <1>4. row \in Seq(Seq(R)) /\ DOMAIN row = DOMAIN p
    <2>1. ASSUME NEW i \in DOMAIN p
          PROVE  [j \in DOMAIN q |-> IntersectAtoms(p[i], q[j])] \in Seq(R)
      <3>1. [j \in DOMAIN q |-> IntersectAtoms(p[i], q[j])] \in [1 .. Len(q) -> R]
        BY <1>3
      <3> QED BY <1>3, <3>1, IsASeq
    <2>2. row \in [1 .. Len(p) -> Seq(R)]
      BY <1>3, <2>1
    <2> QED BY <1>3, <2>2, IsASeq
  <1>5. /\ FlattenSeq(row) \in Seq(R)
        /\ \A a : a \in ToSet(FlattenSeq(row)) <=> \E i \in DOMAIN row : a \in ToSet(row[i])
    <2> HIDE DEF row
    <2> QED BY <1>4, Flattened
  <1>6. \A a : a \in ToSet(FlattenSeq(row))
                 <=> \E i \in DOMAIN p, j \in DOMAIN q : a = IntersectAtoms(p[i], q[j])
    <2>1. \A i \in DOMAIN p : row[i] = [j \in DOMAIN q |-> IntersectAtoms(p[i], q[j])]
      OBVIOUS
    <2>2. ASSUME NEW a, NEW i \in DOMAIN p
          PROVE  a \in ToSet(row[i]) <=> \E j \in DOMAIN q : a = IntersectAtoms(p[i], q[j])
      <3> DEFINE r == [j \in DOMAIN q |-> IntersectAtoms(p[i], q[j])]
      <3>1. ToSet(r) = {r[j] : j \in DOMAIN q}
        BY DEF ToSet
      <3>2. \A j \in DOMAIN q : r[j] = IntersectAtoms(p[i], q[j])
        OBVIOUS
      <3> HIDE DEF r
      <3> QED BY <2>1, <3>1, <3>2 DEF r
    <2> HIDE DEF row
    <2> QED BY <1>4, <1>5, <2>2
  <1> DEFINE flat == FlattenSeq(row)
  <1>7. both.atoms \in Seq(R)
        /\ \A a : a \in ToSet(both.atoms) <=> a \in ToSet(flat) /\ ~IsEmptyAtom(a)
    <2> HIDE DEF both, flat
    <2>1. flat \in Seq(R) /\ both.atoms = NonEmpty(flat)
      BY <1>2, <1>5 DEF flat
    <2> QED BY <2>1, NonEmptySet
  <1>8. ASSUME NEW x \in Int
        PROVE  InConstraint(both, x) <=> InConstraint(c, x) /\ InConstraint(d, x)
    <2>1. InConstraint(both, x) <=> \E a \in ToSet(both.atoms) : InAtom(a, x)
      <3> HIDE DEF both
      <3> QED BY <1>7, ConstraintHolds
    <2>2. \A a : a \in ToSet(flat) /\ InAtom(a, x) => ~IsEmptyAtom(a)
      <3>1. \A a \in ToSet(flat) : a \in R
        BY <1>3, <1>6
      <3> HIDE DEF flat
      <3> QED BY <3>1, EmptinessIsSound
    <2>3. InConstraint(both, x) <=> \E a \in ToSet(flat) : InAtom(a, x)
      <3> HIDE DEF flat, both
      <3> QED BY <1>7, <2>1, <2>2
    <2>4. \A i \in DOMAIN p, j \in DOMAIN q :
             InAtom(IntersectAtoms(p[i], q[j]), x) <=> InAtom(p[i], x) /\ InAtom(q[j], x)
      BY <1>3, IntersectionOfAtomsIsExact
    <2>5. (\E a \in ToSet(flat) : InAtom(a, x))
             <=> \E i \in DOMAIN p, j \in DOMAIN q : InAtom(p[i], x) /\ InAtom(q[j], x)
      <3> HIDE DEF row
      <3> QED BY <1>6, <2>4
    <2>6. /\ (\E a \in ToSet(p) : InAtom(a, x)) <=> \E i \in DOMAIN p : InAtom(p[i], x)
          /\ (\E a \in ToSet(q) : InAtom(a, x)) <=> \E j \in DOMAIN q : InAtom(q[j], x)
      BY DEF ToSet
    <2> HIDE DEF both, flat, row
    <2> QED BY <1>1, <2>3, <2>5, <2>6
  <1>9. both \in ConstraintsOf(R)
    <2> DEFINE others == c.others /\ d.others
    <2>1. both = [atoms |-> both.atoms, others |-> others]
      BY DEF Intersect
    <2>2. others \in BOOLEAN
      BY OthersBoolean
    <2> HIDE DEF both, others
    <2>3. [atoms |-> both.atoms, others |-> others] \in ConstraintsOf(R)
      BY <1>7, <2>2, MakesConstraint
    <2> QED BY <2>1, <2>3, Zenon
  <1> QED BY <1>2, <1>8, <1>9

(* The union of two constraints holds what one of them holds.              *)
LEMMA UnionHolds ==
    ASSUME NEW T, \A a \in T : RegularAtom(a),
           NEW c, c.atoms \in Seq(T), NEW d, d.atoms \in Seq(T)
    PROVE  /\ Union(c, d) \in ConstraintsOf(T)
           /\ (Union(c, d).others <=> c.others \/ d.others)
           /\ \A x \in Int : InConstraint(Union(c, d), x)
                                <=> InConstraint(c, x) \/ InConstraint(d, x)
  <1> DEFINE p == NormalizedAtoms(c)
             q == NormalizedAtoms(d)
             either == Union(c, d)
  <1>1. /\ p \in Seq(T) /\ \A x : InConstraint(c, x) <=> \E a \in ToSet(p) : InAtom(a, x)
        /\ q \in Seq(T) /\ \A x : InConstraint(d, x) <=> \E a \in ToSet(q) : InAtom(a, x)
    BY NormalizedHolds
  <1>2. either.atoms = p \o q /\ (either.others <=> c.others \/ d.others)
    BY DEF Union
  <1> HIDE DEF p, q
  <1>3. p \o q \in Seq(T) /\ ToSet(p \o q) = ToSet(p) \cup ToSet(q)
    BY <1>1, ConcatSet
  <1> HIDE DEF either
  <1>4. \A x \in Int : InConstraint(either, x) <=> \E a \in ToSet(either.atoms) : InAtom(a, x)
    BY <1>2, <1>3, ConstraintHolds
  <1>5. either \in ConstraintsOf(T)
    <2> DEFINE others == c.others \/ d.others
    <2>1. either = [atoms |-> either.atoms, others |-> others]
      BY DEF either, Union
    <2>2. others \in BOOLEAN
      BY OthersBoolean
    <2> HIDE DEF others
    <2>3. [atoms |-> either.atoms, others |-> others] \in ConstraintsOf(T)
      BY <1>2, <1>3, <2>2, MakesConstraint
    <2> QED BY <2>1, <2>3, Zenon
  <1> QED BY <1>1, <1>2, <1>3, <1>4, <1>5 DEF either

-----------------------------------------------------------------------------
(* From keywords to constraints.                                           *)

(* The atom the keywords of one schema compile to.                         *)
LocalAtom(s) ==
    [integer |-> s.type = "integer",
     lower |-> StrongerLower(InclusiveBound(s.minimum),
                             ExclusiveBound(s.minimum, s.exclusiveMinimum)),
     upper |-> StrongerUpper(InclusiveBound(s.maximum),
                             ExclusiveBound(s.maximum, s.exclusiveMaximum)),
     multiple |-> s.multipleOf]

(* The bounds of a pair of keywords say what the keywords say, exclusive   *)
(* bounds that are numbers and those that are flags alike.                 *)
LEMMA KeywordBounds ==
    ASSUME NEW i \in Int \cup {Absent}, NEW e \in Int \cup {Absent, Flag}, NEW x \in Int
    PROVE  /\ InclusiveBound(i) \in AtomEnds /\ ExclusiveBound(i, e) \in AtomEnds
           /\ LET p == InclusiveBound(i)
                  q == ExclusiveBound(i, e)
              IN  /\ (/\ i # Absent => x >= i /\ (e = Flag => x # i)
                      /\ e \notin {Absent, Flag} => x > e)
                       <=> (/\ p.at # Absent => x > p.at \/ (x = p.at /\ p.closed)
                            /\ q.at # Absent => x > q.at \/ (x = q.at /\ q.closed))
                  /\ (/\ i # Absent => x <= i /\ (e = Flag => x # i)
                      /\ e \notin {Absent, Flag} => x < e)
                       <=> (/\ p.at # Absent => x < p.at \/ (x = p.at /\ p.closed)
                            /\ q.at # Absent => x < q.at \/ (x = q.at /\ q.closed))
  BY AbsentAssumption DEF InclusiveBound, ExclusiveBound, NoBound, Bound, AtomEnds

(* The atom of a schema's own keywords holds the numbers they accept:      *)
(* inclusive and exclusive bounds, as numbers and as flags.                *)
LEMMA LocalHolds ==
    ASSUME NEW B, NEW s \in Keywords(B)
    PROVE  /\ LocalConstraint(s).atoms = <<LocalAtom(s)>>
           /\ (LocalConstraint(s).others <=> s.type = "any")
           /\ LocalAtom(s) \in Among({s})
           /\ \A x \in Int : InAtom(LocalAtom(s), x) <=> LocallyAccepts(s, x)
  <1> DEFINE a == LocalAtom(s)
             p == InclusiveBound(s.minimum)
             q == ExclusiveBound(s.minimum, s.exclusiveMinimum)
             u == InclusiveBound(s.maximum)
             v == ExclusiveBound(s.maximum, s.exclusiveMaximum)
  <1>1. /\ s.minimum \in Int \cup {Absent} /\ s.exclusiveMinimum \in Int \cup {Absent, Flag}
        /\ s.maximum \in Int \cup {Absent} /\ s.exclusiveMaximum \in Int \cup {Absent, Flag}
        /\ s.multipleOf \in (Nat \ {0}) \cup {Absent}
    BY DEF Keywords
  <1>2. /\ LocalConstraint(s).atoms = <<a>> /\ (LocalConstraint(s).others <=> s.type = "any")
    BY DEF LocalConstraint, LocalAtom
  <1>3. /\ a.integer = (s.type = "integer") /\ a.multiple = s.multipleOf
        /\ a.lower = StrongerLower(p, q) /\ a.upper = StrongerUpper(u, v)
    BY DEF LocalAtom
  <1>4. p \in AtomEnds /\ q \in AtomEnds /\ u \in AtomEnds /\ v \in AtomEnds
    <2>1. 0 \in Int
      OBVIOUS
    <2> QED BY <1>1, <2>1, KeywordBounds
  <1>5. a \in Atoms
    <2>1. StrongerLower(p, q) \in AtomEnds /\ StrongerUpper(u, v) \in AtomEnds
      <3>1. 0 \in Int
        OBVIOUS
      <3> HIDE DEF p, q, u, v
      <3> QED BY <1>4, <3>1, BothBounds, AbsentAssumption
    <2> HIDE DEF p, q, u, v
    <2> QED BY <1>1, <2>1 DEF LocalAtom, Atoms, p, q, u, v
  <1>6. a \in Among({s})
    BY <1>3, <1>5 DEF Among
  <1>7. ASSUME NEW x \in Int
        PROVE  InAtom(a, x) <=> LocallyAccepts(s, x)
    <2>1. InAtom(a, x) <=> InRaw(a, x)
      BY <1>5, RoundingKeepsTheNumbers, AbsentAssumption
    <2>2. (a.lower.at # Absent => x > a.lower.at \/ (x = a.lower.at /\ a.lower.closed))
             <=> /\ p.at # Absent => x > p.at \/ (x = p.at /\ p.closed)
                 /\ q.at # Absent => x > q.at \/ (x = q.at /\ q.closed)
      <3> HIDE DEF a, p, q
      <3> QED BY <1>3, <1>4, BothBounds, AbsentAssumption
    <2>3. (a.upper.at # Absent => x < a.upper.at \/ (x = a.upper.at /\ a.upper.closed))
             <=> /\ u.at # Absent => x < u.at \/ (x = u.at /\ u.closed)
                 /\ v.at # Absent => x < v.at \/ (x = v.at /\ v.closed)
      <3> HIDE DEF a, u, v
      <3> QED BY <1>3, <1>4, BothBounds, AbsentAssumption
    <2>4. (/\ s.minimum # Absent =>
                x >= s.minimum /\ (s.exclusiveMinimum = Flag => x # s.minimum)
           /\ s.exclusiveMinimum \notin {Absent, Flag} => x > s.exclusiveMinimum)
             <=> (/\ p.at # Absent => x > p.at \/ (x = p.at /\ p.closed)
                  /\ q.at # Absent => x > q.at \/ (x = q.at /\ q.closed))
      BY <1>1, KeywordBounds
    <2>5. (/\ s.maximum # Absent =>
                x <= s.maximum /\ (s.exclusiveMaximum = Flag => x # s.maximum)
           /\ s.exclusiveMaximum \notin {Absent, Flag} => x < s.exclusiveMaximum)
             <=> (/\ u.at # Absent => x < u.at \/ (x = u.at /\ u.closed)
                  /\ v.at # Absent => x < v.at \/ (x = v.at /\ v.closed))
      BY <1>1, KeywordBounds
    <2> HIDE DEF a, p, q, u, v
    <2> QED BY <1>3, <2>1, <2>2, <2>3, <2>4, <2>5 DEF InRaw, LocallyAccepts
  <1> QED BY <1>2, <1>6, <1>7

(* The constraint of a schema's own keywords holds what they accept.       *)
LEMMA LocalConstraintHolds ==
    ASSUME NEW B, NEW s \in Keywords(B), NEW T, \A a \in T : RegularAtom(a), LocalAtom(s) \in T
    PROVE  /\ LocalConstraint(s) \in ConstraintsOf(T)
           /\ LocalConstraint(s).others <=> s.type = "any"
           /\ \A x \in Int : InConstraint(LocalConstraint(s), x) <=> LocallyAccepts(s, x)
  <1> DEFINE c == LocalConstraint(s)
             a == LocalAtom(s)
  <1>1. /\ c.atoms = <<a>> /\ (c.others <=> s.type = "any")
        /\ \A x \in Int : InAtom(a, x) <=> LocallyAccepts(s, x)
    BY LocalHolds
  <1>2. c = [atoms |-> <<a>>, others |-> s.type = "any"]
    BY DEF LocalConstraint, LocalAtom
  <1> HIDE DEF a
  <1>3. <<a>> \in Seq(T) /\ ToSet(<<a>>) = {a}
    BY DEF a, ToSet
  <1>4. c \in ConstraintsOf(T)
    BY <1>2, <1>3 DEF ConstraintsOf
  <1>5. \A x \in Int : InConstraint(c, x) <=> InAtom(a, x)
    <2> HIDE DEF c
    <2>1. \A x \in Int : InConstraint(c, x) <=> \E e \in ToSet(c.atoms) : InAtom(e, x)
      BY <1>1, <1>3, ConstraintHolds
    <2> QED BY <1>1, <1>3, <2>1
  <1> HIDE DEF c
  <1> QED BY <1>1, <1>4, <1>5 DEF c

(* What all of allOf accept, with the keywords beside it.                  *)
AllAccept(s, x) ==
    LocallyAccepts(s, x) /\ \A k \in DOMAIN s.allOf : LocallyAccepts(s.allOf[k], x)
AllAcceptOthers(s) ==
    s.type = "any" /\ \A k \in DOMAIN s.allOf : s.allOf[k].type = "any"

(* g takes the branches of allOf in turn.                                  *)
TakesAllOf(g, s) ==
    /\ g[0] = LocalConstraint(s) /\ AllOfConstraint(s) = g[Len(s.allOf)]
    /\ \A k \in 0 .. Len(s.allOf) - 1 : g[k + 1] = Intersect(g[k], LocalConstraint(s.allOf[k + 1]))

(* The constraint of allOf, branch by branch.                              *)
LEMMA AllOfSteps ==
    ASSUME NEW B, NEW C, NEW s, s.allOf \in Seq(B), LocalConstraint(s) \in C,
           \A c \in C, b \in B : Intersect(c, LocalConstraint(b)) \in C
    PROVE  \E g : TakesAllOf(g, s)
  <1> DEFINE t == s.allOf
             n == Len(t)
             D == SUBSET (1 .. n)
             base == LocalConstraint(s)
             Step(c, b) == Intersect(c, LocalConstraint(b))
             IsIt(k) == k = [S \in D |-> IF S = {} THEN base
                                         ELSE Step(k[S \ {Max(S)}], t[Max(S)])]
             c == CHOOSE k : IsIt(k)
             H == [p \in C \X B |-> Step(p[1], p[2])]
  <1>1. n \in Nat /\ DOMAIN t = 1 .. n /\ \A k \in 1 .. n : t[k] \in B
    BY LenProperties, ElementOfSeq
  <1>2. AllOfConstraint(s) = c[1 .. n]
    BY <1>1 DEF AllOfConstraint, FoldLeft, MapThenFoldSet
  <1>3. base \in C /\ \A e \in C, b \in B : Step(e, b) \in C
    OBVIOUS
  <1> HIDE DEF t, base, Step
  <1>4. H \in [C \X B -> C]
    BY <1>3
  <1>5. PICK f \in [D -> C] : FoldsOver(n, f, base, H, t, C)
    <2> HIDE DEF H, n
    <2> QED BY <1>1, <1>3, <1>4, FoldBy
  <1>6. IsIt(c)
    <2>1. IsIt(f)
      BY <1>1, <1>5 DEF FoldsOver
    <2> HIDE DEF IsIt
    <2> QED BY <2>1
  <1> HIDE DEF c
  <1> DEFINE g == [k \in 0 .. n |-> c[1 .. k]]
  <1>7. g[0] = base
    <2>1. 1 .. 0 = {} /\ {} \in D /\ 0 \in 0 .. n
      BY <1>1
    <2> QED BY <1>6, <2>1
  <1>8. ASSUME NEW k \in 0 .. n - 1
        PROVE  g[k + 1] = Step(g[k], t[k + 1])
    <2>1. /\ 1 .. k + 1 \in D /\ 1 .. k + 1 # {} /\ Max(1 .. k + 1) = k + 1
          /\ (1 .. k + 1) \ {k + 1} = 1 .. k
      BY <1>1, UpToHere
    <2>2. c[1 .. k + 1] = Step(c[1 .. k], t[k + 1])
      BY <1>6, <2>1
    <2>3. g[k + 1] = c[1 .. k + 1] /\ g[k] = c[1 .. k]
      BY <1>1
    <2> QED BY <2>2, <2>3
  <1>9. AllOfConstraint(s) = g[n]
    BY <1>1, <1>2
  <1> HIDE DEF g
  <1> QED BY <1>7, <1>8, <1>9 DEF base, Step, t, TakesAllOf

(* The constraint of allOf, and the keywords beside it, holds what all of  *)
(* them accept.                                                            *)
LEMMA AllOfHolds ==
    ASSUME NEW s \in Schemas, NEW A, A = {s} \cup ToSet(s.allOf), Fits(A)
    PROVE  /\ AllOfConstraint(s) \in ConstraintsOf(Among(A))
           /\ AllOfConstraint(s).others <=> AllAcceptOthers(s)
           /\ \A x \in Int : InConstraint(AllOfConstraint(s), x) <=> AllAccept(s, x)
  <1> DEFINE t == s.allOf
             n == Len(t)
             T == Among(A)
             C == ConstraintsOf(T)
             B == {b \in Branches : b \in A}
  <1>1. t \in Seq(Branches) /\ s \in Keywords(Seq(Branches))
    BY DEF Schemas, Keywords
  <1>2. n \in Nat /\ DOMAIN t = 1 .. n /\ \A k \in 1 .. n : t[k] \in B
    <2>1. n \in Nat /\ DOMAIN t = 1 .. n /\ \A k \in 1 .. n : t[k] \in Branches
      BY <1>1, LenProperties, ElementOfSeq
    <2> QED BY <2>1 DEF ToSet
  <1>3. t \in Seq(B)
    <2>1. t \in [1 .. n -> B]
      BY <1>1, <1>2
    <2> HIDE DEF t, B
    <2> QED BY <1>2, <2>1, IsASeq
  <1>4. T \subseteq Atoms /\ \A a \in T : RegularAtom(a)
    BY AmongFits DEF Among
  <1>5. \A a, b \in T : IntersectAtoms(a, b) \in T
    BY AmongIntersected
  <1>6. LocalAtom(s) \in T
    <2>1. LocalAtom(s) \in Among({s}) /\ {s} \subseteq A
      BY <1>1, LocalHolds
    <2> QED BY <2>1, AmongGrows
  <1>7. \A b \in B : LocalAtom(b) \in T
    <2>1. ASSUME NEW b \in B PROVE LocalAtom(b) \in T
      <3>1. LocalAtom(b) \in Among({b}) /\ {b} \subseteq A
        BY LocalHolds DEF Branches
      <3> QED BY <3>1, AmongGrows
    <2> QED BY <2>1
  <1>8. /\ LocalConstraint(s) \in C
        /\ LocalConstraint(s).others <=> s.type = "any"
        /\ \A x \in Int : InConstraint(LocalConstraint(s), x) <=> LocallyAccepts(s, x)
    <2> HIDE DEF T
    <2> QED BY <1>1, <1>4, <1>6, LocalConstraintHolds
  <1>9. ASSUME NEW b \in B
        PROVE  /\ LocalConstraint(b) \in C
               /\ LocalConstraint(b).others <=> b.type = "any"
               /\ \A x \in Int : InConstraint(LocalConstraint(b), x) <=> LocallyAccepts(b, x)
    <2>1. b \in Keywords({<<>>}) /\ LocalAtom(b) \in T
      BY <1>7 DEF Branches
    <2> HIDE DEF T
    <2> QED BY <1>4, <2>1, LocalConstraintHolds
  <1>10. ASSUME NEW c \in C, NEW b \in B
         PROVE  /\ Intersect(c, LocalConstraint(b)) \in C
                /\ Intersect(c, LocalConstraint(b)).others <=> c.others /\ b.type = "any"
                /\ \A x \in Int : InConstraint(Intersect(c, LocalConstraint(b)), x)
                                     <=> InConstraint(c, x) /\ LocallyAccepts(b, x)
    <2> DEFINE d == LocalConstraint(b)
    <2> HIDE DEF T, B
    <2>1. /\ d \in C /\ (d.others <=> b.type = "any")
          /\ \A x \in Int : InConstraint(d, x) <=> LocallyAccepts(b, x)
      BY <1>9
    <2> HIDE DEF d
    <2>2. c.atoms \in Seq(T) /\ d.atoms \in Seq(T)
      BY <2>1, ConstraintFields
    <2>3. /\ Intersect(c, d) \in C
          /\ Intersect(c, d).others <=> c.others /\ d.others
          /\ \A x \in Int : InConstraint(Intersect(c, d), x)
                               <=> InConstraint(c, x) /\ InConstraint(d, x)
      BY <1>4, <1>5, <2>2, IntersectHolds
    <2>5. Intersect(c, d).others <=> c.others /\ b.type = "any"
      BY <2>1, <2>3
    <2>6. \A x \in Int : InConstraint(Intersect(c, d), x)
                            <=> InConstraint(c, x) /\ LocallyAccepts(b, x)
      BY <2>1, <2>3
    <2> QED BY <2>3, <2>5, <2>6 DEF d
  <1> HIDE DEF T, B, C
  <1>15. \E h : TakesAllOf(h, s)
    <2>1. LocalConstraint(s) \in C /\ \A c \in C, b \in B : Intersect(c, LocalConstraint(b)) \in C
      BY <1>8, <1>10
    <2>2. s.allOf \in Seq(B)
      BY <1>3
    <2> HIDE DEF t, n
    <2> QED BY <2>1, <2>2, AllOfSteps
  <1>11. PICK g : /\ g[0] = LocalConstraint(s) /\ AllOfConstraint(s) = g[n]
                  /\ \A k \in 0 .. n - 1 : g[k + 1] = Intersect(g[k], LocalConstraint(t[k + 1]))
    BY <1>15 DEF TakesAllOf
  <1> DEFINE Means(k) == /\ g[k] \in C
                         /\ g[k].others <=> s.type = "any" /\ \A j \in 1 .. k : t[j].type = "any"
                         /\ \A x \in Int : InConstraint(g[k], x)
                              <=> LocallyAccepts(s, x) /\ \A j \in 1 .. k : LocallyAccepts(t[j], x)
             K == {k \in 0 .. n : Means(k)}
  <1>12. 0 \in K
    <2>1. Means(0)
      BY <1>8, <1>11
    <2> QED BY <1>2, <2>1
  <1>13. ASSUME NEW k \in 0 .. n - 1, k \in K
         PROVE  k + 1 \in K
    <2>1. k + 1 \in 0 .. n /\ k + 1 \in 1 .. n /\ 1 .. k + 1 = (1 .. k) \cup {k + 1}
      BY <1>2
    <2>2. t[k + 1] \in B /\ g[k] \in C /\ g[k + 1] = Intersect(g[k], LocalConstraint(t[k + 1]))
      BY <1>2, <1>11, <1>13, <2>1
    <2> DEFINE b == t[k + 1]
    <2>3. /\ g[k + 1] \in C
          /\ g[k + 1].others <=> g[k].others /\ b.type = "any"
          /\ \A x \in Int : InConstraint(g[k + 1], x)
                               <=> InConstraint(g[k], x) /\ LocallyAccepts(b, x)
      BY <1>10, <2>2
    <2>4. Means(k + 1)
      <3> HIDE DEF t
      <3> QED BY <1>13, <2>1, <2>3
    <2> HIDE DEF Means
    <2> QED BY <2>1, <2>4
  <1>14. Means(n)
    <2> HIDE DEF Means
    <2>1. n \in 0 .. n
      BY <1>2
    <2>2. \A k \in 0 .. n : k \in K
      <3> HIDE DEF K, n
      <3> QED BY <1>2, <1>12, <1>13, HoldsUpTo
    <2> QED BY <2>1, <2>2
  <1> QED BY <1>2, <1>11, <1>14 DEF C, T, AllAccept, AllAcceptOthers

(* What one of anyOf accepts.                                              *)
OneAccepts(s, x) == \E k \in DOMAIN s.anyOf : LocallyAccepts(s.anyOf[k], x)
OneAcceptsOthers(s) == \E k \in DOMAIN s.anyOf : s.anyOf[k].type = "any"

(* g takes the branches of anyOf in turn.                                  *)
TakesAnyOf(g, s) ==
    /\ g[0] = Nothing /\ AnyOfConstraint(s) = g[Len(s.anyOf)]
    /\ \A k \in 0 .. Len(s.anyOf) - 1 : g[k + 1] = Union(g[k], LocalConstraint(s.anyOf[k + 1]))

(* The constraint of anyOf, branch by branch.                              *)
LEMMA AnyOfSteps ==
    ASSUME NEW B, NEW C, NEW s, s.anyOf \in Seq(B), Nothing \in C,
           \A c \in C, b \in B : Union(c, LocalConstraint(b)) \in C
    PROVE  \E g : TakesAnyOf(g, s)
  <1> DEFINE t == s.anyOf
             n == Len(t)
             D == SUBSET (1 .. n)
             base == Nothing
             Step(c, b) == Union(c, LocalConstraint(b))
             IsIt(k) == k = [S \in D |-> IF S = {} THEN base
                                         ELSE Step(k[S \ {Max(S)}], t[Max(S)])]
             c == CHOOSE k : IsIt(k)
             H == [p \in C \X B |-> Step(p[1], p[2])]
  <1>1. n \in Nat /\ DOMAIN t = 1 .. n /\ \A k \in 1 .. n : t[k] \in B
    BY LenProperties, ElementOfSeq
  <1>2. AnyOfConstraint(s) = c[1 .. n]
    BY <1>1 DEF AnyOfConstraint, FoldLeft, MapThenFoldSet
  <1>3. base \in C /\ \A e \in C, b \in B : Step(e, b) \in C
    OBVIOUS
  <1> HIDE DEF t, base, Step
  <1>4. H \in [C \X B -> C]
    BY <1>3
  <1>5. PICK f \in [D -> C] : FoldsOver(n, f, base, H, t, C)
    <2> HIDE DEF H, n
    <2> QED BY <1>1, <1>3, <1>4, FoldBy
  <1>6. IsIt(c)
    <2>1. IsIt(f)
      BY <1>1, <1>5 DEF FoldsOver
    <2> HIDE DEF IsIt
    <2> QED BY <2>1
  <1> HIDE DEF c
  <1> DEFINE g == [k \in 0 .. n |-> c[1 .. k]]
  <1>7. g[0] = base
    <2>1. 1 .. 0 = {} /\ {} \in D /\ 0 \in 0 .. n
      BY <1>1
    <2> QED BY <1>6, <2>1
  <1>8. ASSUME NEW k \in 0 .. n - 1
        PROVE  g[k + 1] = Step(g[k], t[k + 1])
    <2>1. /\ 1 .. k + 1 \in D /\ 1 .. k + 1 # {} /\ Max(1 .. k + 1) = k + 1
          /\ (1 .. k + 1) \ {k + 1} = 1 .. k
      BY <1>1, UpToHere
    <2>2. c[1 .. k + 1] = Step(c[1 .. k], t[k + 1])
      BY <1>6, <2>1
    <2>3. g[k + 1] = c[1 .. k + 1] /\ g[k] = c[1 .. k]
      BY <1>1
    <2> QED BY <2>2, <2>3
  <1>9. AnyOfConstraint(s) = g[n]
    BY <1>1, <1>2
  <1> HIDE DEF g
  <1> QED BY <1>7, <1>8, <1>9 DEF base, Step, t, TakesAnyOf

(* The atoms the branches of anyOf compile to.                             *)
AtomsOfAny(s) ==
    {a \in Atoms : RegularAtom(a) /\ \E k \in DOMAIN s.anyOf : a \in Among({s.anyOf[k]})}

(* The constraint of anyOf holds what one of its branches accepts.         *)
LEMMA AnyOfHolds ==
    ASSUME NEW s \in Schemas, \A k \in DOMAIN s.anyOf : Fits({s.anyOf[k]})
    PROVE  /\ AnyOfConstraint(s) \in ConstraintsOf(AtomsOfAny(s))
           /\ (AnyOfConstraint(s).others <=> OneAcceptsOthers(s))
           /\ \A x \in Int : InConstraint(AnyOfConstraint(s), x) <=> OneAccepts(s, x)
  <1> DEFINE t == s.anyOf
             n == Len(t)
             T == AtomsOfAny(s)
             C == ConstraintsOf(T)
             B == {b \in Branches : \E k \in DOMAIN t : b = t[k]}
  <1>1. t \in Seq(Branches)
    BY DEF Schemas, Keywords
  <1>2. n \in Nat /\ DOMAIN t = 1 .. n /\ \A k \in 1 .. n : t[k] \in B
    <2>1. n \in Nat /\ DOMAIN t = 1 .. n /\ \A k \in 1 .. n : t[k] \in Branches
      BY <1>1, LenProperties, ElementOfSeq
    <2> QED BY <2>1
  <1>3. t \in Seq(B)
    <2>1. t \in [1 .. n -> B]
      BY <1>1, <1>2
    <2> HIDE DEF t, B
    <2> QED BY <1>2, <2>1, IsASeq
  <1>4. \A a \in T : RegularAtom(a)
    BY DEF AtomsOfAny
  <1>7. \A b \in B : LocalAtom(b) \in T
    <2>1. ASSUME NEW b \in B PROVE LocalAtom(b) \in T
      <3>1. PICK k \in DOMAIN t : b = t[k]
        OBVIOUS
      <3>2. LocalAtom(b) \in Among({b})
        BY LocalHolds DEF Branches
      <3>3. Fits({b})
        BY <3>1
      <3>4. RegularAtom(LocalAtom(b)) /\ LocalAtom(b) \in Atoms
        BY <3>2, <3>3, AmongFits DEF Among
      <3> QED BY <3>1, <3>2, <3>4 DEF AtomsOfAny
    <2> QED BY <2>1
  <1>8. /\ Nothing \in C /\ ~Nothing.others
        /\ \A x \in Int : ~InConstraint(Nothing, x)
    <2>1. Nothing.atoms = <<>> /\ Nothing.others = FALSE
      BY DEF Nothing
    <2>2. <<>> \in Seq(T) /\ FALSE \in BOOLEAN
      BY EmptySeq
    <2>3. Nothing \in C
      BY <2>2, MakesConstraint DEF Nothing
    <2> QED BY <2>1, <2>3 DEF InConstraint
  <1>9. ASSUME NEW b \in B
        PROVE  /\ LocalConstraint(b) \in C
               /\ (LocalConstraint(b).others <=> b.type = "any")
               /\ \A x \in Int : InConstraint(LocalConstraint(b), x) <=> LocallyAccepts(b, x)
    <2>1. b \in Keywords({<<>>}) /\ LocalAtom(b) \in T
      BY <1>7 DEF Branches
    <2> HIDE DEF T
    <2> QED BY <1>4, <2>1, LocalConstraintHolds
  <1>10. ASSUME NEW c \in C, NEW b \in B
         PROVE  /\ Union(c, LocalConstraint(b)) \in C
                /\ (Union(c, LocalConstraint(b)).others <=> c.others \/ b.type = "any")
                /\ \A x \in Int : InConstraint(Union(c, LocalConstraint(b)), x)
                                     <=> InConstraint(c, x) \/ LocallyAccepts(b, x)
    <2> DEFINE d == LocalConstraint(b)
    <2> HIDE DEF T, B
    <2>1. /\ d \in C /\ (d.others <=> b.type = "any")
          /\ \A x \in Int : InConstraint(d, x) <=> LocallyAccepts(b, x)
      BY <1>9
    <2> HIDE DEF d
    <2>2. c.atoms \in Seq(T) /\ d.atoms \in Seq(T)
      BY <2>1, ConstraintFields
    <2>3. /\ Union(c, d) \in C
          /\ (Union(c, d).others <=> c.others \/ d.others)
          /\ \A x \in Int : InConstraint(Union(c, d), x)
                               <=> InConstraint(c, x) \/ InConstraint(d, x)
      BY <1>4, <2>2, UnionHolds
    <2>5. Union(c, d).others <=> c.others \/ b.type = "any"
      BY <2>1, <2>3
    <2>6. \A x \in Int : InConstraint(Union(c, d), x)
                            <=> InConstraint(c, x) \/ LocallyAccepts(b, x)
      BY <2>1, <2>3
    <2> QED BY <2>3, <2>5, <2>6 DEF d
  <1> HIDE DEF T, B, C
  <1>15. \E h : TakesAnyOf(h, s)
    <2>1. Nothing \in C /\ \A c \in C, b \in B : Union(c, LocalConstraint(b)) \in C
      BY <1>8, <1>10
    <2>2. s.anyOf \in Seq(B)
      BY <1>3
    <2> HIDE DEF t, n
    <2> QED BY <2>1, <2>2, AnyOfSteps
  <1>11. PICK g : /\ g[0] = Nothing /\ AnyOfConstraint(s) = g[n]
                  /\ \A k \in 0 .. n - 1 : g[k + 1] = Union(g[k], LocalConstraint(t[k + 1]))
    BY <1>15 DEF TakesAnyOf
  <1> DEFINE Means(k) == /\ g[k] \in C
                         /\ (g[k].others <=> \E j \in 1 .. k : t[j].type = "any")
                         /\ \A x \in Int : InConstraint(g[k], x)
                              <=> \E j \in 1 .. k : LocallyAccepts(t[j], x)
             K == {k \in 0 .. n : Means(k)}
  <1>12. 0 \in K
    <2>1. Means(0)
      BY <1>8, <1>11
    <2> QED BY <1>2, <2>1
  <1>13. ASSUME NEW k \in 0 .. n - 1, k \in K
         PROVE  k + 1 \in K
    <2>1. k + 1 \in 0 .. n /\ k + 1 \in 1 .. n /\ 1 .. k + 1 = (1 .. k) \cup {k + 1}
      BY <1>2
    <2>2. t[k + 1] \in B /\ g[k] \in C /\ g[k + 1] = Union(g[k], LocalConstraint(t[k + 1]))
      BY <1>2, <1>11, <1>13, <2>1
    <2> DEFINE b == t[k + 1]
    <2>3. /\ g[k + 1] \in C
          /\ (g[k + 1].others <=> g[k].others \/ b.type = "any")
          /\ \A x \in Int : InConstraint(g[k + 1], x)
                               <=> InConstraint(g[k], x) \/ LocallyAccepts(b, x)
      BY <1>10, <2>2
    <2>4. Means(k + 1)
      <3> HIDE DEF t
      <3> QED BY <1>13, <2>1, <2>3
    <2> HIDE DEF Means
    <2> QED BY <2>1, <2>4
  <1>14. Means(n)
    <2> HIDE DEF Means
    <2>1. n \in 0 .. n
      BY <1>2
    <2>2. \A k \in 0 .. n : k \in K
      <3> HIDE DEF K, n
      <3> QED BY <1>2, <1>12, <1>13, HoldsUpTo
    <2> QED BY <2>1, <2>2
  <1> QED BY <1>2, <1>11, <1>14 DEF C, T, OneAccepts, OneAcceptsOthers

(* The atoms a schema may compile to.                                      *)
AtomsOf(s) == UNION {Among(branches) : branches \in Conjunctions(s)}

(* A constraint holds the numbers the keywords of its schema accept.       *)
LEMMA ConstraintMeansKeywords ==
    ASSUME NEW s \in Schemas, \A branches \in Conjunctions(s) : Fits(branches)
    PROVE  /\ ConstraintOf(s) \in ConstraintsOf(AtomsOf(s))
           /\ \A a \in AtomsOf(s) : a \in Atoms /\ RegularAtom(a)
           /\ (ConstraintOf(s).others <=> AcceptsOthers(s))
           /\ \A x \in Int : InConstraint(ConstraintOf(s), x) <=> AcceptsNumber(s, x)
  <1> DEFINE A == {s} \cup ToSet(s.allOf)
             R == AtomsOf(s)
             c == AllOfConstraint(s)
             d == AnyOfConstraint(s)
  <1>1. \A a \in R : a \in Atoms /\ RegularAtom(a)
    <2>1. ASSUME NEW a \in R PROVE a \in Atoms /\ RegularAtom(a)
      <3>1. PICK S \in Conjunctions(s) : a \in Among(S)
        BY DEF AtomsOf
      <3> QED BY <3>1, AmongFits DEF Among
    <2> QED BY <2>1
  <1>2. CASE s.anyOf = <<>>
    <2>1. Conjunctions(s) = {A}
      BY <1>2 DEF Conjunctions
    <2>2. Fits(A) /\ R = Among(A)
      BY <2>1 DEF AtomsOf
    <2>3. /\ c \in ConstraintsOf(R) /\ (c.others <=> AllAcceptOthers(s))
          /\ \A x \in Int : InConstraint(c, x) <=> AllAccept(s, x)
      <3> HIDE DEF A
      <3> QED BY <2>2, AllOfHolds DEF A
    <2>4. ConstraintOf(s) = c
      BY <1>2 DEF ConstraintOf
    <2>5. (AcceptsOthers(s) <=> AllAcceptOthers(s))
          /\ \A x : AcceptsNumber(s, x) <=> AllAccept(s, x)
      BY <1>2 DEF AcceptsOthers, AllAcceptOthers, AcceptsNumber, AllAccept
    <2> HIDE DEF c
    <2> QED BY <1>1, <2>3, <2>4, <2>5
  <1>3. CASE s.anyOf # <<>>
    <2> DEFINE P == Among(A)
               Q == AtomsOfAny(s)
    <2>1. Conjunctions(s) = {A \cup {branch} : branch \in ToSet(s.anyOf)}
      BY <1>3 DEF Conjunctions
    <2>2. \A k \in DOMAIN s.anyOf : A \cup {s.anyOf[k]} \in Conjunctions(s)
      BY <2>1 DEF ToSet
    <2>3. \A k \in DOMAIN s.anyOf : Fits(A \cup {s.anyOf[k]})
      <3> HIDE DEF A
      <3> QED BY <2>2
    <2>4. \A k \in DOMAIN s.anyOf : Fits({s.anyOf[k]}) /\ Fits(A)
      BY <2>3 DEF Fits
    <2>5. PICK k \in DOMAIN s.anyOf : TRUE
      <3>1. s.anyOf \in Seq(Branches)
        BY DEF Schemas, Keywords
      <3> HIDE DEF A
      <3>2. Len(s.anyOf) # 0 /\ DOMAIN s.anyOf = 1 .. Len(s.anyOf) /\ Len(s.anyOf) \in Nat
        BY <1>3, <3>1, LenProperties, EmptySeq
      <3>3. Len(s.anyOf) \in DOMAIN s.anyOf
        BY <3>2
      <3> QED BY <3>3
    <2>6. /\ c \in ConstraintsOf(P) /\ (c.others <=> AllAcceptOthers(s))
          /\ \A x \in Int : InConstraint(c, x) <=> AllAccept(s, x)
      <3> HIDE DEF A
      <3> QED BY <2>4, <2>5, AllOfHolds DEF A
    <2>7. /\ d \in ConstraintsOf(Q) /\ (d.others <=> OneAcceptsOthers(s))
          /\ \A x \in Int : InConstraint(d, x) <=> OneAccepts(s, x)
      <3> HIDE DEF A
      <3> QED BY <2>4, AnyOfHolds
    <2>8. \A p \in P, q \in Q : IntersectAtoms(p, q) \in R
      <3>1. ASSUME NEW p \in P, NEW q \in Q PROVE IntersectAtoms(p, q) \in R
        <4>1. PICK j \in DOMAIN s.anyOf : q \in Among({s.anyOf[j]})
          BY DEF AtomsOfAny
        <4> DEFINE S == A \cup {s.anyOf[j]}
        <4>2. A \subseteq S /\ {s.anyOf[j]} \subseteq S /\ S \in Conjunctions(s)
          BY <2>2
        <4> HIDE DEF A, S
        <4>3. p \in Among(S) /\ q \in Among(S)
          BY <4>1, <4>2, AmongGrows
        <4>4. IntersectAtoms(p, q) \in Among(S)
          BY <4>3, AmongIntersected
        <4> QED BY <4>2, <4>4 DEF AtomsOf
      <3> QED BY <3>1
    <2>9. P \subseteq Atoms /\ Q \subseteq Atoms
      BY DEF Among, AtomsOfAny
    <2>10. ConstraintOf(s) = Intersect(c, d)
      BY <1>3 DEF ConstraintOf
    <2>11. (AcceptsOthers(s) <=> AllAcceptOthers(s) /\ OneAcceptsOthers(s))
           /\ \A x : AcceptsNumber(s, x) <=> AllAccept(s, x) /\ OneAccepts(s, x)
      BY <1>3 DEF AcceptsOthers, AllAcceptOthers, OneAcceptsOthers,
                  AcceptsNumber, AllAccept, OneAccepts
    <2> HIDE DEF P, Q, R, c, d
    <2>12. c.atoms \in Seq(P) /\ d.atoms \in Seq(Q)
      BY <2>6, <2>7, ConstraintFields
    <2>13. /\ Intersect(c, d) \in ConstraintsOf(R)
           /\ (Intersect(c, d).others <=> c.others /\ d.others)
           /\ \A x \in Int : InConstraint(Intersect(c, d), x)
                                <=> InConstraint(c, x) /\ InConstraint(d, x)
      BY <1>1, <2>8, <2>9, <2>12, IntersectHolds
    <2> DEFINE e == ConstraintOf(s)
    <2>14. /\ e \in ConstraintsOf(R)
           /\ (e.others <=> c.others /\ d.others)
           /\ \A x \in Int : InConstraint(e, x) <=> InConstraint(c, x) /\ InConstraint(d, x)
      BY <2>10, <2>13
    <2> HIDE DEF e
    <2>15. e.others <=> AcceptsOthers(s)
      BY <2>6, <2>7, <2>11, <2>14
    <2>16. \A x \in Int : InConstraint(e, x) <=> AcceptsNumber(s, x)
      BY <2>6, <2>7, <2>11, <2>14
    <2> QED BY <1>1, <2>14, <2>15, <2>16 DEF e, R
  <1> QED BY <1>2, <1>3

-----------------------------------------------------------------------------
(* Covering an atom with the atoms of another constraint.                  *)

(* g sorts the intervals one after the other. *)
Sorts(g, s) ==
    /\ g[0] = <<>> /\ Sorted(s) = g[Len(s)]
    /\ \A k \in 0 .. Len(s) - 1 : g[k + 1] = Placed(g[k], s[k + 1])

(* Sorting goes through the intervals from the first.                      *)
LEMMA SortedSteps ==
    ASSUME NEW B, NEW C, NEW s \in Seq(B), <<>> \in C,
           \A c \in C, b \in B : Placed(c, b) \in C
    PROVE  \E g : Sorts(g, s)
  <1> DEFINE n == Len(s)
             D == SUBSET (1 .. n)
             base == <<>>
             Step(c, b) == Placed(c, b)
             IsIt(k) == k = [S \in D |-> IF S = {} THEN base
                                         ELSE Step(k[S \ {Max(S)}], s[Max(S)])]
             c == CHOOSE k : IsIt(k)
             H == [p \in C \X B |-> Step(p[1], p[2])]
  <1>1. n \in Nat /\ DOMAIN s = 1 .. n /\ \A k \in 1 .. n : s[k] \in B
    BY LenProperties, ElementOfSeq
  <1>2. Sorted(s) = c[1 .. n]
    BY <1>1 DEF Sorted, FoldLeft, MapThenFoldSet
  <1>3. base \in C /\ \A e \in C, b \in B : Step(e, b) \in C
    OBVIOUS
  <1> HIDE DEF base, Step
  <1>4. H \in [C \X B -> C]
    BY <1>3
  <1>5. PICK f \in [D -> C] : FoldsOver(n, f, base, H, s, C)
    <2> HIDE DEF H, n
    <2> QED BY <1>1, <1>3, <1>4, FoldBy
  <1>6. IsIt(c)
    <2>1. IsIt(f)
      BY <1>1, <1>5 DEF FoldsOver
    <2> HIDE DEF IsIt
    <2> QED BY <2>1
  <1> HIDE DEF c
  <1> DEFINE g == [k \in 0 .. n |-> c[1 .. k]]
  <1>7. g[0] = base
    <2>1. 1 .. 0 = {} /\ {} \in D /\ 0 \in 0 .. n
      BY <1>1
    <2> QED BY <1>6, <2>1
  <1>8. ASSUME NEW k \in 0 .. n - 1
        PROVE  g[k + 1] = Step(g[k], s[k + 1])
    <2>1. /\ 1 .. k + 1 \in D /\ 1 .. k + 1 # {} /\ Max(1 .. k + 1) = k + 1
          /\ (1 .. k + 1) \ {k + 1} = 1 .. k
      BY <1>1, UpToHere
    <2>2. c[1 .. k + 1] = Step(c[1 .. k], s[k + 1])
      BY <1>6, <2>1
    <2>3. g[k + 1] = c[1 .. k + 1] /\ g[k] = c[1 .. k]
      BY <1>1
    <2> QED BY <2>2, <2>3
  <1>9. Sorted(s) = g[n]
    BY <1>1, <1>2
  <1> HIDE DEF g
  <1>10. Sorts(g, s)
    BY <1>7, <1>8, <1>9 DEF base, Step, Sorts
  <1> QED BY <1>10

(* Sorting keeps the intervals.                                            *)
LEMMA SortedHolds ==
    ASSUME NEW T, NEW s \in Seq(T)
    PROVE  Sorted(s) \in Seq(T) /\ ToSet(Sorted(s)) = ToSet(s)
  <1> DEFINE n == Len(s)
             E == [k \in 1 .. n |-> {s[k]}]
  <1>1. n \in Nat /\ DOMAIN s = 1 .. n /\ \A k \in 1 .. n : s[k] \in T
    BY LenProperties, ElementOfSeq
  <1>2. ASSUME NEW c \in Seq(T), NEW b \in T
        PROVE  Placed(c, b) \in Seq(T) /\ ToSet(Placed(c, b)) = ToSet(c) \cup {b}
    <2> DEFINE P == {k \in DOMAIN c : StartsBefore(c[k], b)}
               p == Cardinality(P)
    <2>1. Len(c) \in Nat /\ DOMAIN c = 1 .. Len(c)
      BY LenProperties
    <2>2. IsFiniteSet(1 .. Len(c)) /\ Cardinality(1 .. Len(c)) = Len(c)
      <3> DEFINE m == Len(c)
      <3>1. m \in Int /\ 1 \in Int /\ m - 1 + 1 = m /\ (1 > m => m = 0)
        BY <2>1
      <3> HIDE DEF m
      <3>2. /\ IsFiniteSet(1 .. m)
            /\ Cardinality(1 .. m) = IF 1 > m THEN 0 ELSE m - 1 + 1
        BY <3>1, FS_Interval
      <3> QED BY <3>1, <3>2 DEF m
    <2>3. P \subseteq 1 .. Len(c)
      BY <2>1
    <2> HIDE DEF P
    <2>4. IsFiniteSet(P) /\ p <= Len(c)
      BY <2>2, <2>3, FS_Subset
    <2>5. p \in Nat
      BY <2>4, FS_CardinalityType
    <2> HIDE DEF p
    <2>6. p \in 0 .. Len(c)
      BY <2>1, <2>4, <2>5
    <2>7. Placed(c, b) = InsertAt(c, 1 + p, b)
      BY DEF Placed, p, P
    <2>8. /\ InsertAt(c, 1 + p, b) \in Seq(T)
          /\ ToSet(InsertAt(c, 1 + p, b)) = ToSet(c) \cup {b}
      BY <1>2, <2>6, InsertSet
    <2> QED BY <2>7, <2>8
  <1>3. <<>> \in Seq(T)
    BY EmptySeq
  <1>4. PICK g : Sorts(g, s)
    BY <1>2, <1>3, SortedSteps
  <1>5. ASSUME NEW k \in 0 .. n - 1, g[k] \in Seq(T)
        PROVE  g[k + 1] \in Seq(T) /\ ToSet(g[k + 1]) = ToSet(g[k]) \cup E[k + 1]
    <2>1. k + 1 \in 1 .. n /\ g[k + 1] = Placed(g[k], s[k + 1])
      BY <1>1, <1>4 DEF Sorts
    <2> QED BY <1>1, <1>2, <1>5, <2>1
  <1>6. g[n] \in Seq(T) /\ \A x : x \in ToSet(g[n]) <=> \E k \in 1 .. n : x \in E[k]
    <2> HIDE DEF E
    <2>1. g[0] = <<>>
      BY <1>4 DEF Sorts
    <2> QED BY <1>1, <1>5, <2>1, Collected
  <1>7. \A x : x \in ToSet(s) <=> \E k \in 1 .. n : x = s[k]
    BY <1>1 DEF ToSet
  <1>8. \A x : x \in ToSet(g[n]) <=> x \in ToSet(s)
    BY <1>1, <1>6, <1>7
  <1>9. Sorted(s) = g[n]
    BY <1>4 DEF Sorts
  <1> QED BY <1>6, <1>8, <1>9

(* The scan.                                                               *)
(* Intervals with whole ends.                                              *)
WholeEnd == {Absent} \cup {y \in Int : IsWhole(y)}

WholeIntervals == {i \in Atoms : i.lower.at \in WholeEnd /\ i.upper.at \in WholeEnd}

(* x lies between the ends of i, both of which are in it.                  *)
Inside(i, x) ==
    /\ i.lower.at # Absent => x >= i.lower.at
    /\ i.upper.at # Absent => x <= i.upper.at

(* An atom that was rounded holds the same numbers when it is rounded      *)
(* again.                                                                  *)
LEMMA RoundedTwice ==
    ASSUME NEW l \in Atoms, NEW x \in Int
    PROVE  /\ Normalized(l) \in Atoms /\ Normalized(l).integer = l.integer
           /\ Normalized(l).multiple = l.multiple
           /\ InAtom(l, x) <=> InRaw(Normalized(l), x)
           /\ InAtom(Normalized(l), x) <=> InAtom(l, x)
  <1>1. /\ Normalized(l) \in Atoms /\ Normalized(l).integer = l.integer
        /\ Normalized(l).multiple = l.multiple
    BY NormalizedFacts, AbsentAssumption
  <1>2. InAtom(l, x) <=> InRaw(Normalized(l), x)
    BY DEF InAtom, InRaw
  <1>3. InAtom(Normalized(l), x) <=> InRaw(Normalized(l), x)
    BY <1>1, RoundingKeepsTheNumbers, AbsentAssumption
  <1> QED BY <1>1, <1>2, <1>3

(* An atom that covers an interval has all of its whole numbers.           *)
LEMMA WholeIntervalFacts ==
    ASSUME NEW b \in Atoms
    PROVE  /\ WholeInterval(b) \in WholeIntervals
           /\ \A x \in Int : Covers(b) /\ IsWhole(x) /\ Inside(WholeInterval(b), x) => InAtom(b, x)
  <1> DEFINE e == [b EXCEPT !.integer = TRUE]
             i == WholeInterval(b)
  <1>1. /\ e \in Atoms /\ e.integer /\ e.lower = b.lower /\ e.upper = b.upper
        /\ e.multiple = b.multiple
    BY DEF Atoms
  <1>2. i = Normalized(e)
    BY DEF WholeInterval
  <1> HIDE DEF e, i
  <1>3. i \in Atoms /\ i.integer /\ i.multiple = b.multiple
    BY <1>1, <1>2, NormalizedFacts, AbsentAssumption
  <1>4. /\ i.lower.at # Absent => IsWhole(i.lower.at) /\ i.lower.closed
        /\ i.upper.at # Absent => IsWhole(i.upper.at) /\ i.upper.closed
    BY <1>1, <1>2, RoundedEnds
  <1>5. /\ i.lower.at \in Int \cup {Absent} /\ i.upper.at \in Int \cup {Absent}
        /\ Absent \notin Int
    BY <1>3, AbsentAssumption DEF Atoms, AtomEnds
  <1>6. i \in WholeIntervals
    BY <1>3, <1>4, <1>5 DEF WholeIntervals, WholeEnd
  <1>7. ASSUME NEW x \in Int, Covers(b), IsWhole(x), Inside(i, x)
        PROVE  InAtom(b, x)
    <2>1. b.multiple # Absent => IsMultiple(x, b.multiple)
      <3>1. b.multiple \in (Nat \ {0}) \cup {Absent} /\ Unit \in Nat \ {0}
        BY UnitAssumption DEF Atoms
      <3> QED BY <1>7, <3>1, MultipleOfMultiple DEF Covers, IsMultiple, IsWhole
    <2>2. InRaw(i, x)
      BY <1>3, <1>4, <1>5, <1>7, <2>1 DEF InRaw, Inside
    <2>3. InRaw(e, x)
      BY <1>1, <1>2, <2>2, RoundedTwice, RoundingKeepsTheNumbers, AbsentAssumption
    <2>4. InRaw(b, x)
      BY <1>1, <1>7, <2>3 DEF InRaw
    <2> QED BY <2>4, RoundingKeepsTheNumbers, AbsentAssumption
  <1> QED BY <1>6, <1>7 DEF i

(* g finds the intervals of the atoms one after the other. *)
Finds(g, s) ==
    /\ g[0] = <<>> /\ IntervalsOf(s) = g[Len(s)]
    /\ \A k \in 0 .. Len(s) - 1 : g[k + 1] = IF Covers(s[k + 1]) /\ InOrder(WholeInterval(s[k + 1]))
                                                    THEN Append(g[k], WholeInterval(s[k + 1])) ELSE g[k]

(* Finding the intervals goes through the atoms from the first.            *)
LEMMA IntervalsSteps ==
    ASSUME NEW B, NEW C, NEW s \in Seq(B), <<>> \in C,
           \A c \in C, b \in B : (IF Covers(b) /\ InOrder(WholeInterval(b))
                                     THEN Append(c, WholeInterval(b)) ELSE c) \in C
    PROVE  \E g : Finds(g, s)
  <1> DEFINE n == Len(s)
             D == SUBSET (1 .. n)
             base == <<>>
             Step(c, b) == (IF Covers(b) /\ InOrder(WholeInterval(b))
                                     THEN Append(c, WholeInterval(b)) ELSE c)
             IsIt(k) == k = [S \in D |-> IF S = {} THEN base
                                         ELSE Step(k[S \ {Max(S)}], s[Max(S)])]
             c == CHOOSE k : IsIt(k)
             H == [p \in C \X B |-> Step(p[1], p[2])]
  <1>1. n \in Nat /\ DOMAIN s = 1 .. n /\ \A k \in 1 .. n : s[k] \in B
    BY LenProperties, ElementOfSeq
  <1>2. IntervalsOf(s) = c[1 .. n]
    BY <1>1 DEF IntervalsOf, FoldLeft, MapThenFoldSet
  <1>3. base \in C /\ \A e \in C, b \in B : Step(e, b) \in C
    OBVIOUS
  <1> HIDE DEF base, Step
  <1>4. H \in [C \X B -> C]
    BY <1>3
  <1>5. PICK f \in [D -> C] : FoldsOver(n, f, base, H, s, C)
    <2> HIDE DEF H, n
    <2> QED BY <1>1, <1>3, <1>4, FoldBy
  <1>6. IsIt(c)
    <2>1. IsIt(f)
      BY <1>1, <1>5 DEF FoldsOver
    <2> HIDE DEF IsIt
    <2> QED BY <2>1
  <1> HIDE DEF c
  <1> DEFINE g == [k \in 0 .. n |-> c[1 .. k]]
  <1>7. g[0] = base
    <2>1. 1 .. 0 = {} /\ {} \in D /\ 0 \in 0 .. n
      BY <1>1
    <2> QED BY <1>6, <2>1
  <1>8. ASSUME NEW k \in 0 .. n - 1
        PROVE  g[k + 1] = Step(g[k], s[k + 1])
    <2>1. /\ 1 .. k + 1 \in D /\ 1 .. k + 1 # {} /\ Max(1 .. k + 1) = k + 1
          /\ (1 .. k + 1) \ {k + 1} = 1 .. k
      BY <1>1, UpToHere
    <2>2. c[1 .. k + 1] = Step(c[1 .. k], s[k + 1])
      BY <1>6, <2>1
    <2>3. g[k + 1] = c[1 .. k + 1] /\ g[k] = c[1 .. k]
      BY <1>1
    <2> QED BY <2>2, <2>3
  <1>9. IntervalsOf(s) = g[n]
    BY <1>1, <1>2
  <1> HIDE DEF g
  <1>10. Finds(g, s)
    BY <1>7, <1>8, <1>9 DEF base, Step, Finds
  <1> QED BY <1>10

(* The intervals the scan is given are those of the atoms.                 *)
LEMMA IntervalsHold ==
    ASSUME NEW T, NEW s \in Seq(T), NEW I, \A b \in T : WholeInterval(b) \in I
    PROVE  /\ IntervalsOf(s) \in Seq(I)
           /\ \A i \in ToSet(IntervalsOf(s)) :
                \E b \in ToSet(s) : Covers(b) /\ i = WholeInterval(b)
           /\ \A b \in ToSet(s) : Covers(b) /\ InOrder(WholeInterval(b))
                                     => WholeInterval(b) \in ToSet(IntervalsOf(s))
  <1> DEFINE n == Len(s)
             Kept(b) == Covers(b) /\ InOrder(WholeInterval(b))
             E == [k \in 1 .. n |-> IF Kept(s[k]) THEN {WholeInterval(s[k])} ELSE {}]
  <1>1. n \in Nat /\ DOMAIN s = 1 .. n /\ \A k \in 1 .. n : s[k] \in T
    BY LenProperties, ElementOfSeq
  <1>2. ASSUME NEW c \in Seq(I), NEW b \in T
        PROVE  /\ Append(c, WholeInterval(b)) \in Seq(I)
               /\ ToSet(Append(c, WholeInterval(b))) = ToSet(c) \cup {WholeInterval(b)}
    BY AppendSet
  <1>3. <<>> \in Seq(I)
    BY EmptySeq
  <1>4. PICK g : Finds(g, s)
    <2>1. \A c \in Seq(I), b \in T :
             (IF Kept(b) THEN Append(c, WholeInterval(b)) ELSE c) \in Seq(I)
      BY <1>2
    <2> QED BY <1>3, <2>1, IntervalsSteps
  <1>5. ASSUME NEW k \in 0 .. n - 1, g[k] \in Seq(I)
        PROVE  g[k + 1] \in Seq(I) /\ ToSet(g[k + 1]) = ToSet(g[k]) \cup E[k + 1]
    <2>1. /\ k + 1 \in 1 .. n
          /\ g[k + 1] = IF Kept(s[k + 1]) THEN Append(g[k], WholeInterval(s[k + 1])) ELSE g[k]
      BY <1>1, <1>4 DEF Finds
    <2> HIDE DEF Kept
    <2>2. CASE Kept(s[k + 1])
      <3>1. /\ Append(g[k], WholeInterval(s[k + 1])) \in Seq(I)
            /\ ToSet(Append(g[k], WholeInterval(s[k + 1]))) = ToSet(g[k]) \cup {WholeInterval(s[k + 1])}
        BY <1>1, <1>2, <1>5, <2>1
      <3> QED BY <2>1, <2>2, <3>1
    <2>3. CASE ~Kept(s[k + 1])
      BY <1>5, <2>1, <2>3
    <2> QED BY <2>2, <2>3
  <1>6. g[n] \in Seq(I) /\ \A x : x \in ToSet(g[n]) <=> \E k \in 1 .. n : x \in E[k]
    <2> HIDE DEF E
    <2>1. g[0] = <<>>
      BY <1>4 DEF Finds
    <2> QED BY <1>1, <1>5, <2>1, Collected
  <1>7. \A k \in 1 .. n : s[k] \in ToSet(s)
    BY <1>1 DEF ToSet
  <1>8. IntervalsOf(s) = g[n]
    BY <1>4 DEF Finds
  <1>9. ASSUME NEW i \in ToSet(g[n])
        PROVE  \E b \in ToSet(s) : Covers(b) /\ i = WholeInterval(b)
    <2>1. PICK k \in 1 .. n : i \in E[k]
      BY <1>6
    <2>2. Kept(s[k]) /\ i = WholeInterval(s[k])
      BY <2>1
    <2> QED BY <1>7, <2>2
  <1>10. ASSUME NEW b \in ToSet(s), Kept(b)
         PROVE  WholeInterval(b) \in ToSet(g[n])
    <2>1. PICK k \in 1 .. n : b = s[k]
      BY <1>1 DEF ToSet
    <2>2. WholeInterval(b) \in E[k]
      BY <1>10, <2>1
    <2> QED BY <1>6, <2>2
  <1> QED BY <1>6, <1>8, <1>9, <1>10

(* The states of the scan.                                                 *)
ScanStates == [current : Int \cup {Absent}, verdict : {"scanning", "gap", "covered"}]

(* What the scan has reached is in one of the intervals: all that lies     *)
(* below current, and everything once it says so.                          *)
Reached(a, I, s) ==
    \A x \in Int :
      /\ IsWhole(x) /\ Inside(a, x)
      /\ \/ s.verdict = "covered"
         \/ s.verdict = "scanning" /\ s.current # Absent /\ x < s.current
      => \E i \in I : Inside(i, x)

(* One interval more: between two whole numbers a unit apart there is no   *)
(* other, so touching intervals leave no gap.                              *)
LEMMA ScanStep ==
    ASSUME NEW a \in Atoms, NEW I, I \subseteq WholeIntervals, NEW i \in I,
           NEW s \in ScanStates, Reached(a, I, s)
    PROVE  Scan(a, s, i) \in ScanStates /\ Reached(a, I, Scan(a, s, i))
  <1> DEFINE low == i.lower.at
             high == i.upper.at
             n == Scan(a, s, i)
             at == s.current
             next == high + Unit
             current == IF at = Absent THEN next ELSE LargerOf(at, next)
  <1>1. /\ low \in Int \cup {Absent} /\ high \in Int \cup {Absent}
        /\ high # Absent => high \in Int /\ IsWhole(high)
    BY DEF WholeIntervals, WholeEnd
  <1>2. Unit \in Nat \ {0} /\ Absent \notin Int
    BY UnitAssumption, AbsentAssumption
  <1>3. at \in Int \cup {Absent} /\ s.verdict \in {"scanning", "gap", "covered"}
    BY DEF ScanStates
  <1>4. CASE s.verdict # "scanning"
    BY <1>4 DEF Scan
  <1>5. CASE s.verdict = "scanning" /\ low # Absent /\ (at = Absent \/ low > at)
    <2>1. n = [s EXCEPT !.verdict = "gap"]
      BY <1>5 DEF Scan
    <2>2. n.verdict = "gap" /\ n \in ScanStates
      BY <2>1 DEF ScanStates
    <2> HIDE DEF n
    <2>3. Reached(a, I, n)
      BY <2>2 DEF Reached
    <2> QED BY <2>2, <2>3 DEF n
  <1>6. CASE s.verdict = "scanning" /\ (low # Absent => at # Absent /\ ~(low > at))
    <2>1. \A x \in Int : IsWhole(x) /\ Inside(a, x) /\ at # Absent /\ x < at
                            => \E j \in I : Inside(j, x)
      BY <1>6 DEF Reached
    <2>2. CASE high = Absent
      <3>1. n = [s EXCEPT !.verdict = "covered"]
        BY <1>6, <2>2 DEF Scan
      <3>2. n.verdict = "covered" /\ n \in ScanStates
        BY <3>1 DEF ScanStates
      <3> HIDE DEF n, low, high, at
      <3>3. ASSUME NEW x \in Int, IsWhole(x), Inside(a, x)
            PROVE  \E j \in I : Inside(j, x)
        <4>1. CASE at # Absent /\ x < at
          BY <2>1, <3>3, <4>1
        <4>2. CASE ~(at # Absent /\ x < at)
          <5>1. low # Absent => x >= low
            BY <1>1, <1>3, <1>6, <4>2
          <5>2. Inside(i, x)
            BY <2>2, <5>1 DEF Inside, low, high
          <5> QED BY <5>2
        <4> QED BY <4>1, <4>2
      <3>4. Reached(a, I, n)
        BY <3>3 DEF Reached
      <3> QED BY <3>2, <3>4 DEF n
    <2>3. CASE high # Absent
      <3>1. n = [current |-> current,
                 verdict |-> IF Beyond(a, current) THEN "covered" ELSE "scanning"]
        BY <1>6, <2>3 DEF Scan
      <3>2. /\ current \in Int /\ current >= next /\ (at # Absent => current >= at)
            /\ current = at \/ current = next
        BY <1>1, <1>2, <1>3, <2>3 DEF LargerOf
      <3> HIDE DEF current
      <3>3. n.current = current /\ n \in ScanStates /\ (n.verdict = "covered" => Beyond(a, current))
            /\ n.verdict # "gap"
        BY <3>1, <3>2 DEF ScanStates
      <3> HIDE DEF n
      <3>4. ASSUME NEW x \in Int, IsWhole(x), Inside(a, x), x < current
            PROVE  \E j \in I : Inside(j, x)
        <4>1. CASE at # Absent /\ x < at
          BY <2>1, <3>4, <4>1
        <4>2. CASE ~(at # Absent /\ x < at)
          <5>1. low # Absent => x >= low
            BY <1>1, <1>3, <1>6, <4>2
          <5>2. x < next
            BY <1>2, <1>3, <3>2, <3>4, <4>2
          <5>3. x <= high
            <6>1. high < x => next <= x
              BY <1>1, <2>3, <3>4, WholeApart
            <6> QED BY <1>1, <1>2, <2>3, <5>2, <6>1
          <5>4. Inside(i, x)
            BY <5>1, <5>3 DEF Inside
          <5> QED BY <5>4
        <4> QED BY <4>1, <4>2
      <3>5. ASSUME NEW x \in Int, Inside(a, x), Beyond(a, current)
            PROVE  x < current
        <4>1. a.upper.at \in Int \cup {Absent}
          BY DEF Atoms, AtomEnds
        <4> QED BY <1>2, <3>2, <3>5, <4>1 DEF Inside, Beyond
      <3>6. Reached(a, I, n)
        BY <3>3, <3>4, <3>5 DEF Reached
      <3> QED BY <3>3, <3>6 DEF n
    <2> QED BY <2>2, <2>3
  <1> QED BY <1>4, <1>5, <1>6

(* g scans the intervals one after the other. *)
Scans(g, a, s) ==
    /\ g[0] = [current |-> a.lower.at, verdict |-> "scanning"] /\ ScanEnd(a, s) = g[Len(s)]
    /\ \A k \in 0 .. Len(s) - 1 : g[k + 1] = Scan(a, g[k], s[k + 1])

(* The scan goes through the sorted intervals from the first.              *)
LEMMA ScanSteps ==
    ASSUME NEW B, NEW C, NEW a, NEW s \in Seq(B), [current |-> a.lower.at, verdict |-> "scanning"] \in C,
           \A c \in C, b \in B : Scan(a, c, b) \in C
    PROVE  \E g : Scans(g, a, s)
  <1> DEFINE n == Len(s)
             D == SUBSET (1 .. n)
             base == [current |-> a.lower.at, verdict |-> "scanning"]
             Step(c, b) == Scan(a, c, b)
             IsIt(k) == k = [S \in D |-> IF S = {} THEN base
                                         ELSE Step(k[S \ {Max(S)}], s[Max(S)])]
             c == CHOOSE k : IsIt(k)
             H == [p \in C \X B |-> Step(p[1], p[2])]
  <1>1. n \in Nat /\ DOMAIN s = 1 .. n /\ \A k \in 1 .. n : s[k] \in B
    BY LenProperties, ElementOfSeq
  <1>2. ScanEnd(a, s) = c[1 .. n]
    BY <1>1 DEF ScanEnd, FoldLeft, MapThenFoldSet
  <1>3. base \in C /\ \A e \in C, b \in B : Step(e, b) \in C
    OBVIOUS
  <1> HIDE DEF base, Step
  <1>4. H \in [C \X B -> C]
    BY <1>3
  <1>5. PICK f \in [D -> C] : FoldsOver(n, f, base, H, s, C)
    <2> HIDE DEF H, n
    <2> QED BY <1>1, <1>3, <1>4, FoldBy
  <1>6. IsIt(c)
    <2>1. IsIt(f)
      BY <1>1, <1>5 DEF FoldsOver
    <2> HIDE DEF IsIt
    <2> QED BY <2>1
  <1> HIDE DEF c
  <1> DEFINE g == [k \in 0 .. n |-> c[1 .. k]]
  <1>7. g[0] = base
    <2>1. 1 .. 0 = {} /\ {} \in D /\ 0 \in 0 .. n
      BY <1>1
    <2> QED BY <1>6, <2>1
  <1>8. ASSUME NEW k \in 0 .. n - 1
        PROVE  g[k + 1] = Step(g[k], s[k + 1])
    <2>1. /\ 1 .. k + 1 \in D /\ 1 .. k + 1 # {} /\ Max(1 .. k + 1) = k + 1
          /\ (1 .. k + 1) \ {k + 1} = 1 .. k
      BY <1>1, UpToHere
    <2>2. c[1 .. k + 1] = Step(c[1 .. k], s[k + 1])
      BY <1>6, <2>1
    <2>3. g[k + 1] = c[1 .. k + 1] /\ g[k] = c[1 .. k]
      BY <1>1
    <2> QED BY <2>2, <2>3
  <1>9. ScanEnd(a, s) = g[n]
    BY <1>1, <1>2
  <1> HIDE DEF g
  <1>10. Scans(g, a, s)
    BY <1>7, <1>8, <1>9 DEF base, Step, Scans
  <1> QED BY <1>10

(* Whatever their order, intervals that the scan says cover an atom leave  *)
(* none of its whole numbers out.                                          *)
LEMMA IntervalsCoverIsSound ==
    ASSUME NEW a \in Atoms, NEW s \in Seq(WholeIntervals), IntervalsCover(a, s),
           NEW x \in Int, IsWhole(x), Inside(a, x)
    PROVE  \E i \in ToSet(s) : Inside(i, x)
  <1> DEFINE t == Sorted(s)
             n == Len(t)
             I == {i \in WholeIntervals : i \in ToSet(t)}
             begin == [current |-> a.lower.at, verdict |-> "scanning"]
             C == {c \in ScanStates : Reached(a, I, c)}
  <1>1. t \in Seq(WholeIntervals) /\ ToSet(t) = ToSet(s)
    BY SortedHolds
  <1> HIDE DEF t
  <1>2. n \in Nat /\ DOMAIN t = 1 .. n /\ \A k \in 1 .. n : t[k] \in I
    <2>1. n \in Nat /\ DOMAIN t = 1 .. n /\ \A k \in 1 .. n : t[k] \in WholeIntervals
      BY <1>1, LenProperties, ElementOfSeq
    <2> QED BY <2>1 DEF ToSet
  <1>3. t \in Seq(I)
    <2>1. t \in [1 .. n -> I]
      BY <1>1, <1>2
    <2> HIDE DEF I
    <2> QED BY <1>2, <2>1, IsASeq
  <1>4. begin \in C
    <2>1. a.lower.at \in Int \cup {Absent} /\ Absent \notin Int
      BY AbsentAssumption DEF Atoms, AtomEnds
    <2>2. begin \in ScanStates /\ begin.verdict = "scanning" /\ begin.current = a.lower.at
      BY <2>1 DEF ScanStates
    <2> HIDE DEF begin
    <2>3. \A y \in Int : Inside(a, y) => ~(begin.current # Absent /\ y < begin.current)
      BY <2>1, <2>2 DEF Inside
    <2>4. Reached(a, I, begin)
      BY <2>2, <2>3 DEF Reached
    <2> QED BY <2>2, <2>4
  <1>5. \A c \in C, i \in I : Scan(a, c, i) \in C
    <2>1. ASSUME NEW c \in ScanStates, Reached(a, I, c), NEW i \in I
          PROVE  Scan(a, c, i) \in ScanStates /\ Reached(a, I, Scan(a, c, i))
      <3>1. I \subseteq WholeIntervals
        OBVIOUS
      <3> HIDE DEF I
      <3> QED BY <2>1, <3>1, ScanStep
    <2> QED BY <2>1
  <1> HIDE DEF I, C, begin
  <1>6. PICK g : Scans(g, a, t)
    <2>1. [current |-> a.lower.at, verdict |-> "scanning"] \in C
      BY <1>4 DEF begin
    <2> QED BY <1>3, <1>5, <2>1, ScanSteps
  <1>7. \A k \in 0 .. n : g[k] \in C
    <2> DEFINE K == {k \in 0 .. n : g[k] \in C}
    <2>1. 0 \in K
      BY <1>2, <1>4, <1>6 DEF Scans, begin
    <2>2. ASSUME NEW k \in 0 .. n - 1, k \in K PROVE k + 1 \in K
      <3>1. k + 1 \in 0 .. n /\ k + 1 \in 1 .. n
        BY <1>2
      <3>2. g[k + 1] = Scan(a, g[k], t[k + 1])
        BY <1>6 DEF Scans
      <3> QED BY <1>2, <1>5, <2>2, <3>1, <3>2
    <2>3. \A k \in 0 .. n : k \in K
      <3> HIDE DEF K, n
      <3> QED BY <1>2, <2>1, <2>2, HoldsUpTo
    <2> QED BY <2>3
  <1> DEFINE e == ScanEnd(a, t)
  <1>8. e \in ScanStates /\ Reached(a, I, e)
    <2>1. e = g[n] /\ n \in 0 .. n
      BY <1>2, <1>6 DEF Scans
    <2> QED BY <1>7, <2>1 DEF C
  <1>9. e.verdict = "covered" \/ (e.verdict = "scanning" /\ Beyond(a, e.current))
    BY DEF IntervalsCover, t
  <1> HIDE DEF e
  <1>10. Beyond(a, e.current) => e.current # Absent /\ x < e.current
    <2>1. a.upper.at \in Int \cup {Absent} /\ e.current \in Int \cup {Absent}
      BY <1>8 DEF Atoms, AtomEnds, ScanStates
    <2> QED BY <2>1, AbsentAssumption DEF Beyond, Inside
  <1>11. \E i \in I : Inside(i, x)
    BY <1>8, <1>9, <1>10 DEF Reached
  <1> QED BY <1>1, <1>11 DEF I

(* An atom the code takes for covered has no number outside the other      *)
(* constraint: it lies within one of its atoms, all of its values are      *)
(* there, or the intervals of the others leave no gap.                     *)
THEOREM CoveredIsSound ==
    ASSUME NEW l, RegularAtom(l), NEW T, \A b \in T : RegularAtom(b),
           NEW c, c.atoms \in Seq(T), Covered(l, c) = "yes",
           NEW x \in Int, InAtom(l, x)
    PROVE  InConstraint(c, x)
  <1> DEFINE a == Normalized(l)
             others == NormalizedAtoms(c)
             finite == FiniteValues(a)
  <1>1. /\ l \in Atoms /\ a \in Atoms /\ InAtom(a, x) /\ InRaw(a, x)
        /\ a.integer = l.integer /\ a.multiple = l.multiple
    BY RoundedTwice DEF RegularAtom
  <1>2. /\ others \in Seq(T)
        /\ \A b \in ToSet(others) : b \in T /\ ~IsEmptyAtom(b)
        /\ InConstraint(c, x) <=> \E b \in ToSet(others) : InAtom(b, x)
    <2>1. /\ others \in Seq(T)
          /\ \A b \in ToSet(others) : b \in T /\ ~IsEmptyAtom(b)
          /\ \A y : InConstraint(c, y) <=> \E b \in ToSet(others) : InAtom(b, y)
      BY NormalizedHolds
    <2> QED BY <2>1
  <1>3. ~IsEmptyAtom(a)
    <2>1. RegularAtom(a)
      BY <1>1 DEF RegularAtom
    <2> HIDE DEF a
    <2> QED BY <1>1, <2>1, EmptinessIsSound
  <1>4. \/ \E k \in DOMAIN others : AtomWithin(a, others[k])
        \/ finite.known /\ \A y \in finite.values : InConstraint(c, y)
        \/ CoveredByIntervals(a, others) = "yes"
    BY <1>3 DEF Covered
  <1>5. CASE \E k \in DOMAIN others : AtomWithin(a, others[k])
    <2>1. PICK k \in DOMAIN others : AtomWithin(a, others[k])
      BY <1>5
    <2>2. others[k] \in ToSet(others)
      BY DEF ToSet
    <2>3. others[k] \in Atoms
      BY <1>2, <2>2 DEF RegularAtom
    <2>4. ~IsEmptyAtom(Normalized(a))
      <3>1. Normalized(a) \in Atoms /\ InAtom(Normalized(a), x)
            /\ RegularAtom(Normalized(a))
        <4> HIDE DEF a
        <4>1. /\ Normalized(a) \in Atoms /\ InAtom(Normalized(a), x)
              /\ Normalized(a).integer = a.integer /\ Normalized(a).multiple = a.multiple
          BY <1>1, RoundedTwice
        <4> QED BY <1>1, <4>1 DEF RegularAtom
      <3> HIDE DEF a
      <3> QED BY <3>1, EmptinessIsSound
    <2> HIDE DEF a, others
    <2>5. InAtom(others[k], x)
      BY <1>1, <2>1, <2>3, <2>4, InclusionOfAtomsIsSound
    <2> QED BY <1>2, <2>2, <2>5
  <1>6. CASE finite.known /\ \A y \in finite.values : InConstraint(c, y)
    <2> HIDE DEF a, others
    <2>1. ~(Absent \in {a.lower.at, a.upper.at} \/ (~a.integer /\ a.multiple = Absent))
      BY <1>6 DEF FiniteValues
    <2>2. a.lower.at \in Int /\ a.upper.at \in Int /\ x \in a.lower.at .. a.upper.at
      <3>1. a.lower.at \in Int \cup {Absent} /\ a.upper.at \in Int \cup {Absent}
        BY <1>1 DEF Atoms, AtomEnds
      <3> QED BY <1>1, <2>1, <3>1 DEF InRaw
    <2>3. x \in finite.values
      <3>1. /\ a.integer => IsWhole(x)
            /\ ~a.integer => IsMultiple(x, a.multiple)
        BY <1>1, <2>1 DEF InRaw
      <3>2. finite.values = {y \in (IF a.integer THEN {z \in a.lower.at .. a.upper.at : IsWhole(z)}
                                    ELSE {z \in a.lower.at .. a.upper.at : IsMultiple(z, a.multiple)}) :
                               InAtom(a, y)}
        BY <2>1 DEF FiniteValues
      <3> HIDE DEF finite
      <3> QED BY <1>1, <2>2, <3>1, <3>2
    <2> QED BY <1>6, <2>3
  <1>7. CASE CoveredByIntervals(a, others) = "yes"
    <2> DEFINE intervals == IntervalsOf(others)
    <2> HIDE DEF a, others
    <2>1. a.integer /\ IntervalsCover(a, intervals)
      BY <1>7 DEF CoveredByIntervals
    <2>2. \A b \in T : WholeInterval(b) \in WholeIntervals
      BY WholeIntervalFacts DEF RegularAtom
    <2>3. /\ intervals \in Seq(WholeIntervals)
          /\ \A i \in ToSet(intervals) : \E b \in ToSet(others) : Covers(b) /\ i = WholeInterval(b)
      BY <1>2, <2>2, IntervalsHold
    <2>4. IsWhole(x) /\ Inside(a, x)
      <3>1. a.lower.at \in Int \cup {Absent} /\ a.upper.at \in Int \cup {Absent}
        BY <1>1 DEF Atoms, AtomEnds
      <3> QED BY <1>1, <2>1, <3>1 DEF InRaw, Inside
    <2> HIDE DEF intervals
    <2>5. PICK i \in ToSet(intervals) : Inside(i, x)
      BY <1>1, <2>1, <2>3, <2>4, IntervalsCoverIsSound
    <2>6. PICK b \in ToSet(others) : Covers(b) /\ i = WholeInterval(b)
      BY <2>3
    <2>7. InAtom(b, x)
      BY <1>2, <2>4, <2>5, <2>6, WholeIntervalFacts DEF RegularAtom
    <2> QED BY <1>2, <2>7
  <1> QED BY <1>4, <1>5, <1>6, <1>7

-----------------------------------------------------------------------------
(* The decision.                                                           *)

(* Once compiled, both sides stay what their schemas compile to.           *)
Compiled ==
    /\ query \in Queries
    /\ phase # "compile" => lhs = ConstraintOf(query.lhs) /\ rhs = ConstraintOf(query.rhs)

(* No step after the first changes what is asked or the two sides.         *)
LEMMA CompiledStays == Spec => []Compiled
  <1>1. Init => Compiled
    BY DEF Init, Compiled
  <1>2. Compiled /\ [Next]_vars => Compiled'
    <2> SUFFICES ASSUME Compiled, [Next]_vars PROVE Compiled'
      OBVIOUS
    <2>1. CASE Compile
      BY <2>1 DEF Compile, Compiled
    <2>2. CASE UNCHANGED <<query, lhs, rhs>> /\ phase # "compile"
      BY <2>2 DEF Compiled
    <2>3. CASE UNCHANGED vars
      BY <2>3 DEF Compiled, vars
    <2>4. ASSUME NEW r, Finish(r) PROVE UNCHANGED <<query, lhs, rhs>>
      BY <2>4 DEF Finish
    <2>5. ASSUME NEW w, Counterexample(w) PROVE UNCHANGED <<query, lhs, rhs>>
      BY <2>4, <2>5 DEF Counterexample
    <2>6. CASE PlanDifference
      BY <2>2, <2>4, <2>5, <2>6 DEF PlanDifference
    <2>7. CASE CoverAtom
      BY <2>2, <2>7 DEF CoverAtom, GoTo
    <2>8. CASE AllCovered
      BY <2>2, <2>4, <2>8 DEF AllCovered
    <2>9. CASE TryWitness
      BY <2>2, <2>5, <2>9 DEF TryWitness, GoTo
    <2>10. CASE AskSolver
      BY <2>2, <2>4, <2>5, <2>10 DEF AskSolver
    <2>11. CASE DecideDisjoint
      BY <2>2, <2>4, <2>11 DEF DecideDisjoint
    <2>12. CASE DecideEmpty
      BY <2>2, <2>4, <2>12 DEF DecideEmpty
    <2> QED BY <2>1, <2>3, <2>6, <2>7, <2>8, <2>9, <2>10, <2>11, <2>12 DEF Next
  <1> QED BY <1>1, <1>2, PTL DEF Spec

(* The sides of a query are schemas whose conjunctions fit.                *)
LEMMA SidesFit ==
    ASSUME NEW q \in Queries
    PROVE  /\ q.lhs \in Schemas /\ \A branches \in Conjunctions(q.lhs) : Fits(branches)
           /\ q.rhs \in Schemas /\ \A branches \in Conjunctions(q.rhs) : Fits(branches)
  <1>1. q.lhs \in Schemas /\ q.rhs \in Schemas
    BY QueriesAssumption
  <1> QED BY <1>1, QueriesAssumption

(* The atoms a schema is compiled to hold exactly the numbers its keywords *)
(* accept: for every number, however the keywords are combined.            *)
THEOREM KeywordsKept == Spec => []ConstraintsMeanTheirKeywords
  <1>1. Compiled => ConstraintsMeanTheirKeywords
    <2> SUFFICES ASSUME Compiled, phase = "plan"
                 PROVE  /\ \A x \in Int : InConstraint(lhs, x) <=> AcceptsNumber(query.lhs, x)
                        /\ \A x \in Int : InConstraint(rhs, x) <=> AcceptsNumber(query.rhs, x)
      BY UnitAssumption DEF ConstraintsMeanTheirKeywords
    <2>1. /\ lhs = ConstraintOf(query.lhs) /\ rhs = ConstraintOf(query.rhs)
          /\ query \in Queries
      BY DEF Compiled
    <2> QED BY <2>1, SidesFit, ConstraintMeansKeywords
  <1> QED BY <1>1, CompiledStays, PTL

(* What the number algebra needs of a disjointness question: the keywords  *)
(* of both sides, taken together, are ones whose emptiness it can decide.  *)
DisjointFit ==
    \A q \in Queries : q.kind = "disjoint" =>
        \A p \in Conjunctions(q.lhs), r \in Conjunctions(q.rhs) : Fits(p \cup r)

(* What a result says is so.                                               *)
Verdict(q, r) ==
    /\ r.status = "proved_true" =>
         \A v \in Numbers \cup {NonNumber} :
           ~(/\ Accepts(q.lhs, v)
             /\ q.kind = "subset" => ~Accepts(q.rhs, v)
             /\ q.kind = "disjoint" => Accepts(q.rhs, v))
    /\ r.status = "proved_false" =>
         /\ Accepts(q.lhs, r.witness)
         /\ (Accepts(q.rhs, r.witness) <=> q.kind = "disjoint")

(* The property of the runs is that verdict about the current result.      *)
LEMMA VerdictMeans == NumberProofsAreSound <=> Verdict(query, result)
  BY DEF NumberProofsAreSound, Verdict, Counterexamples

(* The numbers of lhs that are not in rhs.                                 *)
LeftOut(x) == InConstraint(lhs, x) /\ ~InConstraint(rhs, x)

(* Inclusion is decided atom by atom: what is left out is in an atom still *)
(* to be covered.                                                          *)
Deciding ==
    /\ Compiled
    /\ Verdict(query, result)
    /\ phase \in {"atoms", "witness", "solver"} =>
         query.kind = "subset" /\ (lhs.others => rhs.others)
    /\ phase = "atoms" =>
         /\ todo \in Seq(AtomsOf(query.lhs))
         /\ \A x \in Int : LeftOut(x) => \E a \in ToSet(todo) : InAtom(a, x)

(* The compiled sides, as constraints and as sets of numbers.              *)
LEMMA SidesMean ==
    ASSUME Compiled, phase # "compile"
    PROVE  /\ lhs \in ConstraintsOf(AtomsOf(query.lhs)) /\ rhs \in ConstraintsOf(AtomsOf(query.rhs))
           /\ \A a \in AtomsOf(query.lhs) : a \in Atoms /\ RegularAtom(a)
           /\ \A a \in AtomsOf(query.rhs) : a \in Atoms /\ RegularAtom(a)
           /\ \A x \in Int : InConstraint(lhs, x) <=> Accepts(query.lhs, x)
           /\ \A x \in Int : InConstraint(rhs, x) <=> Accepts(query.rhs, x)
           /\ (lhs.others <=> Accepts(query.lhs, NonNumber))
           /\ (rhs.others <=> Accepts(query.rhs, NonNumber))
           /\ \A v \in Numbers \cup {NonNumber} : v \in Int \/ v = NonNumber
  <1>1. /\ lhs = ConstraintOf(query.lhs) /\ rhs = ConstraintOf(query.rhs)
        /\ query \in Queries
    BY DEF Compiled
  <1>2. \A s : /\ \A x \in Int : Accepts(s, x) <=> AcceptsNumber(s, x)
               /\ Accepts(s, NonNumber) <=> AcceptsOthers(s)
    BY AbsentAssumption DEF Accepts
  <1>3. /\ lhs \in ConstraintsOf(AtomsOf(query.lhs))
        /\ \A a \in AtomsOf(query.lhs) : a \in Atoms /\ RegularAtom(a)
        /\ (lhs.others <=> AcceptsOthers(query.lhs))
        /\ \A x \in Int : InConstraint(lhs, x) <=> AcceptsNumber(query.lhs, x)
    BY <1>1, SidesFit, ConstraintMeansKeywords
  <1>4. /\ rhs \in ConstraintsOf(AtomsOf(query.rhs))
        /\ \A a \in AtomsOf(query.rhs) : a \in Atoms /\ RegularAtom(a)
        /\ (rhs.others <=> AcceptsOthers(query.rhs))
        /\ \A x \in Int : InConstraint(rhs, x) <=> AcceptsNumber(query.rhs, x)
    BY <1>1, SidesFit, ConstraintMeansKeywords
  <1>5. \A v \in Numbers \cup {NonNumber} : v \in Int \/ v = NonNumber
    BY UnitAssumption
  <1> QED BY <1>2, <1>3, <1>4, <1>5

(* With no number and no other value left out, an inclusion holds.         *)
LEMMA NothingLeftOut ==
    ASSUME Compiled, phase # "compile", query.kind = "subset", lhs.others => rhs.others,
           \A x \in Numbers : ~LeftOut(x)
    PROVE  \A w : Verdict(query, Result("proved_true", w))
  <1>1. ASSUME NEW v \in Numbers \cup {NonNumber}, Accepts(query.lhs, v)
        PROVE  Accepts(query.rhs, v)
    <2>1. CASE v = NonNumber
      BY <1>1, <2>1, SidesMean
    <2>2. CASE v # NonNumber
      <3>1. v \in Numbers /\ v \in Int
        BY <2>2, SidesMean
      <3> QED BY <1>1, <3>1, SidesMean DEF LeftOut
    <2> QED BY <2>1, <2>2
  <1> QED BY <1>1 DEF Verdict, Result

(* A counterexample is checked against both schemas.                       *)
LEMMA CheckedWitness ==
    ASSUME query.kind = "subset", NEW w, Counterexample(w)
    PROVE  \E r : Finish(r) /\ Verdict(query, r)
  BY DEF Counterexample, Verdict, Result

(* Finishing with a verdict that is so keeps the invariant.                *)
LEMMA FinishKeeps ==
    ASSUME Deciding, phase # "compile", NEW r, Finish(r), Verdict(query, r)
    PROVE  Deciding'
  BY DEF Deciding, Compiled, Finish

(* Planning an inclusion: values that are not numbers are settled there,   *)
(* and every atom of lhs is still to be covered.                           *)
LEMMA PlanKeeps ==
    ASSUME Deciding, PlanDifference
    PROVE  Deciding'
  <1>1. phase = "plan" /\ query.kind = "subset" /\ Compiled
    BY DEF PlanDifference, Deciding
  <1>2. CASE lhs.others /\ ~rhs.others
    BY <1>1, <1>2, CheckedWitness, FinishKeeps DEF PlanDifference
  <1>3. CASE ~(lhs.others /\ ~rhs.others) /\ NormalizedAtoms(rhs) = <<>> /\ rhs.others
    <2>1. Verdict(query, Result("unsupported", NonNumber))
      BY DEF Verdict, Result
    <2> QED BY <1>1, <1>3, <2>1, FinishKeeps DEF PlanDifference
  <1>4. CASE ~(lhs.others /\ ~rhs.others) /\ ~(NormalizedAtoms(rhs) = <<>> /\ rhs.others)
    <2>1. /\ todo' = NormalizedAtoms(lhs) /\ phase' = "atoms"
          /\ UNCHANGED <<query, lhs, rhs, result>>
      BY <1>4 DEF PlanDifference
    <2> DEFINE T == AtomsOf(query.lhs)
    <2>2. lhs.atoms \in Seq(T)
      BY <1>1, SidesMean, ConstraintFields
    <2> HIDE DEF T
    <2>3. /\ NormalizedAtoms(lhs) \in Seq(T)
          /\ \A x : InConstraint(lhs, x) <=> \E a \in ToSet(NormalizedAtoms(lhs)) : InAtom(a, x)
      BY <2>2, NormalizedHolds
    <2>4. Compiled'
      BY <1>1, <2>1 DEF Compiled
    <2>5. Verdict(query, result)' /\ (lhs.others => rhs.others)'
      BY <1>4, <2>1 DEF Deciding
    <2>6. \A x \in Int : LeftOut(x)' => \E a \in ToSet(todo') : InAtom(a, x)
      BY <2>1, <2>3 DEF LeftOut
    <2> QED BY <1>1, <2>1, <2>3, <2>4, <2>5, <2>6 DEF Deciding, T
  <1> QED BY <1>2, <1>3, <1>4

(* Dropping an atom that is covered leaves out none of its numbers.        *)
LEMMA CoverKeeps ==
    ASSUME Deciding, CoverAtom
    PROVE  Deciding'
  <1>1. /\ phase = "atoms" /\ todo # <<>> /\ Compiled /\ query.kind = "subset"
        /\ todo \in Seq(AtomsOf(query.lhs))
    BY DEF CoverAtom, Deciding
  <1>2. CASE Covered(Head(todo), rhs) = "yes"
    <2>1. todo' = Tail(todo) /\ UNCHANGED <<query, phase, lhs, rhs, result>>
      BY <1>2 DEF CoverAtom
    <2> DEFINE T == AtomsOf(query.lhs)
               S == AtomsOf(query.rhs)
    <2>2. /\ Head(todo) \in T /\ Tail(todo) \in Seq(T)
          /\ ToSet(todo) = {Head(todo)} \cup ToSet(Tail(todo))
      <3> HIDE DEF T
      <3> QED BY <1>1, HeadAndTail DEF T
    <2>3. /\ rhs.atoms \in Seq(S) /\ RegularAtom(Head(todo)) /\ \A b \in S : RegularAtom(b)
      BY <1>1, <2>2, SidesMean, ConstraintFields
    <2> HIDE DEF S, T
    <2>4. ASSUME NEW x \in Int, LeftOut(x)
          PROVE  \E a \in ToSet(Tail(todo)) : InAtom(a, x)
      <3>1. ~InAtom(Head(todo), x)
        BY <1>2, <2>3, <2>4, CoveredIsSound DEF LeftOut
      <3>2. \E a \in ToSet(todo) : InAtom(a, x)
        BY <1>1, <2>4 DEF Deciding
      <3> QED BY <2>2, <3>1, <3>2
    <2>5. Compiled'
      BY <1>1, <2>1 DEF Compiled
    <2>6. Verdict(query, result)' /\ (lhs.others => rhs.others)'
      BY <1>1, <2>1 DEF Deciding
    <2>7. \A x \in Int : LeftOut(x)' => \E a \in ToSet(todo') : InAtom(a, x)
      BY <2>1, <2>4 DEF LeftOut
    <2> QED BY <1>1, <2>1, <2>2, <2>5, <2>6, <2>7 DEF Deciding, T
  <1>3. CASE Covered(Head(todo), rhs) # "yes"
    <2>1. phase' \in {"witness", "solver"} /\ UNCHANGED <<query, lhs, rhs, todo, result>>
      BY <1>3 DEF CoverAtom, GoTo
    <2> QED BY <1>1, <2>1 DEF Deciding, Compiled
  <1> QED BY <1>2, <1>3

(* Disjointness: the intersection of the two sides has no atom that is not *)
(* empty only if they share no number.                                     *)
LEMMA DisjointKeeps ==
    ASSUME DisjointFit, Deciding, DecideDisjoint
    PROVE  Deciding'
  <1> DEFINE both == Intersect(lhs, rhs)
             P == AtomsOf(query.lhs)
             Q == AtomsOf(query.rhs)
             With(p) == UNION {Among(p \cup r) : r \in Conjunctions(query.rhs)}
             R == UNION {With(p) : p \in Conjunctions(query.lhs)}
  <1>1. phase = "plan" /\ query.kind = "disjoint" /\ Compiled /\ query \in Queries
    BY DEF DecideDisjoint, Deciding, Compiled
  <1>2. /\ lhs.atoms \in Seq(P) /\ rhs.atoms \in Seq(Q)
        /\ P \subseteq Atoms /\ Q \subseteq Atoms
    BY <1>1, SidesMean, ConstraintFields
  <1>3. \A a \in R : RegularAtom(a)
    <2>1. ASSUME NEW a \in R PROVE RegularAtom(a)
      <3>1. PICK p \in Conjunctions(query.lhs), r \in Conjunctions(query.rhs) :
               a \in Among(p \cup r)
        OBVIOUS
      <3>2. Fits(p \cup r)
        BY <1>1, <3>1 DEF DisjointFit
      <3> QED BY <3>1, <3>2, AmongFits
    <2> QED BY <2>1
  <1>4. \A a \in P, b \in Q : IntersectAtoms(a, b) \in R
    <2>1. ASSUME NEW a \in P, NEW b \in Q PROVE IntersectAtoms(a, b) \in R
      <3>1. PICK p \in Conjunctions(query.lhs) : a \in Among(p)
        BY DEF AtomsOf
      <3>2. PICK r \in Conjunctions(query.rhs) : b \in Among(r)
        BY DEF AtomsOf
      <3> DEFINE S == p \cup r
      <3>3. p \subseteq S /\ r \subseteq S
        OBVIOUS
      <3>6. Among(S) \subseteq With(p)
        OBVIOUS
      <3>7. With(p) \subseteq R
        <4> HIDE DEF With
        <4> QED OBVIOUS
      <3> HIDE DEF S, P, Q, R, With
      <3>4. a \in Among(S) /\ b \in Among(S)
        BY <3>1, <3>2, <3>3, AmongGrows
      <3>5. IntersectAtoms(a, b) \in Among(S)
        BY <3>4, AmongIntersected
      <3> QED BY <3>5, <3>6, <3>7
    <2> QED BY <2>1
  <1> HIDE DEF P, Q, R
  <1>5. /\ both \in ConstraintsOf(R)
        /\ (both.others <=> lhs.others /\ rhs.others)
        /\ \A x \in Int : InConstraint(both, x) <=> InConstraint(lhs, x) /\ InConstraint(rhs, x)
    BY <1>2, <1>3, <1>4, IntersectHolds
  <1> HIDE DEF both
  <1>6. \A x : InConstraint(both, x) <=> \E a \in ToSet(NormalizedAtoms(both)) : InAtom(a, x)
    BY <1>5, NormalizedHolds, ConstraintFields
  <1>7. CASE both.others
    <2>1. Verdict(query, Result("unsupported", NonNumber))
      BY DEF Verdict, Result
    <2> QED BY <1>1, <1>7, <2>1, FinishKeeps DEF DecideDisjoint, both
  <1>8. CASE ~both.others /\ NormalizedAtoms(both) = <<>>
    <2>1. \A x \in Int : ~(InConstraint(lhs, x) /\ InConstraint(rhs, x))
      BY <1>5, <1>6, <1>8 DEF ToSet
    <2>2. Verdict(query, Result("proved_true", NonNumber))
      <3>1. ASSUME NEW v \in Numbers \cup {NonNumber}
            PROVE  ~(Accepts(query.lhs, v) /\ Accepts(query.rhs, v))
        <4>1. CASE v = NonNumber
          BY <1>1, <1>5, <1>8, <4>1, SidesMean
        <4>2. CASE v # NonNumber
          BY <1>1, <2>1, <4>2, SidesMean
        <4> QED BY <4>1, <4>2
      <3> QED BY <1>1, <3>1 DEF Verdict, Result
    <2>3. Finish(Result("proved_true", NonNumber))
      BY <1>8 DEF DecideDisjoint, both
    <2> QED BY <1>1, <2>2, <2>3, FinishKeeps
  <1>9. CASE ~both.others /\ NormalizedAtoms(both) # <<>>
    <2> DEFINE w == FirstWitness(both, Nothing)
    <2>1. \/ /\ Accepts(query.lhs, w) /\ Accepts(query.rhs, w)
             /\ Finish(Result("proved_false", w))
          \/ Finish(Result("unsupported", NonNumber))
      BY <1>9 DEF DecideDisjoint, both
    <2> HIDE DEF w
    <2>2. \E r : Finish(r) /\ Verdict(query, r)
      BY <1>1, <2>1 DEF Verdict, Result
    <2> QED BY <1>1, <2>2, FinishKeeps
  <1> QED BY <1>7, <1>8, <1>9

(* A schema whose constraint has no atom and no other value accepts        *)
(* nothing.                                                                *)
LEMMA EmptyKeeps ==
    ASSUME Deciding, DecideEmpty
    PROVE  Deciding'
  <1>1. phase = "plan" /\ query.kind = "empty" /\ Compiled
    BY DEF DecideEmpty, Deciding
  <1> DEFINE r == Result(IF NormalizedAtoms(lhs) = <<>> /\ ~lhs.others
                         THEN "proved_true" ELSE "unsupported", NonNumber)
  <1>2. Finish(r)
    BY DEF DecideEmpty
  <1>3. Verdict(query, r)
    <2>1. CASE NormalizedAtoms(lhs) = <<>> /\ ~lhs.others
      <3>1. \A x : InConstraint(lhs, x) <=> \E a \in ToSet(NormalizedAtoms(lhs)) : InAtom(a, x)
        BY <1>1, SidesMean, NormalizedHolds, ConstraintFields
      <3>2. \A x \in Int : ~InConstraint(lhs, x)
        BY <2>1, <3>1 DEF ToSet
      <3>3. \A v \in Numbers \cup {NonNumber} : ~Accepts(query.lhs, v)
        BY <1>1, <2>1, <3>2, SidesMean
      <3> QED BY <2>1, <3>3 DEF Verdict, Result
    <2>2. CASE ~(NormalizedAtoms(lhs) = <<>> /\ ~lhs.others)
      BY <2>2 DEF Verdict, Result
    <2> QED BY <2>1, <2>2
  <1> HIDE DEF r
  <1> QED BY <1>1, <1>2, <1>3, FinishKeeps

(* A proof about numbers leaves none out, and a refutation shows one: for  *)
(* every query, unit and set of numbers, whatever the solver answers.      *)
THEOREM NumberProofsSound ==
    ASSUME DisjointFit
    PROVE  Spec => []NumberProofsAreSound
  <1>1. Init => Deciding
    BY DEF Init, Deciding, Compiled, Verdict, NoResult, Result
  <1>2. Deciding /\ [Next]_vars => Deciding'
    <2> SUFFICES ASSUME Deciding, [Next]_vars PROVE Deciding'
      OBVIOUS
    <2>1. Compiled
      BY DEF Deciding
    <2>2. CASE Compile
      BY <2>2 DEF Compile, Deciding, Compiled
    <2>3. CASE PlanDifference
      BY <2>3, PlanKeeps
    <2>4. CASE CoverAtom
      BY <2>4, CoverKeeps
    <2>5. CASE AllCovered
      <3>1. /\ phase = "atoms" /\ query.kind = "subset" /\ (lhs.others => rhs.others)
            /\ \A x \in Int : ~LeftOut(x)
        BY <2>5 DEF AllCovered, Deciding, ToSet
      <3>2. Verdict(query, Result("proved_true", NonNumber))
        BY <2>1, <3>1, NothingLeftOut, UnitAssumption
      <3> QED BY <2>5, <3>1, <3>2, FinishKeeps DEF AllCovered
    <2>6. CASE TryWitness
      <3>1. phase = "witness" /\ query.kind = "subset"
        BY <2>6 DEF TryWitness, Deciding
      <3>2. CASE FirstWitness(lhs, rhs) = Absent
        <4>1. phase' = "solver" /\ UNCHANGED <<query, lhs, rhs, todo, result>>
          BY <2>6, <3>2 DEF TryWitness, GoTo
        <4> QED BY <3>1, <4>1 DEF Deciding, Compiled
      <3>3. CASE FirstWitness(lhs, rhs) # Absent
        <4>1. Counterexample(FirstWitness(lhs, rhs))
          BY <2>6, <3>3 DEF TryWitness
        <4> QED BY <3>1, <4>1, CheckedWitness, FinishKeeps
      <3> QED BY <3>2, <3>3
    <2>7. CASE AskSolver
      <3>1. phase = "solver" /\ query.kind = "subset" /\ (lhs.others => rhs.others)
        BY <2>7 DEF AskSolver, Deciding
      <3> DEFINE more == {x \in Numbers : InConstraint(lhs, x) /\ ~InConstraint(rhs, x)}
      <3>2. \/ more = {} /\ Finish(Result("proved_true", NonNumber))
            \/ \E w \in more : Counterexample(w)
            \/ Finish(Result("unsupported", NonNumber))
        BY <2>7 DEF AskSolver
      <3>3. CASE more = {} /\ Finish(Result("proved_true", NonNumber))
        <4>1. \A x \in Numbers : ~LeftOut(x)
          BY <3>3 DEF LeftOut
        <4>2. Verdict(query, Result("proved_true", NonNumber))
          BY <2>1, <3>1, <4>1, NothingLeftOut
        <4> QED BY <3>1, <3>3, <4>2, FinishKeeps
      <3>4. CASE \E w \in more : Counterexample(w)
        BY <3>1, <3>4, CheckedWitness, FinishKeeps
      <3>5. CASE Finish(Result("unsupported", NonNumber))
        <4>1. Verdict(query, Result("unsupported", NonNumber))
          BY DEF Verdict, Result
        <4> QED BY <3>1, <3>5, <4>1, FinishKeeps
      <3> QED BY <3>2, <3>3, <3>4, <3>5
    <2>8. CASE DecideDisjoint
      BY <2>8, DisjointKeeps
    <2>9. CASE DecideEmpty
      BY <2>9, EmptyKeeps
    <2>10. CASE UNCHANGED vars
      BY <2>10 DEF vars, Deciding, Compiled, LeftOut
    <2> QED BY <2>2, <2>3, <2>4, <2>5, <2>6, <2>7, <2>8, <2>9, <2>10 DEF Next
  <1>3. Deciding => NumberProofsAreSound
    BY VerdictMeans DEF Deciding
  <1> QED BY <1>1, <1>2, <1>3, PTL DEF Spec

-----------------------------------------------------------------------------
(* Integer intervals are decided.                                          *)

(* Atoms that are intervals, and those of integers.                        *)
PlainAtoms == {a \in Atoms : a.multiple = Absent}
IntegerAtoms == {a \in PlainAtoms : a.integer}

(* Intervals are regular and closed under intersection; one of integers    *)
(* makes the intersection one of integers.                                 *)
LEMMA PlainFacts ==
    /\ PlainAtoms \subseteq Atoms /\ IntegerAtoms \subseteq PlainAtoms
    /\ \A a \in PlainAtoms : RegularAtom(a)
    /\ \A a, b \in PlainAtoms :
         /\ IntersectAtoms(a, b) \in PlainAtoms
         /\ a.integer \/ b.integer => IntersectAtoms(a, b) \in IntegerAtoms
  <1>1. \A a \in PlainAtoms : RegularAtom(a)
    BY DEF PlainAtoms, RegularAtom, RegularMultiple
  <1>2. ASSUME NEW a \in PlainAtoms, NEW b \in PlainAtoms
        PROVE  /\ IntersectAtoms(a, b) \in PlainAtoms
               /\ a.integer \/ b.integer => IntersectAtoms(a, b) \in IntegerAtoms
    <2>1. a \in Atoms /\ b \in Atoms /\ a.multiple = Absent /\ b.multiple = Absent
      BY DEF PlainAtoms
    <2>2. IntersectAtoms(a, b) \in Atoms
      BY <2>1, IntersectionOfAtomsIsExact
    <2>3. /\ IntersectAtoms(a, b).multiple = Absent
          /\ IntersectAtoms(a, b).integer <=> a.integer \/ b.integer
      BY <2>1 DEF IntersectAtoms, LcmFraction
    <2> QED BY <2>2, <2>3 DEF PlainAtoms, IntegerAtoms
  <1> QED BY <1>1, <1>2 DEF PlainAtoms, IntegerAtoms

(* Keywords without multipleOf compile to an interval, of integers if the  *)
(* type says so.                                                           *)
LEMMA PlainKeywords ==
    ASSUME NEW B, NEW s \in Keywords(B), s.multipleOf = Absent
    PROVE  /\ LocalConstraint(s) \in ConstraintsOf(PlainAtoms)
           /\ s.type = "integer" => LocalConstraint(s) \in ConstraintsOf(IntegerAtoms)
  <1>1. LocalAtom(s) \in Atoms
    BY LocalHolds DEF Among
  <1>2. LocalAtom(s).multiple = Absent /\ (LocalAtom(s).integer <=> s.type = "integer")
    BY DEF LocalAtom
  <1>3. /\ LocalAtom(s) \in PlainAtoms
        /\ s.type = "integer" => LocalAtom(s) \in IntegerAtoms
    BY <1>1, <1>2 DEF PlainAtoms, IntegerAtoms
  <1>4. \A a \in IntegerAtoms : RegularAtom(a)
    BY PlainFacts
  <1> QED BY <1>3, <1>4, PlainFacts, LocalConstraintHolds

(* Intersecting two such constraints.                                      *)
LEMMA PlainIntersect ==
    ASSUME NEW P, NEW Q, NEW R, P \subseteq PlainAtoms, Q \subseteq PlainAtoms, R \subseteq PlainAtoms,
           \A p \in P, q \in Q : IntersectAtoms(p, q) \in R,
           NEW c \in ConstraintsOf(P), NEW d \in ConstraintsOf(Q)
    PROVE  Intersect(c, d) \in ConstraintsOf(R)
  <1>1. c.atoms \in Seq(P) /\ d.atoms \in Seq(Q)
    BY ConstraintFields
  <1>2. P \subseteq Atoms /\ Q \subseteq Atoms /\ \A r \in R : RegularAtom(r)
    BY PlainFacts
  <1> QED BY <1>1, <1>2, IntersectHolds

(* The branches of allOf keep the intervals what they are without them.    *)
LEMMA PlainAllOf ==
    ASSUME NEW s \in Schemas, NEW T, T \subseteq PlainAtoms, LocalConstraint(s) \in ConstraintsOf(T),
           \A t \in T, p \in PlainAtoms : IntersectAtoms(t, p) \in T,
           \A b \in ToSet(s.allOf) : b.multipleOf = Absent
    PROVE  AllOfConstraint(s) \in ConstraintsOf(T)
  <1> DEFINE B == {b \in Branches : b.multipleOf = Absent}
             C == ConstraintsOf(T)
             n == Len(s.allOf)
  <1>1. /\ s.allOf \in Seq(Branches) /\ n \in Nat /\ DOMAIN s.allOf = 1 .. n
        /\ \A k \in 1 .. n : s.allOf[k] \in Branches
    <2>1. s.allOf \in Seq(Branches)
      BY DEF Schemas, Keywords
    <2> QED BY <2>1, LenProperties, ElementOfSeq
  <1>2. s.allOf \in Seq(B)
    <2>1. \A k \in 1 .. n : s.allOf[k] \in B
      BY <1>1 DEF ToSet
    <2>2. s.allOf \in [1 .. n -> B]
      BY <1>1, <2>1
    <2> HIDE DEF B
    <2> QED BY <1>1, <2>2, IsASeq
  <1>3. \A c \in C, b \in B : Intersect(c, LocalConstraint(b)) \in C
    <2>1. ASSUME NEW c \in C, NEW b \in B PROVE Intersect(c, LocalConstraint(b)) \in C
      <3>1. LocalConstraint(b) \in ConstraintsOf(PlainAtoms)
        BY PlainKeywords DEF Branches
      <3> QED BY <3>1, PlainIntersect
    <2> QED BY <2>1
  <1> HIDE DEF B, C
  <1>4. PICK g : TakesAllOf(g, s)
    BY <1>2, <1>3, AllOfSteps DEF C
  <1> DEFINE K == {k \in 0 .. n : g[k] \in C}
  <1>5. 0 \in K
    BY <1>1, <1>4 DEF TakesAllOf, C
  <1>6. ASSUME NEW k \in 0 .. n - 1, k \in K PROVE k + 1 \in K
    <2>1. k + 1 \in 0 .. n /\ k + 1 \in 1 .. n
      BY <1>1
    <2>2. g[k + 1] = Intersect(g[k], LocalConstraint(s.allOf[k + 1]))
      BY <1>4 DEF TakesAllOf
    <2>3. s.allOf[k + 1] \in B
      BY <1>1, <1>2, <2>1, ElementOfSeq
    <2> QED BY <1>3, <1>6, <2>1, <2>2, <2>3
  <1>7. n \in K
    <2> HIDE DEF K, n
    <2>1. \A k \in 0 .. n : k \in K
      BY <1>1, <1>5, <1>6, HoldsUpTo
    <2> QED BY <1>1, <2>1
  <1> QED BY <1>4, <1>7 DEF TakesAllOf, C

(* The branches of anyOf are joined.                                       *)
LEMMA PlainAnyOf ==
    ASSUME NEW s \in Schemas, NEW T, T \subseteq PlainAtoms,
           \A b \in ToSet(s.anyOf) : LocalConstraint(b) \in ConstraintsOf(T)
    PROVE  AnyOfConstraint(s) \in ConstraintsOf(T)
  <1> DEFINE B == ToSet(s.anyOf)
             C == ConstraintsOf(T)
             n == Len(s.anyOf)
  <1>1. /\ s.anyOf \in Seq(Branches) /\ n \in Nat /\ DOMAIN s.anyOf = 1 .. n
        /\ \A k \in 1 .. n : s.anyOf[k] \in Branches
    <2>1. s.anyOf \in Seq(Branches)
      BY DEF Schemas, Keywords
    <2> QED BY <2>1, LenProperties, ElementOfSeq
  <1>2. s.anyOf \in Seq(B)
    <2>1. \A k \in 1 .. n : s.anyOf[k] \in B
      BY <1>1 DEF ToSet
    <2>2. s.anyOf \in [1 .. n -> B]
      BY <1>1, <2>1
    <2> HIDE DEF B
    <2> QED BY <1>1, <2>2, IsASeq
  <1>3. \A c \in C, b \in B : Union(c, LocalConstraint(b)) \in C
    <2>1. ASSUME NEW c \in C, NEW b \in B PROVE Union(c, LocalConstraint(b)) \in C
      <3>1. c.atoms \in Seq(T) /\ LocalConstraint(b).atoms \in Seq(T)
        BY ConstraintFields
      <3>2. \A a \in T : RegularAtom(a)
        BY PlainFacts
      <3> QED BY <3>1, <3>2, UnionHolds
    <2> QED BY <2>1
  <1>8. Nothing \in C
    <2>1. <<>> \in Seq(T) /\ FALSE \in BOOLEAN
      BY EmptySeq
    <2> QED BY <2>1, MakesConstraint DEF Nothing
  <1> HIDE DEF B, C
  <1>4. PICK g : TakesAnyOf(g, s)
    BY <1>2, <1>3, <1>8, AnyOfSteps
  <1> DEFINE K == {k \in 0 .. n : g[k] \in C}
  <1>5. 0 \in K
    BY <1>1, <1>4, <1>8 DEF TakesAnyOf
  <1>6. ASSUME NEW k \in 0 .. n - 1, k \in K PROVE k + 1 \in K
    <2>1. k + 1 \in 0 .. n /\ k + 1 \in 1 .. n
      BY <1>1
    <2>2. g[k + 1] = Union(g[k], LocalConstraint(s.anyOf[k + 1]))
      BY <1>4 DEF TakesAnyOf
    <2>3. s.anyOf[k + 1] \in B
      BY <1>1, <1>2, <2>1, ElementOfSeq
    <2> QED BY <1>3, <1>6, <2>1, <2>2, <2>3
  <1>7. n \in K
    <2> HIDE DEF K, n
    <2>1. \A k \in 0 .. n : k \in K
      BY <1>1, <1>5, <1>6, HoldsUpTo
    <2> QED BY <1>1, <2>1
  <1> QED BY <1>4, <1>7 DEF TakesAnyOf, C

(* Schemas of integer intervals compile to integer intervals.              *)
LEMMA CompilesToIntegers ==
    ASSUME NEW s \in Schemas, OnlyIntegerIntervals(s)
    PROVE  ConstraintOf(s) \in ConstraintsOf(IntegerAtoms)
  <1>1. /\ s \in Keywords(Seq(Branches)) /\ s.multipleOf = Absent
        /\ \A b \in ToSet(s.allOf) \cup ToSet(s.anyOf) : b.multipleOf = Absent
    BY DEF Schemas, OnlyIntegerIntervals
  <1>2. \A b \in ToSet(s.anyOf) : b \in Branches
    <2>1. s.anyOf \in Seq(Branches)
      BY DEF Schemas, Keywords
    <2>2. \A k \in DOMAIN s.anyOf : s.anyOf[k] \in Branches
      BY <2>1, LenProperties, ElementOfSeq
    <2> QED BY <2>2 DEF ToSet
  <1>3. \A b \in ToSet(s.anyOf) :
          /\ LocalConstraint(b) \in ConstraintsOf(PlainAtoms)
          /\ b.type = "integer" => LocalConstraint(b) \in ConstraintsOf(IntegerAtoms)
    BY <1>1, <1>2, PlainKeywords DEF Branches
  <1>4. IntegerAtoms \subseteq PlainAtoms /\ PlainAtoms \subseteq PlainAtoms
    BY PlainFacts
  <1>5. /\ LocalConstraint(s) \in ConstraintsOf(PlainAtoms)
        /\ s.type = "integer" => LocalConstraint(s) \in ConstraintsOf(IntegerAtoms)
    BY <1>1, PlainKeywords
  <1>6. \A t \in IntegerAtoms, p \in PlainAtoms :
           IntersectAtoms(t, p) \in IntegerAtoms /\ IntersectAtoms(p, t) \in IntegerAtoms
    BY <1>4, PlainFacts DEF IntegerAtoms
  <1>7. AllOfConstraint(s) \in ConstraintsOf(PlainAtoms)
    BY <1>1, <1>4, <1>5, PlainFacts, PlainAllOf
  <1>8. CASE s.type = "integer"
    <2>1. AllOfConstraint(s) \in ConstraintsOf(IntegerAtoms)
      BY <1>1, <1>4, <1>5, <1>6, <1>8, PlainAllOf
    <2>2. AnyOfConstraint(s) \in ConstraintsOf(PlainAtoms)
      BY <1>3, <1>4, PlainAnyOf
    <2>3. Intersect(AllOfConstraint(s), AnyOfConstraint(s)) \in ConstraintsOf(IntegerAtoms)
      BY <1>4, <1>6, <2>1, <2>2, PlainIntersect
    <2> QED BY <2>1, <2>3 DEF ConstraintOf
  <1>9. CASE s.anyOf # <<>> /\ \A k \in DOMAIN s.anyOf : s.anyOf[k].type = "integer"
    <2>1. AnyOfConstraint(s) \in ConstraintsOf(IntegerAtoms)
      <3>1. \A b \in ToSet(s.anyOf) : b.type = "integer"
        BY <1>9 DEF ToSet
      <3> QED BY <1>3, <1>4, <3>1, PlainAnyOf
    <2>2. Intersect(AllOfConstraint(s), AnyOfConstraint(s)) \in ConstraintsOf(IntegerAtoms)
      BY <1>4, <1>6, <1>7, <2>1, PlainIntersect
    <2> QED BY <1>9, <2>2 DEF ConstraintOf
  <1> QED BY <1>8, <1>9 DEF OnlyIntegerIntervals

(* A rounded interval of integers holds the whole numbers between its ends.*)
LEMMA IntegerInterval ==
    ASSUME NEW b \in IntegerAtoms
    PROVE  /\ Normalized(b) \in IntegerAtoms
           /\ Normalized(b).lower.at \in WholeEnd /\ Normalized(b).upper.at \in WholeEnd
           /\ \A y \in Int : InAtom(b, y) <=> IsWhole(y) /\ Inside(Normalized(b), y)
  <1> DEFINE m == Normalized(b)
  <1>1. b \in Atoms /\ b.integer /\ b.multiple = Absent
    BY DEF IntegerAtoms, PlainAtoms
  <1>2. m \in Atoms /\ m.integer /\ m.multiple = Absent
    BY <1>1, NormalizedFacts, AbsentAssumption
  <1>3. /\ m.lower.at # Absent => IsWhole(m.lower.at) /\ m.lower.closed
        /\ m.upper.at # Absent => IsWhole(m.upper.at) /\ m.upper.closed
    BY <1>1, RoundedEnds
  <1>4. \A y \in Int : InAtom(b, y) <=> InRaw(m, y)
    BY <1>1, RoundedTwice
  <1> HIDE DEF m
  <1>5. m.lower.at \in Int \cup {Absent} /\ m.upper.at \in Int \cup {Absent}
    BY <1>2 DEF Atoms, AtomEnds
  <1>6. m.lower.at \in WholeEnd /\ m.upper.at \in WholeEnd
    BY <1>3, <1>5 DEF WholeEnd
  <1>7. \A y \in Int : InRaw(m, y) <=> IsWhole(y) /\ Inside(m, y)
    BY <1>2, <1>3, <1>5, AbsentAssumption DEF InRaw, Inside
  <1> QED BY <1>2, <1>4, <1>6, <1>7 DEF m, IntegerAtoms, PlainAtoms

(* Of whole numbers up to x there is a greatest one.                       *)
LEMMA NearestBelow ==
    ASSUME NEW x \in Int, NEW S \in SUBSET {y \in Int : y <= x}, S # {}
    PROVE  \E y \in S : \A z \in S : z <= y
  <1> DEFINE T == {x - y : y \in S}
  <1>1. T \in SUBSET Nat /\ T # {}
    <2>1. \A y \in S : x - y \in Nat
      OBVIOUS
    <2>2. PICK y \in S : TRUE
      OBVIOUS
    <2> QED BY <2>1, <2>2
  <1> HIDE DEF T
  <1>2. PICK t \in T : \A m \in T : t <= m
    BY <1>1, LeastNatural
  <1>3. PICK y \in S : t = x - y
    BY DEF T
  <1>4. ASSUME NEW z \in S PROVE z <= y
    <2>1. x - z \in T
      BY DEF T
    <2>2. x - y <= x - z /\ y \in Int /\ z \in Int
      BY <1>2, <1>3, <2>1
    <2> QED BY <2>2
  <1> QED BY <1>4

(* And from x on there is a least one.                                     *)
LEMMA NearestAbove ==
    ASSUME NEW x \in Int, NEW S \in SUBSET {y \in Int : x <= y}, S # {}
    PROVE  \E y \in S : \A z \in S : y <= z
  <1> DEFINE T == {y - x : y \in S}
  <1>1. T \in SUBSET Nat /\ T # {}
    <2>1. \A y \in S : y - x \in Nat
      OBVIOUS
    <2>2. PICK y \in S : TRUE
      OBVIOUS
    <2> QED BY <2>1, <2>2
  <1> HIDE DEF T
  <1>2. PICK t \in T : \A m \in T : t <= m
    BY <1>1, LeastNatural
  <1>3. PICK y \in S : t = y - x
    BY DEF T
  <1>4. ASSUME NEW z \in S PROVE y <= z
    <2>1. z - x \in T
      BY DEF T
    <2>2. y - x <= z - x /\ y \in Int /\ z \in Int
      BY <1>2, <1>3, <2>1
    <2> QED BY <2>2
  <1> QED BY <1>4

(* From any whole number that a set of intervals leaves out, the next      *)
(* border of that gap is where an interval ends or begins; without one     *)
(* there is no interval at all.                                            *)
LEMMA GapHasBorder ==
    ASSUME NEW l \in WholeEnd, NEW h \in WholeEnd, NEW D, NEW lo \in [D -> WholeEnd],
           NEW up \in [D -> WholeEnd], NEW x \in Int, IsWhole(x),
           l # Absent => l <= x, h # Absent => x <= h,
           \A k \in D : (lo[k] # Absent /\ x < lo[k]) \/ (up[k] # Absent /\ up[k] < x)
    PROVE  \E y \in Int :
             /\ IsWhole(y) /\ (l # Absent => l <= y) /\ (h # Absent => y <= h)
             /\ \A k \in D : (lo[k] # Absent /\ y < lo[k]) \/ (up[k] # Absent /\ up[k] < y)
             /\ \/ y = 0
                \/ l # Absent /\ y = l
                \/ h # Absent /\ y = h
                \/ \E k \in D : up[k] # Absent /\ y = up[k] + Unit
                \/ \E k \in D : lo[k] # Absent /\ y = lo[k] - Unit
  <1>1. Unit \in Nat \ {0} /\ Absent \notin Int
    BY UnitAssumption, AbsentAssumption
  <1>2. \A e \in WholeEnd : e # Absent => e \in Int /\ IsWhole(e)
    BY DEF WholeEnd
  <1>3. \A e \in Int : IsWhole(e) => IsWhole(e + Unit) /\ IsWhole(e - Unit)
    BY <1>1, MultiplesAdd DEF IsWhole, IsMultiple
  <1>4. \A k \in D : /\ up[k] # Absent /\ up[k] < x => up[k] + Unit <= x
                     /\ lo[k] # Absent /\ x < lo[k] => x <= lo[k] - Unit
    <2>1. ASSUME NEW k \in D, up[k] # Absent, up[k] < x PROVE up[k] + Unit <= x
      BY <1>2, <2>1, WholeApart
    <2>2. ASSUME NEW k \in D, lo[k] # Absent, x < lo[k] PROVE x <= lo[k] - Unit
      <3>1. lo[k] \in Int /\ x + Unit <= lo[k]
        BY <1>2, <2>2, WholeApart
      <3> QED BY <1>1, <3>1
    <2> QED BY <2>1, <2>2
  <1> DEFINE Below == {y \in Int : \/ l # Absent /\ y = l
                                   \/ \E k \in D : up[k] # Absent /\ up[k] < x /\ y = up[k] + Unit}
             Above == {y \in Int : \/ h # Absent /\ y = h
                                   \/ \E k \in D : lo[k] # Absent /\ x < lo[k] /\ y = lo[k] - Unit}
  <1>5. CASE Below # {}
    <2>1. Below \in SUBSET {y \in Int : y <= x}
      BY <1>4
    <2>2. PICK y \in Below : \A z \in Below : z <= y
      <3> HIDE DEF Below
      <3> QED BY <1>5, <2>1, NearestBelow
    <2>3. y \in Int /\ y <= x /\ IsWhole(y)
      BY <1>2, <1>3, <2>1
    <2>4. l # Absent => l <= y
      BY <1>2, <2>2
    <2>5. h # Absent => y <= h
      <3>1. h # Absent => h \in Int
        BY <1>2
      <3> HIDE DEF Below
      <3> QED BY <2>3, <3>1
    <2>6. ASSUME NEW k \in D PROVE (lo[k] # Absent /\ y < lo[k]) \/ (up[k] # Absent /\ up[k] < y)
      <3>1. CASE lo[k] # Absent /\ x < lo[k]
        <4>1. lo[k] \in Int
          BY <1>2, <3>1
        <4> HIDE DEF Below
        <4> QED BY <2>3, <3>1, <4>1
      <3>2. CASE up[k] # Absent /\ up[k] < x
        <4>1. up[k] \in Int /\ up[k] + Unit \in Below
          BY <1>1, <1>2, <3>2
        <4>2. up[k] + Unit <= y
          <5> HIDE DEF Below
          <5> QED BY <2>2, <4>1
        <4> HIDE DEF Below
        <4> QED BY <1>1, <2>3, <3>2, <4>1, <4>2
      <3> QED BY <3>1, <3>2
    <2> QED BY <2>2, <2>3, <2>4, <2>5, <2>6
  <1>6. CASE Below = {} /\ Above # {}
    <2>1. Above \in SUBSET {y \in Int : x <= y}
      BY <1>4
    <2>2. PICK y \in Above : \A z \in Above : y <= z
      <3> HIDE DEF Above
      <3> QED BY <1>6, <2>1, NearestAbove
    <2>3. y \in Int /\ x <= y /\ IsWhole(y)
      BY <1>2, <1>3, <2>1
    <2>4. h # Absent => y <= h
      BY <1>2, <2>2
    <2>5. l = Absent
      BY <1>2, <1>6
    <2>6. ASSUME NEW k \in D PROVE (lo[k] # Absent /\ y < lo[k]) \/ (up[k] # Absent /\ up[k] < y)
      <3>1. CASE lo[k] # Absent /\ x < lo[k]
        <4>1. lo[k] \in Int /\ lo[k] - Unit \in Above
          BY <1>1, <1>2, <3>1
        <4>2. y <= lo[k] - Unit
          <5> HIDE DEF Above
          <5> QED BY <2>2, <4>1
        <4> HIDE DEF Above
        <4> QED BY <1>1, <2>3, <3>1, <4>1, <4>2
      <3>2. CASE up[k] # Absent /\ up[k] < x
        <4>1. up[k] \in Int
          BY <1>2, <3>2
        <4> HIDE DEF Above
        <4> QED BY <2>3, <3>2, <4>1
      <3> QED BY <3>1, <3>2
    <2> QED BY <2>2, <2>3, <2>4, <2>5, <2>6
  <1>7. CASE Below = {} /\ Above = {}
    <2>1. l = Absent /\ h = Absent
      BY <1>2, <1>7
    <2>2. \A k \in D : FALSE
      <3>1. ASSUME NEW k \in D, up[k] # Absent, up[k] < x PROVE FALSE
        <4>1. up[k] + Unit \in Below
          BY <1>1, <1>2, <3>1
        <4> QED BY <1>7, <4>1
      <3>2. ASSUME NEW k \in D, lo[k] # Absent, x < lo[k] PROVE FALSE
        <4>1. lo[k] - Unit \in Above
          BY <1>1, <1>2, <3>2
        <4> QED BY <1>7, <4>1
      <3> QED BY <3>1, <3>2
    <2>3. IsWhole(0)
      BY <1>1 DEF IsWhole
    <2> QED BY <2>1, <2>2, <2>3
  <1> QED BY <1>5, <1>6, <1>7

(* A whole number that a union of integer intervals leaves out of an atom  *)
(* is enough for one of the candidates to be left out too.                 *)
LEMMA GapHasWitness ==
    ASSUME NEW a \in IntegerAtoms, NEW d \in ConstraintsOf(IntegerAtoms),
           NEW x \in Int, InAtom(a, x), ~InConstraint(d, x)
    PROVE  \E y \in Witnesses(a, d) : y \in Int
  <1> DEFINE others == NormalizedAtoms(d)
             D == DOMAIN others
             m(k) == Normalized(others[k])
             lo == [k \in D |-> m(k).lower.at]
             up == [k \in D |-> m(k).upper.at]
             n == Normalized(a)
             l == n.lower.at
             h == n.upper.at
             C == CandidatesAgainst(a, others)
  <1>1. /\ others \in Seq(IntegerAtoms)
        /\ \A y : InConstraint(d, y) <=> \E b \in ToSet(others) : InAtom(b, y)
    BY ConstraintFields, NormalizedHolds
  <1>2. \A k \in D : others[k] \in IntegerAtoms
    <2> HIDE DEF others
    <2> QED BY <1>1, LenProperties, ElementOfSeq
  <1>3. \A k \in D : /\ m(k) \in IntegerAtoms /\ lo[k] \in WholeEnd /\ up[k] \in WholeEnd
                     /\ \A y \in Int : InAtom(others[k], y) <=> IsWhole(y) /\ Inside(m(k), y)
    <2> HIDE DEF others
    <2> QED BY <1>2, IntegerInterval
  <1>4. /\ n \in IntegerAtoms /\ l \in WholeEnd /\ h \in WholeEnd
        /\ \A y \in Int : InAtom(a, y) <=> IsWhole(y) /\ Inside(n, y)
    BY IntegerInterval
  <1>5. \A e \in WholeEnd : e # Absent => e \in Int
    BY DEF WholeEnd
  <1>6. \A y \in Int : (\A k \in D : ~InAtom(others[k], y)) => ~InConstraint(d, y)
    <2> HIDE DEF others
    <2> QED BY <1>1 DEF ToSet
  <1>7. \A y \in Int, k \in D : IsWhole(y) =>
          (InAtom(others[k], y) <=> ~((lo[k] # Absent /\ y < lo[k]) \/ (up[k] # Absent /\ up[k] < y)))
    <2> HIDE DEF others
    <2>1. ASSUME NEW y \in Int, NEW k \in D, IsWhole(y)
          PROVE  InAtom(others[k], y) <=> ~((lo[k] # Absent /\ y < lo[k]) \/ (up[k] # Absent /\ up[k] < y))
      <3>1. InAtom(others[k], y) <=> Inside(m(k), y)
        BY <1>3, <2>1
      <3>2. lo[k] = m(k).lower.at /\ up[k] = m(k).upper.at
        OBVIOUS
      <3>3. (lo[k] # Absent => lo[k] \in Int) /\ (up[k] # Absent => up[k] \in Int)
        BY <1>3, <1>5
      <3> HIDE DEF lo, up, m
      <3> QED BY <3>1, <3>2, <3>3 DEF Inside
    <2> QED BY <2>1
  <1>8. \A e \in Ends(n) : {e, e + Unit, e - Unit} \subseteq C
    <2> HIDE DEF others, n
    <2>1. UNION {Around(b, n.integer, n.multiple) : b \in Ends(n)} \subseteq OwnCandidates(a)
      BY DEF OwnCandidates, n
    <2>2. OwnCandidates(a) \subseteq C
      BY DEF CandidatesAgainst
    <2>3. \A e \in Ends(n) : {e, e + Unit, e - Unit} \subseteq Around(e, n.integer, n.multiple)
      BY DEF Around
    <2> HIDE DEF C
    <2> QED BY <2>1, <2>2, <2>3
  <1>9. \A k \in D : \A e \in Ends(m(k)) : {e, e + Unit, e - Unit} \subseteq C
    <2> HIDE DEF others, n
    <2>1. (UNION {Around(b, n.integer, n.multiple) : b \in UNION {Ends(Normalized(others[k])) : k \in D}}) \subseteq C
      BY DEF CandidatesAgainst, n
    <2>2. \A e : {e, e + Unit, e - Unit} \subseteq Around(e, n.integer, n.multiple)
      BY DEF Around
    <2>3. \A k \in D : \A e \in Ends(m(k)) : e \in UNION {Ends(Normalized(others[j])) : j \in D}
      OBVIOUS
    <2> HIDE DEF C, m, D
    <2> QED BY <2>1, <2>2, <2>3
  <1>10. 0 \in C
    BY DEF CandidatesAgainst, OwnCandidates
  <1>11. /\ l # Absent => l \in Ends(n)
         /\ h # Absent => h \in Ends(n)
         /\ \A k \in D : /\ lo[k] # Absent => lo[k] \in Ends(m(k))
                         /\ up[k] # Absent => up[k] \in Ends(m(k))
    BY DEF Ends
  <1>12. IsWhole(x) /\ Inside(n, x) /\ \A k \in D : ~InAtom(others[k], x)
    <2>1. \A k \in D : others[k] \in ToSet(others)
      BY DEF ToSet
    <2> HIDE DEF others, n
    <2> QED BY <1>1, <1>4, <2>1
  <1>13. lo \in [D -> WholeEnd] /\ up \in [D -> WholeEnd]
    <2>1. \A k \in D : m(k).lower.at \in WholeEnd /\ m(k).upper.at \in WholeEnd
      BY <1>3
    <2> HIDE DEF m, D
    <2> QED BY <2>1
  <1>14. /\ \A k \in D : (lo[k] # Absent /\ x < lo[k]) \/ (up[k] # Absent /\ up[k] < x)
         /\ l # Absent => l <= x
         /\ h # Absent => x <= h
    <2>1. /\ l # Absent => l <= x
          /\ h # Absent => x <= h
      <3>1. (l # Absent => l \in Int) /\ (h # Absent => h \in Int)
        BY <1>4, <1>5
      <3> HIDE DEF n
      <3> QED BY <1>12, <3>1 DEF Inside
    <2> HIDE DEF D, lo, up, others, n
    <2> QED BY <1>7, <1>12, <2>1
  <1>15. PICK y \in Int :
             /\ IsWhole(y) /\ (l # Absent => l <= y) /\ (h # Absent => y <= h)
             /\ \A k \in D : (lo[k] # Absent /\ y < lo[k]) \/ (up[k] # Absent /\ up[k] < y)
             /\ \/ y = 0
                \/ l # Absent /\ y = l
                \/ h # Absent /\ y = h
                \/ \E k \in D : up[k] # Absent /\ y = up[k] + Unit
                \/ \E k \in D : lo[k] # Absent /\ y = lo[k] - Unit
    <2> HIDE DEF D, lo, up, others, n, l, h
    <2> QED BY <1>4, <1>12, <1>13, <1>14, GapHasBorder
  <1>16. y \in C
    <2> HIDE DEF D, lo, up, others, n, l, h, C, m
    <2>1. CASE y = 0
      BY <1>10, <2>1
    <2>2. CASE (l # Absent /\ y = l) \/ (h # Absent /\ y = h)
      BY <1>8, <1>11, <2>2
    <2>3. ASSUME NEW k \in D, up[k] # Absent, y = up[k] + Unit PROVE y \in C
      BY <1>9, <1>11, <2>3
    <2>4. ASSUME NEW k \in D, lo[k] # Absent, y = lo[k] - Unit PROVE y \in C
      BY <1>9, <1>11, <2>4
    <2> QED BY <1>15, <2>1, <2>2, <2>3, <2>4
  <1>17. InAtom(a, y)
    <2>1. Inside(n, y)
      <3>1. (l # Absent => l \in Int) /\ (h # Absent => h \in Int)
        BY <1>4, <1>5
      <3>2. (n.lower.at # Absent => y >= n.lower.at) /\ (n.upper.at # Absent => y <= n.upper.at)
        <4> HIDE DEF n
        <4> QED BY <1>15, <3>1
      <3> HIDE DEF n
      <3> QED BY <3>2 DEF Inside
    <2> HIDE DEF n
    <2> QED BY <1>4, <1>15, <2>1
  <1>18. ~InConstraint(d, y)
    <2> HIDE DEF D, lo, up, others, n
    <2> QED BY <1>6, <1>7, <1>15
  <1> HIDE DEF C, others
  <1>19. y \in Witnesses(a, d)
    BY <1>16, <1>17, <1>18 DEF Witnesses, C, others
  <1> QED BY <1>19

(* Whole intervals one behind another by where they start.                 *)
InOrderByStart(s) == \A j, k \in DOMAIN s : j < k => StartsBefore(s[j], s[k])

(* Where intervals start is a total preorder.                              *)
LEMMA StartsFacts ==
    ASSUME NEW i \in WholeIntervals, NEW j \in WholeIntervals, NEW k \in WholeIntervals
    PROVE  /\ StartsBefore(i, j) /\ StartsBefore(j, k) => StartsBefore(i, k)
           /\ StartsBefore(i, j) \/ StartsBefore(j, i)
  <1>1. /\ i.lower.at \in Int \cup {Absent} /\ j.lower.at \in Int \cup {Absent}
        /\ k.lower.at \in Int \cup {Absent} /\ Absent \notin Int
    BY AbsentAssumption DEF WholeIntervals, WholeEnd
  <1> QED BY <1>1 DEF StartsBefore

(* Positions that come with all those before them are the first ones.      *)
LEMMA FirstPositions ==
    ASSUME NEW n \in Nat, NEW P \in SUBSET (1 .. n),
           \A j \in 1 .. n, k \in P : j < k => j \in P
    PROVE  Cardinality(P) \in 0 .. n /\ P = 1 .. Cardinality(P)
  <1>1. \E m \in 0 .. n : P = 1 .. m
    <2>1. CASE P = {}
      <3>1. 0 \in 0 .. n /\ P = 1 .. 0
        BY <2>1
      <3> QED BY <3>1
    <2>2. CASE P # {}
      <3>1. Max(P) \in P /\ \A i \in P : i <= Max(P)
        BY <2>2, GreatestIndex
      <3> DEFINE m == Max(P)
      <3> HIDE DEF m
      <3>2. m \in P /\ \A i \in P : i <= m
        BY <3>1 DEF m
      <3>4. m \in 1 .. n /\ m \in 0 .. n
        BY <3>2
      <3>3. P = 1 .. m
        <4>1. \A i \in P : i \in 1 .. m
          BY <3>2
        <4>2. \A i \in 1 .. m : i \in 1 .. n /\ (i = m \/ i < m)
          BY <3>4
        <4> QED BY <3>2, <4>1, <4>2
      <3> QED BY <3>3, <3>4
    <2> QED BY <2>1, <2>2
  <1>2. PICK m \in 0 .. n : P = 1 .. m
    BY <1>1
  <1>3. Cardinality(1 .. m) = m
    <2>1. m \in Int /\ 1 \in Int /\ m - 1 + 1 = m /\ (1 > m => m = 0)
      OBVIOUS
    <2>2. Cardinality(1 .. m) = IF 1 > m THEN 0 ELSE m - 1 + 1
      BY <2>1, FS_Interval
    <2> QED BY <2>1, <2>2
  <1> QED BY <1>2, <1>3

(* Where an element that is inserted ends up, and the others.              *)
LEMMA InsertedAt ==
    ASSUME NEW T, NEW s \in Seq(T), NEW e \in T, NEW k \in 0 .. Len(s)
    PROVE  /\ InsertAt(s, 1 + k, e) \in Seq(T) /\ Len(InsertAt(s, 1 + k, e)) = Len(s) + 1
           /\ \A i \in 1 .. Len(s) + 1 :
                InsertAt(s, 1 + k, e)[i] = IF i <= k THEN s[i] ELSE IF i = k + 1 THEN e ELSE s[i - 1]
  <1> DEFINE n == Len(s)
             p == SubSeq(s, 1, k)
             q == SubSeq(s, k + 1, n)
             m == <<e>>
             r == p \o m
  <1>1. n \in Nat /\ k \in Nat /\ k <= n
    BY LenProperties
  <1>2. \A i \in 1 .. n : s[i] \in T
    BY ElementOfSeq
  <1>3. p \in Seq(T) /\ Len(p) = k /\ \A i \in 1 .. k : p[i] = s[i]
    <2>1. \A i \in 1 .. k : s[i] \in T
      BY <1>1, <1>2
    <2>2. 1 \in Int /\ k \in Int
      BY <1>1
    <2>3. /\ p \in Seq(T) /\ Len(p) = IF 1 <= k THEN k - 1 + 1 ELSE 0
          /\ \A i \in 1 .. k - 1 + 1 : p[i] = s[1 + i - 1]
      <3> HIDE DEF n
      <3> QED BY <2>1, <2>2, SubSeqProperties
    <2> HIDE DEF p
    <2>4. Len(p) = k
      BY <1>1, <2>3
    <2>5. \A i \in 1 .. k : i \in 1 .. k - 1 + 1 /\ 1 + i - 1 = i
      BY <1>1
    <2> QED BY <2>3, <2>4, <2>5
  <1>4. q \in Seq(T) /\ Len(q) = n - k /\ \A i \in 1 .. n - k : q[i] = s[k + i]
    <2>1. \A i \in k + 1 .. n : s[i] \in T
      BY <1>1, <1>2
    <2>2. k + 1 \in Int /\ n \in Int
      BY <1>1
    <2>3. /\ q \in Seq(T) /\ Len(q) = IF k + 1 <= n THEN n - (k + 1) + 1 ELSE 0
          /\ \A i \in 1 .. n - (k + 1) + 1 : q[i] = s[(k + 1) + i - 1]
      <3> HIDE DEF n
      <3> QED BY <2>1, <2>2, SubSeqProperties DEF n
    <2> HIDE DEF q, n
    <2>4. Len(q) = n - k
      BY <1>1, <2>3
    <2>5. \A i \in 1 .. n - k : i \in 1 .. n - (k + 1) + 1 /\ (k + 1) + i - 1 = k + i
      BY <1>1
    <2> QED BY <2>3, <2>4, <2>5
  <1>5. m \in Seq(T) /\ Len(m) = 1 /\ m[1] = e
    OBVIOUS
  <1>6. InsertAt(s, 1 + k, e) = r \o q
    <2>1. (1 + k) - 1 = k /\ 1 + k = k + 1
      BY <1>1
    <2> QED BY <2>1 DEF InsertAt
  <1> HIDE DEF p, q, m, n
  <1>7. /\ r \in Seq(T) /\ Len(r) = k + 1
        /\ \A i \in 1 .. k + 1 : r[i] = IF i <= k THEN s[i] ELSE e
    <2>1. /\ r \in Seq(T) /\ Len(r) = Len(p) + Len(m)
          /\ \A i \in 1 .. Len(p) + Len(m) : r[i] = IF i <= Len(p) THEN p[i] ELSE m[i - Len(p)]
      BY <1>3, <1>5, ConcatProperties
    <2> HIDE DEF r
    <2>2. ASSUME NEW i \in 1 .. k + 1 PROVE r[i] = IF i <= k THEN s[i] ELSE e
      <3>1. CASE i <= k
        <4>1. i \in 1 .. k
          BY <1>1, <3>1
        <4> QED BY <1>3, <1>5, <2>1, <3>1, <4>1
      <3>2. CASE ~(i <= k)
        <4>1. i - k = 1
          BY <1>1, <3>2
        <4> QED BY <1>3, <1>5, <2>1, <3>2, <4>1
      <3> QED BY <3>1, <3>2
    <2> QED BY <1>3, <1>5, <2>1, <2>2
  <1> HIDE DEF r
  <1>8. /\ r \o q \in Seq(T) /\ Len(r \o q) = Len(r) + Len(q)
        /\ \A i \in 1 .. Len(r) + Len(q) : (r \o q)[i] = IF i <= Len(r) THEN r[i] ELSE q[i - Len(r)]
    BY <1>4, <1>7, ConcatProperties
  <1>9. Len(r) + Len(q) = n + 1
    BY <1>1, <1>4, <1>7
  <1>10. ASSUME NEW i \in 1 .. n + 1
         PROVE  (r \o q)[i] = IF i <= k THEN s[i] ELSE IF i = k + 1 THEN e ELSE s[i - 1]
    <2>1. CASE i <= k + 1
      <3>1. i \in 1 .. k + 1 /\ (~(i <= k) => i = k + 1)
        BY <1>1, <2>1
      <3> QED BY <1>7, <1>8, <1>9, <2>1, <3>1
    <2>2. CASE ~(i <= k + 1)
      <3>1. /\ i - (k + 1) \in 1 .. n - k /\ k + (i - (k + 1)) = i - 1
            /\ ~(i <= k) /\ i # k + 1
        BY <1>1, <2>2
      <3> QED BY <1>4, <1>7, <1>8, <1>9, <2>2, <3>1
    <2> QED BY <2>1, <2>2
  <1> QED BY <1>6, <1>8, <1>9, <1>10 DEF n

(* An interval is put where the order needs it.                            *)
LEMMA PlacedInOrder ==
    ASSUME NEW s \in Seq(WholeIntervals), NEW b \in WholeIntervals, InOrderByStart(s)
    PROVE  Placed(s, b) \in Seq(WholeIntervals) /\ InOrderByStart(Placed(s, b))
  <1> DEFINE n == Len(s)
             P == {k \in DOMAIN s : StartsBefore(s[k], b)}
             p == Cardinality(P)
             t == Placed(s, b)
  <1>1. n \in Nat /\ DOMAIN s = 1 .. n /\ \A k \in 1 .. n : s[k] \in WholeIntervals
    BY LenProperties, ElementOfSeq
  <1>2. \A j \in 1 .. n, k \in P : j < k => j \in P
    <2>1. ASSUME NEW j \in 1 .. n, NEW k \in P, j < k PROVE StartsBefore(s[j], b)
      <3>1. StartsBefore(s[j], s[k]) /\ StartsBefore(s[k], b) /\ k \in 1 .. n
        BY <1>1, <2>1 DEF InOrderByStart
      <3> QED BY <1>1, <3>1, StartsFacts
    <2> QED BY <1>1, <2>1
  <1>3. p \in 0 .. n /\ P = 1 .. p
    <2>1. P \in SUBSET (1 .. n)
      BY <1>1
    <2> HIDE DEF P, n
    <2> QED BY <1>1, <1>2, <2>1, FirstPositions
  <1>4. t = InsertAt(s, 1 + p, b)
    BY DEF Placed
  <1>5. \A k \in 1 .. n : /\ k <= p => StartsBefore(s[k], b)
                          /\ k > p => StartsBefore(b, s[k])
    <2>1. ASSUME NEW k \in 1 .. n, k <= p PROVE StartsBefore(s[k], b)
      <3>1. k \in 1 .. p
        <4> HIDE DEF p
        <4> QED BY <1>3, <2>1
      <3> QED BY <1>3, <3>1
    <2>2. ASSUME NEW k \in 1 .. n, k > p PROVE StartsBefore(b, s[k])
      <3>1. k \notin 1 .. p
        <4> HIDE DEF p
        <4> QED BY <1>3, <2>2
      <3>2. ~StartsBefore(s[k], b)
        BY <1>1, <1>3, <3>1
      <3> QED BY <1>1, <3>2, StartsFacts
    <2> QED BY <2>1, <2>2
  <1> HIDE DEF P, p, t
  <1>6. /\ t \in Seq(WholeIntervals) /\ Len(t) = n + 1
        /\ \A i \in 1 .. n + 1 : t[i] = IF i <= p THEN s[i] ELSE IF i = p + 1 THEN b ELSE s[i - 1]
    <2>1. p \in 0 .. Len(s)
      BY <1>3
    <2>2. /\ InsertAt(s, 1 + p, b) \in Seq(WholeIntervals) /\ Len(InsertAt(s, 1 + p, b)) = Len(s) + 1
          /\ \A i \in 1 .. Len(s) + 1 :
               InsertAt(s, 1 + p, b)[i] = IF i <= p THEN s[i] ELSE IF i = p + 1 THEN b ELSE s[i - 1]
      BY <2>1, InsertedAt
    <2> QED BY <1>4, <2>2
  <1>7. DOMAIN t = 1 .. n + 1
    BY <1>6, LenProperties
  <1>8. ASSUME NEW j \in 1 .. n + 1, NEW k \in 1 .. n + 1, j < k
        PROVE  StartsBefore(t[j], t[k])
    <2> HIDE DEF n
    <2>1. /\ j <= p => j \in 1 .. n /\ t[j] = s[j]
          /\ j = p + 1 => t[j] = b
          /\ j > p + 1 => j - 1 \in 1 .. n /\ j - 1 > p /\ t[j] = s[j - 1]
      BY <1>1, <1>3, <1>6
    <2>2. /\ k <= p => k \in 1 .. n /\ t[k] = s[k]
          /\ k = p + 1 => t[k] = b
          /\ k > p + 1 => k - 1 \in 1 .. n /\ k - 1 > p /\ t[k] = s[k - 1]
      BY <1>1, <1>3, <1>6
    <2>3. CASE k <= p
      <3>1. j <= p
        BY <1>1, <1>3, <1>8, <2>3
      <3> QED BY <1>1, <1>8, <2>1, <2>2, <2>3, <3>1 DEF InOrderByStart
    <2>4. CASE k = p + 1
      <3>1. j <= p
        BY <1>1, <1>3, <1>8, <2>4
      <3> QED BY <1>5, <2>1, <2>2, <2>4, <3>1
    <2>5. CASE k > p + 1
      <3>1. CASE j <= p
        <4>1. j < k - 1 /\ j \in 1 .. n /\ k - 1 \in 1 .. n
          BY <1>1, <1>3, <2>1, <2>2, <2>5, <3>1
        <4> QED BY <1>1, <2>1, <2>2, <2>5, <3>1, <4>1 DEF InOrderByStart
      <3>2. CASE j = p + 1
        BY <1>5, <2>1, <2>2, <2>5, <3>2
      <3>3. CASE j > p + 1
        <4>1. j - 1 < k - 1 /\ j - 1 \in 1 .. n /\ k - 1 \in 1 .. n
          BY <1>1, <1>3, <1>8, <2>1, <2>2, <2>5, <3>3
        <4> QED BY <1>1, <2>1, <2>2, <2>5, <3>3, <4>1 DEF InOrderByStart
      <3>4. j <= p \/ j = p + 1 \/ j > p + 1
        BY <1>1, <1>3
      <3> QED BY <3>1, <3>2, <3>3, <3>4
    <2>6. k <= p \/ k = p + 1 \/ k > p + 1
      BY <1>1, <1>3
    <2> QED BY <2>3, <2>4, <2>5, <2>6
  <1> QED BY <1>6, <1>7, <1>8 DEF t, InOrderByStart

(* Sorting puts intervals in order.                                        *)
LEMMA SortedInOrder ==
    ASSUME NEW s \in Seq(WholeIntervals)
    PROVE  InOrderByStart(Sorted(s))
  <1> DEFINE C == {c \in Seq(WholeIntervals) : InOrderByStart(c)}
             n == Len(s)
  <1>1. n \in Nat /\ \A k \in 1 .. n : s[k] \in WholeIntervals
    BY LenProperties, ElementOfSeq
  <1>2. <<>> \in C
    BY EmptySeq DEF InOrderByStart
  <1>3. \A c \in C, b \in WholeIntervals : Placed(c, b) \in C
    BY PlacedInOrder
  <1> HIDE DEF C
  <1>4. PICK g : Sorts(g, s)
    BY <1>2, <1>3, SortedSteps
  <1> DEFINE K == {k \in 0 .. n : g[k] \in C}
  <1>5. 0 \in K
    BY <1>1, <1>2, <1>4 DEF Sorts
  <1>6. ASSUME NEW k \in 0 .. n - 1, k \in K PROVE k + 1 \in K
    <2>1. k + 1 \in 0 .. n /\ k + 1 \in 1 .. n
      BY <1>1
    <2>2. g[k + 1] = Placed(g[k], s[k + 1])
      BY <1>4 DEF Sorts
    <2> QED BY <1>1, <1>3, <1>6, <2>1, <2>2
  <1>7. n \in K
    <2> HIDE DEF K, n
    <2>1. \A k \in 0 .. n : k \in K
      BY <1>1, <1>5, <1>6, HoldsUpTo
    <2> QED BY <1>1, <2>1
  <1> QED BY <1>4, <1>7 DEF Sorts, C

(* What the scan of k intervals leaves: current is not covered by them,    *)
(* and once there is a gap no interval holds some whole number of a.       *)
Missed(a, t, x) == x \in Int /\ IsWhole(x) /\ Inside(a, x) /\ \A j \in DOMAIN t : ~Inside(t[j], x)

Left(a, t, k, s) ==
    /\ s.verdict = "scanning" =>
         /\ s.current = Absent => k = 0 /\ a.lower.at = Absent
         /\ s.current # Absent =>
              /\ IsWhole(s.current) /\ Inside(a, s.current)
              /\ \A j \in 1 .. k : t[j].upper.at # Absent /\ t[j].upper.at < s.current
    /\ s.verdict = "gap" => \E x : Missed(a, t, x)

(* One interval more, where the intervals come by their start.             *)
LEMMA GapStep ==
    ASSUME NEW a \in WholeIntervals, NEW x0 \in Int, IsWhole(x0), Inside(a, x0),
           NEW t \in Seq(WholeIntervals), InOrderByStart(t), NEW k \in 0 .. Len(t) - 1,
           NEW s \in ScanStates, Left(a, t, k, s)
    PROVE  LET n == Scan(a, s, t[k + 1]) IN n \in ScanStates /\ Left(a, t, k + 1, n)
  <1> DEFINE i == t[k + 1]
             low == i.lower.at
             high == i.upper.at
             n == Scan(a, s, i)
             at == s.current
             next == high + Unit
             current == IF at = Absent THEN next ELSE LargerOf(at, next)
  <1>1. /\ Len(t) \in Nat /\ k + 1 \in 1 .. Len(t) /\ DOMAIN t = 1 .. Len(t) /\ k \in Nat
        /\ \A j \in 1 .. Len(t) : t[j] \in WholeIntervals
    BY LenProperties, ElementOfSeq
  <1>2. Unit \in Nat \ {0} /\ Absent \notin Int
    BY UnitAssumption, AbsentAssumption
  <1>3. \A j \in WholeIntervals : j.lower.at \in WholeEnd /\ j.upper.at \in WholeEnd
    BY DEF WholeIntervals
  <1>4. /\ low \in WholeEnd /\ high \in WholeEnd
        /\ a.lower.at \in WholeEnd /\ a.upper.at \in WholeEnd
    BY <1>1, <1>3
  <1>5. \A e \in WholeEnd : e \in Int \cup {Absent} /\ (e # Absent => e \in Int /\ IsWhole(e))
    BY DEF WholeEnd
  <1>6. at \in Int \cup {Absent} /\ s.verdict \in {"scanning", "gap", "covered"}
    BY DEF ScanStates
  <1>7. CASE s.verdict # "scanning"
    <2>1. n = s
      BY <1>7 DEF Scan
    <2>2. Left(a, t, k + 1, s)
      BY <1>7 DEF Left
    <2> QED BY <2>1, <2>2
  <1>8. CASE s.verdict = "scanning" /\ low # Absent /\ (at = Absent \/ low > at)
    <2>1. n = [s EXCEPT !.verdict = "gap"]
      BY <1>8 DEF Scan
    <2>2. n.verdict = "gap" /\ n \in ScanStates
      BY <2>1 DEF ScanStates
    <2>3. low \in Int /\ IsWhole(low)
      BY <1>4, <1>5, <1>8
    <2>4. \A j \in k + 1 .. Len(t) : t[j].lower.at \in Int /\ low <= t[j].lower.at
      <3>1. ASSUME NEW j \in k + 1 .. Len(t)
            PROVE  t[j].lower.at \in Int /\ low <= t[j].lower.at
        <4>1. CASE j = k + 1
          BY <2>3, <4>1
        <4>2. CASE j # k + 1
          <5>1. k + 1 < j /\ j \in 1 .. Len(t)
            BY <1>1, <4>2
          <5>2. StartsBefore(i, t[j])
            BY <1>1, <5>1 DEF InOrderByStart
          <5>3. t[j].lower.at \in Int \cup {Absent}
            BY <1>1, <1>3, <1>5, <5>1
          <5> QED BY <1>2, <1>8, <5>2, <5>3 DEF StartsBefore
        <4> QED BY <4>1, <4>2
      <3> QED BY <3>1
    <2>5. \E x : Missed(a, t, x)
      <3>1. CASE at # Absent
        <4>1. /\ at \in Int /\ IsWhole(at) /\ Inside(a, at)
              /\ \A j \in 1 .. k : t[j].upper.at # Absent /\ t[j].upper.at < at
          BY <1>6, <1>8, <3>1 DEF Left
        <4>2. \A j \in 1 .. Len(t) : ~Inside(t[j], at)
          <5>1. ASSUME NEW j \in 1 .. Len(t) PROVE ~Inside(t[j], at)
            <6>1. CASE j \in 1 .. k
              <7>1. t[j].upper.at \in Int /\ t[j].upper.at < at /\ t[j].upper.at # Absent
                BY <1>1, <1>3, <1>5, <4>1, <6>1
              <7> QED BY <4>1, <7>1 DEF Inside
            <6>2. CASE j \notin 1 .. k
              <7>1. j \in k + 1 .. Len(t)
                BY <1>1, <6>2
              <7>2. t[j].lower.at \in Int /\ low <= t[j].lower.at
                BY <2>4, <7>1
              <7>3. at < t[j].lower.at
                BY <1>8, <2>3, <3>1, <4>1, <7>2
              <7> QED BY <1>2, <4>1, <7>2, <7>3 DEF Inside
            <6> QED BY <6>1, <6>2
          <5> QED BY <5>1
        <4>3. Missed(a, t, at)
          BY <1>1, <4>1, <4>2 DEF Missed
        <4> QED BY <4>3
      <3>2. CASE at = Absent
        <4>1. k = 0 /\ a.lower.at = Absent
          BY <1>8, <3>2 DEF Left
        <4> DEFINE before == low - Unit
        <4>2. before \in Int /\ IsWhole(before) /\ before < low
          <5>1. IsWhole(before)
            BY <1>2, <2>3, MultiplesAdd DEF IsWhole, IsMultiple
          <5> QED BY <1>2, <2>3, <5>1
        <4> HIDE DEF before
        <4>3. \E x \in Int : IsWhole(x) /\ Inside(a, x) /\ x < low
          <5>1. CASE a.upper.at # Absent /\ a.upper.at < before
            <6>1. a.upper.at \in Int /\ IsWhole(a.upper.at)
              BY <1>4, <1>5, <5>1
            <6>2. a.upper.at < low /\ Inside(a, a.upper.at)
              BY <2>3, <4>1, <4>2, <5>1, <6>1 DEF Inside
            <6> QED BY <6>1, <6>2
          <5>2. CASE ~(a.upper.at # Absent /\ a.upper.at < before)
            <6>1. Inside(a, before)
              BY <1>4, <1>5, <4>1, <4>2, <5>2 DEF Inside
            <6> QED BY <4>2, <6>1
          <5> QED BY <5>1, <5>2
        <4>4. PICK x \in Int : IsWhole(x) /\ Inside(a, x) /\ x < low
          BY <4>3
        <4>5. \A j \in 1 .. Len(t) : ~Inside(t[j], x)
          <5>1. ASSUME NEW j \in 1 .. Len(t) PROVE ~Inside(t[j], x)
            <6>1. t[j].lower.at \in Int /\ low <= t[j].lower.at
              BY <1>1, <2>4, <4>1
            <6>2. x < t[j].lower.at
              BY <2>3, <4>4, <6>1
            <6> QED BY <1>2, <4>4, <6>1, <6>2 DEF Inside
          <5> QED BY <5>1
        <4>6. Missed(a, t, x)
          BY <1>1, <4>4, <4>5 DEF Missed
        <4> QED BY <4>6
      <3> QED BY <3>1, <3>2
    <2> HIDE DEF n
    <2>6. Left(a, t, k + 1, n)
      BY <2>2, <2>5 DEF Left
    <2> QED BY <2>2, <2>6 DEF n
  <1>9. CASE s.verdict = "scanning" /\ ~(low # Absent /\ (at = Absent \/ low > at))
    <2>1. CASE high = Absent
      <3>1. n = [s EXCEPT !.verdict = "covered"]
        BY <1>9, <2>1 DEF Scan
      <3>2. n.verdict = "covered" /\ n \in ScanStates
        BY <3>1 DEF ScanStates
      <3> HIDE DEF n
      <3>3. Left(a, t, k + 1, n)
        BY <3>2 DEF Left
      <3> QED BY <3>2, <3>3 DEF n
    <2>2. CASE high # Absent
      <3>1. n = [current |-> current,
                 verdict |-> IF Beyond(a, current) THEN "covered" ELSE "scanning"]
        BY <1>9, <2>2 DEF Scan
      <3>2. high \in Int /\ IsWhole(high)
        BY <1>4, <1>5, <2>2
      <3>3. IsWhole(next) /\ next \in Int /\ high < next
        <4>1. IsWhole(next)
          BY <1>2, <3>2, MultiplesAdd DEF IsWhole, IsMultiple
        <4> QED BY <1>2, <3>2, <4>1
      <3> HIDE DEF next
      <3>4. at # Absent =>
              /\ at \in Int /\ IsWhole(at) /\ Inside(a, at)
              /\ \A j \in 1 .. k : t[j].upper.at # Absent /\ t[j].upper.at < at
        BY <1>6, <1>9 DEF Left
      <3>5. /\ current \in Int /\ IsWhole(current) /\ next <= current
            /\ at # Absent => at <= current
        BY <3>3, <3>4 DEF LargerOf
      <3>6. /\ at = Absent => k = 0 /\ a.lower.at = Absent
        BY <1>9 DEF Left
      <3> HIDE DEF current
      <3>7. a.lower.at # Absent => a.lower.at <= current
        <4>1. ASSUME a.lower.at # Absent PROVE a.lower.at <= current
          <5>1. at # Absent /\ at \in Int /\ a.lower.at \in Int
            BY <1>4, <1>5, <3>4, <3>6, <4>1
          <5>2. a.lower.at <= at
            BY <3>4, <4>1, <5>1 DEF Inside
          <5> QED BY <3>5, <5>1, <5>2
        <4> QED BY <4>1
      <3>8. \A j \in 1 .. k + 1 : t[j].upper.at # Absent /\ t[j].upper.at < current
        <4>1. ASSUME NEW j \in 1 .. k + 1 PROVE t[j].upper.at # Absent /\ t[j].upper.at < current
          <5>1. CASE j = k + 1
            BY <2>2, <3>2, <3>3, <3>5, <5>1
          <5>2. CASE j # k + 1
            <6>1. j \in 1 .. k /\ j \in 1 .. Len(t)
              BY <1>1, <5>2
            <6>2. k # 0
              BY <6>1
            <6>3. at # Absent
              BY <3>6, <6>2
            <6>4. t[j].upper.at # Absent /\ t[j].upper.at < at /\ t[j].upper.at \in Int
              BY <1>1, <1>3, <1>5, <3>4, <6>1, <6>3
            <6> QED BY <3>4, <3>5, <6>3, <6>4
          <5> QED BY <5>1, <5>2
        <4> QED BY <4>1
      <3>9. /\ n.current = current /\ n \in ScanStates /\ n.verdict # "gap"
            /\ n.verdict = "scanning" => ~Beyond(a, current)
        BY <3>1, <3>5 DEF ScanStates
      <3> HIDE DEF n
      <3>10. current # Absent
        BY <1>2, <3>5
      <3>11. n.verdict = "scanning" => Inside(a, current)
        <4>1. a.upper.at # Absent => a.upper.at \in Int
          BY <1>4, <1>5
        <4>2. a.lower.at # Absent => a.lower.at \in Int
          BY <1>4, <1>5
        <4>3. n.verdict = "scanning" => (a.upper.at # Absent => current <= a.upper.at)
          BY <3>5, <3>9, <3>10, <4>1 DEF Beyond
        <4> QED BY <3>5, <3>7, <4>2, <4>3 DEF Inside
      <3>12. Left(a, t, k + 1, n)
        BY <3>5, <3>8, <3>9, <3>10, <3>11 DEF Left
      <3> QED BY <3>9, <3>12 DEF n
    <2> QED BY <2>1, <2>2
  <1> QED BY <1>7, <1>8, <1>9

(* Intervals that the scan does not find to cover an atom leave one of its *)
(* whole numbers out.                                                      *)
LEMMA ScanFindsGap ==
    ASSUME NEW a \in WholeIntervals, NEW x0 \in Int, IsWhole(x0), Inside(a, x0),
           NEW s \in Seq(WholeIntervals), ~IntervalsCover(a, s)
    PROVE  \E x \in Int : IsWhole(x) /\ Inside(a, x) /\ \A i \in ToSet(s) : ~Inside(i, x)
  <1> DEFINE t == Sorted(s)
             n == Len(t)
             begin == [current |-> a.lower.at, verdict |-> "scanning"]
  <1>1. t \in Seq(WholeIntervals) /\ ToSet(t) = ToSet(s) /\ InOrderByStart(t)
    BY SortedHolds, SortedInOrder
  <1> HIDE DEF t
  <1>2. n \in Nat /\ DOMAIN t = 1 .. n /\ \A k \in 1 .. n : t[k] \in WholeIntervals
    BY <1>1, LenProperties, ElementOfSeq
  <1>3. /\ a.lower.at \in Int \cup {Absent} /\ a.upper.at \in Int \cup {Absent}
        /\ a.lower.at # Absent => IsWhole(a.lower.at) /\ a.lower.at \in Int
        /\ Absent \notin Int /\ a \in Atoms
    BY AbsentAssumption DEF WholeIntervals, WholeEnd
  <1>4. begin \in ScanStates /\ Left(a, t, 0, begin)
    <2>1. begin \in ScanStates /\ begin.verdict = "scanning" /\ begin.current = a.lower.at
      BY <1>3 DEF ScanStates
    <2>2. a.lower.at # Absent => Inside(a, a.lower.at)
      <3>1. ASSUME a.lower.at # Absent PROVE Inside(a, a.lower.at)
        <4>1. a.lower.at <= x0
          BY <1>3, <3>1 DEF Inside
        <4>2. a.upper.at # Absent => x0 <= a.upper.at
          BY DEF Inside
        <4> QED BY <1>3, <3>1, <4>1, <4>2 DEF Inside
      <3> QED BY <3>1
    <2> HIDE DEF begin
    <2> QED BY <1>3, <2>1, <2>2 DEF Left
  <1>5. \A c \in ScanStates, i \in WholeIntervals : Scan(a, c, i) \in ScanStates
    <2>1. ASSUME NEW c \in ScanStates, NEW i \in WholeIntervals PROVE Scan(a, c, i) \in ScanStates
      <3> DEFINE I == WholeIntervals
      <3>1. i.upper.at \in Int \cup {Absent} /\ c.current \in Int \cup {Absent}
            /\ Unit \in Int
        BY UnitAssumption DEF WholeIntervals, WholeEnd, ScanStates
      <3>2. [c EXCEPT !.verdict = "gap"] \in ScanStates /\ [c EXCEPT !.verdict = "covered"] \in ScanStates
        BY DEF ScanStates
      <3> DEFINE next == i.upper.at + Unit
                 current == IF c.current = Absent THEN next ELSE LargerOf(c.current, next)
      <3>3. i.upper.at # Absent => current \in Int
        BY <3>1 DEF LargerOf
      <3>4. i.upper.at # Absent =>
              [current |-> current, verdict |-> IF Beyond(a, current) THEN "covered" ELSE "scanning"]
                 \in ScanStates
        <4> HIDE DEF current
        <4> QED BY <3>3 DEF ScanStates
      <3> QED BY <3>2, <3>4 DEF Scan
    <2> QED BY <2>1
  <1>6. PICK g : Scans(g, a, t)
    BY <1>1, <1>4, <1>5, ScanSteps
  <1>7. \A k \in 0 .. n : g[k] \in ScanStates /\ Left(a, t, k, g[k])
    <2> DEFINE K == {k \in 0 .. n : g[k] \in ScanStates /\ Left(a, t, k, g[k])}
    <2>1. 0 \in K
      BY <1>2, <1>4, <1>6 DEF Scans
    <2>2. ASSUME NEW k \in 0 .. n - 1, k \in K PROVE k + 1 \in K
      <3>1. k + 1 \in 0 .. n
        BY <1>2
      <3>2. g[k + 1] = Scan(a, g[k], t[k + 1])
        BY <1>6 DEF Scans
      <3>3. g[k] \in ScanStates /\ Left(a, t, k, g[k])
        BY <2>2
      <3>4. g[k + 1] \in ScanStates /\ Left(a, t, k + 1, g[k + 1])
        BY <1>1, <3>2, <3>3, GapStep
      <3> QED BY <3>1, <3>4
    <2>3. \A k \in 0 .. n : k \in K
      <3> HIDE DEF K, n
      <3> QED BY <1>2, <2>1, <2>2, HoldsUpTo
    <2> QED BY <2>3
  <1> DEFINE e == ScanEnd(a, t)
  <1>8. e \in ScanStates /\ Left(a, t, n, e)
    <2>1. e = g[n] /\ n \in 0 .. n
      BY <1>2, <1>6 DEF Scans
    <2> QED BY <1>7, <2>1
  <1>9. e.verdict # "covered" /\ ~(e.verdict = "scanning" /\ Beyond(a, e.current))
    BY DEF IntervalsCover, t
  <1> HIDE DEF e, begin
  <1>10. \E x : Missed(a, t, x)
    <2>1. CASE e.verdict = "gap"
      BY <1>8, <2>1 DEF Left
    <2>2. CASE e.verdict = "scanning" /\ e.current = Absent
      <3>1. n = 0
        BY <1>8, <2>2 DEF Left
      <3>2. DOMAIN t = {}
        BY <1>2, <3>1
      <3>3. Missed(a, t, x0)
        BY <3>2 DEF Missed
      <3> QED BY <3>3
    <2>3. CASE e.verdict = "scanning" /\ e.current # Absent
      <3>1. /\ IsWhole(e.current) /\ Inside(a, e.current) /\ e.current \in Int
            /\ \A j \in 1 .. n : t[j].upper.at # Absent /\ t[j].upper.at < e.current
        BY <1>8, <2>3 DEF Left, ScanStates
      <3>2. \A j \in 1 .. n : ~Inside(t[j], e.current)
        <4>1. ASSUME NEW j \in 1 .. n PROVE ~Inside(t[j], e.current)
          <5>1. t[j].upper.at \in Int /\ t[j].upper.at # Absent /\ t[j].upper.at < e.current
            BY <1>2, <3>1 DEF WholeIntervals, WholeEnd
          <5> QED BY <3>1, <5>1 DEF Inside
        <4> QED BY <4>1
      <3>3. Missed(a, t, e.current)
        BY <1>2, <3>1, <3>2 DEF Missed
      <3> QED BY <3>3
    <2>4. e.verdict \in {"scanning", "gap", "covered"}
      BY <1>8 DEF ScanStates
    <2> QED BY <1>9, <2>1, <2>2, <2>3, <2>4
  <1>11. PICK x : Missed(a, t, x)
    BY <1>10
  <1>12. \A i \in ToSet(s) : ~Inside(i, x)
    BY <1>1, <1>11 DEF Missed, ToSet
  <1> QED BY <1>11, <1>12 DEF Missed

(* All candidates for integer intervals are integers.                      *)
LEMMA CandidatesAreIntegers ==
    ASSUME NEW a \in IntegerAtoms, NEW others \in Seq(IntegerAtoms)
    PROVE  OwnCandidates(a) \subseteq Int /\ CandidatesAgainst(a, others) \subseteq Int
  <1> DEFINE n == Normalized(a)
  <1>1. n \in IntegerAtoms /\ Ends(n) \subseteq Int
    <2>1. n \in IntegerAtoms /\ n.lower.at \in WholeEnd /\ n.upper.at \in WholeEnd
      BY IntegerInterval
    <2> HIDE DEF n
    <2> QED BY <2>1 DEF Ends, WholeEnd
  <1>2. n.integer /\ n.multiple = Absent
    BY <1>1 DEF IntegerAtoms, PlainAtoms
  <1>3. Unit \in Int /\ 0 \in Int
    BY UnitAssumption
  <1>4. \A b \in Int : Around(b, n.integer, n.multiple) \subseteq Int
    BY <1>2, <1>3 DEF Around
  <1>5. Middle(n) \subseteq Int
    <2>1. n.lower.at \in Int \cup {Absent} /\ n.upper.at \in Int \cup {Absent}
      BY <1>1 DEF IntegerAtoms, PlainAtoms, Atoms, AtomEnds
    <2> HIDE DEF n
    <2>2. \A x, y \in Int : (x + y) \div 2 \in Int
      OBVIOUS
    <2> QED BY <2>1, <2>2 DEF Middle
  <1>6. OwnCandidates(a) \subseteq Int
    <2>1. OwnCandidates(a) = {0, Unit, -Unit}
             \cup (UNION {Around(b, n.integer, n.multiple) : b \in Ends(n)}) \cup Middle(n)
      BY <1>2 DEF OwnCandidates
    <2> HIDE DEF n
    <2> QED BY <1>1, <1>3, <1>4, <1>5, <2>1
  <1>7. \A k \in DOMAIN others :
          others[k].multiple = Absent /\ Ends(Normalized(others[k])) \subseteq Int
    <2>1. ASSUME NEW k \in DOMAIN others
          PROVE  others[k].multiple = Absent /\ Ends(Normalized(others[k])) \subseteq Int
      <3> DEFINE m == Normalized(others[k])
      <3>1. others[k] \in IntegerAtoms
        BY LenProperties, ElementOfSeq
      <3>2. m.lower.at \in WholeEnd /\ m.upper.at \in WholeEnd
        BY <3>1, IntegerInterval
      <3> HIDE DEF m
      <3>3. Ends(m) \subseteq Int
        BY <3>2 DEF Ends, WholeEnd
      <3> QED BY <3>1, <3>3 DEF m, IntegerAtoms, PlainAtoms
    <2> QED BY <2>1
  <1>8. CandidatesAgainst(a, others) \subseteq Int
    <2> DEFINE near == UNION {Ends(Normalized(others[k])) : k \in DOMAIN others}
               away == {j \in DOMAIN others : others[j].multiple # Absent}
    <2>1. near \subseteq Int /\ away = {}
      BY <1>7
    <2>2. CandidatesAgainst(a, others) =
            OwnCandidates(a) \cup (UNION {Around(b, n.integer, n.multiple) : b \in near})
              \cup (UNION {NonMultiples(n, others[k].multiple) : k \in away})
      BY DEF CandidatesAgainst
    <2> HIDE DEF n, near, away
    <2> QED BY <1>4, <1>6, <2>1, <2>2
  <1> QED BY <1>6, <1>8

(* An atom of integers that is not found to be covered has a number the    *)
(* other side leaves out.                                                  *)
LEMMA NotCoveredLeavesOut ==
    ASSUME NEW l \in IntegerAtoms, NEW d \in ConstraintsOf(IntegerAtoms), Covered(l, d) # "yes"
    PROVE  \E x \in Int : InAtom(l, x) /\ ~InConstraint(d, x)
  <1> DEFINE a == Normalized(l)
             others == NormalizedAtoms(d)
             finite == FiniteValues(a)
             intervals == IntervalsOf(others)
  <1>1. /\ a \in IntegerAtoms /\ a.lower.at \in WholeEnd /\ a.upper.at \in WholeEnd
        /\ \A y \in Int : InAtom(l, y) <=> IsWhole(y) /\ Inside(a, y)
    BY IntegerInterval
  <1>2. /\ l \in Atoms /\ a \in Atoms /\ a.integer /\ a.multiple = Absent /\ a \in WholeIntervals
    BY <1>1 DEF IntegerAtoms, PlainAtoms, WholeIntervals
  <1>3. \A y \in Int : InAtom(a, y) <=> InAtom(l, y)
    BY <1>2, RoundedTwice
  <1>4. /\ others \in Seq(IntegerAtoms) /\ others \in Seq(Atoms)
        /\ \A b \in ToSet(others) : b \in IntegerAtoms
        /\ \A y : InConstraint(d, y) <=> \E b \in ToSet(others) : InAtom(b, y)
    BY ConstraintFields, NormalizedHolds DEF IntegerAtoms, PlainAtoms
  <1>5. /\ ~IsEmptyAtom(a)
        /\ finite.known => \E x \in finite.values : ~InConstraint(d, x)
        /\ ~finite.known => CoveredByIntervals(a, others) # "yes"
    BY DEF Covered
  <1> HIDE DEF a, others
  <1>6. CASE finite.known
    <2>1. PICK x \in finite.values : ~InConstraint(d, x)
      BY <1>5, <1>6
    <2>2. Absent \notin {a.lower.at, a.upper.at}
      BY <1>6 DEF FiniteValues
    <2>3. a.lower.at \in Int /\ a.upper.at \in Int
      BY <1>1, <2>2 DEF WholeEnd
    <2>4. finite.values = {y \in {z \in a.lower.at .. a.upper.at : IsWhole(z)} : InAtom(a, y)}
      BY <1>2, <2>2 DEF FiniteValues
    <2> HIDE DEF finite
    <2>5. x \in Int /\ InAtom(a, x)
      BY <2>3, <2>4
    <2> QED BY <1>3, <2>1, <2>5
  <1>7. CASE ~finite.known
    <2>1. ~IntervalsCover(a, intervals)
      BY <1>2, <1>5, <1>7 DEF CoveredByIntervals
    <2>2. PICK x0 \in OwnCandidates(a) : InAtom(a, x0)
      BY <1>5 DEF IsEmptyAtom
    <2>3. x0 \in Int /\ IsWhole(x0) /\ Inside(a, x0)
      BY <1>1, <1>3, <1>4, <2>2, CandidatesAreIntegers
    <2>4. /\ intervals \in Seq(WholeIntervals)
          /\ \A b \in ToSet(others) : Covers(b) /\ InOrder(WholeInterval(b))
                                         => WholeInterval(b) \in ToSet(intervals)
      BY <1>4, WholeIntervalFacts, IntervalsHold
    <2>5. \A b \in ToSet(others) : InOrder(WholeInterval(b)) => WholeInterval(b) \in ToSet(intervals)
      <3>1. \A b \in ToSet(others) : Covers(b)
        BY <1>4 DEF Covers, IntegerAtoms, PlainAtoms
      <3> QED BY <2>4, <3>1
    <2> HIDE DEF intervals, finite
    <2>6. PICK x \in Int : IsWhole(x) /\ Inside(a, x) /\ \A i \in ToSet(intervals) : ~Inside(i, x)
      BY <1>2, <2>1, <2>3, <2>4, ScanFindsGap
    <2>7. \A b \in ToSet(others) : ~InAtom(b, x)
      <3>1. ASSUME NEW b \in ToSet(others), InAtom(b, x) PROVE FALSE
        <4> DEFINE m == Normalized(b)
        <4>1. b \in IntegerAtoms /\ b \in Atoms /\ b.integer = TRUE
          BY <1>4 DEF IntegerAtoms, PlainAtoms, Atoms
        <4>2. [b EXCEPT !.integer = TRUE] = b
          BY <4>1 DEF Atoms
        <4>3. WholeInterval(b) = m
          BY <4>2 DEF WholeInterval
        <4>4. m.lower.at \in WholeEnd /\ m.upper.at \in WholeEnd /\ Inside(m, x)
          BY <3>1, <4>1, IntegerInterval
        <4> HIDE DEF m
        <4>5. InOrder(m)
          BY <4>4 DEF InOrder, Inside, WholeEnd
        <4> QED BY <2>5, <2>6, <4>3, <4>4, <4>5
      <3> QED BY <3>1
    <2> QED BY <1>1, <1>4, <2>6, <2>7
  <1> QED BY <1>6, <1>7

(* Of some integers one comes before the others.                           *)
LEMMA OneComesFirst ==
    ASSUME NEW S \in SUBSET Int, S # {}
    PROVE  \E x \in S : \A y \in S : ComesFirst(x, y, TRUE)
  <1> DEFINE T == {Abs(x) : x \in S}
  <1>1. \A x \in S : Abs(x) \in Nat
    BY DEF Abs
  <1>2. PICK m \in T : \A k \in T : m <= k
    <2>1. T \in SUBSET Nat /\ T # {}
      BY <1>1
    <2> HIDE DEF T
    <2> QED BY <2>1, LeastNatural
  <1>3. PICK z \in S : Abs(z) = m
    BY <1>2
  <1>4. m \in Nat /\ \A y \in S : m <= Abs(y)
    BY <1>1, <1>2
  <1>5. \A y \in S : Abs(y) = m => y = m \/ y = -m
    BY <1>4 DEF Abs
  <1>6. PICK x \in S : Abs(x) = m /\ (-m \in S => x = -m)
    <2>1. -m \in S => Abs(-m) = m
      BY <1>4 DEF Abs
    <2> QED BY <1>3, <2>1
  <1>7. ASSUME NEW y \in S PROVE ComesFirst(x, y, TRUE)
    <2>1. CASE Abs(y) = m
      <3>1. x <= y
        BY <1>4, <1>5, <1>6, <2>1
      <3> QED BY <1>6, <2>1, <3>1 DEF ComesFirst
    <2>2. CASE Abs(y) # m
      <3>1. Abs(x) < Abs(y)
        BY <1>1, <1>4, <1>6, <2>2
      <3> QED BY <3>1 DEF ComesFirst
    <2> QED BY <2>1, <2>2
  <1> QED BY <1>7

(* A witness that some atom has is found.                                  *)
LEMMA WitnessIsFound ==
    ASSUME NEW c \in ConstraintsOf(IntegerAtoms), NEW d \in ConstraintsOf(IntegerAtoms),
           NEW a \in ToSet(NormalizedAtoms(c)), Witnesses(a, d) # {}
    PROVE  FirstWitness(c, d) # Absent
  <1> DEFINE atoms == NormalizedAtoms(c)
             n == Len(atoms)
             having == {k \in DOMAIN atoms : Witnesses(atoms[k], d) # {}}
             first == atoms[Min(having)]
             found == Witnesses(first, d)
  <1>1. atoms \in Seq(IntegerAtoms) /\ NormalizedAtoms(d) \in Seq(IntegerAtoms)
    BY ConstraintFields, NormalizedHolds
  <1>2. n \in Nat /\ DOMAIN atoms = 1 .. n /\ \A k \in 1 .. n : atoms[k] \in IntegerAtoms
    BY <1>1, LenProperties, ElementOfSeq
  <1>3. having # {} /\ having \in SUBSET Nat /\ having \subseteq 1 .. n
    BY <1>2 DEF ToSet
  <1>4. Min(having) \in having
    <2> HIDE DEF having
    <2>1. \E k \in having : \A j \in having : k <= j
      BY <1>3, LeastNatural
    <2> QED BY <2>1 DEF Min
  <1>5. first \in IntegerAtoms /\ found # {}
    BY <1>2, <1>4
  <1> HIDE DEF having, atoms, n
  <1> HIDE DEF first
  <1>6. found \subseteq Int /\ first.integer = TRUE
    <2>1. CandidatesAgainst(first, NormalizedAtoms(d)) \subseteq Int
      BY <1>1, <1>5, CandidatesAreIntegers
    <2> QED BY <1>5, <2>1 DEF Witnesses, IntegerAtoms, PlainAtoms, Atoms
  <1> HIDE DEF found
  <1>7. \E x \in found : \A y \in found : ComesFirst(x, y, first.integer)
    BY <1>5, <1>6, OneComesFirst
  <1>8. FirstWitness(c, d) = CHOOSE x \in found : \A y \in found : ComesFirst(x, y, first.integer)
    BY <1>3 DEF FirstWitness, found, first, having, atoms
  <1>9. FirstWitness(c, d) \in found
    BY <1>7, <1>8
  <1> QED BY <1>6, <1>9, AbsentAssumption

(* A question about integer intervals only.                                *)
PlainQuestion == OnlyIntegerIntervals(query.lhs) /\ OnlyIntegerIntervals(query.rhs)

(* Such a question stays clear of the solver: whenever the prover looks    *)
(* for a witness, some atom has one.                                       *)
Decided ==
    /\ Compiled
    /\ PlainQuestion =>
         /\ phase # "solver"
         /\ phase = "atoms" => todo \in Seq(ToSet(NormalizedAtoms(lhs)))
         /\ phase = "witness" => \E a \in ToSet(NormalizedAtoms(lhs)) : Witnesses(a, rhs) # {}

(* Both sides of such a question are unions of integer intervals.          *)
LEMMA PlainSides ==
    ASSUME Compiled, phase # "compile", PlainQuestion
    PROVE  lhs \in ConstraintsOf(IntegerAtoms) /\ rhs \in ConstraintsOf(IntegerAtoms)
  <1>1. query.lhs \in Schemas /\ query.rhs \in Schemas
    BY SidesFit DEF Compiled
  <1> QED BY <1>1, CompilesToIntegers DEF Compiled, PlainQuestion

(* The atoms taken in turn are the atoms of the constraint.                *)
LEMMA AtomsAreTheirs ==
    ASSUME NEW T, NEW s \in Seq(T)
    PROVE  s \in Seq(ToSet(s))
  <1>1. Len(s) \in Nat /\ DOMAIN s = 1 .. Len(s) /\ s \in [1 .. Len(s) -> T]
    BY LenProperties
  <1>2. \A k \in 1 .. Len(s) : s[k] \in ToSet(s)
    BY <1>1 DEF ToSet
  <1> QED BY <1>1, <1>2, IsASeq

(* An atom that is not found to be covered has a witness.                  *)
LEMMA DecidedCover ==
    ASSUME Decided, CoverAtom
    PROVE  Decided'
  <1> DEFINE a == Head(todo)
             theirs == ToSet(NormalizedAtoms(lhs))
             covered == Covered(a, rhs)
  <1>1. phase = "atoms" /\ todo # <<>> /\ Compiled
    BY DEF CoverAtom, Decided
  <1>2. /\ UNCHANGED <<query, lhs, rhs>>
        /\ \/ covered = "yes" /\ todo' = Tail(todo) /\ phase' = phase
           \/ covered # "yes" /\ phase' = "witness"
           \/ covered # "yes" /\ phase' = "solver" /\ Witnesses(a, rhs) = {}
    BY DEF CoverAtom, GoTo
  <1>3. Compiled'
    BY <1>1, <1>2 DEF Compiled
  <1>4. CASE ~PlainQuestion
    BY <1>2, <1>3, <1>4 DEF Decided, PlainQuestion
  <1>5. CASE PlainQuestion
    <2>1. /\ lhs \in ConstraintsOf(IntegerAtoms) /\ rhs \in ConstraintsOf(IntegerAtoms)
      BY <1>1, <1>5, PlainSides
    <2>2. todo \in Seq(theirs)
      BY <1>1, <1>5 DEF Decided
    <2>3. a \in theirs /\ Tail(todo) \in Seq(theirs)
      <3> HIDE DEF theirs
      <3> QED BY <1>1, <2>2, HeadTailProperties
    <2>4. a \in IntegerAtoms
      BY <2>1, <2>3, ConstraintFields, NormalizedHolds
    <2> HIDE DEF a
    <2>5. covered # "yes" => Witnesses(a, rhs) # {}
      <3>1. ASSUME covered # "yes" PROVE Witnesses(a, rhs) # {}
        <4>1. PICK x \in Int : InAtom(a, x) /\ ~InConstraint(rhs, x)
          BY <2>1, <2>4, <3>1, NotCoveredLeavesOut
        <4> QED BY <2>1, <2>4, <4>1, GapHasWitness
      <3> QED BY <3>1
    <2> HIDE DEF covered
    <2>6. theirs' = theirs /\ \A b : Witnesses(b, rhs) = Witnesses(b, rhs)'
      BY <1>2
    <2> HIDE DEF theirs
    <2>7. /\ phase' # "solver"
          /\ phase' = "atoms" => todo' \in Seq(theirs)
          /\ phase' = "witness" => \E b \in theirs : Witnesses(b, rhs) # {}
      BY <1>1, <1>2, <2>2, <2>3, <2>5
    <2> QED BY <1>2, <1>3, <2>7 DEF Decided, PlainQuestion, theirs
  <1> QED BY <1>4, <1>5

(* Inclusion of unions of integer intervals never needs the solver, for    *)
(* every query: an atom the code does not find covered has a number the    *)
(* other side leaves out, the nearest border of that gap is one of the     *)
(* candidates, and so a witness is found.                                  *)
THEOREM IntegerIntervalsDecided == Spec => []IntegerIntervalsAreDecided
  <1>1. Init => Decided
    BY DEF Init, Decided, Compiled
  <1>2. Decided /\ [Next]_vars => Decided'
    <2> SUFFICES ASSUME Decided, [Next]_vars PROVE Decided'
      OBVIOUS
    <2>1. Compiled
      BY DEF Decided
    <2>2. CASE Compile
      BY <2>1, <2>2 DEF Compile, Decided, Compiled
    <2>3. CASE PlanDifference
      <3>1. /\ phase = "plan" /\ UNCHANGED <<query, lhs, rhs>>
            /\ \/ phase' = "done"
               \/ phase' = "atoms" /\ todo' = NormalizedAtoms(lhs)
        BY <2>3 DEF PlanDifference, Counterexample, Finish
      <3>2. Compiled'
        BY <2>1, <3>1 DEF Compiled
      <3>3. PlainQuestion => NormalizedAtoms(lhs) \in Seq(ToSet(NormalizedAtoms(lhs)))
        <4>1. PlainQuestion => NormalizedAtoms(lhs) \in Seq(IntegerAtoms)
          BY <2>1, <3>1, PlainSides, ConstraintFields, NormalizedHolds
        <4> QED BY <4>1, AtomsAreTheirs
      <3> QED BY <3>1, <3>2, <3>3 DEF Decided, PlainQuestion
    <2>4. CASE CoverAtom
      BY <2>4, DecidedCover
    <2>5. CASE AllCovered \/ DecideDisjoint \/ DecideEmpty
      BY <2>1, <2>5 DEF AllCovered, DecideDisjoint, DecideEmpty, Finish, Decided, Compiled
    <2>6. CASE TryWitness
      <3>1. /\ phase = "witness" /\ UNCHANGED <<query, lhs, rhs>>
            /\ \/ phase' = "done"
               \/ phase' = "solver" /\ FirstWitness(lhs, rhs) = Absent
        BY <2>6 DEF TryWitness, GoTo, Counterexample, Finish
      <3>2. Compiled'
        BY <2>1, <3>1 DEF Compiled
      <3>3. PlainQuestion => FirstWitness(lhs, rhs) # Absent
        <4>1. ASSUME PlainQuestion PROVE FirstWitness(lhs, rhs) # Absent
          <5>1. lhs \in ConstraintsOf(IntegerAtoms) /\ rhs \in ConstraintsOf(IntegerAtoms)
            BY <2>1, <3>1, <4>1, PlainSides
          <5>2. PICK a \in ToSet(NormalizedAtoms(lhs)) : Witnesses(a, rhs) # {}
            BY <3>1, <4>1 DEF Decided
          <5> QED BY <5>1, <5>2, WitnessIsFound
        <4> QED BY <4>1
      <3> QED BY <3>1, <3>2, <3>3 DEF Decided, PlainQuestion
    <2>7. CASE AskSolver
      <3>1. phase = "solver" /\ UNCHANGED <<query, lhs, rhs>> /\ phase' = "done"
        BY <2>7 DEF AskSolver, Counterexample, Finish
      <3> QED BY <2>1, <3>1 DEF Decided, Compiled
    <2>8. CASE UNCHANGED vars
      BY <2>1, <2>8 DEF vars, Decided, Compiled, PlainQuestion
    <2> QED BY <2>2, <2>3, <2>4, <2>5, <2>6, <2>7, <2>8 DEF Next
  <1>3. Decided => IntegerIntervalsAreDecided
    BY DEF Decided, PlainQuestion, IntegerIntervalsAreDecided
  <1> QED BY <1>1, <1>2, <1>3, PTL DEF Spec
=============================================================================

-------------------------- MODULE RsaDebuggerProofs --------------------------
(***************************************************************************)
(* Theorems about RsaDebugger, for every set of numbers that may be typed, *)
(* of messages and of targets.                                             *)
(*                                                                         *)
(* The first half is number theory, up to what rsa.go takes for granted:   *)
(* that e has an inverse when it is coprime to p - 1 and to q - 1, that    *)
(* encryption undoes decryption, and that next_prime() finds a prime.      *)
(* Induction is over sets: a set of naturals that holds 0 and the          *)
(* successor of each member holds them all, because what is left out has   *)
(* no least member.                                                        *)
(*                                                                         *)
(* The second half is about the debugger.  KeyConsistent is inductive once *)
(* the fields are integers and a set p or q is known to differ from the -1 *)
(* that stands for "unset"; the rest follows from which keys the setters   *)
(* let through, and from what is held.                                     *)
(***************************************************************************)
EXTENDS RsaDebugger, WellFoundedInduction, TLAPS

-----------------------------------------------------------------------------
(* Induction and recursion over the naturals                               *)

(* A set of naturals with a member has a least one.                        *)
LEMMA Least ==
  ASSUME NEW T, T \subseteq Nat, T # {}
  PROVE  \E x \in T : \A y \in T : x <= y
<1> DEFINE R == OpToRel(<, Nat)
<1>1. IsWellFoundedOn(R, Nat)
  BY NatLessThanWellFounded
<1>2. \A x, y \in Nat : x < y => <<x, y>> \in R
  BY DEF OpToRel
<1> HIDE DEF R
<1>3. PICK x \in T : \A y \in T : ~(<<y, x>> \in R)
  BY <1>1, WFMin
<1>4. \A y \in T : x \in Nat /\ y \in Nat /\ ~(y < x)
  BY <1>2, <1>3
<1>5. \A y \in T : x <= y
  BY <1>4
<1> QED
  BY <1>5

(* Induction, for sets.                                                    *)
LEMMA Induction ==
  ASSUME NEW S, 0 \in S, \A n \in Nat : n \in S => n + 1 \in S
  PROVE  Nat \subseteq S
<1> SUFFICES ASSUME Nat \ S # {} PROVE FALSE
  OBVIOUS
<1>1. PICK x \in Nat \ S : \A y \in Nat \ S : x <= y
  BY Least
<1>2. x # 0 /\ x - 1 \in Nat /\ x - 1 \in S
  BY <1>1
<1> QED
  BY <1>2

(* f is what G makes of a, step by step, up to n.                          *)
Iterates(f, V, a, G, n) ==
  /\ f \in [0..n -> V]
  /\ f[0] = a
  /\ \A k \in 0..(n - 1) : f[k + 1] = G[k][f[k]]

(* Every finite number of steps can be taken.                              *)
LEMMA IteratesExist ==
  ASSUME NEW V, NEW a \in V, NEW G \in [Nat -> [V -> V]]
  PROVE  \A n \in Nat : \E f : Iterates(f, V, a, G, n)
<1> DEFINE S == {n \in Nat : \E f : Iterates(f, V, a, G, n)}
<1>1. 0 \in S
  <2>1. Iterates([k \in 0..0 |-> a], V, a, G, 0)
    BY DEF Iterates
  <2> QED
    BY <2>1
<1>2. ASSUME NEW n \in Nat, n \in S PROVE n + 1 \in S
  <2>1. PICK f : Iterates(f, V, a, G, n)
    BY <1>2
  <2> DEFINE g == [k \in 0..(n + 1) |-> IF k <= n THEN f[k] ELSE G[n][f[n]]]
  <2>2. f[n] \in V /\ G[n][f[n]] \in V
    BY <2>1 DEF Iterates
  <2>3. g \in [0..(n + 1) -> V]
    BY <2>1, <2>2 DEF Iterates
  <2>4. g[0] = a /\ g[n + 1] = G[n][f[n]] /\ \A k \in 0..n : g[k] = f[k]
    BY <2>1 DEF Iterates
  <2>5. ASSUME NEW k \in 0..n PROVE g[k + 1] = G[k][g[k]]
    <3>1. CASE k = n
      BY <2>4, <3>1
    <3>2. CASE k # n
      <4>1. k \in 0..(n - 1) /\ k + 1 \in 0..n
        BY <3>2
      <4> QED
        BY <2>1, <2>4, <4>1 DEF Iterates
    <3> QED
      BY <3>1, <3>2
  <2>6. n + 1 - 1 = n
    OBVIOUS
  <2> HIDE DEF g
  <2>7. Iterates(g, V, a, G, n + 1)
    BY <2>3, <2>4, <2>5, <2>6 DEF Iterates
  <2> QED
    BY <2>7
<1> HIDE DEF S
<1>3. Nat \subseteq S
  BY <1>1, <1>2, Induction
<1> QED
  BY <1>3 DEF S

(* Two runs of the same steps agree as far as both go.                     *)
LEMMA IteratesAgree ==
  ASSUME NEW V, NEW a \in V, NEW G \in [Nat -> [V -> V]],
         NEW m \in Nat, NEW n \in Nat, m <= n, NEW f, NEW g,
         Iterates(f, V, a, G, m), Iterates(g, V, a, G, n)
  PROVE  f[m] = g[m]
<1> DEFINE S == {k \in Nat : k <= m => f[k] = g[k]}
<1>1. 0 \in S
  BY DEF Iterates
<1>2. ASSUME NEW k \in Nat, k \in S PROVE k + 1 \in S
  <2> SUFFICES ASSUME k + 1 <= m PROVE f[k + 1] = g[k + 1]
    OBVIOUS
  <2>1. k \in 0..(m - 1) /\ k \in 0..(n - 1) /\ f[k] = g[k]
    BY <1>2
  <2> QED
    BY <2>1 DEF Iterates
<1> HIDE DEF S
<1>3. m \in S
  BY <1>1, <1>2, Induction
<1> QED
  BY <1>3 DEF S

(* Recursion over the naturals.                                            *)
Recursive(f, V, a, G) ==
  f \in [Nat -> V] /\ f[0] = a /\ \A n \in Nat : f[n + 1] = G[n][f[n]]

(* A function may be defined by its first value and a step.                *)
LEMMA Recursion ==
  ASSUME NEW V, NEW a \in V, NEW G \in [Nat -> [V -> V]]
  PROVE  \E f : Recursive(f, V, a, G)
<1> DEFINE It(n) == CHOOSE g : Iterates(g, V, a, G, n)
           f == [n \in Nat |-> It(n)[n]]
<1>1. \A n \in Nat : Iterates(It(n), V, a, G, n)
  BY IteratesExist
<1> HIDE DEF It
<1>2. \A n \in Nat : It(n)[n] \in V
  BY <1>1 DEF Iterates
<1>3. f[0] = a
  BY <1>1 DEF Iterates
<1>4. ASSUME NEW n \in Nat PROVE f[n + 1] = G[n][f[n]]
  <2>1. n + 1 \in Nat /\ n <= n + 1 /\ n \in 0..(n + 1 - 1)
    OBVIOUS
  <2>2. It(n)[n] = It(n + 1)[n]
    BY <1>1, <2>1, IteratesAgree
  <2>3. It(n + 1)[n + 1] = G[n][It(n + 1)[n]]
    BY <1>1, <2>1 DEF Iterates
  <2> QED
    BY <2>1, <2>2, <2>3
<1>5. f \in [Nat -> V]
  BY <1>2
<1> HIDE DEF f
<1>6. Recursive(f, V, a, G)
  BY <1>3, <1>4, <1>5 DEF Recursive
<1> QED
  BY <1>6

-----------------------------------------------------------------------------
(* Divisibility and congruence                                             *)

Positive == Nat \ {0}

Factor(k, x) == \E c \in Int : x = k * c

Cong(a, b, m) == Factor(m, a - b)

(* Division with remainder.                                                *)
LEMMA QuotientRemainder ==
  ASSUME NEW x \in Int, NEW m \in Positive
  PROVE  x % m \in 0..(m - 1) /\ x \div m \in Int /\ x = m * (x \div m) + (x % m)
  BY DEF Positive

(* There is only one remainder in range.                                   *)
LEMMA UniqueRemainder ==
  ASSUME NEW m \in Positive, NEW c \in Int, NEW r \in 0..(m - 1)
  PROVE  (m * c + r) % m = r
<1> DEFINE x == m * c + r
           d == x \div m
           s == x % m
<1>1. x \in Int /\ d \in Int /\ s \in 0..(m - 1) /\ x = m * d + s
  BY QuotientRemainder DEF Positive
<1> HIDE DEF s, d
<1>2. m * (c - d) = s - r
  BY <1>1 DEF Positive
<1>3. CASE c = d
  BY <1>1, <1>2, <1>3 DEF Positive, s
<1>4. CASE c > d
  <2>1. c - d >= 1
    BY <1>1, <1>4
  <2>2. m * (c - d) >= m
    BY <1>1, <2>1 DEF Positive
  <2> QED
    BY <1>1, <1>2, <2>2 DEF Positive
<1>5. CASE c < d
  <2>1. d - c >= 1
    BY <1>1, <1>5
  <2>2. m * (d - c) >= m
    BY <1>1, <2>1 DEF Positive
  <2>3. m * (d - c) = r - s
    BY <1>1, <1>2 DEF Positive
  <2> QED
    BY <1>1, <2>2, <2>3 DEF Positive
<1> QED
  BY <1>1, <1>3, <1>4, <1>5

(* The debugger's test by remainder says what it should.                   *)
LEMMA DividesIsFactor ==
  ASSUME NEW k \in Positive, NEW x \in Int
  PROVE  Divides(k, x) <=> Factor(k, x)
<1>1. ASSUME Divides(k, x) PROVE Factor(k, x)
  <2>1. x = k * (x \div k) /\ x \div k \in Int
    BY <1>1, QuotientRemainder DEF Divides, Positive
  <2> QED
    BY <2>1 DEF Factor
<1>2. ASSUME Factor(k, x) PROVE Divides(k, x)
  <2>1. PICK c \in Int : x = k * c
    BY <1>2 DEF Factor
  <2>2. 0 \in 0..(k - 1) /\ x = k * c + 0
    BY <2>1 DEF Positive
  <2>3. x % k = 0
    BY <2>2, UniqueRemainder
  <2> QED
    BY <2>3 DEF Divides
<1> QED
  BY <1>1, <1>2

(* A common factor divides every combination.                              *)
LEMMA FactorOfSum ==
  ASSUME NEW k \in Int, NEW x \in Int, NEW y \in Int, NEW u \in Int, NEW v \in Int,
         Factor(k, x), Factor(k, y)
  PROVE  Factor(k, x * u + y * v)
<1>1. PICK c \in Int, d \in Int : x = k * c /\ y = k * d
  BY DEF Factor
<1>2. x * u + y * v = k * (c * u + d * v) /\ c * u + d * v \in Int
  BY <1>1
<1> QED
  BY <1>2 DEF Factor

(* A factor of a number divides its multiples.                             *)
LEMMA FactorOfProduct ==
  ASSUME NEW k \in Int, NEW x \in Int, NEW u \in Int, Factor(k, x)
  PROVE  Factor(k, x * u) /\ Factor(k, u * x)
<1>1. PICK c \in Int : x = k * c
  BY DEF Factor
<1>2. x * u = k * (c * u) /\ u * x = k * (c * u) /\ c * u \in Int
  BY <1>1
<1> QED
  BY <1>2 DEF Factor

(* A factor of a factor is a factor.                                       *)
LEMMA FactorTransitive ==
  ASSUME NEW k \in Int, NEW x \in Int, NEW y \in Int, Factor(k, x), Factor(x, y)
  PROVE  Factor(k, y)
<1>1. PICK c \in Int, d \in Int : x = k * c /\ y = x * d
  BY DEF Factor
<1>2. y = k * (c * d) /\ c * d \in Int
  BY <1>1
<1> QED
  BY <1>2 DEF Factor

(* A positive number is no smaller than its factors.                       *)
LEMMA FactorIsSmaller ==
  ASSUME NEW k \in Positive, NEW x \in Positive, Factor(k, x)
  PROVE  k <= x
<1>1. PICK c \in Int : x = k * c
  BY DEF Factor
<1>2. c >= 1
  BY <1>1 DEF Positive
<1> QED
  BY <1>1, <1>2 DEF Positive

(* Congruence is reflexive,                                                *)
LEMMA CongReflexive ==
  ASSUME NEW a \in Int, NEW m \in Int
  PROVE  Cong(a, a, m)
<1>1. a - a = m * 0
  OBVIOUS
<1> QED
  BY <1>1 DEF Cong, Factor

(* it is symmetric,                                                        *)
LEMMA CongSymmetric ==
  ASSUME NEW a \in Int, NEW b \in Int, NEW m \in Int, Cong(a, b, m)
  PROVE  Cong(b, a, m)
<1>1. PICK c \in Int : a - b = m * c
  BY DEF Cong, Factor
<1>2. b - a = m * (-c) /\ -c \in Int
  BY <1>1
<1> QED
  BY <1>2 DEF Cong, Factor

(* it is transitive,                                                       *)
LEMMA CongTransitive ==
  ASSUME NEW a \in Int, NEW b \in Int, NEW c \in Int, NEW m \in Int,
         Cong(a, b, m), Cong(b, c, m)
  PROVE  Cong(a, c, m)
<1>1. PICK x \in Int, y \in Int : a - b = m * x /\ b - c = m * y
  BY DEF Cong, Factor
<1>2. a - c = m * (x + y) /\ x + y \in Int
  BY <1>1
<1> QED
  BY <1>2 DEF Cong, Factor

(* sums respect it,                                                        *)
LEMMA CongSum ==
  ASSUME NEW a \in Int, NEW b \in Int, NEW c \in Int, NEW d \in Int, NEW m \in Int,
         Cong(a, b, m), Cong(c, d, m)
  PROVE  Cong(a + c, b + d, m)
<1>1. PICK x \in Int, y \in Int : a - b = m * x /\ c - d = m * y
  BY DEF Cong, Factor
<1>2. (a + c) - (b + d) = m * (x + y) /\ x + y \in Int
  BY <1>1
<1> QED
  BY <1>2 DEF Cong, Factor

(* and so do products.                                                     *)
LEMMA CongProduct ==
  ASSUME NEW a \in Int, NEW b \in Int, NEW c \in Int, NEW d \in Int, NEW m \in Int,
         Cong(a, b, m), Cong(c, d, m)
  PROVE  Cong(a * c, b * d, m)
<1>1. PICK x \in Int, y \in Int : a - b = m * x /\ c - d = m * y
  BY DEF Cong, Factor
<1>2. a = b + m * x /\ c = d + m * y
  BY <1>1
<1>3. (b + m * x) * (d + m * y) - b * d = m * (b * y + x * d + x * (m * y))
  OBVIOUS
<1>4. a * c - b * d = m * (b * y + x * d + x * (m * y))
  BY <1>2, <1>3
<1>5. b * y + x * d + x * (m * y) \in Int
  OBVIOUS
<1> QED
  BY <1>4, <1>5 DEF Cong, Factor

(* A remainder is congruent to the number it is taken of.                  *)
LEMMA CongRemainder ==
  ASSUME NEW a \in Int, NEW m \in Positive
  PROVE  a % m \in Int /\ Cong(a % m, a, m)
<1>1. a % m \in Int /\ a \div m \in Int /\ a = m * (a \div m) + (a % m)
  BY QuotientRemainder DEF Positive
<1> DEFINE d == a \div m
           r == a % m
<1> HIDE DEF d, r
<1>2. r - a = m * (-d) /\ -d \in Int
  BY <1>1 DEF d, r, Positive
<1> QED
  BY <1>1, <1>2 DEF Cong, Factor, r

(* Congruent numbers leave the same remainder.                             *)
LEMMA SameRemainder ==
  ASSUME NEW a \in Int, NEW b \in Int, NEW m \in Positive, Cong(a, b, m)
  PROVE  a % m = b % m
<1>1. PICK c \in Int : a - b = m * c
  BY DEF Cong, Factor
<1> DEFINE d == b \div m
           r == b % m
<1>2. d \in Int /\ r \in 0..(m - 1) /\ b = m * d + r
  BY QuotientRemainder DEF Positive
<1> HIDE DEF d, r
<1>3. a = m * (c + d) + r /\ c + d \in Int
  BY <1>1, <1>2 DEF Positive
<1>4. a % m = r
  BY <1>2, <1>3, UniqueRemainder
<1> QED
  BY <1>4 DEF r

(* A number in range is its own remainder.                                 *)
LEMMA SmallRemainder ==
  ASSUME NEW m \in Positive, NEW r \in 0..(m - 1)
  PROVE  r % m = r
<1>1. r = m * 0 + r
  BY DEF Positive
<1> QED
  BY <1>1, UniqueRemainder

-----------------------------------------------------------------------------
(* Powers                                                                  *)

IsPow(f, b) == f \in [Nat -> Int] /\ f[0] = 1 /\ \A n \in Nat : f[n + 1] = f[n] * b

Pow(b) == CHOOSE f : IsPow(f, b)

(* There is a function that computes the powers of b.                      *)
LEMMA PowExists ==
  ASSUME NEW b \in Int
  PROVE  IsPow(Pow(b), b)
<1> DEFINE G == [n \in Nat |-> [v \in Int |-> v * b]]
<1>1. G \in [Nat -> [Int -> Int]] /\ 1 \in Int
  OBVIOUS
<1>2. \A n \in Nat, v \in Int : G[n][v] = v * b
  OBVIOUS
<1> HIDE DEF G
<1>3. PICK f : Recursive(f, Int, 1, G)
  BY <1>1, Recursion
<1>4. IsPow(f, b)
  BY <1>2, <1>3 DEF Recursive, IsPow
<1> QED
  BY <1>4 DEF Pow

(* Powers, by their equations.                                             *)
LEMMA PowStep ==
  ASSUME NEW b \in Int
  PROVE  /\ Pow(b)[0] = 1
         /\ \A n \in Nat : Pow(b)[n] \in Int /\ Pow(b)[n + 1] = Pow(b)[n] * b
  BY PowExists DEF IsPow

(* The first power.                                                        *)
LEMMA PowOne ==
  ASSUME NEW b \in Int
  PROVE  Pow(b)[1] = b
<1>1. Pow(b)[0 + 1] = 1 * b
  BY PowStep
<1> QED
  BY <1>1

(* Powers with a sum in the exponent.                                      *)
LEMMA PowSum ==
  ASSUME NEW b \in Int, NEW i \in Nat
  PROVE  \A j \in Nat : Pow(b)[i + j] = Pow(b)[i] * Pow(b)[j]
<1> DEFINE p == Pow(b)
           S == {j \in Nat : p[i + j] = p[i] * p[j]}
<1>0. p[0] = 1 /\ \A n \in Nat : p[n] \in Int /\ p[n + 1] = p[n] * b
  BY PowStep
<1> HIDE DEF p
<1>1. 0 \in S
  BY <1>0
<1>2. ASSUME NEW j \in Nat, j \in S PROVE j + 1 \in S
  <2>1. p[i + (j + 1)] = p[i + j] * b
    <3>1. i + j \in Nat /\ i + (j + 1) = (i + j) + 1
      OBVIOUS
    <3> QED
      BY <1>0, <3>1
  <2>2. p[i + j] = p[i] * p[j] /\ p[j + 1] = p[j] * b /\ p[i] \in Int /\ p[j] \in Int
    BY <1>0, <1>2
  <2>3. \A x, y \in Int : (x * y) * b = x * (y * b)
    OBVIOUS
  <2>4. p[i + (j + 1)] = p[i] * p[j + 1]
    BY <2>1, <2>2, <2>3
  <2> QED
    BY <2>4
<1> HIDE DEF S
<1>3. Nat \subseteq S
  BY <1>1, <1>2, Induction
<1> QED
  BY <1>3 DEF S, p

(* Powers with a product in the exponent.                                  *)
LEMMA PowProduct ==
  ASSUME NEW b \in Int, NEW i \in Nat
  PROVE  \A j \in Nat : Pow(Pow(b)[i])[j] = Pow(b)[i * j]
<1> DEFINE c == Pow(b)[i]
           S == {j \in Nat : Pow(c)[j] = Pow(b)[i * j]}
<1>0. c \in Int
  BY PowStep
<1>1. 0 \in S
  <2>1. i * 0 = 0
    OBVIOUS
  <2> HIDE DEF c
  <2>2. Pow(c)[0] = Pow(b)[i * 0]
    BY <1>0, <2>1, PowStep
  <2> QED
    BY <2>2
<1>2. ASSUME NEW j \in Nat, j \in S PROVE j + 1 \in S
  <2>1. i * (j + 1) = i * j + i /\ i * j \in Nat
    OBVIOUS
  <2>2. Pow(b)[i * j + i] = Pow(b)[i * j] * Pow(b)[i]
    BY <2>1, PowSum
  <2> HIDE DEF c
  <2>3. Pow(c)[j + 1] = Pow(c)[j] * c
    BY <1>0, PowStep
  <2>4. Pow(c)[j + 1] = Pow(b)[i * (j + 1)]
    BY <1>2, <2>1, <2>2, <2>3 DEF c
  <2> QED
    BY <2>4
<1> HIDE DEF S
<1>3. Nat \subseteq S
  BY <1>1, <1>2, Induction
<1> QED
  BY <1>3 DEF S, c

(* Powers respect congruence.                                              *)
LEMMA CongPow ==
  ASSUME NEW a \in Int, NEW b \in Int, NEW m \in Int, Cong(a, b, m)
  PROVE  \A n \in Nat : Cong(Pow(a)[n], Pow(b)[n], m)
<1> DEFINE S == {n \in Nat : Cong(Pow(a)[n], Pow(b)[n], m)}
<1>1. 0 \in S
  <2>1. Cong(1, 1, m)
    BY CongReflexive
  <2> QED
    BY <2>1, PowStep
<1>2. ASSUME NEW n \in Nat, n \in S PROVE n + 1 \in S
  <2>1. Pow(a)[n] \in Int /\ Pow(b)[n] \in Int
        /\ Pow(a)[n + 1] = Pow(a)[n] * a /\ Pow(b)[n + 1] = Pow(b)[n] * b
    BY PowStep
  <2>2. Cong(Pow(a)[n] * a, Pow(b)[n] * b, m)
    BY <1>2, <2>1, CongProduct
  <2> QED
    BY <2>1, <2>2
<1> HIDE DEF S
<1>3. Nat \subseteq S
  BY <1>1, <1>2, Induction
<1> QED
  BY <1>3 DEF S

(* What Exp of math/big computes is the remainder of the power.            *)
LEMMA ExpIsPow ==
  ASSUME NEW b \in Int, NEW x \in Nat, NEW m \in Positive
  PROVE  Exp(b, x, m) = Pow(b)[x] % m
<1> DEFINE Body(f) == [k \in 0..x |-> IF k = 0 THEN 1 % m ELSE (f[k - 1] * b) % m]
           power == CHOOSE f : f = Body(f)
           g == [k \in 0..x |-> Pow(b)[k] % m]
<1>1. Exp(b, x, m) = power[x]
  BY DEF Exp
<1>2. ASSUME NEW k \in 0..x, k # 0 PROVE ((Pow(b)[k - 1] % m) * b) % m = Pow(b)[k] % m
  <2> DEFINE y == Pow(b)[k - 1]
  <2>1. k - 1 \in Nat /\ (k - 1) + 1 = k
    BY <1>2
  <2>2. y \in Int /\ Pow(b)[k] = y * b
    BY <2>1, PowStep
  <2> HIDE DEF y
  <2>3. m \in Int
    BY DEF Positive
  <2>4. y % m \in Int /\ Cong(y % m, y, m) /\ Cong(b, b, m)
    BY <2>2, <2>3, CongRemainder, CongReflexive
  <2>5. Cong((y % m) * b, y * b, m)
    BY <2>2, <2>3, <2>4, CongProduct
  <2>6. ((y % m) * b) % m = (y * b) % m
    BY <2>2, <2>4, <2>5, SameRemainder
  <2> QED
    BY <2>2, <2>6 DEF y
<1>3. g = Body(g)
  <2>1. \A k \in 0..x : g[k] = IF k = 0 THEN 1 % m ELSE (g[k - 1] * b) % m
    <3> TAKE k \in 0..x
    <3>1. CASE k = 0
      BY <3>1, PowStep
    <3>2. CASE k # 0
      <4>1. k - 1 \in 0..x
        BY <3>2
      <4> QED
        BY <1>2, <3>2, <4>1
    <3> QED
      BY <3>1, <3>2
  <2>2. g = [k \in 0..x |-> g[k]]
    OBVIOUS
  <2> HIDE DEF g
  <2> QED
    BY <2>1, <2>2
<1>4. power = Body(power)
  <2> HIDE DEF g, Body
  <2> QED
    BY <1>3
<1>5. /\ power[0] = 1 % m
      /\ \A k \in 0..(x - 1) : power[k + 1] = (power[k] * b) % m
  <2> HIDE DEF power
  <2>1. power[0] = Body(power)[0]
    BY <1>4
  <2>2. ASSUME NEW k \in 0..(x - 1) PROVE power[k + 1] = (power[k] * b) % m
    <3>1. power[k + 1] = Body(power)[k + 1]
      BY <1>4
    <3>2. k + 1 \in 0..x /\ k + 1 # 0 /\ (k + 1) - 1 = k
      OBVIOUS
    <3>3. Body(power)[k + 1] = (power[(k + 1) - 1] * b) % m
      BY <3>2
    <3> QED
      BY <3>1, <3>2, <3>3
  <2> QED
    BY <2>1, <2>2
<1> HIDE DEF power, Body
<1> DEFINE S == {k \in Nat : k <= x => power[k] = Pow(b)[k] % m}
<1>6. 0 \in S
  BY <1>5, PowStep
<1>7. ASSUME NEW k \in Nat, k \in S PROVE k + 1 \in S
  <2> SUFFICES ASSUME k + 1 <= x PROVE power[k + 1] = Pow(b)[k + 1] % m
    OBVIOUS
  <2>1. k \in 0..(x - 1) /\ k + 1 \in 0..x /\ k + 1 # 0 /\ (k + 1) - 1 = k
    OBVIOUS
  <2>2. power[k] = Pow(b)[k] % m
    BY <1>7, <2>1
  <2>3. ((Pow(b)[k] % m) * b) % m = Pow(b)[k + 1] % m
    BY <1>2, <2>1
  <2> QED
    BY <1>5, <2>1, <2>2, <2>3
<1> HIDE DEF S
<1>8. x \in S
  BY <1>6, <1>7, Induction
<1> QED
  BY <1>1, <1>8 DEF S

-----------------------------------------------------------------------------
(* Common divisors and primes                                              *)

Combinations(a, b) == {g \in Positive : \E x, y \in Int : g = a * x + b * y}

(* The least positive combination of two numbers divides both.             *)
LEMMA LeastCombination ==
  ASSUME NEW a \in Positive, NEW b \in Int
  PROVE  \E g \in Combinations(a, b) : Factor(g, a) /\ Factor(g, b)
<1> DEFINE T == Combinations(a, b)
<1>0. a \in Int
  BY DEF Positive
<1>1. a = a * 1 + b * 0
  BY <1>0
<1>2. a \in T
  BY <1>1 DEF Combinations
<1>3. T \subseteq Nat
  BY DEF Combinations, Positive
<1> HIDE DEF T
<1>4. PICK g \in T : \A h \in T : g <= h
  BY <1>2, <1>3, Least
<1>5. g \in Positive /\ g \in Int /\ \E x, y \in Int : g = a * x + b * y
  BY <1>4 DEF T, Combinations, Positive
<1>6. PICK x \in Int, y \in Int : g = a * x + b * y
  BY <1>5
<1>7. ASSUME NEW u \in Int, NEW v \in Int PROVE Factor(g, a * u + b * v)
  <2> DEFINE c == a * u + b * v
             d == c \div g
             r == c % g
  <2>1. c \in Int
    BY <1>0
  <2>2. d \in Int /\ r \in 0..(g - 1) /\ c = g * d + r
    BY <1>5, <2>1, QuotientRemainder DEF Positive
  <2> HIDE DEF d, r
  <2>3. r = c - g * d
    BY <1>5, <2>1, <2>2
  <2>4. (a * u + b * v) - (a * x + b * y) * d = a * (u - x * d) + b * (v - y * d)
    BY <1>0, <2>2
  <2>5. r = a * (u - x * d) + b * (v - y * d) /\ u - x * d \in Int /\ v - y * d \in Int
    BY <1>6, <2>2, <2>3, <2>4
  <2>6. r \notin Positive
    <3>1. r \in Positive => r \in T
      BY <2>5 DEF T, Combinations
    <3>2. r \in T => g <= r
      BY <1>4
    <3> QED
      BY <1>5, <2>2, <3>1, <3>2
  <2>7. c = g * d
    BY <1>5, <2>2, <2>6 DEF Positive
  <2> QED
    BY <2>2, <2>7 DEF Factor
<1> DEFINE C(u, v) == a * u + b * v
<1>8. C(1, 0) = a /\ C(0, 1) = b
  BY <1>0
<1>9. \A u, v \in Int : Factor(g, C(u, v))
  BY <1>7
<1> HIDE DEF C
<1> QED
  BY <1>4, <1>8, <1>9 DEF T

(* Numbers with GCD 1 have a combination that is 1.                        *)
LEMMA CoprimeCombination ==
  ASSUME NEW a \in Int, NEW b \in Int, GCD(a, b) = 1
  PROVE  a \in Positive /\ b \in Positive /\ \E x, y \in Int : a * x + b * y = 1
<1>1. a \in Positive /\ b \in Positive
  BY DEF GCD, Positive
<1> DEFINE Greatest(g) == /\ Divides(g, a) /\ Divides(g, b)
                          /\ \A k \in (g + 1)..a : ~(Divides(k, a) /\ Divides(k, b))
<1>2. (CHOOSE g \in 1..a : Greatest(g)) = 1
  BY <1>1 DEF GCD, Positive
<1>3. PICK g \in Combinations(a, b) : Factor(g, a) /\ Factor(g, b)
  BY <1>1, LeastCombination
<1>4. g \in Positive /\ g \in Int /\ \E x, y \in Int : g = a * x + b * y
  BY <1>3 DEF Combinations, Positive
<1>5. PICK x \in Int, y \in Int : g = a * x + b * y
  BY <1>4
<1>6. g \in 1..a /\ Divides(g, a) /\ Divides(g, b)
  BY <1>1, <1>3, <1>4, FactorIsSmaller, DividesIsFactor DEF Positive
<1>7. ASSUME NEW k \in (g + 1)..a, Divides(k, a), Divides(k, b) PROVE FALSE
  <2>1. k \in Positive /\ k \in Int
    BY <1>4, <1>7 DEF Positive
  <2>2. Factor(k, a) /\ Factor(k, b)
    BY <1>7, <2>1, DividesIsFactor
  <2>3. Factor(k, g)
    BY <1>5, <2>1, <2>2, FactorOfSum
  <2> QED
    BY <1>4, <2>1, <2>3, FactorIsSmaller
<1>8. \E h \in 1..a : Greatest(h)
  BY <1>6, <1>7
<1>9. 1 \in 1..a /\ Greatest(1)
  <2> HIDE DEF Greatest
  <2> QED
    BY <1>2, <1>8
<1>10. g = 1
  BY <1>4, <1>6, <1>9 DEF Positive
<1> QED
  BY <1>1, <1>5, <1>10

(* Primes are greater than one.                                            *)
LEMMA PrimeIsPositive ==
  ASSUME NEW p \in Int, IsPrime(p)
  PROVE  p \in Positive /\ p > 1
  BY DEF IsPrime, Positive

(* A prime has no factors but one and itself.                              *)
LEMMA FactorOfPrime ==
  ASSUME NEW p \in Int, IsPrime(p), NEW g \in Positive, Factor(g, p)
  PROVE  g = 1 \/ g = p
<1>1. p \in Positive /\ g <= p
  BY PrimeIsPositive, FactorIsSmaller
<1>2. Divides(g, p)
  BY DividesIsFactor
<1> QED
  BY <1>1, <1>2 DEF IsPrime, Positive

(* A prime that divides a product divides one of its factors.              *)
LEMMA PrimeFactorOfProduct ==
  ASSUME NEW p \in Int, IsPrime(p), NEW a \in Int, NEW b \in Int, Factor(p, a * b)
  PROVE  Factor(p, a) \/ Factor(p, b)
<1>1. p \in Positive
  BY PrimeIsPositive
<1>2. PICK g \in Combinations(p, a) : Factor(g, p) /\ Factor(g, a)
  BY <1>1, LeastCombination
<1>3. g \in Positive /\ \E x, y \in Int : g = p * x + a * y
  BY <1>2 DEF Combinations
<1>4. PICK x \in Int, y \in Int : g = p * x + a * y
  BY <1>3
<1>5. CASE g = p
  BY <1>2, <1>5
<1>6. CASE g = 1
  <2>1. Factor(p, p)
    <3>1. p = p * 1
      OBVIOUS
    <3> QED
      BY <3>1 DEF Factor
  <2>2. x * b \in Int /\ a * b \in Int
    OBVIOUS
  <2>3. Factor(p, p * (x * b) + (a * b) * y)
    BY <2>1, <2>2, FactorOfSum
  <2>4. p * (x * b) + (a * b) * y = (p * x + a * y) * b
    OBVIOUS
  <2>5. p * (x * b) + (a * b) * y = b
    BY <1>4, <1>6, <2>4
  <2> QED
    BY <2>3, <2>5
<1> QED
  BY <1>2, <1>3, <1>5, <1>6, FactorOfPrime

(* A number that two primes divide is divided by their product.            *)
LEMMA TwoPrimeFactors ==
  ASSUME NEW p \in Int, NEW q \in Int, IsPrime(p), IsPrime(q), p # q,
         NEW x \in Int, Factor(p, x), Factor(q, x)
  PROVE  Factor(p * q, x)
<1>1. PICK c \in Int : x = q * c
  BY DEF Factor
<1>2. Factor(p, q) \/ Factor(p, c)
  BY <1>1, PrimeFactorOfProduct
<1>3. ~Factor(p, q)
  BY PrimeIsPositive, FactorOfPrime
<1>4. PICK d \in Int : c = p * d
  BY <1>2, <1>3 DEF Factor
<1>5. x = (p * q) * d
  BY <1>1, <1>4
<1> QED
  BY <1>5 DEF Factor

(* A prime divides no smaller positive number.                             *)
LEMMA SmallerIsNoMultiple ==
  ASSUME NEW p \in Int, IsPrime(p), NEW k \in 1..(p - 1)
  PROVE  ~Factor(p, k)
<1>1. p \in Positive /\ k \in Positive /\ ~(p <= k)
  BY PrimeIsPositive DEF Positive
<1> QED
  BY <1>1, FactorIsSmaller

-----------------------------------------------------------------------------
(* Fermat's theorem, from the binomial coefficients                        *)

IsBin(f) ==
  /\ f \in [Nat -> [Nat -> Nat]]
  /\ f[0] = [k \in Nat |-> IF k = 0 THEN 1 ELSE 0]
  /\ \A n \in Nat : f[n + 1] = [k \in Nat |-> f[n][k] + (IF k = 0 THEN 0 ELSE f[n][k - 1])]

Bin == CHOOSE f : IsBin(f)

(* There is a table of binomial coefficients.                              *)
LEMMA BinExists == IsBin(Bin)
<1> DEFINE V == [Nat -> Nat]
           a == [k \in Nat |-> IF k = 0 THEN 1 ELSE 0]
           Row(v) == [k \in Nat |-> v[k] + (IF k = 0 THEN 0 ELSE v[k - 1])]
           G == [n \in Nat |-> [v \in V |-> Row(v)]]
<1>1. a \in V
  OBVIOUS
<1>2. ASSUME NEW v \in V PROVE Row(v) \in V
  <2>1. \A k \in Nat : v[k] + (IF k = 0 THEN 0 ELSE v[k - 1]) \in Nat
    <3> TAKE k \in Nat
    <3>1. k # 0 => k - 1 \in Nat
      OBVIOUS
    <3> QED
      BY <3>1
  <2> QED
    BY <2>1
<1>3. G \in [Nat -> [V -> V]]
  <2> HIDE DEF V, Row
  <2> QED
    BY <1>2
<1>4. \A n \in Nat, v \in V : G[n][v] = Row(v)
  <2> HIDE DEF V, Row
  <2> QED
    OBVIOUS
<1> HIDE DEF V, a, G
<1>5. PICK f : Recursive(f, V, a, G)
  BY <1>1, <1>3, Recursion
<1>6. f \in [Nat -> V] /\ f[0] = a /\ \A n \in Nat : f[n + 1] = Row(f[n])
  <2> HIDE DEF Row
  <2>1. f \in [Nat -> V] /\ f[0] = a /\ \A n \in Nat : f[n + 1] = G[n][f[n]]
    BY <1>5 DEF Recursive
  <2>2. \A n \in Nat : f[n] \in V
    BY <2>1
  <2> QED
    BY <1>4, <2>1, <2>2
<1>7. IsBin(f)
  BY <1>6 DEF IsBin, V, a
<1> QED
  BY <1>7 DEF Bin

(* Pascal's triangle, by its equations.                                    *)
LEMMA BinStep ==
  /\ \A n, k \in Nat : Bin[n][k] \in Nat
  /\ Bin[0][0] = 1 /\ \A k \in Nat : Bin[0][k + 1] = 0
  /\ \A n \in Nat : Bin[n + 1][0] = Bin[n][0]
  /\ \A n, k \in Nat : Bin[n + 1][k + 1] = Bin[n][k + 1] + Bin[n][k]
<1> USE BinExists DEF IsBin
<1>1. \A n, k \in Nat : Bin[n][k] \in Nat
  OBVIOUS
<1>2. Bin[0][0] = 1 /\ \A k \in Nat : Bin[0][k + 1] = 0
  OBVIOUS
<1>3. ASSUME NEW n \in Nat PROVE Bin[n + 1][0] = Bin[n][0]
  <2>1. Bin[n + 1][0] = Bin[n][0] + 0
    OBVIOUS
  <2>2. 0 \in Nat
    OBVIOUS
  <2>3. Bin[n][0] \in Nat
    BY <1>1, <2>2
  <2>4. \A x \in Nat : x + 0 = x
    OBVIOUS
  <2> QED
    BY <2>1, <2>3, <2>4
<1>4. ASSUME NEW n \in Nat, NEW k \in Nat PROVE Bin[n + 1][k + 1] = Bin[n][k + 1] + Bin[n][k]
  <2>1. k + 1 \in Nat /\ k + 1 # 0 /\ (k + 1) - 1 = k
    OBVIOUS
  <2>2. Bin[n + 1][k + 1] = Bin[n][k + 1] + Bin[n][(k + 1) - 1]
    BY <2>1
  <2> QED
    BY <2>1, <2>2
<1> QED
  BY <1>1, <1>2, <1>3, <1>4

(* A row begins and ends with 1, and has zeros behind.                     *)
LEMMA BinEnds ==
  \A n \in Nat : Bin[n][0] = 1 /\ Bin[n][n] = 1 /\ \A k \in Nat : k > n => Bin[n][k] = 0
<1> DEFINE S == {n \in Nat : Bin[n][0] = 1 /\ Bin[n][n] = 1
                             /\ \A k \in Nat : k > n => Bin[n][k] = 0}
<1>1. 0 \in S
  <2>1. ASSUME NEW k \in Nat, k > 0 PROVE Bin[0][k] = 0
    <3>1. k - 1 \in Nat /\ (k - 1) + 1 = k
      BY <2>1
    <3>2. Bin[0][(k - 1) + 1] = 0
      BY <3>1, BinStep
    <3> QED
      BY <3>1, <3>2
  <2> QED
    BY <2>1, BinStep
<1>2. ASSUME NEW n \in Nat, n \in S PROVE n + 1 \in S
  <2>1. Bin[n][0] = 1 /\ Bin[n][n] = 1 /\ \A k \in Nat : k > n => Bin[n][k] = 0
    BY <1>2
  <2>2. Bin[n + 1][0] = 1
    BY <2>1, BinStep
  <2>3. Bin[n + 1][n + 1] = 1
    <3>1. Bin[n][n + 1] = 0
      BY <2>1
    <3>2. Bin[n + 1][n + 1] = Bin[n][n + 1] + Bin[n][n]
      BY BinStep
    <3> QED
      BY <2>1, <3>1, <3>2
  <2>4. ASSUME NEW k \in Nat, k > n + 1 PROVE Bin[n + 1][k] = 0
    <3>1. k - 1 \in Nat /\ (k - 1) + 1 = k /\ k > n /\ k - 1 > n
      BY <2>4
    <3>2. Bin[n + 1][(k - 1) + 1] = Bin[n][(k - 1) + 1] + Bin[n][k - 1]
      BY <3>1, BinStep
    <3> QED
      BY <2>1, <3>1, <3>2
  <2> QED
    BY <2>2, <2>3, <2>4
<1> HIDE DEF S
<1>3. Nat \subseteq S
  BY <1>1, <1>2, Induction
<1> QED
  BY <1>3 DEF S

(* The absorption identity.                                                *)
LEMMA BinAbsorbs ==
  \A n \in Nat : \A k \in Nat : (k + 1) * Bin[n + 1][k + 1] = (n + 1) * Bin[n][k]
<1> DEFINE S == {n \in Nat : \A k \in Nat : (k + 1) * Bin[n + 1][k + 1] = (n + 1) * Bin[n][k]}
<1>1. 0 \in S
  <2>1. ASSUME NEW k \in Nat PROVE (k + 1) * Bin[0 + 1][k + 1] = (0 + 1) * Bin[0][k]
    <3>1. Bin[0 + 1][k + 1] = Bin[0][k + 1] + Bin[0][k] /\ Bin[0][k + 1] = 0
      BY BinStep
    <3>2. CASE k = 0
      BY <3>1, <3>2, BinStep
    <3>3. CASE k # 0
      <4>1. Bin[0][k] = 0
        BY <3>3, BinEnds
      <4> QED
        BY <3>1, <4>1
    <3> QED
      BY <3>2, <3>3
  <2> QED
    BY <2>1
<1>2. ASSUME NEW n \in Nat, n \in S PROVE n + 1 \in S
  <2>0. n + 1 \in Nat
    OBVIOUS
  <2>1. ASSUME NEW k \in Nat
        PROVE  (k + 1) * Bin[(n + 1) + 1][k + 1] = ((n + 1) + 1) * Bin[n + 1][k]
    <3> DEFINE b == Bin[n + 1][k]
               c == Bin[n + 1][k + 1]
               a == Bin[n][k]
    <3>1. Bin[(n + 1) + 1][k + 1] = c + b /\ a \in Nat /\ b \in Nat /\ c \in Nat
      BY <2>0, BinStep
    <3>2. (k + 1) * c = (n + 1) * a
      BY <1>2
    <3>3. CASE k = 0
      <4>1. a = 1 /\ b = 1
        BY <2>0, <3>3, BinEnds
      <4> HIDE DEF a, b, c
      <4> QED
        BY <3>1, <3>2, <3>3, <4>1 DEF b
    <3>4. CASE k # 0
      <4> DEFINE j == k - 1
                 z == Bin[n][j]
      <4>1. j \in Nat /\ j + 1 = k
        BY <3>4
      <4> HIDE DEF j
      <4>2. z \in Nat /\ Bin[n + 1][j + 1] = Bin[n][j + 1] + z
        BY <4>1, BinStep
      <4>3. b = a + z
        BY <4>1, <4>2
      <4>4. (j + 1) * Bin[n + 1][j + 1] = (n + 1) * z
        BY <1>2, <4>1
      <4>5. k * b = (n + 1) * z
        BY <4>1, <4>4
      <4> HIDE DEF a, b, c, z
      <4>6. (k + 1) * (c + b) = (k + 1) * c + k * b + b
        BY <3>1
      <4>7. (k + 1) * (c + b) = (n + 1) * a + (n + 1) * z + b
        BY <3>2, <4>5, <4>6
      <4>8. (n + 1) * a + (n + 1) * z = (n + 1) * b
        BY <3>1, <4>2, <4>3
      <4>9. (k + 1) * (c + b) = ((n + 1) + 1) * b
        BY <3>1, <4>7, <4>8
      <4> QED
        BY <3>1, <4>9 DEF b
    <3> QED
      BY <3>3, <3>4
  <2> QED
    BY <2>0, <2>1
<1> HIDE DEF S
<1>3. Nat \subseteq S
  BY <1>1, <1>2, Induction
<1> QED
  BY <1>3 DEF S

(* A prime divides the inner coefficients of its row.                      *)
LEMMA PrimeDividesBin ==
  ASSUME NEW p \in Int, IsPrime(p), NEW k \in 1..(p - 1)
  PROVE  Bin[p][k] \in Int /\ Factor(p, Bin[p][k])
<1>1. p - 1 \in Nat /\ k - 1 \in Nat /\ (p - 1) + 1 = p /\ (k - 1) + 1 = k
  BY PrimeIsPositive
<1>2. Bin[p - 1][k - 1] \in Int /\ Bin[p][k] \in Int
  <2>1. p \in Nat /\ k \in Nat
    BY <1>1
  <2> QED
    BY <1>1, <2>1, BinStep
<1>3. ((k - 1) + 1) * Bin[(p - 1) + 1][(k - 1) + 1] = ((p - 1) + 1) * Bin[p - 1][k - 1]
  BY <1>1, BinAbsorbs
<1>4. k * Bin[p][k] = p * Bin[p - 1][k - 1]
  BY <1>1, <1>3
<1>5. Factor(p, k * Bin[p][k])
  BY <1>2, <1>4 DEF Factor
<1>6. k \in Int /\ ~Factor(p, k)
  BY <1>1, SmallerIsNoMultiple
<1>7. Factor(p, k) \/ Factor(p, Bin[p][k])
  BY <1>2, <1>5, <1>6, PrimeFactorOfProduct, Zenon
<1> QED
  BY <1>2, <1>6, <1>7

(* The terms of (x + 1)^n, added up.                                       *)
IsSum(f, n, x) ==
  /\ f \in [Nat -> Int]
  /\ f[0] = 1
  /\ \A j \in Nat : f[j + 1] = f[j] + Bin[n][j + 1] * Pow(x)[j + 1]

Sum(n, x) == CHOOSE f : IsSum(f, n, x)

(* A term of the expansion is an integer.                                  *)
LEMMA TermIsInt ==
  ASSUME NEW n \in Nat, NEW x \in Int, NEW j \in Nat
  PROVE  Bin[n][j] \in Int /\ Pow(x)[j] \in Int /\ Bin[n][j] * Pow(x)[j] \in Int
<1>1. Bin[n][j] \in Int /\ Pow(x)[j] \in Int
  BY BinStep, PowStep
<1> QED
  BY <1>1

(* There is a function that adds up the terms.                             *)
LEMMA SumExists ==
  ASSUME NEW n \in Nat, NEW x \in Int
  PROVE  IsSum(Sum(n, x), n, x)
<1> DEFINE Term(j) == Bin[n][j] * Pow(x)[j]
           G == [j \in Nat |-> [v \in Int |-> v + Term(j + 1)]]
<1>1. \A j \in Nat : Term(j + 1) \in Int
  BY TermIsInt
<1> HIDE DEF Term
<1>2. G \in [Nat -> [Int -> Int]] /\ 1 \in Int
  BY <1>1
<1>3. \A j \in Nat, v \in Int : G[j][v] = v + Term(j + 1)
  OBVIOUS
<1> HIDE DEF G
<1>4. PICK f : Recursive(f, Int, 1, G)
  BY <1>2, Recursion
<1>5. IsSum(f, n, x)
  BY <1>3, <1>4 DEF Recursive, IsSum, Term
<1> QED
  BY <1>5 DEF Sum

(* The partial sums, by their equations.                                   *)
LEMMA SumStep ==
  ASSUME NEW n \in Nat, NEW x \in Int
  PROVE  /\ Sum(n, x)[0] = 1
         /\ \A j \in Nat : /\ Sum(n, x)[j] \in Int
                           /\ Sum(n, x)[j + 1] = Sum(n, x)[j] + Bin[n][j + 1] * Pow(x)[j + 1]
  BY SumExists DEF IsSum

(* The partial sums of two neighbouring rows.                              *)
LEMMA SumShift ==
  ASSUME NEW n \in Nat, NEW x \in Int
  PROVE  \A j \in Nat :
           Sum(n + 1, x)[j] = (x + 1) * Sum(n, x)[j] - Bin[n][j] * Pow(x)[j + 1]
<1> DEFINE s == Sum(n, x)
           t == Sum(n + 1, x)
           p == Pow(x)
           S == {j \in Nat : t[j] = (x + 1) * s[j] - Bin[n][j] * p[j + 1]}
<1>0. n + 1 \in Nat
  OBVIOUS
<1>1. 0 \in S
  <2>1. t[0] = 1 /\ s[0] = 1 /\ Bin[n][0] = 1
    BY <1>0, SumStep, BinEnds
  <2>2. p[0 + 1] = x
    BY PowOne
  <2> HIDE DEF s, t, p
  <2>3. t[0] = (x + 1) * s[0] - Bin[n][0] * p[0 + 1]
    BY <2>1, <2>2
  <2> QED
    BY <2>3
<1>2. ASSUME NEW j \in Nat, j \in S PROVE j + 1 \in S
  <2> DEFINE a == Bin[n][j]
             b == Bin[n][j + 1]
             y == p[j + 1]
  <2>1. a \in Int /\ b \in Int /\ y \in Int
    <3>1. j \in Nat /\ j + 1 \in Nat
      OBVIOUS
    <3>2. Bin[n][j] \in Int /\ Bin[n][j + 1] \in Int /\ Pow(x)[j + 1] \in Int
      BY <3>1, TermIsInt
    <3> QED
      BY <3>2
  <2>2. s[j] \in Int /\ s[j + 1] = s[j] + b * y
    BY SumStep
  <2>3. t[j] \in Int /\ t[j + 1] = t[j] + Bin[n + 1][j + 1] * y
    BY <1>0, SumStep
  <2>4. Bin[n + 1][j + 1] = b + a
    BY BinStep
  <2>5. p[(j + 1) + 1] = y * x
    <3>1. j + 1 \in Nat
      OBVIOUS
    <3> QED
      BY <3>1, PowStep
  <2>6. t[j] = (x + 1) * s[j] - a * y
    BY <1>2
  <2> HIDE DEF s, t, p, a, b, y
  <2>7. ((x + 1) * s[j] - a * y) + (b + a) * y = (x + 1) * (s[j] + b * y) - b * (y * x)
    <3>1. ASSUME NEW u \in Int, NEW k \in Int, NEW l \in Int, NEW z \in Int
          PROVE  ((x + 1) * u - k * z) + (l + k) * z = (x + 1) * (u + l * z) - l * (z * x)
      OBVIOUS
    <3> DEFINE u == s[j]
    <3>2. u \in Int
      BY <2>2
    <3> HIDE DEF u
    <3>3. ((x + 1) * u - a * y) + (b + a) * y = (x + 1) * (u + b * y) - b * (y * x)
      BY <2>1, <3>1, <3>2
    <3> QED
      BY <3>3 DEF u
  <2>8. t[j + 1] = (x + 1) * s[j + 1] - b * p[(j + 1) + 1]
    BY <2>2, <2>3, <2>4, <2>5, <2>6, <2>7
  <2>9. t[j + 1] = (x + 1) * s[j + 1] - Bin[n][j + 1] * p[(j + 1) + 1]
    BY <2>8 DEF b
  <2> QED
    BY <2>9
<1> HIDE DEF S
<1>3. Nat \subseteq S
  BY <1>1, <1>2, Induction
<1> QED
  BY <1>3 DEF S, s, t, p

(* The binomial theorem, for x + 1.                                        *)
LEMMA Binomial ==
  ASSUME NEW x \in Int
  PROVE  \A n \in Nat : Sum(n, x)[n] = Pow(x + 1)[n]
<1> DEFINE S == {n \in Nat : Sum(n, x)[n] = Pow(x + 1)[n]}
<1>1. 0 \in S
  <2>1. Sum(0, x)[0] = 1 /\ Pow(x + 1)[0] = 1
    BY SumStep, PowStep
  <2> QED
    BY <2>1
<1>2. ASSUME NEW n \in Nat, n \in S PROVE n + 1 \in S
  <2>0. n + 1 \in Nat /\ x + 1 \in Int
    OBVIOUS
  <2>1. Bin[n][n + 1] = 0
    BY BinEnds
  <2>2. Sum(n, x)[n] \in Int
        /\ Sum(n, x)[n + 1] = Sum(n, x)[n] + Bin[n][n + 1] * Pow(x)[n + 1]
    BY SumStep
  <2>3. Pow(x)[n + 1] \in Int /\ Pow(x)[(n + 1) + 1] \in Int
    BY <2>0, PowStep
  <2>4. Sum(n, x)[n + 1] = Sum(n, x)[n]
    BY <2>1, <2>2, <2>3
  <2>5. Sum(n + 1, x)[n + 1]
          = (x + 1) * Sum(n, x)[n + 1] - Bin[n][n + 1] * Pow(x)[(n + 1) + 1]
    BY <2>0, SumShift
  <2>6. Sum(n + 1, x)[n + 1] = (x + 1) * Sum(n, x)[n]
    BY <2>1, <2>2, <2>3, <2>4, <2>5
  <2>7. Pow(x + 1)[n] \in Int /\ Pow(x + 1)[n + 1] = Pow(x + 1)[n] * (x + 1)
    BY <2>0, PowStep
  <2>8. Sum(n, x)[n] = Pow(x + 1)[n]
    BY <1>2
  <2>9. Sum(n + 1, x)[n + 1] = Pow(x + 1)[n + 1]
    BY <2>6, <2>7, <2>8
  <2> QED
    BY <2>9
<1> HIDE DEF S
<1>3. Nat \subseteq S
  BY <1>1, <1>2, Induction
<1> QED
  BY <1>3 DEF S

(* Only the ends of the expansion are left modulo a prime.                 *)
LEMMA PrimePower ==
  ASSUME NEW p \in Int, IsPrime(p), NEW x \in Int
  PROVE  Cong(Pow(x + 1)[p], Pow(x)[p] + 1, p)
<1>0. p \in Nat /\ p - 1 \in Nat /\ (p - 1) + 1 = p
  BY PrimeIsPositive
<1> DEFINE s == Sum(p, x)
           S == {j \in Nat : j < p => Cong(s[j], 1, p)}
<1>1. 0 \in S
  <2>1. s[0] = 1
    BY <1>0, SumStep
  <2> QED
    BY <2>1, CongReflexive
<1>2. ASSUME NEW j \in Nat, j \in S PROVE j + 1 \in S
  <2> SUFFICES ASSUME j + 1 < p PROVE Cong(s[j + 1], 1, p)
    OBVIOUS
  <2> DEFINE term == Bin[p][j + 1] * Pow(x)[j + 1]
  <2>1. s[j] \in Int /\ s[j + 1] = s[j] + term /\ term \in Int
    <3>1. j + 1 \in Nat
      OBVIOUS
    <3>2. term \in Int
      BY <1>0, <3>1, TermIsInt
    <3>3. s[j] \in Int /\ s[j + 1] = s[j] + term
      BY <1>0, SumStep
    <3> QED
      BY <3>2, <3>3
  <2>2. Cong(s[j], 1, p)
    BY <1>0, <1>2
  <2>3. Factor(p, term)
    <3>1. j + 1 \in 1..(p - 1)
      BY <1>0
    <3>2. Bin[p][j + 1] \in Int /\ Factor(p, Bin[p][j + 1])
      BY <3>1, PrimeDividesBin
    <3>3. Pow(x)[j + 1] \in Int
      BY PowStep
    <3> QED
      BY <3>2, <3>3, FactorOfProduct
  <2> HIDE DEF s, term
  <2>4. Cong(term, 0, p)
    <3>1. term - 0 = term
      BY <2>1
    <3> QED
      BY <2>3, <3>1 DEF Cong
  <2>a. 1 \in Int /\ 0 \in Int
    OBVIOUS
  <2>5. Cong(s[j] + term, 1 + 0, p)
    BY <2>a, <2>1, <2>2, <2>4, CongSum, Zenon
  <2> QED
    BY <2>1, <2>5
<1> HIDE DEF S
<1>3. p - 1 \in S
  BY <1>0, <1>1, <1>2, Induction
<1>4. Cong(s[p - 1], 1, p)
  BY <1>0, <1>3 DEF S
<1> DEFINE y == Pow(x)[p]
<1>5. y \in Int /\ s[p - 1] \in Int
  BY <1>0, PowStep, SumStep
<1>6. s[p] = s[p - 1] + Bin[p][p] * y
  <2>1. s[(p - 1) + 1] = s[p - 1] + Bin[p][(p - 1) + 1] * Pow(x)[(p - 1) + 1]
    BY <1>0, SumStep
  <2> QED
    BY <1>0, <2>1
<1>7. Bin[p][p] = 1 /\ s[p] = Pow(x + 1)[p]
  BY <1>0, BinEnds, Binomial
<1> HIDE DEF s, y
<1>8. Pow(x + 1)[p] = s[p - 1] + y
  BY <1>5, <1>6, <1>7
<1>9. Cong(s[p - 1] + y, 1 + y, p)
  <2>1. Cong(y, y, p) /\ 1 \in Int
    BY <1>5, CongReflexive
  <2> QED
    BY <1>4, <1>5, <2>1, CongSum, Zenon
<1>10. 1 + y = y + 1
  BY <1>5
<1> QED
  BY <1>8, <1>9, <1>10 DEF y

(* Fermat's little theorem.                                                *)
LEMMA Fermat ==
  ASSUME NEW p \in Int, IsPrime(p)
  PROVE  \A x \in Nat : Cong(Pow(x)[p], x, p)
<1>0. p \in Nat /\ p - 1 \in Nat /\ (p - 1) + 1 = p
  BY PrimeIsPositive
<1> DEFINE S == {x \in Nat : Cong(Pow(x)[p], x, p)}
<1>1. 0 \in S
  <2>1. Pow(0)[p - 1] \in Int /\ Pow(0)[(p - 1) + 1] = Pow(0)[p - 1] * 0
    BY <1>0, PowStep
  <2>2. Pow(0)[p] = 0
    BY <1>0, <2>1
  <2>3. Cong(0, 0, p)
    BY CongReflexive
  <2> QED
    BY <2>2, <2>3
<1>2. ASSUME NEW x \in Nat, x \in S PROVE x + 1 \in S
  <2>1. Cong(Pow(x + 1)[p], Pow(x)[p] + 1, p)
    BY PrimePower
  <2>2. Pow(x)[p] \in Int /\ Pow(x + 1)[p] \in Int
    BY <1>0, PowStep
  <2>3. Cong(Pow(x)[p], x, p)
    BY <1>2
  <2>4. Cong(Pow(x)[p] + 1, x + 1, p)
    <3>1. Cong(1, 1, p) /\ 1 \in Int /\ x \in Int
      BY CongReflexive
    <3> QED
      BY <2>2, <2>3, <3>1, CongSum, Zenon
  <2>5. Cong(Pow(x + 1)[p], x + 1, p)
    BY <2>1, <2>2, <2>4, CongTransitive
  <2> QED
    BY <2>5
<1> HIDE DEF S
<1>3. Nat \subseteq S
  BY <1>1, <1>2, Induction
<1> QED
  BY <1>3 DEF S

-----------------------------------------------------------------------------
(* RSA                                                                     *)

(* Fermat, for the exponents that RSA multiplies out to.                   *)
LEMMA FermatRepeated ==
  ASSUME NEW p \in Int, IsPrime(p), NEW x \in Nat
  PROVE  \A c \in Nat : Cong(Pow(x)[(p - 1) * c + 1], x, p)
<1>0. p \in Nat /\ p - 1 \in Nat /\ (p - 1) + 1 = p
  BY PrimeIsPositive
<1> DEFINE S == {c \in Nat : Cong(Pow(x)[(p - 1) * c + 1], x, p)}
<1>1. 0 \in S
  <2>1. (p - 1) * 0 + 1 = 1
    OBVIOUS
  <2>2. Cong(Pow(x)[1], x, p)
    BY PowOne, CongReflexive
  <2>3. Cong(Pow(x)[(p - 1) * 0 + 1], x, p)
    BY <2>1, <2>2
  <2> QED
    BY <2>3
<1>2. ASSUME NEW c \in Nat, c \in S PROVE c + 1 \in S
  <2> DEFINE k == (p - 1) * c + 1
             i == (p - 1) * (c + 1) + 1
  <2>1. k \in Nat /\ i = k + (p - 1)
    BY <1>0
  <2> HIDE DEF k, i
  <2>2. Pow(x)[k] \in Int /\ Pow(x)[p - 1] \in Int /\ Pow(x)[i] = Pow(x)[k] * Pow(x)[p - 1]
    <3>1. x \in Int
      OBVIOUS
    <3>2. Pow(x)[k] \in Int /\ Pow(x)[p - 1] \in Int
      BY <1>0, <2>1, <3>1, PowStep
    <3>3. Pow(x)[k + (p - 1)] = Pow(x)[k] * Pow(x)[p - 1]
      BY <1>0, <2>1, <3>1, PowSum, Zenon
    <3> QED
      BY <2>1, <3>2, <3>3
  <2>3. Cong(Pow(x)[k], x, p)
    BY <1>2 DEF k
  <2>4. Cong(Pow(x)[k] * Pow(x)[p - 1], x * Pow(x)[p - 1], p)
    <3>1. Cong(Pow(x)[p - 1], Pow(x)[p - 1], p) /\ x \in Int
      BY <2>2, CongReflexive
    <3> QED
      BY <2>2, <2>3, <3>1, CongProduct, Zenon
  <2>5. x * Pow(x)[p - 1] = Pow(x)[p]
    <3>1. Pow(x)[(p - 1) + 1] = Pow(x)[p - 1] * x
      BY <1>0, PowStep
    <3>2. Pow(x)[p] = Pow(x)[p - 1] * x
      BY <1>0, <3>1
    <3> QED
      BY <2>2, <3>2
  <2>6. Cong(Pow(x)[p], x, p) /\ Pow(x)[p] \in Int
    BY <1>0, Fermat, PowStep
  <2>7. Cong(Pow(x)[i], Pow(x)[p], p) /\ Pow(x)[i] \in Int
    BY <2>2, <2>4, <2>5
  <2>8. Cong(Pow(x)[i], x, p)
    BY <2>6, <2>7, CongTransitive
  <2> QED
    BY <2>8 DEF i
<1> HIDE DEF S
<1>3. Nat \subseteq S
  BY <1>1, <1>2, Induction
<1> QED
  BY <1>3 DEF S

(* Decryption with d, then encryption with e, gives the message back.      *)
LEMMA RsaInverts ==
  ASSUME NEW p \in Int, NEW q \in Int, IsPrime(p), IsPrime(q), p # q,
         NEW e \in Nat, NEW d \in Nat, (e * d) % ((p - 1) * (q - 1)) = 1,
         NEW x \in Nat
  PROVE  Exp(Exp(x, d, p * q), e, p * q) = x % (p * q)
<1> DEFINE n == p * q
           tot == (p - 1) * (q - 1)
<1>0. p - 1 \in Positive /\ q - 1 \in Positive /\ p \in Positive /\ q \in Positive
  BY PrimeIsPositive DEF Positive
<1>1. n \in Positive /\ tot \in Positive /\ n \in Int
  <2>1. \A u, v \in Positive : u * v \in Positive
    BY DEF Positive
  <2> QED
    BY <1>0, <2>1
<1>2. PICK c \in Nat : d * e = tot * c + 1
  <2> DEFINE ed == e * d
             k == ed \div tot
  <2>1. ed \in Nat
    OBVIOUS
  <2>2. ed % tot = 1
    OBVIOUS
  <2> HIDE DEF ed, tot
  <2>3. 1 \in 0..(tot - 1) /\ k \in Int /\ ed = tot * k + 1
    BY <1>1, <2>1, <2>2, QuotientRemainder
  <2> HIDE DEF k
  <2>4. k \in Nat
    <3>1. CASE k < 0
      <4>1. tot * k <= -tot
        <5>1. -k - 1 \in Nat
          BY <2>3, <3>1
        <5>2. tot * (-k - 1) >= 0
          BY <1>1, <5>1 DEF Positive
        <5>3. tot * (-k - 1) = -(tot * k) - tot
          BY <1>1, <2>3 DEF Positive
        <5> QED
          BY <1>1, <2>3, <5>2, <5>3 DEF Positive
      <4>2. tot * k \in Int /\ tot >= 2
        BY <1>1, <2>3 DEF Positive
      <4> QED
        BY <1>1, <2>1, <2>3, <4>1, <4>2 DEF Positive
    <3> QED
      BY <2>3, <3>1
  <2>5. d * e = ed
    BY DEF ed
  <2> QED
    BY <2>3, <2>4, <2>5
<1> DEFINE y == Pow(x)[d]
           z == Pow(x)[d * e]
<1>3. y \in Int /\ z \in Int /\ Pow(y)[e] = z
  <2>1. x \in Int /\ d * e \in Nat
    OBVIOUS
  <2>2. Pow(x)[d] \in Int /\ Pow(x)[d * e] \in Int
    BY <2>1, PowStep
  <2>3. Pow(Pow(x)[d])[e] = Pow(x)[d * e]
    BY <2>1, PowProduct
  <2> QED
    BY <2>2, <2>3
<1>4. Cong(z, x, p)
  <2>1. (q - 1) * c \in Nat /\ d * e = (p - 1) * ((q - 1) * c) + 1
    BY <1>0, <1>2 DEF Positive
  <2> QED
    BY <2>1, FermatRepeated
<1>5. Cong(z, x, q)
  <2>1. (p - 1) * c \in Nat /\ d * e = (q - 1) * ((p - 1) * c) + 1
    BY <1>0, <1>2 DEF Positive
  <2> QED
    BY <2>1, FermatRepeated
<1> HIDE DEF y, z
<1>6. Cong(z, x, n)
  <2>1. z - x \in Int
    BY <1>3
  <2> QED
    BY <1>4, <1>5, <2>1, TwoPrimeFactors DEF Cong
<1> HIDE DEF n
<1>7. Exp(x, d, n) = y % n
  BY <1>1, ExpIsPow DEF y
<1>8. y % n \in Int /\ Cong(y % n, y, n)
  BY <1>1, <1>3, CongRemainder
<1>9. Exp(y % n, e, n) = Pow(y % n)[e] % n
  BY <1>1, <1>8, ExpIsPow
<1>10. Cong(Pow(y % n)[e], z, n) /\ Pow(y % n)[e] \in Int
  BY <1>1, <1>3, <1>8, CongPow, PowStep
<1>11. Cong(Pow(y % n)[e], x, n)
  BY <1>1, <1>3, <1>6, <1>10, CongTransitive
<1>12. Pow(y % n)[e] % n = x % n
  BY <1>1, <1>10, <1>11, SameRemainder
<1>13. Exp(Exp(x, d, n), e, n) = x % n
  BY <1>7, <1>9, <1>12
<1> QED
  BY <1>13 DEF n

(* What set_e() accepts has an inverse.                                    *)
LEMMA InverseExists ==
  ASSUME NEW v \in Int, NEW a \in Int, NEW b \in Int,
         GCD(v, a) = 1, GCD(v, b) = 1, v < a * b
  PROVE  /\ v \in Nat /\ ModInverse(v, a * b) \in Nat
         /\ (v * ModInverse(v, a * b)) % (a * b) = 1
<1> DEFINE m == a * b
<1>1. v \in Positive /\ m \in Positive /\ m > 1
  <2>1. v \in Positive /\ a \in Positive /\ b \in Positive
    BY CoprimeCombination
  <2>2. \A x, y \in Positive : x * y \in Positive
    BY DEF Positive
  <2> QED
    BY <2>1, <2>2 DEF Positive
<1>2. PICK x \in Int, y \in Int : v * x + a * y = 1
  BY CoprimeCombination
<1>3. PICK u \in Int, w \in Int : v * u + b * w = 1
  BY CoprimeCombination
<1> DEFINE X == x + u - v * (x * u)
<1>4. X \in Int
  OBVIOUS
<1>5. v * X - 1 = m * (-(y * w)) /\ -(y * w) \in Int
  <2>1. a * y = 1 - v * x /\ b * w = 1 - v * u
    BY <1>2, <1>3
  <2>2. (a * y) * (b * w) = (1 - v * x) * (1 - v * u)
    BY <2>1
  <2>3. (1 - v * x) * (1 - v * u) = 1 - v * (x + u - v * (x * u))
    OBVIOUS
  <2>4. (a * y) * (b * w) = (a * b) * (y * w)
    OBVIOUS
  <2>5. (a * b) * (y * w) = 1 - v * X
    BY <2>2, <2>3, <2>4
  <2>6. y * w \in Int /\ a * b \in Int /\ v * X \in Int
    OBVIOUS
  <2> HIDE DEF X
  <2> QED
    BY <2>5, <2>6
<1> HIDE DEF m, X
<1>6. Cong(v * X, 1, m)
  BY <1>5 DEF Cong, Factor
<1> DEFINE d == X % m
<1>7. d \in 0..(m - 1) /\ d \in Int /\ Cong(d, X, m)
  BY <1>1, <1>4, QuotientRemainder, CongRemainder
<1> HIDE DEF d
<1>8. m \in Int /\ v * d \in Int /\ v * X \in Int /\ 1 \in Int
  BY <1>1, <1>4, <1>7 DEF Positive
<1>9. Cong(v * d, v * X, m)
  <2>1. Cong(v, v, m)
    BY <1>8, CongReflexive
  <2> QED
    BY <1>4, <1>7, <1>8, <2>1, CongProduct, Zenon
<1>10. Cong(v * d, 1, m)
  BY <1>6, <1>8, <1>9, CongTransitive, Zenon
<1>11. (v * d) % m = 1
  <2>1. (v * d) % m = 1 % m
    BY <1>1, <1>8, <1>10, SameRemainder
  <2>2. 1 \in 0..(m - 1)
    BY <1>1, <1>8
  <2> QED
    BY <1>1, <2>1, <2>2, SmallRemainder
<1>12. d # 0
  <2> SUFFICES ASSUME d = 0 PROVE FALSE
    OBVIOUS
  <2>1. v * d = 0 /\ 0 \in 0..(m - 1)
    BY <1>1, <1>8
  <2>2. 0 % m = 0
    BY <1>1, <2>1, SmallRemainder
  <2> QED
    BY <1>11, <2>1, <2>2
<1>13. d \in Inverses(v, m)
  BY <1>7, <1>8, <1>11, <1>12 DEF Inverses
<1> DEFINE i == CHOOSE z \in Inverses(v, m) : TRUE
<1>14. i \in Inverses(v, m) /\ ModInverse(v, m) = i
  BY <1>13 DEF ModInverse
<1> HIDE DEF i
<1>15. ModInverse(v, m) \in Nat /\ (v * ModInverse(v, m)) % m = 1
  BY <1>14 DEF Inverses
<1>16. v \in Nat
  BY <1>1 DEF Positive
<1> QED
  BY <1>15, <1>16 DEF m

-----------------------------------------------------------------------------
(* next_prime() finds a prime: Euclid's theorem                            *)

(* Every number up to n divides n!.                                        *)
LEMMA FactorialHasFactors ==
  ASSUME NEW n \in Nat
  PROVE  Factorial(n) \in Positive /\ \A k \in 1..n : Factor(k, Factorial(n))
<1> DEFINE G == [k \in Nat |-> [v \in Positive |-> v * (k + 1)]]
           Body(f) == [k \in 0..n |-> IF k = 0 THEN 1 ELSE f[k - 1] * k]
           product == CHOOSE f : f = Body(f)
<1>1. Factorial(n) = product[n]
  BY DEF Factorial
<1>2. G \in [Nat -> [Positive -> Positive]] /\ 1 \in Positive
  <2>1. \A v \in Positive, k \in Nat : v * (k + 1) \in Positive
    BY DEF Positive
  <2> QED
    BY <2>1 DEF Positive
<1>3. \A k \in Nat, v \in Positive : G[k][v] = v * (k + 1)
  OBVIOUS
<1> HIDE DEF G
<1>4. PICK h : Recursive(h, Positive, 1, G)
  BY <1>2, Recursion
<1>5. h \in [Nat -> Positive] /\ h[0] = 1 /\ \A k \in Nat : h[k + 1] = h[k] * (k + 1)
  BY <1>3, <1>4 DEF Recursive
<1> DEFINE g == [k \in 0..n |-> h[k]]
<1>6. g = Body(g)
  <2>1. \A k \in 0..n : g[k] = IF k = 0 THEN 1 ELSE g[k - 1] * k
    <3> TAKE k \in 0..n
    <3>1. CASE k = 0
      BY <1>5, <3>1
    <3>2. CASE k # 0
      <4>1. k - 1 \in 0..n /\ k - 1 \in Nat /\ (k - 1) + 1 = k
        BY <3>2
      <4>2. h[(k - 1) + 1] = h[k - 1] * ((k - 1) + 1)
        BY <1>5, <4>1
      <4> QED
        BY <3>2, <4>1, <4>2
    <3> QED
      BY <3>1, <3>2
  <2>2. g = [k \in 0..n |-> g[k]]
    OBVIOUS
  <2> HIDE DEF g
  <2> QED
    BY <2>1, <2>2
<1>7. product = Body(product)
  <2> HIDE DEF g, Body
  <2> QED
    BY <1>6
<1>8. product[0] = 1 /\ \A k \in 0..(n - 1) : product[k + 1] = product[k] * (k + 1)
  <2> HIDE DEF product
  <2>1. product[0] = Body(product)[0]
    BY <1>7
  <2>2. ASSUME NEW k \in 0..(n - 1) PROVE product[k + 1] = product[k] * (k + 1)
    <3>1. product[k + 1] = Body(product)[k + 1]
      BY <1>7
    <3>2. k + 1 \in 0..n /\ k + 1 # 0 /\ (k + 1) - 1 = k
      OBVIOUS
    <3>3. Body(product)[k + 1] = product[(k + 1) - 1] * (k + 1)
      BY <3>2
    <3> QED
      BY <3>1, <3>2, <3>3
  <2> QED
    BY <2>1, <2>2
<1> HIDE DEF product, Body, g
<1> DEFINE S == {j \in Nat : j <= n => /\ product[j] \in Positive
                                       /\ \A k \in 1..j : Factor(k, product[j])}
<1>9. 0 \in S
  BY <1>8 DEF Positive
<1>10. ASSUME NEW j \in Nat, j \in S PROVE j + 1 \in S
  <2> SUFFICES ASSUME j + 1 <= n
               PROVE  /\ product[j + 1] \in Positive
                      /\ \A k \in 1..(j + 1) : Factor(k, product[j + 1])
    OBVIOUS
  <2>1. product[j] \in Positive /\ \A k \in 1..j : Factor(k, product[j])
    BY <1>10
  <2>2. product[j + 1] = product[j] * (j + 1)
    <3>1. j \in 0..(n - 1)
      OBVIOUS
    <3> QED
      BY <1>8, <3>1
  <2>3. product[j] \in Int /\ j + 1 \in Int /\ product[j] * (j + 1) \in Positive
    BY <2>1 DEF Positive
  <2>4. ASSUME NEW k \in 1..(j + 1) PROVE Factor(k, product[j + 1])
    <3>1. CASE k = j + 1
      <4>1. product[j + 1] = k * product[j]
        BY <2>2, <2>3, <3>1
      <4> QED
        BY <2>3, <4>1 DEF Factor
    <3>2. CASE k # j + 1
      <4>1. k \in 1..j /\ k \in Int
        BY <3>2
      <4>2. Factor(k, product[j] * (j + 1))
        BY <2>1, <2>3, <4>1, FactorOfProduct
      <4> QED
        BY <2>2, <4>2
    <3> QED
      BY <3>1, <3>2
  <2> QED
    BY <2>2, <2>3, <2>4
<1> HIDE DEF S
<1>11. n \in S
  BY <1>9, <1>10, Induction
<1> QED
  BY <1>1, <1>11 DEF S

(* A number above one has a prime factor.                                  *)
LEMMA PrimeFactorExists ==
  ASSUME NEW x \in Nat, x > 1
  PROVE  \E k \in 2..x : IsPrime(k) /\ Factor(k, x)
<1> DEFINE T == {k \in 2..x : Factor(k, x)}
<1>1. x \in T
  <2>1. x = x * 1
    OBVIOUS
  <2> QED
    BY <2>1 DEF Factor
<1>2. T \subseteq Nat
  OBVIOUS
<1>3. \A k \in T : k \in 2..x /\ Factor(k, x)
  OBVIOUS
<1>4. \A k \in 2..x : Factor(k, x) => k \in T
  OBVIOUS
<1> HIDE DEF T
<1>5. PICK k \in T : \A j \in T : k <= j
  BY <1>1, <1>2, Least
<1>6. k \in 2..x /\ Factor(k, x)
  BY <1>3
<1>7. ASSUME NEW j \in 2..(k - 1), Divides(j, k) PROVE FALSE
  <2>1. j \in Positive /\ j \in Int /\ k \in Int /\ j \in 2..x /\ ~(k <= j)
    BY <1>6 DEF Positive
  <2>2. Factor(j, k)
    BY <1>7, <2>1, DividesIsFactor
  <2>3. Factor(j, x)
    BY <1>6, <2>1, <2>2, FactorTransitive
  <2> QED
    BY <1>4, <1>5, <2>1, <2>3
<1>8. IsPrime(k)
  BY <1>6, <1>7 DEF IsPrime
<1> QED
  BY <1>6, <1>8

(* A prime factor of n! + 1 is above n, so the search finds one.           *)
LEMMA NextPrimeIsPrime ==
  ASSUME NEW n \in Positive
  PROVE  next_prime(n) \in Nat /\ IsPrime(next_prime(n))
<1> DEFINE F == Factorial(n)
<1>0. n \in Nat /\ n >= 1
  BY DEF Positive
<1>1. F \in Positive /\ \A k \in 1..n : Factor(k, F)
  BY <1>0, FactorialHasFactors
<1> HIDE DEF F
<1>2. F \in Nat /\ F + 1 > 1 /\ F + 1 \in Nat
  BY <1>1 DEF Positive
<1>3. PICK k \in 2..(F + 1) : IsPrime(k) /\ Factor(k, F + 1)
  BY <1>2, PrimeFactorExists
<1>4. k > n
  <2> SUFFICES ASSUME ~(k > n) PROVE FALSE
    OBVIOUS
  <2>1. k \in 1..n /\ k \in Int /\ k \in Positive /\ F \in Int /\ F + 1 \in Int /\ 1 \in Positive
    BY <1>0, <1>2, <1>3 DEF Positive
  <2>2. Factor(k, F)
    BY <1>1, <2>1
  <2>3. Factor(k, (F + 1) * 1 + F * (-1))
    <3>1. 1 \in Int /\ -1 \in Int
      OBVIOUS
    <3> QED
      BY <1>3, <2>1, <2>2, <3>1, FactorOfSum, Zenon
  <2>4. (F + 1) * 1 + F * (-1) = 1
    BY <1>2
  <2>5. k <= 1
    BY <2>1, <2>3, <2>4, FactorIsSmaller
  <2> QED
    BY <1>3, <2>5
<1> DEFINE T == {j \in n..(F + 1) : IsPrime(j)}
<1>5. k \in T
  BY <1>0, <1>2, <1>3, <1>4
<1>6. T \subseteq Nat
  BY <1>0, <1>2
<1>7. /\ \A j \in T : j \in n..(F + 1) /\ IsPrime(j)
      /\ \A j \in n..(F + 1) : IsPrime(j) => j \in T
  OBVIOUS
<1> HIDE DEF T
<1>8. PICK pp \in T : \A j \in T : pp <= j
  BY <1>5, <1>6, Least
<1> DEFINE First(x) == IsPrime(x) /\ \A j \in n..(x - 1) : ~IsPrime(j)
<1>9. pp \in n..(F + 1) /\ First(pp)
  <2>1. pp \in n..(F + 1) /\ IsPrime(pp)
    BY <1>7
  <2>2. ASSUME NEW j \in n..(pp - 1) PROVE ~IsPrime(j)
    <3>1. j \in n..(F + 1) /\ ~(pp <= j)
      BY <1>0, <1>2, <2>1
    <3> QED
      BY <1>7, <1>8, <3>1
  <2> QED
    BY <2>1, <2>2
<1>10. next_prime(n) = CHOOSE x \in n..(F + 1) : First(x)
  BY DEF next_prime, F
<1> HIDE DEF First
<1>11. next_prime(n) \in n..(F + 1) /\ First(next_prime(n))
  BY <1>9, <1>10
<1>12. IsPrime(next_prime(n))
  BY <1>11 DEF First
<1> QED
  BY <1>0, <1>2, <1>11, <1>12

-----------------------------------------------------------------------------
(* The fields of the key                                                   *)

Keys == [p : Int, q : Int, n : Int, e : Int, d : Int]

PrimeOrUnset(x) == x = Unset \/ x > 1

IInv ==
    /\ key \in Keys
    /\ PrimeOrUnset(key.p) /\ PrimeOrUnset(key.q)
    /\ KeyConsistent

(* A modular inverse, or the zero that stands for none, is never the       *)
(* sentinel.                                                               *)
LEMMA InverseIsNat == \A x \in Int, m \in Int : ModInverse(x, m) \in Nat
<1> TAKE x \in Int, m \in Int
<1>1. Inverses(x, m) \subseteq Nat
  BY DEF Inverses
<1>2. CASE Inverses(x, m) # {}
  <2>1. (CHOOSE y \in Inverses(x, m) : TRUE) \in Inverses(x, m)
    BY <1>2
  <2> QED
    BY <1>1, <1>2, <2>1 DEF ModInverse
<1>3. CASE Inverses(x, m) = {}
  BY <1>3 DEF ModInverse
<1> QED
  BY <1>2, <1>3

(* GCD of Go 1.13 is 1 for positive numbers only, so that -1 is never      *)
(* taken for an exponent.                                                  *)
LEMMA CoprimeIsPositive == \A a \in Int, b \in Int : GCD(a, b) = 1 => a > 0
  BY DEF GCD

(* An empty key is consistent.                                             *)
LEMMA InitIInv == Init => IInv
  BY DEF Init, IInv, NoKey, Keys, PrimeOrUnset, Unset, KeyConsistent

(* The keys with e and d, or q and n, replaced.                            *)
WithED(k, x, y) == [k EXCEPT !.e = x, !.d = y]

WithQN(k, x, y) == [k EXCEPT !.q = x, !.n = y]

(* What replacing e and d does to a key.                                   *)
LEMMA ReplaceED ==
    \A k \in Keys, x \in Int, y \in Int :
        /\ WithED(k, x, y) \in Keys
        /\ WithED(k, x, y).p = k.p /\ WithED(k, x, y).q = k.q
        /\ WithED(k, x, y).n = k.n
        /\ WithED(k, x, y).e = x /\ WithED(k, x, y).d = y
<1> TAKE k \in Keys, x \in Int, y \in Int
<1> DEFINE r == WithED(k, x, y)
<1>0. r = [k EXCEPT !.e = x, !.d = y]
  BY DEF WithED
<1> HIDE DEF r
<1>1. r = [p |-> k.p, q |-> k.q, n |-> k.n, e |-> x, d |-> y]
  BY <1>0 DEF Keys
<1>2. WithED(k, x, y) = [p |-> k.p, q |-> k.q, n |-> k.n, e |-> x, d |-> y]
  BY <1>1 DEF r
<1> QED
  BY <1>2 DEF Keys

(* What replacing q and n does to a key.                                   *)
LEMMA ReplaceQN ==
    \A k \in Keys, x \in Int, y \in Int :
        /\ WithQN(k, x, y) \in Keys
        /\ WithQN(k, x, y).p = k.p /\ WithQN(k, x, y).e = k.e
        /\ WithQN(k, x, y).d = k.d
        /\ WithQN(k, x, y).q = x /\ WithQN(k, x, y).n = y
<1> TAKE k \in Keys, x \in Int, y \in Int
<1> DEFINE r == WithQN(k, x, y)
<1>0. r = [k EXCEPT !.q = x, !.n = y]
  BY DEF WithQN
<1> HIDE DEF r
<1>1. r = [p |-> k.p, q |-> x, n |-> y, e |-> k.e, d |-> k.d]
  BY <1>0 DEF Keys
<1>2. WithQN(k, x, y) = [p |-> k.p, q |-> x, n |-> y, e |-> k.e, d |-> k.d]
  BY <1>1 DEF r
<1> QED
  BY <1>2 DEF Keys

(* What a setter unsets before it fails leaves a consistent key.           *)
LEMMA Clearing ==
    ASSUME IInv
    PROVE  /\ ClearedByP \in Keys /\ ClearedByQ \in Keys /\ ClearedByE \in Keys
           /\ ClearedByP.p = key.p /\ ClearedByP.q = Unset
           /\ ClearedByP.n = Unset /\ ClearedByP.e = Unset /\ ClearedByP.d = Unset
           /\ ClearedByQ.p = key.p /\ ClearedByQ.q = key.q
           /\ ClearedByQ.n = key.n /\ ClearedByQ.e = Unset /\ ClearedByQ.d = Unset
           /\ ClearedByE.p = key.p /\ ClearedByE.q = key.q
           /\ ClearedByE.n = key.n /\ ClearedByE.e = Unset /\ ClearedByE.d = Unset
<1>0. Unset \in Int /\ key \in Keys
  BY DEF Unset, IInv
<1>a. WithoutE(key) = WithED(key, Unset, Unset)
  BY DEF WithoutE, WithED
<1>1. /\ WithoutE(key) \in Keys
      /\ WithoutE(key).p = key.p /\ WithoutE(key).q = key.q
      /\ WithoutE(key).n = key.n
      /\ WithoutE(key).e = Unset /\ WithoutE(key).d = Unset
  BY <1>0, <1>a, ReplaceED
<1>2. WithoutQ(key) = WithQN(WithoutE(key), Unset, Unset)
  BY DEF WithoutQ, WithQN
<1>3. /\ WithoutQ(key) \in Keys
      /\ WithoutQ(key).p = key.p /\ WithoutQ(key).q = Unset
      /\ WithoutQ(key).n = Unset
      /\ WithoutQ(key).e = Unset /\ WithoutQ(key).d = Unset
  BY <1>0, <1>1, <1>2, ReplaceQN
<1>4. key \in Keys /\ KeyConsistent
  BY DEF IInv
<1>5. /\ ClearedByP \in Keys
      /\ ClearedByP.p = key.p /\ ClearedByP.q = Unset
      /\ ClearedByP.n = Unset /\ ClearedByP.e = Unset /\ ClearedByP.d = Unset
  BY <1>3, <1>4 DEF ClearedByP, KeyConsistent
<1>6. /\ ClearedByQ \in Keys
      /\ ClearedByQ.p = key.p /\ ClearedByQ.q = key.q
      /\ ClearedByQ.n = key.n /\ ClearedByQ.e = Unset /\ ClearedByQ.d = Unset
  BY <1>1, <1>4 DEF ClearedByQ, KeyConsistent
<1>7. /\ ClearedByE \in Keys
      /\ ClearedByE.p = key.p /\ ClearedByE.q = key.q
      /\ ClearedByE.n = key.n /\ ClearedByE.e = Unset /\ ClearedByE.d = Unset
  BY <1>1, <1>4 DEF ClearedByE, KeyConsistent
<1> QED
  BY <1>5, <1>6, <1>7

(* What setq and sete leave behind when they accept their argument.         *)
LEMMA AcceptedQ ==
    ASSUME IInv, NEW v \in Numbers, SetQ(v), AcceptsQ(v)
    PROVE  /\ v \in Int /\ v > 1 /\ key.p # Unset
           /\ key' \in Keys /\ key.p' = key.p /\ key.q' = v
           /\ key.n' = key.p' * key.q' /\ key.e' = Unset /\ key.d' = Unset
<1>1. v \in Int /\ v > 1
  BY NumbersAssumption DEF AcceptsQ, IsPrime
<1>2. key' = [ClearedByQ EXCEPT !.q = v, !.n = key.p * v] /\ key.p # Unset
  BY DEF SetQ
<1>3. key.p * v \in Int
  BY <1>1 DEF IInv, Keys
<1> DEFINE pq == key.p * v
<1>4. ClearedByQ \in Keys /\ pq \in Int /\ ClearedByQ.p = key.p
      /\ ClearedByQ.e = Unset /\ ClearedByQ.d = Unset
  BY <1>3, Clearing
<1>5. key' = WithQN(ClearedByQ, v, pq)
  BY <1>2 DEF WithQN
<1> HIDE DEF pq
<1>6. /\ key' \in Keys /\ key.p' = key.p /\ key.q' = v /\ key.n' = pq
      /\ key.e' = Unset /\ key.d' = Unset
  BY <1>1, <1>4, <1>5, ReplaceQN
<1>7. key.n' = key.p' * key.q'
  BY <1>6 DEF pq
<1> QED
  BY <1>1, <1>2, <1>6, <1>7

(* The key that sete leaves when it accepts its argument.                  *)
LEMMA AcceptedE ==
    ASSUME IInv, NEW v \in Numbers, SetE(v), AcceptsE(v)
    PROVE  /\ v \in Int /\ v > 0 /\ key.p # Unset /\ key.q # Unset
           /\ key' \in Keys /\ key.p' = key.p /\ key.q' = key.q /\ key.n' = key.n
           /\ key.e' = v /\ key.d' = ModInverse(v, Totient) /\ key.d' \in Nat
<1> DEFINE inv == ModInverse(v, Totient)
<1>1. v \in Int /\ key.p - 1 \in Int /\ Totient \in Int
  BY NumbersAssumption DEF IInv, Keys, Totient
<1>2. v > 0
  BY <1>1, CoprimeIsPositive DEF AcceptsE
<1>3. inv \in Nat
  BY <1>1, InverseIsNat
<1>4. key' = [ClearedByE EXCEPT !.e = v, !.d = inv] /\ key.p # Unset /\ key.q # Unset
  BY DEF SetE
<1> HIDE DEF inv
<1> DEFINE cleared == ClearedByE
<1>5. cleared \in Keys /\ cleared.p = key.p /\ cleared.q = key.q /\ cleared.n = key.n
  BY Clearing
<1>6. key' = WithED(cleared, v, inv)
  BY <1>4 DEF WithED
<1> HIDE DEF cleared
<1>7. /\ key' \in Keys /\ key.p' = key.p /\ key.q' = key.q
      /\ key.n' = key.n /\ key.e' = v /\ key.d' = inv
  BY <1>1, <1>3, <1>5, <1>6, ReplaceED
<1> QED
  BY <1>1, <1>2, <1>3, <1>4, <1>7 DEF inv

(* Every step keeps the key consistent.                                    *)
LEMMA NextIInv == IInv /\ [Next]_vars => IInv'
<1> SUFFICES ASSUME IInv, [Next]_vars PROVE IInv'
  OBVIOUS
<1> USE NumbersAssumption
<1>0. ASSUME UNCHANGED key PROVE IInv'
  BY <1>0 DEF IInv, KeyConsistent
<1>1. ASSUME NEW v \in Numbers, SetP(v) PROVE IInv'
  <2>1. CASE AcceptsP(v)
    <3>1. v \in Int /\ v > 1
      BY <2>1 DEF AcceptsP, IsPrime
    <3>2. key' = [ClearedByP EXCEPT !.p = v]
      BY <1>1, <2>1 DEF SetP
    <3> QED
      BY <3>1, <3>2, Clearing DEF IInv, Keys, PrimeOrUnset, KeyConsistent, Unset
  <2>2. CASE ~AcceptsP(v)
    <3>1. key' = ClearedByP
      BY <1>1, <2>2 DEF SetP
    <3> QED
      BY <3>1, Clearing DEF IInv, Keys, PrimeOrUnset, KeyConsistent, Unset
  <2> QED
    BY <2>1, <2>2
<1>2. ASSUME NEW v \in Numbers, SetQ(v) PROVE IInv'
  <2>1. CASE AcceptsQ(v)
    BY <1>2, <2>1, AcceptedQ DEF IInv, PrimeOrUnset, KeyConsistent, Unset
  <2>2. CASE ~AcceptsQ(v)
    <3>1. key' = ClearedByQ
      BY <1>2, <2>2 DEF SetQ
    <3> QED
      BY <3>1, Clearing DEF IInv, Keys, PrimeOrUnset, KeyConsistent, Unset
  <2> QED
    BY <2>1, <2>2
<1>3. ASSUME NEW v \in Numbers, SetE(v) PROVE IInv'
  <2>1. CASE AcceptsE(v)
    <3>1. /\ v > 0 /\ v \in Int /\ key.q # Unset
          /\ key' \in Keys /\ key.p' = key.p /\ key.q' = key.q /\ key.n' = key.n
          /\ key.e' = v /\ key.d' \in Nat
      BY <1>3, <2>1, AcceptedE
    <3>2. key.p # Unset /\ key.n = key.p * key.q
      BY <3>1 DEF IInv, KeyConsistent
    <3>3. key.e' # Unset /\ key.d' # Unset
      BY <3>1 DEF Unset
    <3> QED
      BY <3>1, <3>2, <3>3 DEF IInv, PrimeOrUnset, KeyConsistent
  <2>2. CASE ~AcceptsE(v)
    <3>1. key' = ClearedByE
      BY <1>3, <2>2 DEF SetE
    <3> QED
      BY <3>1, Clearing DEF IInv, Keys, PrimeOrUnset, KeyConsistent, Unset
  <2> QED
    BY <2>1, <2>2
<1>4. ASSUME SetPUnparsed \/ SetQUnparsed \/ SetEUnparsed PROVE IInv'
  BY <1>4, Clearing
  DEF SetPUnparsed, SetQUnparsed, SetEUnparsed, IInv, Keys, PrimeOrUnset,
      KeyConsistent, Unset
<1>5. ASSUME ResetKey PROVE IInv'
  BY <1>5 DEF ResetKey, NoKey, IInv, Keys, PrimeOrUnset, KeyConsistent, Unset
<1>6. ASSUME HoldFails \/ (\E m \in Messages : HoldWithoutTarget(m))
             \/ (\E m \in Messages, r \in Offsets : HoldWithTarget(m, r))
      PROVE  IInv'
  BY <1>0, <1>6 DEF HoldFails, HoldWithoutTarget, HoldWithTarget, Hold
<1>7. ASSUME Attack \/ Inspect \/ Quit \/ UNCHANGED vars PROVE IInv'
  BY <1>0, <1>7 DEF Attack, Inspect, Quit, vars
<1> QED
  BY <1>1, <1>2, <1>3, <1>4, <1>5, <1>6, <1>7 DEF Next

(* Whatever is typed, and wherever set_p(), set_q() and set_e() of rsa.go  *)
(* give up, q is never set without p, n is the product of p and q, and e   *)
(* and d are set together and only on top of a q.                          *)
THEOREM KeyStaysConsistent == Spec => []KeyConsistent
<1>1. IInv => KeyConsistent
  BY DEF IInv
<1> QED
  BY InitIInv, NextIInv, <1>1, PTL DEF Spec

-----------------------------------------------------------------------------
(* The key pair and the message                                            *)

(* p and q are primes and differ, and e and d are inverse to each other.   *)
Paired ==
    /\ key.p = Unset \/ IsPrime(key.p)
    /\ key.q # Unset => IsPrime(key.q) /\ key.p # key.q
    /\ key.d # Unset => /\ key.q # Unset /\ key.e \in Nat /\ key.d \in Nat
                        /\ (key.e * key.d) % Totient = 1

(* A target belongs to the message that is held.                           *)
Targeted ==
    /\ CurMsg = Unset \/ CurMsg \in Nat
    /\ TargMsg \in Int /\ source \in Int
    /\ TargMsg # Unset => source = CurMsg /\ CurMsg # Unset /\ IsPrime(TargMsg)
    /\ answer \in {"none", "key rejected", "no message", "no response", "flag"}
    /\ running \in BOOLEAN
    /\ answer = "flag" => ~running

RInv == IInv /\ Paired /\ Targeted /\ FlagEarned

(* A number above one is not coprime to itself.                            *)
LEMMA CoprimePrimesDiffer ==
    ASSUME NEW v \in Int, v > 1, NEW x \in Int, GCD(v, x) = 1
    PROVE  x # v
<1> SUFFICES ASSUME x = v PROVE FALSE
  OBVIOUS
<1>1. PICK a \in Int, b \in Int : v * a + v * b = 1
  BY CoprimeCombination
<1>2. 1 = v * (a + b) /\ a + b \in Int
  BY <1>1
<1>3. Factor(v, 1) /\ v \in Positive /\ 1 \in Positive
  BY <1>2 DEF Factor, Positive
<1> QED
  BY <1>3, FactorIsSmaller

(* A consistent pair of keys inverts, modulo n.                            *)
LEMMA KeyPairInverts ==
    ASSUME IInv, Paired, key.d # Unset, NEW x \in Nat
    PROVE  /\ key.n \in Positive /\ key.d \in Nat /\ key.e \in Nat
           /\ Exp(Exp(x, key.d, key.n), key.e, key.n) = x % key.n
<1> DEFINE p == key.p
           q == key.q
           e == key.e
           d == key.d
<1>1. /\ p \in Int /\ q \in Int /\ e \in Nat /\ d \in Nat
      /\ IsPrime(p) /\ IsPrime(q) /\ p # q
      /\ (e * d) % ((p - 1) * (q - 1)) = 1
  BY DEF IInv, KeyConsistent, Keys, Paired, Totient
<1>2. key.n = p * q
  BY DEF IInv, KeyConsistent, Paired
<1> HIDE DEF p, q, e, d
<1>3. Exp(Exp(x, d, p * q), e, p * q) = x % (p * q)
  BY <1>1, RsaInverts
<1>4. p * q \in Positive
  <2>1. p \in Positive /\ q \in Positive
    BY <1>1, PrimeIsPositive
  <2> QED
    BY <2>1 DEF Positive
<1> QED
  BY <1>1, <1>2, <1>3, <1>4 DEF e, d

(* Every step keeps p and q prime and different, and d the inverse of e.   *)
LEMMA NextPaired == IInv /\ Paired /\ [Next]_vars => Paired'
<1> SUFFICES ASSUME IInv, Paired, [Next]_vars PROVE Paired'
  OBVIOUS
<1> USE NumbersAssumption
<1>0. ASSUME UNCHANGED key PROVE Paired'
  BY <1>0 DEF Paired, Totient
<1>a. ASSUME key' = ClearedByP \/ key' = ClearedByQ \/ key' = ClearedByE PROVE Paired'
  <2>1. key.p' = key.p /\ key.d' = Unset /\ (key.q' = key.q \/ key.q' = Unset)
    BY <1>a, Clearing
  <2> QED
    BY <2>1 DEF Paired
<1>1. ASSUME NEW v \in Numbers, SetP(v) PROVE Paired'
  <2>1. CASE AcceptsP(v)
    <3>1. key' = [ClearedByP EXCEPT !.p = v]
      BY <1>1, <2>1 DEF SetP
    <3>2. key.p' = v /\ key.q' = Unset /\ key.d' = Unset
      BY <3>1, Clearing DEF Keys
    <3> QED
      BY <2>1, <3>2 DEF Paired, AcceptsP
  <2>2. CASE ~AcceptsP(v)
    BY <1>1, <1>a, <2>2 DEF SetP
  <2> QED
    BY <2>1, <2>2
<1>2. ASSUME NEW v \in Numbers, SetQ(v) PROVE Paired'
  <2>1. CASE AcceptsQ(v)
    <3>1. v \in Int /\ v > 1 /\ key.p' = key.p /\ key.q' = v /\ key.d' = Unset
      BY <1>2, <2>1, AcceptedQ
    <3>2. IsPrime(v) /\ key.p # v
      BY <2>1, <3>1, CoprimePrimesDiffer DEF AcceptsQ, IInv, Keys
    <3> QED
      BY <3>1, <3>2 DEF Paired
  <2>2. CASE ~AcceptsQ(v)
    BY <1>2, <1>a, <2>2 DEF SetQ
  <2> QED
    BY <2>1, <2>2
<1>3. ASSUME NEW v \in Numbers, SetE(v) PROVE Paired'
  <2>1. CASE AcceptsE(v)
    <3>1. /\ v \in Int /\ key.q # Unset /\ key.p' = key.p /\ key.q' = key.q
          /\ key.e' = v /\ key.d' = ModInverse(v, Totient)
      BY <1>3, <2>1, AcceptedE
    <3>2. key.p - 1 \in Int /\ key.q - 1 \in Int
      BY DEF IInv, Keys
    <3>3. /\ GCD(v, key.p - 1) = 1 /\ GCD(v, key.q - 1) = 1
          /\ v < (key.p - 1) * (key.q - 1)
      BY <2>1 DEF AcceptsE, Totient
    <3>4. /\ v \in Nat /\ ModInverse(v, Totient) \in Nat
          /\ (v * ModInverse(v, Totient)) % Totient = 1
      BY <3>1, <3>2, <3>3, InverseExists DEF Totient
    <3>5. Totient' = Totient
      BY <3>1 DEF Totient
    <3>6. (key.e' * key.d') % Totient' = 1
      BY <3>1, <3>4, <3>5
    <3> QED
      BY <3>1, <3>4, <3>6 DEF Paired
  <2>2. CASE ~AcceptsE(v)
    BY <1>3, <1>a, <2>2 DEF SetE
  <2> QED
    BY <2>1, <2>2
<1>4. ASSUME SetPUnparsed \/ SetQUnparsed \/ SetEUnparsed PROVE Paired'
  BY <1>4, <1>a DEF SetPUnparsed, SetQUnparsed, SetEUnparsed
<1>5. ASSUME ResetKey PROVE Paired'
  BY <1>5 DEF ResetKey, NoKey, Paired
<1>6. ASSUME HoldFails \/ (\E m \in Messages : HoldWithoutTarget(m))
             \/ (\E m \in Messages, r \in Offsets : HoldWithTarget(m, r))
      PROVE  Paired'
  BY <1>0, <1>6 DEF HoldFails, HoldWithoutTarget, HoldWithTarget, Hold
<1>7. ASSUME Attack \/ Inspect \/ Quit \/ UNCHANGED vars PROVE Paired'
  BY <1>0, <1>7 DEF Attack, Inspect, Quit, vars
<1> QED
  BY <1>1, <1>2, <1>3, <1>4, <1>5, <1>6, <1>7 DEF Next

(* Every step keeps the target with its message.                           *)
LEMMA NextTargeted == Targeted /\ [Next]_vars => Targeted'
<1> SUFFICES ASSUME Targeted, [Next]_vars PROVE Targeted'
  OBVIOUS
<1>0. Unset \in Int /\ \A m \in Messages : m \in Nat /\ m \in Int /\ m # Unset
  BY MessagesAssumption DEF Unset
<1>1. ASSUME KeyCommand PROVE Targeted'
  BY <1>1 DEF KeyCommand, KeepMsg, Targeted
<1>2. ASSUME HoldFails PROVE Targeted'
  BY <1>0, <1>2 DEF HoldFails, Hold, Targeted
<1>3. ASSUME NEW m \in Messages, HoldWithoutTarget(m) PROVE Targeted'
  BY <1>0, <1>3 DEF HoldWithoutTarget, Hold, Targeted
<1>4. ASSUME NEW m \in Messages, NEW r \in Offsets, HoldWithTarget(m, r) PROVE Targeted'
  <2> DEFINE target == next_prime(BaseTarg + r)
  <2>1. BaseTarg + r \in Positive
    BY TargetAssumption DEF Positive
  <2>2. target \in Int /\ IsPrime(target)
    BY <2>1, NextPrimeIsPrime
  <2>3. target # Unset
    BY <2>2 DEF IsPrime, Unset
  <2>4. Hold(m, target)
    BY <1>4 DEF HoldWithTarget
  <2> HIDE DEF target
  <2> QED
    BY <1>0, <2>2, <2>3, <2>4 DEF Hold, Targeted
<1>5. ASSUME Attack PROVE Targeted'
  BY <1>5 DEF Attack, Response, KeepMsg, Targeted
<1>6. ASSUME Inspect \/ Quit \/ UNCHANGED vars PROVE Targeted'
  <2>1. UNCHANGED <<CurMsg, TargMsg, source, answer>>
    BY <1>6 DEF Inspect, Quit, KeepMsg, vars
  <2>2. running' = running \/ running' = FALSE
    BY <1>6 DEF Inspect, Quit, vars
  <2>3. running' \in BOOLEAN /\ (answer' = "flag" => ~running')
    <3>1. running \in BOOLEAN /\ (answer = "flag" => ~running) /\ answer' = answer
      BY <2>1, Zenon DEF Targeted
    <3>2. CASE running' = running
      BY <3>1, <3>2, Zenon
    <3>3. CASE running' = FALSE
      BY <3>3
    <3> QED
      BY <2>2, <3>2, <3>3
  <2> QED
    BY <2>1, <2>3, Zenon DEF Targeted
<1>7. ASSUME \/ \E v \in Numbers : SetP(v) \/ SetQ(v) \/ SetE(v)
             \/ SetPUnparsed \/ SetQUnparsed \/ SetEUnparsed \/ ResetKey
      PROVE  KeyCommand
  BY <1>7 DEF SetP, SetQ, SetE, SetPUnparsed, SetQUnparsed, SetEUnparsed, ResetKey
<1> QED
  BY <1>1, <1>2, <1>3, <1>4, <1>5, <1>6, <1>7 DEF Next

(* A flag that a step prints is earned.                                    *)
LEMMA NextFlagEarned == RInv /\ [Next]_vars => FlagEarned'
<1> SUFFICES ASSUME RInv, [Next]_vars PROVE FlagEarned'
  OBVIOUS
<1>1. CASE Attack
  <2> SUFFICES ASSUME answer' = "flag" PROVE FlagEarned'
    BY DEF FlagEarned
  <2>1. /\ key.d # Unset /\ CurMsg # Unset /\ TargMsg = decrypt_msg
        /\ UNCHANGED <<key, CurMsg, TargMsg, source>>
    BY <1>1 DEF Attack, Response, KeepMsg
  <2>2. CurMsg \in Nat
    BY <2>1 DEF RInv, Targeted
  <2>3. /\ key.n \in Positive /\ key.d \in Nat
        /\ Exp(Exp(CurMsg, key.d, key.n), key.e, key.n) = CurMsg % key.n
    BY <2>1, <2>2, KeyPairInverts DEF RInv
  <2>4. TargMsg = Exp(CurMsg, key.d, key.n)
    BY <2>1 DEF decrypt_msg
  <2>5. TargMsg # Unset
    <3>1. TargMsg = Pow(CurMsg)[key.d] % key.n /\ Pow(CurMsg)[key.d] \in Int
      BY <2>2, <2>3, <2>4, ExpIsPow, PowStep
    <3> DEFINE w == Pow(CurMsg)[key.d]
               n == key.n
    <3> HIDE DEF w, n
    <3>a. w \in Int /\ n \in Positive /\ TargMsg = w % n
      BY <2>3, <3>1 DEF w, n
    <3>2. TargMsg \in Nat
      BY <3>a DEF Positive
    <3> QED
      BY <3>2 DEF Unset
  <2>6. source = CurMsg /\ CurMsg # Unset /\ IsPrime(TargMsg)
    BY <2>5 DEF RInv, Targeted
  <2>7. Exp(TargMsg, key.e, key.n) = CurMsg % key.n
    BY <2>3, <2>4
  <2> QED
    BY <2>1, <2>6, <2>7 DEF FlagEarned
<1>2. CASE answer # "flag" /\ ~Attack
  <2>1. answer' = answer
    BY <1>2 DEF Next, vars, SetP, SetQ, SetE, SetPUnparsed, SetQUnparsed, SetEUnparsed,
                ResetKey, KeyCommand, HoldFails, HoldWithoutTarget, HoldWithTarget, Hold,
                Inspect, Quit
  <2> QED
    BY <1>2, <2>1 DEF FlagEarned
<1>3. CASE answer = "flag" /\ ~Attack
  <2>1. ~running
    BY <1>3 DEF RInv, Targeted
  <2>2. UNCHANGED vars
    BY <2>1 DEF Next, vars, SetP, SetQ, SetE, SetPUnparsed, SetQUnparsed, SetEUnparsed,
                ResetKey, KeyCommand, HoldFails, HoldWithoutTarget, HoldWithTarget, Hold,
                Attack, Inspect, Quit
  <2> QED
    BY <2>2 DEF vars, RInv, FlagEarned
<1> QED
  BY <1>1, <1>2, <1>3

(* The whole invariant holds of every behaviour.                           *)
LEMMA RInvIsInvariant == Spec => []RInv
<1>1. Init => RInv
  <2> SUFFICES ASSUME Init PROVE RInv
    OBVIOUS
  <2>1. Paired
    BY DEF Init, NoKey, Paired
  <2>2. Targeted
    BY DEF Init, Unset, Targeted
  <2>3. FlagEarned
    BY DEF Init, FlagEarned
  <2> QED
    BY <2>1, <2>2, <2>3, InitIInv DEF RInv
<1>2. RInv /\ [Next]_vars => RInv'
  BY NextIInv, NextPaired, NextTargeted, NextFlagEarned DEF RInv
<1> QED
  BY <1>1, <1>2, PTL DEF Spec

(* The fields of the key and the messages keep their types; p and q are    *)
(* prime whenever they are set, and next_prime() always ends with a number.*)
THEOREM TypesKept == Spec => []TypeOK
<1>1. RInv => TypeOK
  <2> SUFFICES ASSUME RInv PROVE TypeOK
    OBVIOUS
  <2>1. key \in [p : Int, q : Int, n : Int, e : Int, d : Int]
    BY DEF RInv, IInv, Keys
  <2>2. (key.p = Unset \/ IsPrime(key.p)) /\ (key.q = Unset \/ IsPrime(key.q))
    BY DEF RInv, Paired
  <2>3. /\ CurMsg \in Int /\ TargMsg \in Int /\ source \in Int
        /\ answer \in {"none", "key rejected", "no message", "no response", "flag"}
        /\ running \in BOOLEAN
    <3>1. Unset \in Int
      BY DEF Unset
    <3>2. CurMsg = Unset \/ CurMsg \in Int
      <4>1. CurMsg = Unset \/ CurMsg \in Nat
        BY Zenon DEF RInv, Targeted
      <4> QED
        BY <4>1
    <3> QED
      BY <3>1, <3>2, Zenon DEF RInv, Targeted
  <2> QED
    BY <2>1, <2>2, <2>3 DEF TypeOK
<1> QED
  BY RInvIsInvariant, <1>1, PTL

(* RSA works with every key that set_p(), set_q() and set_e() let through, *)
(* in whatever order and however often they failed in between: whenever d  *)
(* is set, encryption with e undoes decryption with d.                     *)
THEOREM KeyPairsWork == Spec => []KeyPairWorks
<1>1. RInv => KeyPairWorks
  <2> SUFFICES ASSUME RInv, key.d # Unset, NEW m \in 0..(key.n - 1)
               PROVE  Exp(Exp(m, key.d, key.n), key.e, key.n) = m
    BY DEF KeyPairWorks
  <2>1. key.n \in Int
    BY DEF RInv, IInv, Keys
  <2>2. m \in Nat
    BY <2>1
  <2>3. key.n \in Positive /\ Exp(Exp(m, key.d, key.n), key.e, key.n) = m % key.n
    BY <2>2, KeyPairInverts DEF RInv
  <2> QED
    BY <2>3, SmallRemainder
<1> QED
  BY RInvIsInvariant, <1>1, PTL

(* attack() prints the flag only for a key that turns the target, derived  *)
(* for the very message that is held, back into that message.              *)
THEOREM FlagIsEarned == Spec => []FlagEarned
<1>1. RInv => FlagEarned
  BY DEF RInv
<1> QED
  BY RInvIsInvariant, <1>1, PTL
=============================================================================

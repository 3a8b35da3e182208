---------------------------- MODULE CommonLemmas ----------------------------
(***************************************************************************)
(* What several proofs need: \div and % for a divisor that is a constant,  *)
(* induction over an interval, and functions defined by recursion.         *)
(***************************************************************************)
EXTENDS Integers, WellFoundedInduction, TLAPS

\* Quotient and remainder are the only ones.
LEMMA DivisionUnique ==
    ASSUME NEW M \in Nat \ {0}, NEW q \in Int, NEW r \in 0 .. (M - 1)
    PROVE  /\ (M * q + r) \div M = q
           /\ (M * q + r) % M = r
<1>1. PICK a \in Int : a = M * q + r
  OBVIOUS
<1>2. /\ a \div M \in Int /\ a % M \in 0 .. (M - 1)
      /\ a = M * (a \div M) + (a % M)
  OBVIOUS
<1>3. PICK p \in Int, s \in 0 .. (M - 1) : p = a \div M /\ s = a % M /\ a = M * p + s
  BY <1>2
<1>4. /\ M * q \in Int /\ M * p \in Int /\ M * (q - p) = M * q - M * p
      /\ M * (p - q) = M * p - M * q
  OBVIOUS
<1>5. ASSUME NEW d \in Int, d >= 1 PROVE M * d >= M
  <2>1. M * (d - 1) = M * d - M /\ d - 1 \in Nat /\ M * d \in Int
    BY <1>5
  <2>2. \A x \in Nat : M * x >= 0
    OBVIOUS
  <2> QED BY <2>1, <2>2
<1>6. ~ q > p
  <2> SUFFICES ASSUME q > p PROVE FALSE
    OBVIOUS
  <2>1. q - p \in Int /\ q - p >= 1
    OBVIOUS
  <2>2. M * (q - p) >= M
    BY <1>5, <2>1
  <2> QED BY <1>1, <1>3, <1>4, <2>2
<1>7. ~ p > q
  <2> SUFFICES ASSUME p > q PROVE FALSE
    OBVIOUS
  <2>1. p - q \in Int /\ p - q >= 1
    OBVIOUS
  <2>2. M * (p - q) >= M
    BY <1>5, <2>1
  <2> QED BY <1>1, <1>3, <1>4, <2>2
<1>8. p = q
  BY <1>6, <1>7
<1>9. s = r
  BY <1>1, <1>3, <1>4, <1>8
<1> QED BY <1>1, <1>3, <1>8, <1>9

\* A larger factor makes the product larger, by the other factor at least.
LEMMA MultipleGrows ==
    ASSUME NEW M \in Nat \ {0}, NEW a \in Int, NEW b \in Int, a < b
    PROVE  M * a + M <= M * b
<1>1. PICK d \in Nat : b = (a + 1) + d
  <2>1. b - (a + 1) \in Nat /\ b = (a + 1) + (b - (a + 1))
    OBVIOUS
  <2> QED BY <2>1
<1>2. M * d >= 0 /\ M * d \in Int /\ M * a \in Int
  OBVIOUS
<1>3. M * ((a + 1) + d) = M * a + M + M * d
  OBVIOUS
<1> QED BY <1>1, <1>2, <1>3

\* Division of a natural number.
LEMMA DivideNat ==
    ASSUME NEW M \in Nat \ {0}, NEW y \in Nat
    PROVE  \E q \in Nat, r \in 0 .. (M - 1) : y = M * q + r
<1>1. /\ y \div M \in Int /\ y % M \in 0 .. (M - 1)
      /\ y = M * (y \div M) + (y % M)
  OBVIOUS
<1>2. PICK q \in Int, r \in 0 .. (M - 1) : y = M * q + r
  BY <1>1
<1>3. ~(q < 0)
  <2> SUFFICES ASSUME q < 0 PROVE FALSE
    OBVIOUS
  <2>1. M * q + M <= M * 0
    BY MultipleGrows
  <2>2. M * q \in Int
    OBVIOUS
  <2> QED BY <1>2, <2>1, <2>2
<1> QED BY <1>2, <1>3

\* bitlen is counted modulo its width, step by step or at once.
LEMMA AddModulo ==
    ASSUME NEW M \in Nat \ {0}, NEW x \in Nat, NEW y \in Nat
    PROVE  ((x % M) + y) % M = (x + y) % M
<1>1. ASSUME NEW z \in Int
      PROVE  \E q \in Int, r \in 0 .. (M - 1) : r = z % M /\ z = M * q + r
  <2>1. /\ z \div M \in Int /\ z % M \in 0 .. (M - 1)
        /\ z = M * (z \div M) + (z % M)
    OBVIOUS
  <2> QED BY <2>1
<1>2. PICK q \in Int, r \in 0 .. (M - 1) : r = x % M /\ x = M * q + r
  BY <1>1
<1>3. r + y \in Int
  OBVIOUS
<1>4. PICK p \in Int, s \in 0 .. (M - 1) : s = (r + y) % M /\ r + y = M * p + s
  BY <1>1, <1>3
<1>5. /\ M * (q + p) = M * q + M * p /\ M * q \in Int /\ M * p \in Int
      /\ q + p \in Int
  OBVIOUS
<1>6. x + y = M * (q + p) + s
  BY <1>2, <1>4, <1>5
<1>7. (M * (q + p) + s) % M = s
  BY <1>5, DivisionUnique
<1> QED BY <1>2, <1>4, <1>6, <1>7

-----------------------------------------------------------------------------
\* Induction over 0 .. n, for a set in the place of a predicate.
LEMMA UpTo ==
    ASSUME NEW n \in Nat, NEW T, 0 \in T,
           \A k \in 0 .. (n - 1) : k \in T => k + 1 \in T
    PROVE  \A k \in 0 .. n : k \in T
<1> DEFINE Out == {k \in 0 .. n : k \notin T}
<1> SUFFICES ASSUME Out # {} PROVE FALSE
  OBVIOUS
<1>1. Out \subseteq Nat
  OBVIOUS
<1> HIDE DEF Out
<1>2. PICK m \in Out : \A k \in Out : ~(<<k, m>> \in OpToRel(<, Nat))
  BY <1>1, NatLessThanWellFounded, WFMin
<1>3. \A k \in Out : ~(k < m)
  BY <1>1, <1>2 DEF OpToRel
<1>4. m \in 0 .. n /\ m \notin T /\ m # 0
  BY DEF Out
<1>5. m - 1 \in 0 .. (n - 1) /\ m - 1 \in 0 .. n /\ m - 1 < m /\ (m - 1) + 1 = m
  BY <1>4
<1>6. m - 1 \in T
  BY <1>3, <1>5 DEF Out
<1> QED BY <1>4, <1>5, <1>6

\* step[<<x, k>>] takes an element x of S to another one, for each k, and f is
\* what comes of a after each number of steps.
StaysIn(n, S, step) == \A k \in 1 .. n, x \in S : step[<<x, k>>] \in S
Iterates(n, a, step, f) ==
    f[0] = a /\ \A k \in 1 .. n : f[k] = step[<<f[k - 1], k>>]

\* A step repeated n times gives a function of the number of steps.
LEMMA Repeated ==
    ASSUME NEW n \in Nat, NEW S, NEW a \in S, NEW step, StaysIn(n, S, step)
    PROVE  \E f \in [0 .. n -> S] : Iterates(n, a, step, f)
<1> USE DEF StaysIn, Iterates
<1> DEFINE Reached == {j \in 0 .. n : \E f \in [0 .. j -> S] :
                 f[0] = a /\ \A k \in 1 .. j : f[k] = step[<<f[k - 1], k>>]}
<1>1. 0 \in Reached
  <2> DEFINE f == [k \in 0 .. 0 |-> a]
  <2>1. f \in [0 .. 0 -> S] /\ f[0] = a
    OBVIOUS
  <2>2. \A k \in 1 .. 0 : f[k] = step[<<f[k - 1], k>>]
    OBVIOUS
  <2>3. 0 \in 0 .. n
    OBVIOUS
  <2> HIDE DEF f
  <2> QED BY <2>1, <2>2, <2>3
<1>2. ASSUME NEW j \in 0 .. (n - 1), j \in Reached PROVE j + 1 \in Reached
  <2>1. PICK f \in [0 .. j -> S] :
              f[0] = a /\ \A k \in 1 .. j : f[k] = step[<<f[k - 1], k>>]
    BY <1>2
  <2>2. j + 1 \in 1 .. n /\ j \in 0 .. j /\ 0 \in 0 .. j
    OBVIOUS
  <2> DEFINE next == step[<<f[j], j + 1>>]
             g == [k \in 0 .. (j + 1) |-> IF k = j + 1 THEN next ELSE f[k]]
  <2>3. next \in S
    BY <2>2
  <2> HIDE DEF next
  <2>4. g \in [0 .. (j + 1) -> S]
    BY <2>3
  <2>5. g[0] = a /\ \A k \in 0 .. j : g[k] = f[k]
    BY <2>1, <2>2
  <2>6. g[j + 1] = step[<<g[j], j + 1>>]
    <3>1. g[j + 1] = next
      OBVIOUS
    <3>2. g[j] = f[j]
      BY <2>2, <2>5
    <3> QED BY <3>1, <3>2 DEF next
  <2>7. ASSUME NEW k \in 1 .. (j + 1) PROVE g[k] = step[<<g[k - 1], k>>]
    <3>1. CASE k = j + 1
      <4>1. k - 1 = j
        BY <3>1
      <4> QED BY <3>1, <4>1, <2>6
    <3>2. CASE k \in 1 .. j
      <4>1. k - 1 \in 0 .. j /\ k \in 0 .. j
        BY <3>2
      <4> QED BY <3>2, <4>1, <2>1, <2>5
    <3> QED BY <3>1, <3>2
  <2>8. j + 1 \in 0 .. n
    OBVIOUS
  <2> HIDE DEF g
  <2> QED BY <2>4, <2>5, <2>7, <2>8
<1> HIDE DEF Reached
<1>3. n \in Reached
  BY <1>1, <1>2, UpTo
<1> QED BY <1>3 DEF Reached
=============================================================================

----------------------------- MODULE Arithmetic -----------------------------
(***************************************************************************)
(* Facts about the natural numbers that the proofs of several modules      *)
(* rest on: products, quotients and remainders, the least member of a set, *)
(* and that functions defined by recursion exist.  Sets stand where the    *)
(* theorems of induction take a predicate.                                 *)
(***************************************************************************)
EXTENDS Integers, WellFoundedInduction, TLAPS

-----------------------------------------------------------------------------
(* Products, quotients and remainders. *)

LEMMA QuotientBounds ==
    ASSUME NEW n \in Nat, NEW d \in Nat, 1 <= d
    PROVE  /\ n \div d \in Nat
           /\ d * (n \div d) <= n
           /\ n < d * (n \div d) + d
BY SMT

LEMMA Distributes ==
    ASSUME NEW a \in Int, NEW b \in Int, NEW c \in Int
    PROVE  /\ (a + b) * c = a * c + b * c
           /\ (a + 1) * c = a * c + c
BY SMT

LEMMA ProductsGrow ==
    ASSUME NEW a \in Int, NEW b \in Int, NEW c \in Nat, a <= b
    PROVE  a * c <= b * c
BY SMT

LEMMA Exchange ==
    ASSUME NEW a \in Int, NEW b \in Int, NEW c \in Int
    PROVE  (a * b) * c = b * (a * c)
BY SMT

LEMMA QuotientIs ==
    ASSUME NEW n \in Nat, NEW d \in Nat, 1 <= d, NEW q \in Int,
           q * d <= n, n < q * d + d
    PROVE  n \div d = q
<1> DEFINE k == n \div d
<1>1. k \in Nat /\ d * k <= n /\ n < d * k + d
  BY QuotientBounds
<1> HIDE DEF k
<1>2. d * k = k * d /\ k * d \in Int /\ q * d \in Int
  BY <1>1, SMT
<1>3. ASSUME q < k PROVE FALSE
  <2>1. (q + 1) * d <= k * d
    BY <1>1, <1>3, ProductsGrow
  <2>2. (q + 1) * d = q * d + d
    BY <1>1, Distributes
  <2> QED
    BY <1>1, <1>2, <2>1, <2>2
<1>4. ASSUME k < q PROVE FALSE
  <2>1. (k + 1) * d <= q * d
    BY <1>1, <1>4, ProductsGrow
  <2>2. (k + 1) * d = k * d + d
    BY <1>1, Distributes
  <2> QED
    BY <1>1, <1>2, <2>1, <2>2
<1>5. k = q
  BY <1>1, <1>3, <1>4
<1> QED
  BY <1>5 DEF k

LEMMA RemainderIs ==
    ASSUME NEW n \in Nat, NEW d \in Nat, 1 <= d
    PROVE  n % d = n - d * (n \div d) /\ n % d \in 0..d - 1
BY SMT

LEMMA NextQuotient ==
    ASSUME NEW n \in Nat, NEW d \in Nat, 1 <= d
    PROVE  (n + d) \div d = n \div d + 1 /\ (n + d) % d = n % d
<1> DEFINE k == n \div d
<1>1. k \in Nat /\ d * k <= n /\ n < d * k + d
  BY QuotientBounds
<1> HIDE DEF k
<1>3. (k + 1) * d = k * d + d /\ k * d = d * k /\ k * d \in Int
  BY <1>1, Distributes, SMT
<1>4. (n + d) \div d = k + 1 /\ n + d \in Nat
  BY <1>1, <1>3, QuotientIs
<1>5. (n + d) % d = (n + d) - d * (k + 1)
  BY <1>4, RemainderIs
<1>6. n % d = n - d * k
  BY RemainderIs DEF k
<1>7. d * (k + 1) = d * k + d
  BY <1>1, <1>3, SMT
<1>8. (n + d) % d = n % d
  BY <1>1, <1>3, <1>5, <1>6, <1>7
<1> QED
  BY <1>4, <1>8 DEF k

LEMMA QuotientsGrow ==
    ASSUME NEW m \in Nat, NEW n \in Nat, NEW d \in Nat, 1 <= d, m <= n
    PROVE  m \div d <= n \div d
BY SMT


-----------------------------------------------------------------------------
(* Functions defined by recursion exist. *)

LEMMA Least ==
    ASSUME NEW S, S \subseteq Nat, S # {}
    PROVE  \E m \in S : \A l \in S : m <= l
<1> DEFINE R == {ss \in Nat \X Nat : ss[1] < ss[2]}
<1>1. IsWellFoundedOn(R, Nat)
  BY NatLessThanWellFounded DEF OpToRel
<1>2. PICK m \in S : \A l \in S : ~ (<<l, m>> \in R)
  BY <1>1, WFMin
<1>3. \A l \in S : m <= l
  <2> SUFFICES ASSUME NEW l \in S PROVE m <= l
    OBVIOUS
  <2>1. l \in Nat /\ m \in Nat /\ ~ (l < m)
    BY <1>2
  <2> QED
    BY <2>1
<1> QED
  BY <1>3

\* A set of naturals with 0 and with every successor of its members is full.
LEMMA AllNaturals ==
    ASSUME NEW S, 0 \in S, \A n \in Nat : n \in S => n + 1 \in S
    PROVE  \A n \in Nat : n \in S
<1> SUFFICES ASSUME NEW z \in Nat, z \notin S
             PROVE  FALSE
  OBVIOUS
<1>1. PICK m \in Nat \ S : \A l \in Nat \ S : m <= l
  <2>1. Nat \ S # {} /\ Nat \ S \subseteq Nat
    OBVIOUS
  <2> QED
    BY <2>1, Least
<1>2. m # 0 /\ m \in Nat
  BY <1>1
<1>3. m - 1 \in Nat /\ ~ (m <= m - 1)
  BY <1>2
<1>4. m - 1 \in S
  BY <1>1, <1>3
<1>5. (m - 1) + 1 \in S
  BY <1>3, <1>4
<1>6. (m - 1) + 1 = m
  BY <1>2
<1> QED
  BY <1>1, <1>5, <1>6

\* Part of a function that begins with a and goes on by step.
IsPart(f, n, a, step) ==
    /\ f \in [0..n -> Nat] /\ f[0] = a
    /\ \A k \in 0..n - 1 : f[k + 1] = step[<<k + 1, f[k]>>]

LEMMA PartsAgree ==
    ASSUME NEW a \in Nat, NEW step, NEW n \in Nat, NEW m \in Nat,
           NEW f, IsPart(f, n, a, step), NEW g, IsPart(g, m, a, step)
    PROVE  \A k \in Nat : k <= n /\ k <= m => f[k] = g[k]
<1> DEFINE T == {k \in Nat : k <= n /\ k <= m => f[k] = g[k]}
<1>1. 0 \in T
  BY DEF IsPart
<1>2. ASSUME NEW k \in Nat, k \in T
      PROVE  k + 1 \in T
  <2> SUFFICES ASSUME k + 1 <= n, k + 1 <= m
               PROVE  f[k + 1] = g[k + 1]
    OBVIOUS
  <2>1. k \in 0..n - 1 /\ k \in 0..m - 1 /\ f[k] = g[k]
    BY <1>2
  <2> QED
    BY <2>1 DEF IsPart
<1> HIDE DEF T
<1>3. \A k \in Nat : k \in T
  BY <1>1, <1>2, AllNaturals
<1> QED
  BY <1>3 DEF T

LEMMA PartsExist ==
    ASSUME NEW a \in Nat, NEW step \in [Nat \X Nat -> Nat], NEW n \in Nat
    PROVE  \E f : IsPart(f, n, a, step)
<1> DEFINE T == {k \in Nat : \E f : IsPart(f, k, a, step)}
<1>1. 0 \in T
  <2>1. IsPart([k \in 0..0 |-> a], 0, a, step)
    BY DEF IsPart
  <2> QED
    BY <2>1
<1>2. ASSUME NEW k \in Nat, k \in T
      PROVE  k + 1 \in T
  <2>1. PICK f : IsPart(f, k, a, step)
    BY <1>2
  <2>2. k + 1 \in Nat /\ f[k] \in Nat
    BY <2>1 DEF IsPart
  <2>3. <<k + 1, f[k]>> \in Nat \X Nat
    BY <2>2
  <2>4. step[<<k + 1, f[k]>>] \in Nat
    BY <2>3
  <2> DEFINE last == step[<<k + 1, f[k]>>]
  <2> DEFINE g == [l \in 0..k + 1 |-> IF l = k + 1 THEN last ELSE f[l]]
  <2> HIDE DEF last
  <2>5. g \in [0..k + 1 -> Nat]
    <3> SUFFICES ASSUME NEW l \in 0..k + 1
                 PROVE  (IF l = k + 1 THEN last ELSE f[l]) \in Nat
      OBVIOUS
    <3>1. l # k + 1 => l \in 0..k
      OBVIOUS
    <3> QED
      BY <3>1, <2>1, <2>4 DEF IsPart, last
  <2>6. g[0] = a
    BY <2>1 DEF IsPart
  <2>7. ASSUME NEW l \in 0..k
        PROVE  g[l + 1] = step[<<l + 1, g[l]>>]
    <3>1. l + 1 \in 0..k + 1 /\ l \in 0..k + 1 /\ l # k + 1
      OBVIOUS
    <3>2. g[l] = f[l]
      BY <3>1
    <3>3. CASE l = k
      BY <3>1, <3>2, <3>3 DEF last
    <3>4. CASE l # k
      <4>1. l \in 0..k - 1 /\ l + 1 # k + 1
        BY <3>4
      <4>2. g[l + 1] = f[l + 1]
        BY <3>1, <4>1
      <4> QED
        BY <4>1, <4>2, <3>2, <2>1 DEF IsPart
    <3> QED
      BY <3>3, <3>4
  <2>8. (k + 1) - 1 = k
    OBVIOUS
  <2> HIDE DEF g
  <2>9. IsPart(g, k + 1, a, step)
    BY <2>5, <2>6, <2>7, <2>8 DEF IsPart
  <2> QED
    BY <2>9
<1> HIDE DEF T
<1>3. \A k \in Nat : k \in T
  BY <1>1, <1>2, AllNaturals
<1> QED
  BY <1>3 DEF T

\* Recursion over the naturals.
LEMMA Recursion ==
    ASSUME NEW a \in Nat, NEW step \in [Nat \X Nat -> Nat]
    PROVE  \E f \in [Nat -> Nat] : /\ f[0] = a
                                   /\ \A n \in Nat : f[n + 1] = step[<<n + 1, f[n]>>]
<1> DEFINE part == [n \in Nat |-> CHOOSE f : IsPart(f, n, a, step)]
<1>1. ASSUME NEW n \in Nat
      PROVE  IsPart(part[n], n, a, step)
  BY PartsExist
<1> HIDE DEF part
<1> DEFINE whole == [n \in Nat |-> part[n][n]]
<1>2. ASSUME NEW n \in Nat
      PROVE  part[n][n] \in Nat
  BY <1>1 DEF IsPart
<1>3. whole \in [Nat -> Nat]
  BY <1>2
<1>4. whole[0] = a
  BY <1>1 DEF IsPart
<1>5. ASSUME NEW n \in Nat
      PROVE  whole[n + 1] = step[<<n + 1, whole[n]>>]
  <2>1. n + 1 \in Nat /\ n <= n + 1 /\ n <= n /\ n \in 0..(n + 1) - 1
    OBVIOUS
  <2>2. part[n + 1][n] = part[n][n]
    <3>1. PICK f, g : f = part[n] /\ g = part[n + 1]
      OBVIOUS
    <3>2. IsPart(f, n, a, step) /\ IsPart(g, n + 1, a, step)
      BY <1>1, <2>1, <3>1
    <3>3. \A k \in Nat : k <= n + 1 /\ k <= n => g[k] = f[k]
      BY <3>2, <2>1, PartsAgree
    <3> QED
      BY <3>1, <3>3, <2>1
  <2>3. part[n + 1][n + 1] = step[<<n + 1, part[n + 1][n]>>]
    BY <1>1, <2>1 DEF IsPart
  <2> QED
    BY <2>1, <2>2, <2>3
<1> HIDE DEF whole
<1> QED
  BY <1>3, <1>4, <1>5
=============================================================================

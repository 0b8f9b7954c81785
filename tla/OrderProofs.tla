----------------------------- MODULE OrderProofs -----------------------------
(***************************************************************************)
(* What the shop charges and what it holds, for any products, price list,  *)
(* rules and baskets, and any number of rules and lines.                   *)
(*                                                                         *)
(* Prices.  The model computes sums and applies rules with recursive       *)
(* functions, so their results need induction.  SumsExist and ApplyIs are  *)
(* the two inductions on a recursion; from there on the engine is a sum:   *)
(* every rule adds Spent to the order discount and Saved to every line     *)
(* discount, and neither looks at what the others added (OneRule).  A sum  *)
(* does not depend on the order of its parts (TotalPermuted), which makes  *)
(* priorities irrelevant; and what a rule saves grows with the quantity at *)
(* least as fast as the quantity does (SavedSuperadditive), which makes    *)
(* splitting a line useless.                                               *)
(*                                                                         *)
(* Ledger.  What payments, refunds and voids keep true of an order with    *)
(* its price.  LedgerAssumption asks for natural prices: TypeCorrect gives *)
(* it of the final amounts.                                                *)
(***************************************************************************)
EXTENDS OrderPricing, FiniteSetTheorems, WellFoundedInduction, TLAPS

-----------------------------------------------------------------------------
\* Induction and sums

\* A set of naturals has a least element.
LEMMA LeastNatural ==
    ASSUME NEW T \in SUBSET Nat, T # {}
    PROVE  \E x \in T : \A y \in T : x <= y
<1> DEFINE R == {pair \in Nat \X Nat : pair[1] < pair[2]}
<1>1. R = OpToRel(<, Nat)
  BY DEF OpToRel
<1>2. IsWellFoundedOn(R, Nat)
  BY <1>1, NatLessThanWellFounded
<1>3. \E x \in T : \A y \in T : <<y, x>> \notin R
  <2>1. T \subseteq Nat
    OBVIOUS
  <2> HIDE DEF R
  <2>2. QED
    BY <1>2, <2>1, WFMin
<1>4. \A x, y \in T : <<y, x>> \notin R => x <= y
  OBVIOUS
<1>5. QED
  BY <1>3, <1>4

\* Induction over the naturals, for a set instead of a predicate: a least
\* element outside the set would have its predecessor outside too.
LEMMA Induction ==
    ASSUME NEW S, 0 \in S, \A n \in Nat : n \in S => n + 1 \in S
    PROVE  Nat \subseteq S
<1> DEFINE T == Nat \ S
<1>1. SUFFICES ASSUME T # {}
               PROVE  FALSE
  OBVIOUS
<1>2. PICK x \in T : \A y \in T : x <= y
  <2>1. T \in SUBSET Nat
    OBVIOUS
  <2> HIDE DEF T
  <2>2. QED
    BY <1>1, <2>1, LeastNatural
<1>3. x \in Nat /\ x # 0 /\ x - 1 \in Nat /\ (x - 1) + 1 = x
  OBVIOUS
<1>4. x - 1 \in T
  BY <1>3
<1>5. QED
  BY <1>2, <1>3, <1>4

\* The running totals of a sequence.
Sums(amounts) ==
    CHOOSE sum : sum = [n \in 0..Len(amounts) |-> IF n = 0 THEN 0 ELSE sum[n - 1] + amounts[n]]

\* They exist, up to every position.
LEMMA SumsExist ==
    ASSUME NEW n \in Nat, NEW a \in [1..n -> Int]
    PROVE  \E sum : sum = [k \in 0..n |-> IF k = 0 THEN 0 ELSE sum[k - 1] + a[k]]
<1> DEFINE F(sum, m) == sum = [k \in 0..m |-> IF k = 0 THEN 0 ELSE sum[k - 1] + a[k]]
<1> DEFINE S == {m \in Nat : m <= n => \E sum : F(sum, m)}
<1>1. 0 \in S
  <2>1. F([k \in 0..0 |-> 0], 0)
    OBVIOUS
  <2>2. QED
    BY <2>1
<1>2. ASSUME NEW m \in Nat, m \in S
      PROVE  m + 1 \in S
  <2> SUFFICES ASSUME m + 1 <= n
               PROVE  \E sum : F(sum, m + 1)
    OBVIOUS
  <2>1. PICK sum : F(sum, m)
    BY <1>2
  <2> DEFINE next == [k \in 0..(m + 1) |-> IF k = m + 1 THEN sum[m] + a[m + 1] ELSE sum[k]]
  <2>2. ASSUME NEW k \in 0..(m + 1)
        PROVE  next[k] = IF k = 0 THEN 0 ELSE next[k - 1] + a[k]
    <3>1. CASE k = m + 1
      <4>1. k - 1 = m /\ k # 0 /\ m \in 0..(m + 1) /\ m # m + 1
        BY <3>1
      <4>2. next[m] = sum[m]
        BY <4>1
      <4>3. QED
        BY <3>1, <4>1, <4>2
    <3>2. CASE k # m + 1 /\ k # 0
      <4>1. k \in 0..m /\ k - 1 \in 0..m /\ k - 1 \in 0..(m + 1) /\ k - 1 # m + 1
        BY <3>2
      <4>2. sum[k] = sum[k - 1] + a[k]
        BY <2>1, <3>2, <4>1
      <4>3. QED
        BY <3>2, <4>1, <4>2
    <3>3. CASE k = 0
      <4>1. sum[0] = 0
        BY <2>1
      <4>2. QED
        BY <3>3, <4>1
    <3>4. QED
      BY <3>1, <3>2, <3>3
  <2>3. F(next, m + 1)
    BY <2>2
  <2>4. QED
    BY <2>3
<1>3. n \in S
  <2> HIDE DEF S
  <2>1. QED
    BY <1>1, <1>2, Induction
<1>4. QED
  BY <1>3

\* What a running total is computed from.
LEMMA SumsAre ==
    ASSUME NEW n \in Nat, NEW a \in [1..n -> Int]
    PROVE  /\ Sums(a) \in [0..n -> Int]
           /\ Sums(a)[0] = 0
           /\ \A k \in 1..n : Sums(a)[k] = Sums(a)[k - 1] + a[k]
           /\ Total(a) = Sums(a)[n]
<1> DEFINE F(sum) == sum = [k \in 0..n |-> IF k = 0 THEN 0 ELSE sum[k - 1] + a[k]]
<1>1. a \in Seq(Int) /\ Len(a) = n
  OBVIOUS
<1>2. F(Sums(a))
  <2>1. \E sum : F(sum)
    BY SumsExist
  <2>2. Sums(a) = CHOOSE sum : F(sum)
    BY <1>1 DEF Sums
  <2>3. QED
    BY <2>1, <2>2
<1>3. Total(a) = Sums(a)[n]
  BY <1>1 DEF Total, Sums
<1> DEFINE s == Sums(a)
<1>4. /\ s[0] = 0
      /\ \A k \in 1..n : s[k] = s[k - 1] + a[k]
      /\ s = [k \in 0..n |-> s[k]]
  <2> HIDE DEF s
  <2>1. F(s)
    BY <1>2 DEF s
  <2>2. QED
    BY <2>1
<1>5. \A k \in 0..n : s[k] \in Int
  <2> HIDE DEF s
  <2> DEFINE S == {m \in Nat : m <= n => s[m] \in Int}
  <2>1. 0 \in S
    BY <1>4
  <2>2. \A m \in Nat : m \in S => m + 1 \in S
    <3> SUFFICES ASSUME NEW m \in Nat, m \in S, m + 1 <= n
                 PROVE  s[m + 1] \in Int
      OBVIOUS
    <3>1. m + 1 \in 1..n /\ (m + 1) - 1 = m /\ s[m] \in Int
      OBVIOUS
    <3>2. s[m + 1] = s[m] + a[m + 1] /\ a[m + 1] \in Int
      BY <1>4, <3>1
    <3>3. QED
      BY <3>1, <3>2
  <2>3. Nat \subseteq S
    <3> HIDE DEF S
    <3>1. QED
      BY <2>1, <2>2, Induction
  <2>4. QED
    BY <2>3
<1>6. QED
  BY <1>2, <1>3, <1>4, <1>5

\* Whatever is computed like a running total is one.
LEMMA TotalBy ==
    ASSUME NEW n \in Nat, NEW a \in [1..n -> Int], NEW r,
           r[0] = 0, \A k \in 1..n : r[k] = r[k - 1] + a[k]
    PROVE  Total(a) = r[n]
<1> DEFINE s == Sums(a)
<1> DEFINE S == {m \in Nat : m <= n => s[m] = r[m]}
<1>1. 0 \in S
  BY SumsAre
<1>2. \A m \in Nat : m \in S => m + 1 \in S
  <2> SUFFICES ASSUME NEW m \in Nat, m \in S, m + 1 <= n
               PROVE  s[m + 1] = r[m + 1]
    OBVIOUS
  <2>1. m + 1 \in 1..n /\ (m + 1) - 1 = m /\ s[m] = r[m]
    OBVIOUS
  <2>2. \A k \in 1..n : s[k] = s[k - 1] + a[k]
    BY SumsAre
  <2>3. s[m + 1] = s[m] + a[m + 1] /\ r[m + 1] = r[m] + a[m + 1]
    <3> HIDE DEF s
    <3>1. QED
      BY <2>1, <2>2
  <2>4. QED
    BY <2>1, <2>3
<1>3. n \in S
  <2> HIDE DEF S
  <2>1. QED
    BY <1>1, <1>2, Induction
<1>4. QED
  BY <1>3, SumsAre

\* The sum of differences is the difference of the sums.
LEMMA TotalDifference ==
    ASSUME NEW n \in Nat, NEW a \in [1..n -> Int], NEW b \in [1..n -> Int],
           NEW c \in [1..n -> Int], \A k \in 1..n : c[k] = a[k] - b[k]
    PROVE  Total(c) = Total(a) - Total(b)
<1> DEFINE A == Sums(a)
<1> DEFINE B == Sums(b)
<1> DEFINE r == [k \in 0..n |-> A[k] - B[k]]
<1>1. /\ A \in [0..n -> Int] /\ A[0] = 0 /\ Total(a) = A[n]
      /\ \A k \in 1..n : A[k] = A[k - 1] + a[k]
  BY SumsAre
<1>2. /\ B \in [0..n -> Int] /\ B[0] = 0 /\ Total(b) = B[n]
      /\ \A k \in 1..n : B[k] = B[k - 1] + b[k]
  BY SumsAre
<1> HIDE DEF A, B
<1>3. r[0] = 0 /\ r[n] = Total(a) - Total(b)
  BY <1>1, <1>2
<1>4. ASSUME NEW k \in 1..n
      PROVE  r[k] = r[k - 1] + c[k]
  <2>1. k \in 0..n /\ k - 1 \in 0..n
    OBVIOUS
  <2>2. /\ A[k] = A[k - 1] + a[k] /\ B[k] = B[k - 1] + b[k]
        /\ A[k - 1] \in Int /\ B[k - 1] \in Int
        /\ a[k] \in Int /\ b[k] \in Int
        /\ c[k] = a[k] - b[k]
    BY <1>1, <1>2, <2>1
  <2>3. r[k] = A[k] - B[k] /\ r[k - 1] = A[k - 1] - B[k - 1]
    BY <2>1
  <2>4. QED
    BY <2>2, <2>3
<1>5. Total(c) = r[n]
  <2> HIDE DEF r
  <2>1. QED
    BY <1>3, <1>4, TotalBy
<1>6. QED
  BY <1>3, <1>5

\* A sum is as large as two sums when each of its parts is.
LEMMA TotalMonotone ==
    ASSUME NEW n \in Nat, NEW a \in [1..n -> Int], NEW b \in [1..n -> Int],
           NEW c \in [1..n -> Int], \A k \in 1..n : a[k] + b[k] <= c[k]
    PROVE  Total(a) + Total(b) <= Total(c)
<1> DEFINE A == Sums(a)
<1> DEFINE B == Sums(b)
<1> DEFINE C == Sums(c)
<1> DEFINE S == {m \in Nat : m <= n => A[m] + B[m] <= C[m]}
<1>1. /\ A \in [0..n -> Int] /\ A[0] = 0 /\ Total(a) = A[n]
      /\ \A k \in 1..n : A[k] = A[k - 1] + a[k]
  BY SumsAre
<1>2. /\ B \in [0..n -> Int] /\ B[0] = 0 /\ Total(b) = B[n]
      /\ \A k \in 1..n : B[k] = B[k - 1] + b[k]
  BY SumsAre
<1>3. /\ C \in [0..n -> Int] /\ C[0] = 0 /\ Total(c) = C[n]
      /\ \A k \in 1..n : C[k] = C[k - 1] + c[k]
  BY SumsAre
<1> HIDE DEF A, B, C
<1>4. 0 \in S
  BY <1>1, <1>2, <1>3
<1>5. \A m \in Nat : m \in S => m + 1 \in S
  <2> SUFFICES ASSUME NEW m \in Nat, m \in S, m + 1 <= n
               PROVE  A[m + 1] + B[m + 1] <= C[m + 1]
    OBVIOUS
  <2>1. m + 1 \in 1..n /\ m \in 0..n /\ (m + 1) - 1 = m /\ A[m] + B[m] <= C[m]
    OBVIOUS
  <2>2. /\ A[m + 1] = A[m] + a[m + 1] /\ B[m + 1] = B[m] + b[m + 1]
        /\ C[m + 1] = C[m] + c[m + 1]
    BY <1>1, <1>2, <1>3, <2>1
  <2>3. /\ A[m] \in Int /\ B[m] \in Int /\ C[m] \in Int
        /\ a[m + 1] \in Int /\ b[m + 1] \in Int /\ c[m + 1] \in Int
        /\ a[m + 1] + b[m + 1] <= c[m + 1]
    BY <1>1, <1>2, <1>3, <2>1
  <2>4. QED
    BY <2>1, <2>2, <2>3
<1>6. n \in S
  <2> HIDE DEF S
  <2>1. QED
    BY <1>4, <1>5, Induction
<1>7. QED
  BY <1>1, <1>2, <1>3, <1>6

\* A sum of integers is one, and of naturals too.
LEMMA TotalType ==
    ASSUME NEW n \in Nat, NEW a \in [1..n -> Int]
    PROVE  /\ Total(a) \in Int
           /\ a \in [1..n -> Nat] => Total(a) \in Nat
<1>1. Total(a) \in Int
  BY SumsAre
<1>2. ASSUME a \in [1..n -> Nat]
      PROVE  0 <= Total(a)
  <2> DEFINE zero == [k \in 1..n |-> 0]
  <2>1. zero \in [1..n -> Int] /\ \A k \in 1..n : zero[k] + zero[k] <= a[k]
    BY <1>2
  <2>2. Total(zero) = 0
    <3> DEFINE r == [k \in 0..n |-> 0]
    <3>1. r[0] = 0 /\ r[n] = 0 /\ \A k \in 1..n : r[k] = r[k - 1] + zero[k]
      OBVIOUS
    <3> HIDE DEF r, zero
    <3>2. QED
      BY <2>1, <3>1, TotalBy
  <2> HIDE DEF zero
  <2>3. Total(zero) + Total(zero) <= Total(a)
    BY <2>1, TotalMonotone
  <2>4. QED
    BY <1>1, <2>2, <2>3
<1>3. QED
  BY <1>1, <1>2

\* The last part can be taken off.
LEMMA TotalLast ==
    ASSUME NEW n \in Nat, NEW a \in [1..(n + 1) -> Int]
    PROVE  Total(a) = Total([k \in 1..n |-> a[k]]) + a[n + 1]
<1> DEFINE b == [k \in 1..n |-> a[k]]
<1> DEFINE s == Sums(a)
<1>1. /\ s[0] = 0 /\ Total(a) = s[n + 1]
      /\ \A k \in 1..(n + 1) : s[k] = s[k - 1] + a[k]
  <2>1. n + 1 \in Nat
    OBVIOUS
  <2>2. QED
    BY <2>1, SumsAre
<1> HIDE DEF s
<1>2. b \in [1..n -> Int] /\ \A k \in 1..n : k \in 1..(n + 1) /\ b[k] = a[k]
  OBVIOUS
<1>3. \A k \in 1..n : s[k] = s[k - 1] + b[k]
  BY <1>1, <1>2
<1> HIDE DEF b
<1>4. Total(b) = s[n]
  BY <1>1, <1>2, <1>3, TotalBy
<1>5. n + 1 \in 1..(n + 1) /\ (n + 1) - 1 = n
  OBVIOUS
<1>6. s[n + 1] = s[n] + a[n + 1]
  BY <1>1, <1>5
<1>7. QED
  BY <1>1, <1>4, <1>6 DEF b

\* One part can be exchanged for another.
LEMMA TotalExchange ==
    ASSUME NEW n \in Nat, NEW a \in [1..n -> Int], NEW j \in 1..n, NEW x \in Int
    PROVE  Total([a EXCEPT ![j] = x]) = Total(a) - a[j] + x
<1> DEFINE b == [a EXCEPT ![j] = x]
<1> DEFINE s == Sums(a)
<1> DEFINE r == [k \in 0..n |-> IF k < j THEN s[k] ELSE s[k] - a[j] + x]
<1>1. /\ s \in [0..n -> Int] /\ s[0] = 0 /\ Total(a) = s[n]
      /\ \A k \in 1..n : s[k] = s[k - 1] + a[k]
  BY SumsAre
<1> HIDE DEF s
<1>2. b \in [1..n -> Int] /\ b[j] = x /\ \A k \in 1..n : k # j => b[k] = a[k]
  OBVIOUS
<1> HIDE DEF b
<1>3. r[0] = 0 /\ r[n] = Total(a) - a[j] + x
  BY <1>1
<1>4. ASSUME NEW k \in 1..n
      PROVE  r[k] = r[k - 1] + b[k]
  <2>1. /\ k \in 0..n /\ k - 1 \in 0..n
        /\ s[k] = s[k - 1] + a[k] /\ s[k - 1] \in Int /\ a[k] \in Int /\ a[j] \in Int
    BY <1>1
  <2>2. /\ r[k] = IF k < j THEN s[k] ELSE s[k] - a[j] + x
        /\ r[k - 1] = IF k - 1 < j THEN s[k - 1] ELSE s[k - 1] - a[j] + x
    BY <2>1
  <2> HIDE DEF r
  <2>3. CASE k < j
    BY <1>2, <2>1, <2>2, <2>3
  <2>4. CASE k = j
    BY <1>2, <2>1, <2>2, <2>4
  <2>5. CASE j < k
    BY <1>2, <2>1, <2>2, <2>5
  <2>6. QED
    BY <2>3, <2>4, <2>5
<1>5. Total(b) = r[n]
  <2> HIDE DEF r
  <2>1. QED
    BY <1>2, <1>3, <1>4, TotalBy
<1>6. QED
  BY <1>3, <1>5 DEF b

-----------------------------------------------------------------------------
\* Orderings

\* An injection of 1..n into itself reaches every position.
LEMMA Reached ==
    ASSUME NEW n \in Nat, NEW p \in [1..n -> 1..n], IsInjective(p), NEW k \in 1..n
    PROVE  \E j \in 1..n : p[j] = k
<1>1. p \in Injection(1..n, 1..n)
  BY DEF Injection
<1>2. IsFiniteSet(1..n)
  BY FS_Interval
<1>3. p \in Surjection(1..n, 1..n)
  BY <1>1, <1>2, FS_Injection
<1>4. QED
  BY <1>3 DEF Surjection

\* A sum does not depend on the order of its parts.
LEMMA TotalPermuted ==
    ASSUME NEW n \in Nat, NEW a \in [1..n -> Int], NEW p \in [1..n -> 1..n], IsInjective(p)
    PROVE  Total([k \in 1..n |-> a[p[k]]]) = Total(a)
<1> DEFINE Agrees(m) ==
        \A b \in [1..m -> Int] : \A q \in [1..m -> 1..m] :
            IsInjective(q) => Total([k \in 1..m |-> b[q[k]]]) = Total(b)
<1> DEFINE S == {m \in Nat : Agrees(m)}
<1>1. 0 \in S
  <2> SUFFICES ASSUME NEW b \in [1..0 -> Int], NEW q \in [1..0 -> 1..0]
               PROVE  Total([k \in 1..0 |-> b[q[k]]]) = Total(b)
    OBVIOUS
  <2>1. 1..0 = {}
    OBVIOUS
  <2>2. b = [k \in 1..0 |-> b[k]]
    OBVIOUS
  <2>3. [k \in 1..0 |-> b[q[k]]] = [k \in 1..0 |-> b[k]]
    BY <2>1
  <2>4. QED
    BY <2>2, <2>3
<1>2. ASSUME NEW m \in Nat, m \in S
      PROVE  m + 1 \in S
  <2> HIDE DEF Agrees
  <2> SUFFICES Agrees(m + 1)
    OBVIOUS
  <2> SUFFICES ASSUME NEW b \in [1..(m + 1) -> Int], NEW q \in [1..(m + 1) -> 1..(m + 1)],
                      IsInjective(q)
               PROVE  Total([k \in 1..(m + 1) |-> b[q[k]]]) = Total(b)
    BY DEF Agrees
  <2> DEFINE c == [k \in 1..(m + 1) |-> b[q[k]]]
  <2> DEFINE start == [k \in 1..m |-> b[k]]
  <2>1. Agrees(m)
    BY <1>2
  <2>2. m + 1 \in Nat /\ m + 1 \in 1..(m + 1)
    OBVIOUS
  <2>3. PICK j \in 1..(m + 1) : q[j] = m + 1
    BY <2>2, Reached
  <2> DEFINE t == q[m + 1]
  <2>4. /\ c \in [1..(m + 1) -> Int] /\ start \in [1..m -> Int]
        /\ t \in 1..(m + 1) /\ b[m + 1] \in Int
        /\ c[m + 1] = b[t]
    BY <2>2
  <2>5. /\ Total(c) = Total([k \in 1..m |-> c[k]]) + c[m + 1]
        /\ Total(b) = Total(start) + b[m + 1]
    BY <2>4, TotalLast
  <2>6. CASE j = m + 1
    <3> DEFINE r == [k \in 1..m |-> q[k]]
    <3>1. r \in [1..m -> 1..m] /\ IsInjective(r)
      BY <2>3, <2>6 DEF IsInjective
    <3>2. [k \in 1..m |-> c[k]] = [k \in 1..m |-> start[r[k]]]
      <4>1. ASSUME NEW k \in 1..m
            PROVE  c[k] = start[r[k]]
        <5>1. k \in 1..(m + 1) /\ r[k] = q[k] /\ q[k] \in 1..m
          BY <3>1
        <5>2. c[k] = b[q[k]] /\ start[q[k]] = b[q[k]]
          BY <5>1
        <5>3. QED
          BY <5>1, <5>2
      <4> HIDE DEF c, start, r
      <4>2. QED
        BY <4>1
    <3>3. Total([k \in 1..m |-> start[r[k]]]) = Total(start)
      BY <2>1, <2>4, <3>1 DEF Agrees
    <3>4. QED
      BY <2>3, <2>4, <2>5, <2>6, <3>2, <3>3
  <2>7. CASE j # m + 1
    <3> DEFINE r == [k \in 1..m |-> IF k = j THEN t ELSE q[k]]
    <3>1. j \in 1..m /\ t \in 1..m
      BY <2>2, <2>3, <2>4, <2>7 DEF IsInjective
    <3>2. \A k \in 1..m : k # j => q[k] \in 1..m /\ q[k] # t
      <4> SUFFICES ASSUME NEW k \in 1..m, k # j
                   PROVE  q[k] \in 1..m /\ q[k] # t
        OBVIOUS
      <4>1. k \in 1..(m + 1) /\ k # m + 1 /\ q[k] \in 1..(m + 1)
        OBVIOUS
      <4>2. q[k] # q[j] /\ q[k] # q[m + 1]
        BY <2>2, <4>1 DEF IsInjective
      <4>3. QED
        BY <2>3, <4>1, <4>2
    <3>3. r \in [1..m -> 1..m]
      BY <3>1, <3>2
    <3>4. IsInjective(r)
      BY <3>2 DEF IsInjective
    <3> DEFINE d == [k \in 1..m |-> start[r[k]]]
    <3>5. d \in [1..m -> Int] /\ d[j] = b[t]
      BY <2>4, <3>1, <3>3
    <3>6. [k \in 1..m |-> c[k]] = [d EXCEPT ![j] = b[m + 1]]
      <4>1. ASSUME NEW k \in 1..m
            PROVE  c[k] = IF k = j THEN b[m + 1] ELSE d[k]
        <5>1. k \in 1..(m + 1) /\ c[k] = b[q[k]]
          OBVIOUS
        <5>2. CASE k = j
          BY <2>3, <5>1, <5>2
        <5>3. CASE k # j
          <6>1. r[k] = q[k] /\ q[k] \in 1..m
            BY <3>2, <5>3
          <6>2. start[q[k]] = b[q[k]] /\ d[k] = start[r[k]]
            BY <6>1
          <6>3. QED
            BY <5>1, <5>3, <6>1, <6>2
        <5>4. QED
          BY <5>2, <5>3
      <4> HIDE DEF c, d
      <4>2. QED
        BY <3>5, <4>1
    <3>7. Total(d) = Total(start)
      BY <2>1, <2>4, <3>3, <3>4 DEF Agrees
    <3>8. Total([d EXCEPT ![j] = b[m + 1]]) = Total(d) - d[j] + b[m + 1]
      <4> HIDE DEF d
      <4>1. QED
        BY <2>4, <3>1, <3>5, TotalExchange
    <3>9. Total(start) \in Int /\ d[j] \in Int
      <4> HIDE DEF d, start
      <4>1. QED
        BY <2>4, <3>1, <3>5, TotalType
    <3> HIDE DEF c, d, start
    <3>10. QED
      BY <2>4, <2>5, <3>5, <3>6, <3>7, <3>8, <3>9 DEF c
  <2>8. QED
    BY <2>6, <2>7
<1>3. Agrees(n)
  <2> HIDE DEF S
  <2>1. n \in S
    BY <1>1, <1>2, Induction
  <2>2. QED
    BY <2>1 DEF S
<1>4. QED
  BY <1>3

\* The order of the rules is strict and total.
LEMMA BeforeIsStrictOrder ==
    ASSUME rules \in Seq(Rule), NEW i \in DOMAIN rules, NEW j \in DOMAIN rules
    PROVE  /\ ~Before(i, i)
           /\ i # j => Before(i, j) \/ Before(j, i)
           /\ \A k \in DOMAIN rules : Before(i, j) /\ Before(j, k) => Before(i, k)
<1>1. \A k \in DOMAIN rules : k \in Nat /\ rules[k].priority \in Nat
  <2> SUFFICES ASSUME NEW k \in DOMAIN rules
               PROVE  k \in Nat /\ rules[k].priority \in Nat
    OBVIOUS
  <2>1. k \in Nat /\ rules[k] \in Rule
    OBVIOUS
  <2>2. QED
    BY <2>1 DEF Rule
<1>2. QED
  BY <1>1 DEF Before

\* The rules can be sorted: a rule more is put before the first it precedes.
LEMMA Sortable ==
    ASSUME rules \in Seq(Rule)
    PROVE  \E f \in [DOMAIN rules -> DOMAIN rules] :
              \A m, n \in DOMAIN rules : m < n => Before(f[m], f[n])
<1> DEFINE Sorted(f, m) == \A i, j \in 1..m : i < j => Before(f[i], f[j])
<1> DEFINE S == {m \in Nat : m <= Len(rules) => \E f \in [1..m -> 1..m] : Sorted(f, m)}
<1>1. 0 \in S
  <2>1. [k \in 1..0 |-> k] \in [1..0 -> 1..0] /\ Sorted([k \in 1..0 |-> k], 0)
    OBVIOUS
  <2>2. QED
    BY <2>1
<1>2. ASSUME NEW m \in Nat, m \in S
      PROVE  m + 1 \in S
  <2> SUFFICES ASSUME m + 1 <= Len(rules)
               PROVE  \E g \in [1..(m + 1) -> 1..(m + 1)] : Sorted(g, m + 1)
    OBVIOUS
  <2>1. PICK f \in [1..m -> 1..m] : Sorted(f, m)
    BY <1>2
  <2>2. 1..m \subseteq DOMAIN rules /\ m + 1 \in DOMAIN rules
    OBVIOUS
  <2> DEFINE T == {k \in 1..m : Before(m + 1, f[k])} \union {m + 1}
  <2>3. PICK q \in T : \A k \in T : q <= k
    <3>1. T \in SUBSET Nat /\ T # {}
      OBVIOUS
    <3> HIDE DEF T
    <3>2. QED
      BY <3>1, LeastNatural
  <2>4. q \in 1..(m + 1) /\ (q # m + 1 => Before(m + 1, f[q]))
    BY <2>3
  <2>5. ASSUME NEW k \in 1..m, k < q
        PROVE  Before(f[k], m + 1)
    <3>1. ~Before(m + 1, f[k]) /\ f[k] \in 1..m /\ f[k] # m + 1
      BY <2>3, <2>5
    <3>2. QED
      BY <2>2, <3>1, BeforeIsStrictOrder
  <2>6. ASSUME NEW k \in 1..m, q <= k
        PROVE  Before(m + 1, f[k])
    <3>1. q \in 1..m /\ Before(m + 1, f[q]) /\ f[q] \in 1..m /\ f[k] \in 1..m
      BY <2>4, <2>6
    <3>2. CASE q = k
      BY <3>1, <3>2
    <3>3. CASE q < k
      <4>1. Before(f[q], f[k])
        BY <2>1, <3>1, <3>3
      <4>2. QED
        BY <2>2, <3>1, <4>1, BeforeIsStrictOrder
    <3>4. QED
      BY <2>4, <2>6, <3>2, <3>3
  <2> HIDE DEF T, S
  <2> DEFINE g == [k \in 1..(m + 1) |-> IF k < q THEN f[k] ELSE IF k = q THEN m + 1 ELSE f[k - 1]]
  <2>7. g \in [1..(m + 1) -> 1..(m + 1)]
    <3>1. ASSUME NEW k \in 1..(m + 1)
          PROVE  g[k] \in 1..(m + 1)
      <4>1. CASE k < q
        BY <2>4, <4>1
      <4>2. CASE k = q
        BY <4>2
      <4>3. CASE k > q
        <5>1. k - 1 \in 1..m
          BY <2>4, <4>3
        <5>2. QED
          BY <2>4, <4>3, <5>1
      <4>4. QED
        BY <2>4, <4>1, <4>2, <4>3
    <3>2. QED
      BY <3>1
  <2>8. ASSUME NEW i \in 1..(m + 1), NEW j \in 1..(m + 1), i < j
        PROVE  Before(g[i], g[j])
    <3>1. CASE j < q
      <4>1. i \in 1..m /\ j \in 1..m /\ g[i] = f[i] /\ g[j] = f[j]
        BY <2>4, <2>8, <3>1
      <4>2. QED
        BY <2>1, <2>8, <4>1
    <3>2. CASE j = q
      <4>1. i \in 1..m /\ i < q /\ g[i] = f[i] /\ g[j] = m + 1
        BY <2>4, <2>8, <3>2
      <4>2. QED
        BY <2>5, <4>1
    <3>3. CASE j > q
      <4>1. j - 1 \in 1..m /\ q <= j - 1 /\ g[j] = f[j - 1]
        BY <2>4, <3>3
      <4>2. CASE i < q
        <5>1. i \in 1..m /\ i < j - 1 /\ g[i] = f[i]
          BY <2>4, <4>1, <4>2
        <5>2. QED
          BY <2>1, <4>1, <5>1
      <4>3. CASE i = q
        <5>1. g[i] = m + 1
          BY <4>3
        <5>2. QED
          BY <2>6, <4>1, <5>1
      <4>4. CASE i > q
        <5>1. i - 1 \in 1..m /\ i - 1 < j - 1 /\ g[i] = f[i - 1]
          BY <2>4, <2>8, <4>4
        <5>2. QED
          BY <2>1, <4>1, <5>1
      <4>5. QED
        BY <2>4, <4>2, <4>3, <4>4
    <3>4. QED
      BY <2>4, <3>1, <3>2, <3>3
  <2>9. QED
    BY <2>7, <2>8
<1>3. Len(rules) \in S
  <2> HIDE DEF S
  <2>1. Len(rules) \in Nat
    OBVIOUS
  <2>2. QED
    BY <1>1, <1>2, <2>1, Induction
<1>4. DOMAIN rules = 1..Len(rules)
  OBVIOUS
<1>5. QED
  BY <1>3, <1>4

\* The active rules are the rules, in some order.
LEMMA ActiveRulesAreRules ==
    ASSUME rules \in Seq(Rule)
    PROVE  ActiveRules \in Orderings(rules)
<1> DEFINE ids == CHOOSE f \in [DOMAIN rules -> DOMAIN rules] :
                      \A m, n \in DOMAIN rules : m < n => Before(f[m], f[n])
<1>1. /\ ids \in [DOMAIN rules -> DOMAIN rules]
      /\ \A m, n \in DOMAIN rules : m < n => Before(ids[m], ids[n])
  BY Sortable
<1>2. ActiveRules = [n \in DOMAIN rules |-> rules[ids[n]]]
  BY DEF ActiveRules
<1> HIDE DEF ids
<1>3. IsInjective(ids)
  <2> SUFFICES ASSUME NEW m \in DOMAIN rules, NEW n \in DOMAIN rules, ids[m] = ids[n], m # n
               PROVE  FALSE
    BY <1>1 DEF IsInjective
  <2>1. m \in Nat /\ n \in Nat /\ ids[m] \in DOMAIN rules
    BY <1>1
  <2>2. Before(ids[m], ids[m])
    BY <1>1, <2>1
  <2>3. QED
    BY <2>1, <2>2, BeforeIsStrictOrder
<1>4. QED
  BY <1>1, <1>2, <1>3 DEF Orderings

-----------------------------------------------------------------------------
\* The promotion engine

\* What one rule does, whatever the other rules do: what it takes off the
\* order, what it takes off a line, and whether it refuses the order.
Applies(rule, type) == Complete(rule) /\ rule.type = type

Spent(rule, subtotal) ==
    IF Applies(rule, "spend_and_save") /\ subtotal >= rule.threshold THEN rule.amount ELSE 0

Saved(rule, line) ==
    IF Applies(rule, "buy_and_get") /\ line.product = rule.product THEN BuyAndGet(rule, line)
    ELSE IF Applies(rule, "tiered_pricing") /\ line.product = rule.product
         THEN TieredPricing(rule, line)
    ELSE 0

Exceeds(rule, lines) == Applies(rule, "purchase_limit") /\ ~WithinLimit(rule, lines)

\* The parameters of a rule that applies.
LEMMA RuleTypes ==
    ASSUME NEW rule \in Rule
    PROVE  /\ rule.type \in {"spend_and_save", "buy_and_get", "tiered_pricing", "purchase_limit"}
           /\ Applies(rule, "spend_and_save") => rule.threshold \in Nat /\ rule.amount \in Nat
           /\ Applies(rule, "buy_and_get") => rule.buy \in Positive /\ rule.get \in Positive
           /\ Applies(rule, "tiered_pricing") => rule.tier \in Positive /\ rule.tier_price \in Nat
           /\ Applies(rule, "purchase_limit") => rule.limit \in Positive
BY DEF Rule, Applies, Complete

\* Nonlinear arithmetic, which the solver does in small steps.
LEMMA ProductType ==
    /\ \A a, b \in Nat : a * b \in Nat
    /\ \A a, b \in Int : a * b \in Int
OBVIOUS

\* What is known of a quotient.
LEMMA Quotient ==
    ASSUME NEW a \in Nat, NEW m \in Positive
    PROVE  /\ a \div m \in Nat
           /\ m * (a \div m) <= a
           /\ a < m * ((a \div m) + 1)
BY DEF Positive

\* No rule makes anything dearer.
LEMMA ContributionTypes ==
    ASSUME NEW rule \in Rule
    PROVE  /\ \A subtotal \in Int : Spent(rule, subtotal) \in Nat
           /\ \A line \in Line : Saved(rule, line) \in Nat
<1>1. ASSUME NEW subtotal \in Int
      PROVE  Spent(rule, subtotal) \in Nat
  BY RuleTypes DEF Spent
<1>2. ASSUME NEW line \in Line
      PROVE  Saved(rule, line) \in Nat
  <2>1. /\ line.product \in Products /\ line.quantity \in Nat
        /\ UnitPrice[line.product] \in Nat
    BY PricingAssumption DEF Line, Positive
  <2>2. ASSUME Applies(rule, "buy_and_get")
        PROVE  BuyAndGet(rule, line) \in Nat
    <3>1. rule.get \in Nat /\ rule.buy + rule.get \in Positive
      BY <2>2, RuleTypes DEF Positive
    <3>2. line.quantity \div (rule.buy + rule.get) \in Nat
      BY <2>1, <3>1, Quotient
    <3>3. FreeUnits(rule, line.quantity) \in Nat
      BY <3>1, <3>2, ProductType DEF FreeUnits
    <3>4. QED
      BY <2>1, <3>3, ProductType DEF BuyAndGet
  <2>3. ASSUME Applies(rule, "tiered_pricing")
        PROVE  TieredPricing(rule, line) \in Nat
    <3>1. UnitPrice[line.product] - rule.tier_price \in Int /\ line.quantity \in Int
      BY <2>1, <2>3, RuleTypes
    <3>2. (UnitPrice[line.product] - rule.tier_price) * line.quantity \in Int
      BY <3>1, ProductType
    <3>3. QED
      BY <3>2 DEF TieredPricing
  <2>4. QED
    BY <2>2, <2>3 DEF Saved
<1>3. QED
  BY <1>1, <1>2

\* What the engine keeps while it goes through the rules.
Result(lines) ==
    [order_discount : Int, line_discounts : [DOMAIN lines -> Int], refused : BOOLEAN]

\* A rule adds its contribution to the result and looks at nothing else in it.
LEMMA OneRule ==
    ASSUME NEW rule \in Rule, NEW lines \in Seq(Line), NEW subtotal \in Int,
           NEW result \in Result(lines)
    PROVE  ApplyRule(result, rule, lines, subtotal) =
              [order_discount |-> result.order_discount + Spent(rule, subtotal),
               line_discounts |-> [i \in DOMAIN lines |->
                                      result.line_discounts[i] + Saved(rule, lines[i])],
               refused |-> result.refused \/ Exceeds(rule, lines)]
<1> DEFINE sum ==
              [order_discount |-> result.order_discount + Spent(rule, subtotal),
               line_discounts |-> [i \in DOMAIN lines |->
                                      result.line_discounts[i] + Saved(rule, lines[i])],
               refused |-> result.refused \/ Exceeds(rule, lines)]
<1>1. /\ result = [order_discount |-> result.order_discount,
                   line_discounts |-> result.line_discounts, refused |-> result.refused]
      /\ result.order_discount \in Int
      /\ result.line_discounts \in [DOMAIN lines -> Int]
      /\ result.refused \in BOOLEAN
  BY DEF Result
<1>2. result.line_discounts = [i \in DOMAIN lines |-> result.line_discounts[i] + 0]
  BY <1>1
<1>3. CASE ~Complete(rule)
  <2>1. ApplyRule(result, rule, lines, subtotal) = result
    BY <1>3 DEF ApplyRule
  <2>2. /\ Spent(rule, subtotal) = 0
        /\ \A i \in DOMAIN lines : Saved(rule, lines[i]) = 0
        /\ Exceeds(rule, lines) = FALSE
    BY <1>3 DEF Spent, Saved, Exceeds, Applies
  <2>3. QED
    BY <1>1, <1>2, <2>1, <2>2
<1>4. CASE Complete(rule) /\ rule.type = "spend_and_save"
  <2>1. ApplyRule(result, rule, lines, subtotal) = SpendAndSave(result, rule, subtotal)
    BY <1>4 DEF ApplyRule
  <2>2. /\ \A i \in DOMAIN lines : Saved(rule, lines[i]) = 0
        /\ Exceeds(rule, lines) = FALSE
    BY <1>4 DEF Saved, Exceeds, Applies
  <2>3. SpendAndSave(result, rule, subtotal) =
            [order_discount |-> result.order_discount + Spent(rule, subtotal),
             line_discounts |-> result.line_discounts, refused |-> result.refused]
    BY <1>1, <1>4 DEF SpendAndSave, Spent, Applies
  <2>4. QED
    BY <1>1, <1>2, <2>1, <2>2, <2>3
<1>5. CASE Complete(rule) /\ rule.type = "buy_and_get"
  <2>1. ApplyRule(result, rule, lines, subtotal) =
            OnLines(result, rule, lines, [i \in DOMAIN lines |-> BuyAndGet(rule, lines[i])])
    BY <1>5 DEF ApplyRule
  <2>2. Spent(rule, subtotal) = 0 /\ Exceeds(rule, lines) = FALSE
    BY <1>5 DEF Spent, Exceeds, Applies
  <2>3. \A i \in DOMAIN lines :
            result.line_discounts[i] + Saved(rule, lines[i]) =
                IF lines[i].product = rule.product
                THEN result.line_discounts[i] + BuyAndGet(rule, lines[i])
                ELSE result.line_discounts[i]
    BY <1>1, <1>5 DEF Saved, Applies
  <2>4. ApplyRule(result, rule, lines, subtotal) =
            [order_discount |-> result.order_discount,
             line_discounts |-> [i \in DOMAIN lines |->
                                    IF lines[i].product = rule.product
                                    THEN result.line_discounts[i] + BuyAndGet(rule, lines[i])
                                    ELSE result.line_discounts[i]],
             refused |-> result.refused]
    BY <1>1, <2>1 DEF OnLines
  <2>5. QED
    BY <1>1, <2>2, <2>3, <2>4
<1>6. CASE Complete(rule) /\ rule.type = "tiered_pricing"
  <2>1. ApplyRule(result, rule, lines, subtotal) =
            OnLines(result, rule, lines, [i \in DOMAIN lines |-> TieredPricing(rule, lines[i])])
    BY <1>6 DEF ApplyRule
  <2>2. Spent(rule, subtotal) = 0 /\ Exceeds(rule, lines) = FALSE
    BY <1>6 DEF Spent, Exceeds, Applies
  <2>3. \A i \in DOMAIN lines :
            result.line_discounts[i] + Saved(rule, lines[i]) =
                IF lines[i].product = rule.product
                THEN result.line_discounts[i] + TieredPricing(rule, lines[i])
                ELSE result.line_discounts[i]
    BY <1>1, <1>6 DEF Saved, Applies
  <2>4. ApplyRule(result, rule, lines, subtotal) =
            [order_discount |-> result.order_discount,
             line_discounts |-> [i \in DOMAIN lines |->
                                    IF lines[i].product = rule.product
                                    THEN result.line_discounts[i] + TieredPricing(rule, lines[i])
                                    ELSE result.line_discounts[i]],
             refused |-> result.refused]
    BY <1>1, <2>1 DEF OnLines
  <2>5. QED
    BY <1>1, <2>2, <2>3, <2>4
<1>7. CASE Complete(rule) /\ rule.type = "purchase_limit"
  <2>1. ApplyRule(result, rule, lines, subtotal) =
            [result EXCEPT !.refused = @ \/ ~WithinLimit(rule, lines)]
    BY <1>7 DEF ApplyRule
  <2>2. /\ Spent(rule, subtotal) = 0
        /\ \A i \in DOMAIN lines : Saved(rule, lines[i]) = 0
        /\ Exceeds(rule, lines) = ~WithinLimit(rule, lines)
    BY <1>7 DEF Spent, Saved, Exceeds, Applies
  <2>3. ApplyRule(result, rule, lines, subtotal) =
            [order_discount |-> result.order_discount, line_discounts |-> result.line_discounts,
             refused |-> result.refused \/ ~WithinLimit(rule, lines)]
    BY <1>1, <2>1
  <2>4. result.line_discounts = [i \in DOMAIN lines |->
                                    result.line_discounts[i] + Saved(rule, lines[i])]
    BY <1>2, <2>2
  <2>5. result.order_discount = result.order_discount + Spent(rule, subtotal)
    BY <1>1, <2>2
  <2>6. (result.refused \/ ~WithinLimit(rule, lines)) = (result.refused \/ Exceeds(rule, lines))
    BY <2>2
  <2>7. QED
    BY <2>3, <2>4, <2>5, <2>6, Zenon
<1>8. QED
  BY <1>3, <1>4, <1>5, <1>6, <1>7, RuleTypes

\* The parts of what a list of rules takes off.
SpentParts(active, subtotal) == [k \in DOMAIN active |-> Spent(active[k], subtotal)]
SavedParts(active, line) == [k \in DOMAIN active |-> Saved(active[k], line)]

\* And off every line.
SavedOnLines(active, lines) ==
    [i \in DOMAIN lines |-> Total(SavedParts(active, lines[i]))]

LEMMA PartTypes ==
    ASSUME NEW n \in Nat, NEW active \in [1..n -> Rule]
    PROVE  /\ \A subtotal \in Int :
                 /\ SpentParts(active, subtotal) \in [1..n -> Nat]
                 /\ SpentParts(active, subtotal) \in [1..n -> Int]
           /\ \A line \in Line :
                 /\ SavedParts(active, line) \in [1..n -> Nat]
                 /\ SavedParts(active, line) \in [1..n -> Int]
<1>1. /\ \A k \in 1..n : \A subtotal \in Int : Spent(active[k], subtotal) \in Nat
      /\ \A k \in 1..n : \A line \in Line : Saved(active[k], line) \in Nat
  BY ContributionTypes
<1>2. ASSUME NEW subtotal \in Int
      PROVE  SpentParts(active, subtotal) \in [1..n -> Nat]
  BY <1>1 DEF SpentParts
<1>3. ASSUME NEW line \in Line
      PROVE  SavedParts(active, line) \in [1..n -> Nat]
  BY <1>1 DEF SavedParts
<1>4. \A a \in [1..n -> Nat] : a \in [1..n -> Int]
  OBVIOUS
<1>5. QED
  BY <1>2, <1>3, <1>4

\* The engine comes to the sum of what its rules do one by one.
LEMMA ApplyIs ==
    ASSUME NEW n \in Nat, NEW active \in [1..n -> Rule], NEW lines \in Seq(Line),
           NEW subtotal \in Int
    PROVE  Apply(active, lines, subtotal) =
              [order_discount |-> Total(SpentParts(active, subtotal)),
               line_discounts |-> [i \in DOMAIN lines |-> Total(SavedParts(active, lines[i]))],
               refused |-> \E k \in 1..n : Exceeds(active[k], lines)]
<1> DEFINE spent == Sums(SpentParts(active, subtotal))
<1> DEFINE saved(i) == Sums(SavedParts(active, lines[i]))
<1> DEFINE over(m) == \E k \in 1..m : Exceeds(active[k], lines)
<1> DEFINE R(m) ==
        [order_discount |-> spent[m], line_discounts |-> [i \in DOMAIN lines |-> saved(i)[m]],
         refused |-> over(m)]
<1> DEFINE F(r) ==
        r = [m \in 0..n |-> IF m = 0 THEN NoPromotion(lines)
                            ELSE ApplyRule(r[m - 1], active[m], lines, subtotal)]
<1> DEFINE known == [m \in 0..n |-> R(m)]
<1>1. \A i \in DOMAIN lines : lines[i] \in Line
  OBVIOUS
<1>2. /\ spent \in [0..n -> Int] /\ spent[0] = 0
      /\ \A m \in 1..n : spent[m] = spent[m - 1] + Spent(active[m], subtotal)
      /\ Total(SpentParts(active, subtotal)) = spent[n]
  <2>1. SpentParts(active, subtotal) \in [1..n -> Int]
    BY PartTypes
  <2>2. \A m \in 1..n : SpentParts(active, subtotal)[m] = Spent(active[m], subtotal)
    BY DEF SpentParts
  <2>3. QED
    BY <2>1, <2>2, SumsAre
<1>3. ASSUME NEW i \in DOMAIN lines
      PROVE  /\ saved(i) \in [0..n -> Int] /\ saved(i)[0] = 0
             /\ \A m \in 1..n : saved(i)[m] = saved(i)[m - 1] + Saved(active[m], lines[i])
             /\ Total(SavedParts(active, lines[i])) = saved(i)[n]
  <2>1. SavedParts(active, lines[i]) \in [1..n -> Int]
    BY <1>1, PartTypes
  <2>2. \A m \in 1..n : SavedParts(active, lines[i])[m] = Saved(active[m], lines[i])
    BY DEF SavedParts
  <2>3. QED
    BY <2>1, <2>2, SumsAre
<1> HIDE DEF spent, saved
<1>4. \A m \in 0..n : over(m) \in BOOLEAN /\ R(m) \in Result(lines)
  BY <1>2, <1>3 DEF Result
<1>5. R(0) = NoPromotion(lines)
  <2>1. over(0) = FALSE
    OBVIOUS
  <2>2. [i \in DOMAIN lines |-> saved(i)[0]] = [i \in DOMAIN lines |-> 0]
    BY <1>3
  <2>3. QED
    BY <1>2, <2>1, <2>2 DEF NoPromotion
<1>6. ASSUME NEW m \in 1..n
      PROVE  R(m) = ApplyRule(R(m - 1), active[m], lines, subtotal)
  <2>1. m - 1 \in 0..n /\ R(m - 1) \in Result(lines) /\ active[m] \in Rule
    BY <1>4
  <2>2. ApplyRule(R(m - 1), active[m], lines, subtotal) =
            [order_discount |-> R(m - 1).order_discount + Spent(active[m], subtotal),
             line_discounts |-> [i \in DOMAIN lines |->
                                    R(m - 1).line_discounts[i] + Saved(active[m], lines[i])],
             refused |-> R(m - 1).refused \/ Exceeds(active[m], lines)]
    <3> HIDE DEF R
    <3>1. QED
      BY <2>1, OneRule
  <2>3. over(m) = (over(m - 1) \/ Exceeds(active[m], lines))
    <3>1. 1..m = 1..(m - 1) \union {m}
      OBVIOUS
    <3>2. QED
      BY <3>1
  <2>4. spent[m] = R(m - 1).order_discount + Spent(active[m], subtotal)
    BY <1>2
  <2>5. [i \in DOMAIN lines |-> saved(i)[m]] =
        [i \in DOMAIN lines |-> R(m - 1).line_discounts[i] + Saved(active[m], lines[i])]
    BY <1>3
  <2>6. R(m - 1).refused = over(m - 1)
    OBVIOUS
  <2> HIDE DEF over
  <2>7. R(m) = [order_discount |-> spent[m],
                line_discounts |-> [i \in DOMAIN lines |-> saved(i)[m]], refused |-> over(m)]
    OBVIOUS
  <2> HIDE DEF R
  <2>8. QED
    BY <2>2, <2>3, <2>4, <2>5, <2>6, <2>7, Zenon
<1> HIDE DEF R
<1>7. F(known)
  <2>1. ASSUME NEW m \in 0..n
        PROVE  R(m) = IF m = 0 THEN NoPromotion(lines)
                      ELSE ApplyRule(known[m - 1], active[m], lines, subtotal)
    <3>1. CASE m = 0
      BY <1>5, <3>1
    <3>2. CASE m # 0
      <4>1. m \in 1..n /\ m - 1 \in 0..n
        BY <3>2
      <4>2. known[m - 1] = R(m - 1)
        BY <4>1
      <4>3. QED
        BY <1>6, <3>2, <4>1, <4>2
    <3>3. QED
      BY <3>1, <3>2
  <2>2. QED
    BY <2>1
<1>8. ASSUME NEW r, F(r)
      PROVE  r[n] = R(n)
  <2> DEFINE S == {m \in Nat : m <= n => r[m] = R(m)}
  <2>1. 0 \in S
    BY <1>5, <1>8
  <2>2. ASSUME NEW m \in Nat, m \in S
        PROVE  m + 1 \in S
    <3> SUFFICES ASSUME m + 1 <= n
                 PROVE  r[m + 1] = R(m + 1)
      OBVIOUS
    <3>1. m + 1 \in 1..n /\ m + 1 \in 0..n /\ m + 1 # 0 /\ (m + 1) - 1 = m /\ r[m] = R(m)
      BY <2>2
    <3>2. r[m + 1] = ApplyRule(r[m], active[m + 1], lines, subtotal)
      BY <1>8, <3>1
    <3>3. R(m + 1) = ApplyRule(R(m), active[m + 1], lines, subtotal)
      BY <1>6, <3>1
    <3>4. QED
      BY <3>1, <3>2, <3>3
  <2>3. n \in S
    <3> HIDE DEF S
    <3>1. QED
      BY <2>1, <2>2, Induction
  <2>4. QED
    BY <2>3
<1>9. Apply(active, lines, subtotal) = (CHOOSE r : F(r))[n]
  <2>1. active \in Seq(Rule) /\ Len(active) = n
    OBVIOUS
  <2>2. QED
    BY <2>1 DEF Apply
<1>10. F(CHOOSE r : F(r))
  <2> HIDE DEF F, known
  <2>1. QED
    BY <1>7
<1>11. Apply(active, lines, subtotal) = R(n)
  <2> HIDE DEF F
  <2>1. QED
    BY <1>8, <1>9, <1>10
<1>12. [i \in DOMAIN lines |-> saved(i)[n]] =
       [i \in DOMAIN lines |-> Total(SavedParts(active, lines[i]))]
  BY <1>3
<1>13. QED
  BY <1>2, <1>11, <1>12, Zenon DEF R

\* In whatever order the rules apply, the result is the same.
LEMMA OrderingsApplyAlike ==
    ASSUME rules \in Seq(Rule), NEW active \in Orderings(rules), NEW lines \in Seq(Line),
           NEW subtotal \in Int
    PROVE  Apply(active, lines, subtotal) = Apply(rules, lines, subtotal)
<1> DEFINE n == Len(rules)
<1>1. n \in Nat /\ DOMAIN rules = 1..n /\ rules \in [1..n -> Rule]
  OBVIOUS
<1>2. PICK p \in [1..n -> 1..n] :
         IsInjective(p) /\ active = [k \in 1..n |-> rules[p[k]]]
  BY <1>1 DEF Orderings
<1> HIDE DEF n
<1>3. active \in [1..n -> Rule]
  BY <1>1, <1>2
<1>4. Total(SpentParts(active, subtotal)) = Total(SpentParts(rules, subtotal))
  <2> DEFINE a == SpentParts(rules, subtotal)
  <2>1. a \in [1..n -> Int]
    BY <1>1, PartTypes
  <2>2. SpentParts(active, subtotal) = [k \in 1..n |-> a[p[k]]]
    BY <1>1, <1>2 DEF SpentParts
  <2> HIDE DEF a
  <2>3. Total([k \in 1..n |-> a[p[k]]]) = Total(a)
    BY <1>1, <1>2, <2>1, TotalPermuted
  <2>4. QED
    BY <2>2, <2>3 DEF a
<1>5. ASSUME NEW i \in DOMAIN lines
      PROVE  Total(SavedParts(active, lines[i])) = Total(SavedParts(rules, lines[i]))
  <2> DEFINE a == SavedParts(rules, lines[i])
  <2>1. a \in [1..n -> Int]
    <3>1. lines[i] \in Line
      OBVIOUS
    <3>2. QED
      BY <1>1, <3>1, PartTypes
  <2>2. SavedParts(active, lines[i]) = [k \in 1..n |-> a[p[k]]]
    BY <1>1, <1>2 DEF SavedParts
  <2> HIDE DEF a
  <2>3. Total([k \in 1..n |-> a[p[k]]]) = Total(a)
    BY <1>1, <1>2, <2>1, TotalPermuted
  <2>4. QED
    BY <2>2, <2>3 DEF a
<1>6. (\E k \in 1..n : Exceeds(active[k], lines)) = (\E k \in 1..n : Exceeds(rules[k], lines))
  <2>1. ASSUME NEW k \in 1..n, Exceeds(active[k], lines)
        PROVE  \E j \in 1..n : Exceeds(rules[j], lines)
    BY <1>2, <2>1
  <2>2. ASSUME NEW k \in 1..n, Exceeds(rules[k], lines)
        PROVE  \E j \in 1..n : Exceeds(active[j], lines)
    <3>1. PICK j \in 1..n : p[j] = k
      BY <1>1, <1>2, Reached
    <3>2. active[j] = rules[k]
      BY <1>2, <3>1
    <3>3. QED
      BY <2>2, <3>2
  <2>3. QED
    BY <2>1, <2>2
<1>7. /\ Apply(active, lines, subtotal) =
            [order_discount |-> Total(SpentParts(active, subtotal)),
             line_discounts |-> [i \in DOMAIN lines |-> Total(SavedParts(active, lines[i]))],
             refused |-> \E k \in 1..n : Exceeds(active[k], lines)]
      /\ Apply(rules, lines, subtotal) =
            [order_discount |-> Total(SpentParts(rules, subtotal)),
             line_discounts |-> [i \in DOMAIN lines |-> Total(SavedParts(rules, lines[i]))],
             refused |-> \E k \in 1..n : Exceeds(rules[k], lines)]
  BY <1>1, <1>3, ApplyIs
<1>8. [i \in DOMAIN lines |-> Total(SavedParts(active, lines[i]))] =
      [i \in DOMAIN lines |-> Total(SavedParts(rules, lines[i]))]
  BY <1>5
<1>9. QED
  BY <1>4, <1>6, <1>7, <1>8, Zenon

-----------------------------------------------------------------------------
\* Orders

\* What the lines of a request cost, and what is taken off each of them.
Subtotals(lines) == [i \in DOMAIN lines |-> LineSubtotal(lines[i])]
ItemDiscounts(lines) == [i \in DOMAIN lines |-> ItemDiscount(lines[i])]

\* The subtotal the promotions are computed from.
Base(lines) == Total(Subtotals(lines)) - ItemDiscountTotal(lines)

LEMMA LineTypes ==
    ASSUME NEW line \in Line
    PROVE  /\ line.product \in Products
           /\ line.quantity \in Positive
           /\ line.discount \in Nat
           /\ UnitPrice[line.product] \in Nat
           /\ LineSubtotal(line) \in Nat
           /\ ItemDiscount(line) \in Nat
<1>1. /\ line.product \in Products /\ line.quantity \in Positive /\ line.discount \in Nat
      /\ UnitPrice[line.product] \in Nat
  BY PricingAssumption DEF Line
<1>2. LineSubtotal(line) \in Nat
  BY <1>1, ProductType DEF LineSubtotal, Positive
<1>3. ItemDiscount(line) \in Nat
  BY <1>1 DEF ItemDiscount, Money
<1>4. QED
  BY <1>1, <1>2, <1>3

LEMMA LinesTypes ==
    ASSUME NEW n \in Nat, NEW lines \in [1..n -> Line]
    PROVE  /\ Subtotals(lines) \in [1..n -> Nat] /\ Subtotals(lines) \in [1..n -> Int]
           /\ ItemDiscounts(lines) \in [1..n -> Nat] /\ ItemDiscounts(lines) \in [1..n -> Int]
           /\ ItemDiscountTotal(lines) = Total(ItemDiscounts(lines))
           /\ Total(Subtotals(lines)) \in Nat
           /\ ItemDiscountTotal(lines) \in Nat
           /\ Base(lines) \in Int
<1>1. /\ Subtotals(lines) \in [1..n -> Nat] /\ Subtotals(lines) \in [1..n -> Int]
      /\ ItemDiscounts(lines) \in [1..n -> Nat] /\ ItemDiscounts(lines) \in [1..n -> Int]
  BY LineTypes DEF Subtotals, ItemDiscounts
<1>2. ItemDiscountTotal(lines) = Total(ItemDiscounts(lines))
  BY DEF ItemDiscountTotal, ItemDiscounts
<1>3. Total(Subtotals(lines)) \in Nat /\ Total(ItemDiscounts(lines)) \in Nat
  BY <1>1, TotalType
<1>4. QED
  BY <1>1, <1>2, <1>3 DEF Base

\* The order a request leads to, with the promotions it was given.
LEMMA PricedIs ==
    ASSUME NEW active, NEW lines, NEW discount
    PROVE  LET promotions == Apply(active, lines, Base(lines))
               priced == Priced(active, lines, discount)
           IN  /\ priced.lines = lines
               /\ priced.final_lines = [i \in DOMAIN lines |->
                      LineSubtotal(lines[i]) - ItemDiscount(lines[i])
                          - promotions.line_discounts[i]]
               /\ priced.subtotal = Total(Subtotals(lines))
               /\ priced.item_discount = ItemDiscountTotal(lines)
               /\ priced.promotion_discount = Total(promotions.line_discounts)
               /\ priced.order_discount = Money(discount) + promotions.order_discount
               /\ priced.final = Total(Subtotals(lines)) - ItemDiscountTotal(lines)
                      - Total(promotions.line_discounts)
                      - (Money(discount) + promotions.order_discount)
               /\ priced.refused = promotions.refused
BY DEF Priced, Base, Subtotals

\* The sums of an order that has one line or two.
LEMMA FewParts ==
    /\ \A a \in [1..1 -> Int] : Total(a) = a[1]
    /\ \A a \in [1..2 -> Int] : Total(a) = a[1] + a[2]
<1>1. ASSUME NEW a \in [1..1 -> Int]
      PROVE  Total(a) = a[1]
  <2> DEFINE r == [k \in 0..1 |-> IF k = 0 THEN 0 ELSE a[1]]
  <2>1. r[0] = 0 /\ r[1] = a[1] /\ \A k \in 1..1 : r[k] = r[k - 1] + a[k]
    OBVIOUS
  <2> HIDE DEF r
  <2>2. QED
    BY <2>1, TotalBy
<1>2. ASSUME NEW a \in [1..2 -> Int]
      PROVE  Total(a) = a[1] + a[2]
  <2> DEFINE r == [k \in 0..2 |-> IF k = 0 THEN 0 ELSE IF k = 1 THEN a[1] ELSE a[1] + a[2]]
  <2>1. r[0] = 0 /\ r[2] = a[1] + a[2] /\ \A k \in 1..2 : r[k] = r[k - 1] + a[k]
    <3>1. 1..2 = {1, 2}
      OBVIOUS
    <3>2. r[1] = r[0] + a[1] /\ r[2] = r[1] + a[2]
      OBVIOUS
    <3>3. QED
      BY <3>1, <3>2
  <2> HIDE DEF r
  <2>2. QED
    BY <2>1, TotalBy
<1>3. QED
  BY <1>1, <1>2

-----------------------------------------------------------------------------
\* Split lines

\* Whole groups in two parts are whole groups in their sum.
LEMMA QuotientSuperadditive ==
    ASSUME NEW a \in Nat, NEW b \in Nat, NEW m \in Positive
    PROVE  (a \div m) + (b \div m) <= (a + b) \div m
<1> DEFINE x == a \div m
<1> DEFINE y == b \div m
<1> DEFINE z == (a + b) \div m
<1>1. /\ x \in Nat /\ y \in Nat /\ z \in Nat /\ m \in Nat /\ 0 < m
      /\ m * x <= a /\ m * y <= b /\ a + b < m * (z + 1)
  BY Quotient DEF Positive
<1> HIDE DEF x, y, z
<1>2. m * x \in Nat /\ m * y \in Nat /\ m * (z + 1) \in Nat /\ m * (x + y) = m * x + m * y
  BY <1>1
<1>3. m * (x + y) < m * (z + 1)
  BY <1>1, <1>2
<1>4. x + y < z + 1
  <2>1. SUFFICES ASSUME z + 1 <= x + y
                 PROVE  FALSE
    BY <1>1
  <2>2. m * (z + 1) <= m * (x + y)
    BY <1>1, <2>1
  <2>3. QED
    BY <1>1, <1>2, <1>3, <2>2
<1>5. x + y <= z
  BY <1>1, <1>4
<1>6. QED
  BY <1>5 DEF x, y, z

\* A product with a natural number keeps an inequality.
LEMMA ProductMonotone ==
    ASSUME NEW a \in Nat, NEW b \in Nat, NEW c \in Nat, NEW x \in Nat, a + b <= c
    PROVE  a * x + b * x <= c * x
<1>1. PICK d \in Nat : c = (a + b) + d
  <2>1. c - (a + b) \in Nat /\ c = (a + b) + (c - (a + b))
    OBVIOUS
  <2>2. QED
    BY <2>1
<1>2. c * x = (a * x + b * x) + d * x
  BY <1>1
<1>3. a * x \in Nat /\ b * x \in Nat /\ d * x \in Nat
  BY <1>1, ProductType
<1>4. QED
  BY <1>2, <1>3

\* What a rule takes off one line of all the units is no less than what it
\* takes off the two lines they were split into.
LEMMA SavedSuperadditive ==
    ASSUME NEW rule \in Rule, NEW line \in Line, NEW one \in Line, NEW two \in Line,
           one.product = line.product, two.product = line.product,
           line.quantity = one.quantity + two.quantity
    PROVE  Saved(rule, one) + Saved(rule, two) <= Saved(rule, line)
<1> DEFINE u == UnitPrice[line.product]
<1> DEFINE q == one.quantity
<1> DEFINE r == two.quantity
<1>1. u \in Nat /\ q \in Nat /\ r \in Nat /\ q + r \in Nat
  BY LineTypes DEF Positive
<1>2. ASSUME Applies(rule, "buy_and_get")
      PROVE  BuyAndGet(rule, one) + BuyAndGet(rule, two) <= BuyAndGet(rule, line)
  <2> DEFINE m == rule.buy + rule.get
  <2> DEFINE x == q \div m
  <2> DEFINE y == r \div m
  <2> DEFINE z == (q + r) \div m
  <2>1. rule.get \in Nat /\ m \in Positive
    BY <1>2, RuleTypes DEF Positive
  <2>2. x \in Nat /\ y \in Nat /\ z \in Nat /\ x + y <= z
    BY <1>1, <2>1, Quotient, QuotientSuperadditive
  <2>3. /\ BuyAndGet(rule, one) = (x * rule.get) * u
        /\ BuyAndGet(rule, two) = (y * rule.get) * u
        /\ BuyAndGet(rule, line) = (z * rule.get) * u
    BY DEF BuyAndGet, FreeUnits
  <2> HIDE DEF m, q, r, u, x, y, z
  <2>4. x * rule.get + y * rule.get <= z * rule.get
    BY <2>1, <2>2, ProductMonotone
  <2>5. x * rule.get \in Nat /\ y * rule.get \in Nat /\ z * rule.get \in Nat
    BY <2>1, <2>2, ProductType
  <2>6. (x * rule.get) * u + (y * rule.get) * u <= (z * rule.get) * u
    BY <1>1, <2>4, <2>5, ProductMonotone
  <2>7. QED
    BY <2>3, <2>6
<1>3. ASSUME Applies(rule, "tiered_pricing")
      PROVE  TieredPricing(rule, one) + TieredPricing(rule, two) <= TieredPricing(rule, line)
  <2> DEFINE d == u - rule.tier_price
  <2> DEFINE tier(k) == IF k >= rule.tier /\ d * k > 0 THEN d * k ELSE 0
  <2>1. rule.tier \in Nat /\ d \in Int
    BY <1>1, <1>3, RuleTypes DEF Positive
  <2>2. /\ TieredPricing(rule, one) = tier(q)
        /\ TieredPricing(rule, two) = tier(r)
        /\ TieredPricing(rule, line) = tier(q + r)
    BY DEF TieredPricing
  <2> HIDE DEF d, q, r, u
  <2>3. d * q \in Int /\ d * r \in Int /\ d * (q + r) = d * q + d * r
    BY <1>1, <2>1
  <2>4. CASE d <= 0
    <3>1. d * q <= 0 /\ d * r <= 0 /\ d * (q + r) <= 0
      BY <1>1, <2>1, <2>4
    <3>2. QED
      BY <2>2, <2>3, <3>1
  <2>5. CASE 0 < d
    <3>1. 0 <= d * q /\ 0 <= d * r
      BY <1>1, <2>1, <2>5
    <3>2. QED
      BY <1>1, <2>1, <2>2, <2>3, <3>1
  <2>6. QED
    BY <2>1, <2>4, <2>5
<1>4. QED
  BY <1>2, <1>3 DEF Saved

\* A sequence as a function.
LEMMA SequenceIsFunction ==
    ASSUME NEW lines \in Seq(Line)
    PROVE  Len(lines) \in Nat /\ lines \in [1..Len(lines) -> Line]
OBVIOUS

\* The one line that two lines of a product are merged into.
LEMMA MergedIs ==
    ASSUME NEW lines \in Seq(Line), Len(lines) = 2, lines[1].product = lines[2].product
    PROVE  /\ lines \in [1..2 -> Line]
           /\ lines[1] \in Line /\ lines[2] \in Line
           /\ Merged(lines) \in [1..1 -> Line]
           /\ Merged(lines) \in Seq(Line)
           /\ Merged(lines)[1].product = lines[1].product
           /\ Merged(lines)[1].quantity = lines[1].quantity + lines[2].quantity
           /\ LineSubtotal(Merged(lines)[1]) = LineSubtotal(lines[1]) + LineSubtotal(lines[2])
           /\ ItemDiscount(Merged(lines)[1]) = ItemDiscount(lines[1]) + ItemDiscount(lines[2])
<1> DEFINE x == ItemDiscount(lines[1]) + ItemDiscount(lines[2])
<1> DEFINE line == [product |-> lines[1].product,
                    quantity |-> lines[1].quantity + lines[2].quantity, discount |-> 10 * x]
<1>1. lines \in [1..2 -> Line] /\ lines[1] \in Line /\ lines[2] \in Line
  <2>1. lines \in [1..Len(lines) -> Line]
    BY SequenceIsFunction
  <2>2. lines \in [1..2 -> Line]
    BY <2>1
  <2>3. QED
    BY <2>2
<1>2. /\ lines[1].quantity \in Positive /\ lines[2].quantity \in Positive
      /\ lines[1].product \in Products /\ UnitPrice[lines[1].product] \in Nat
      /\ x \in Nat
  BY <1>1, LineTypes
<1> HIDE DEF x
<1>3. line \in Line
  BY <1>2 DEF Line, Positive
<1>4. Merged(lines) = <<line>>
  BY DEF Merged, x
<1>5. LineSubtotal(line) = LineSubtotal(lines[1]) + LineSubtotal(lines[2])
  BY <1>2 DEF LineSubtotal, Positive
<1>6. ItemDiscount(line) = x
  BY <1>2 DEF ItemDiscount, Money
<1>7. line.product = lines[1].product /\ line.quantity = lines[1].quantity + lines[2].quantity
  OBVIOUS
<1> HIDE DEF line
<1>8. /\ Merged(lines)[1] = line
      /\ Merged(lines) \in [1..1 -> Line]
      /\ Merged(lines) \in Seq(Line)
  BY <1>3, <1>4
<1>9. QED
  BY <1>1, <1>5, <1>6, <1>7, <1>8 DEF x

\* What the merged line costs before any promotion, and in units.
LEMMA MergedTotals ==
    ASSUME NEW lines \in Seq(Line), Len(lines) = 2, lines[1].product = lines[2].product
    PROVE  /\ Total(Subtotals(Merged(lines))) = Total(Subtotals(lines))
           /\ ItemDiscountTotal(Merged(lines)) = ItemDiscountTotal(lines)
           /\ Base(Merged(lines)) = Base(lines)
           /\ \A product : Ordered(product, Merged(lines)) = Ordered(product, lines)
<1> DEFINE merged == Merged(lines)
<1>1. /\ lines \in [1..2 -> Line] /\ lines[1] \in Line /\ lines[2] \in Line
      /\ merged \in [1..1 -> Line]
      /\ merged[1].product = lines[1].product
      /\ merged[1].quantity = lines[1].quantity + lines[2].quantity
      /\ LineSubtotal(merged[1]) = LineSubtotal(lines[1]) + LineSubtotal(lines[2])
      /\ ItemDiscount(merged[1]) = ItemDiscount(lines[1]) + ItemDiscount(lines[2])
  BY MergedIs
<1> HIDE DEF merged
<1>2. Total(Subtotals(merged)) = Total(Subtotals(lines))
  <2>1. Subtotals(merged) \in [1..1 -> Int] /\ Subtotals(lines) \in [1..2 -> Int]
    BY <1>1, LinesTypes
  <2>2. /\ Subtotals(merged)[1] = LineSubtotal(merged[1])
        /\ Subtotals(lines)[1] = LineSubtotal(lines[1])
        /\ Subtotals(lines)[2] = LineSubtotal(lines[2])
    BY <1>1 DEF Subtotals
  <2>3. QED
    BY <1>1, <2>1, <2>2, FewParts
<1>3. ItemDiscountTotal(merged) = ItemDiscountTotal(lines)
  <2>1. /\ ItemDiscounts(merged) \in [1..1 -> Int] /\ ItemDiscounts(lines) \in [1..2 -> Int]
        /\ ItemDiscountTotal(merged) = Total(ItemDiscounts(merged))
        /\ ItemDiscountTotal(lines) = Total(ItemDiscounts(lines))
    BY <1>1, LinesTypes
  <2>2. /\ ItemDiscounts(merged)[1] = ItemDiscount(merged[1])
        /\ ItemDiscounts(lines)[1] = ItemDiscount(lines[1])
        /\ ItemDiscounts(lines)[2] = ItemDiscount(lines[2])
    BY <1>1 DEF ItemDiscounts
  <2>3. QED
    BY <1>1, <2>1, <2>2, FewParts
<1>4. ASSUME NEW product
      PROVE  Ordered(product, merged) = Ordered(product, lines)
  <2> DEFINE a == [i \in DOMAIN merged |->
                      IF merged[i].product = product THEN merged[i].quantity ELSE 0]
  <2> DEFINE b == [i \in DOMAIN lines |->
                      IF lines[i].product = product THEN lines[i].quantity ELSE 0]
  <2>1. /\ lines[1].quantity \in Nat /\ lines[2].quantity \in Nat
    BY <1>1, LineTypes DEF Positive
  <2>2. a \in [1..1 -> Int] /\ a[1] = IF lines[1].product = product
                                     THEN lines[1].quantity + lines[2].quantity ELSE 0
    BY <1>1, <2>1
  <2>3. b \in [1..2 -> Int]
    <3>1. \A i \in 1..2 : lines[i].quantity \in Int
      BY <1>1, LineTypes DEF Positive
    <3>2. QED
      BY <1>1, <3>1
  <2>4. /\ b[1] = IF lines[1].product = product THEN lines[1].quantity ELSE 0
        /\ b[2] = IF lines[1].product = product THEN lines[2].quantity ELSE 0
    BY <1>1
  <2>5. Ordered(product, merged) = Total(a) /\ Ordered(product, lines) = Total(b)
    BY DEF Ordered
  <2> HIDE DEF a, b
  <2>6. QED
    BY <2>1, <2>2, <2>3, <2>4, <2>5, FewParts
<1>5. QED
  BY <1>2, <1>3, <1>4 DEF Base, merged

\* What the rules take off the merged line is no less than what they take off
\* the two lines.
LEMMA MergedSavesMore ==
    ASSUME NEW n \in Nat, NEW active \in [1..n -> Rule], NEW lines \in Seq(Line),
           Len(lines) = 2, lines[1].product = lines[2].product
    PROVE  /\ Total(SavedParts(active, lines[1])) + Total(SavedParts(active, lines[2]))
                 <= Total(SavedParts(active, Merged(lines)[1]))
           /\ Total(SavedParts(active, lines[1])) \in Int
           /\ Total(SavedParts(active, lines[2])) \in Int
           /\ Total(SavedParts(active, Merged(lines)[1])) \in Int
<1> DEFINE merged == Merged(lines)
<1>1. /\ lines[1] \in Line /\ lines[2] \in Line /\ merged[1] \in Line
      /\ merged[1].product = lines[1].product
      /\ merged[1].quantity = lines[1].quantity + lines[2].quantity
  BY MergedIs
<1> HIDE DEF merged
<1> DEFINE a == SavedParts(active, lines[1])
<1> DEFINE b == SavedParts(active, lines[2])
<1> DEFINE c == SavedParts(active, merged[1])
<1>2. a \in [1..n -> Int] /\ b \in [1..n -> Int] /\ c \in [1..n -> Int]
  BY <1>1, PartTypes
<1>3. ASSUME NEW k \in 1..n
      PROVE  a[k] + b[k] <= c[k]
  <2>1. Saved(active[k], lines[1]) + Saved(active[k], lines[2]) <= Saved(active[k], merged[1])
    BY <1>1, SavedSuperadditive
  <2>2. QED
    BY <2>1 DEF SavedParts
<1> HIDE DEF a, b, c
<1>4. Total(a) + Total(b) <= Total(c)
  BY <1>2, <1>3, TotalMonotone
<1>5. Total(a) \in Int /\ Total(b) \in Int /\ Total(c) \in Int
  BY <1>2, TotalType
<1>6. QED
  BY <1>4, <1>5 DEF a, b, c, merged

-----------------------------------------------------------------------------
\* The theorems about prices

\* The rules that are active, as the lemmas about the engine want them.
LEMMA ActiveTypes ==
    ASSUME rules \in Seq(Rules)
    PROVE  /\ rules \in Seq(Rule)
           /\ Len(rules) \in Nat
           /\ ActiveRules \in Orderings(rules)
           /\ ActiveRules \in [1..Len(rules) -> Rule]
<1>1. rules \in Seq(Rule)
  BY PricingAssumption
<1>2. ActiveRules \in Orderings(rules)
  BY <1>1, ActiveRulesAreRules
<1>3. QED
  BY <1>1, <1>2 DEF Orderings

\* What is known of an order before it is known whether it is accepted: its
\* amounts are natural numbers where nothing is subtracted, the lines add up to
\* its total, and it is refused if one of the rules refuses it.
Settled(priced, active, lines, discount) ==
    /\ priced.lines = lines
    /\ priced.final_lines \in [DOMAIN lines -> Int]
    /\ priced.subtotal \in Nat
    /\ priced.item_discount \in Nat
    /\ priced.promotion_discount \in Nat
    /\ priced.order_discount \in Nat
    /\ priced.final \in Int
    /\ priced.subtotal = Total(Subtotals(lines))
    /\ priced.item_discount = Total(ItemDiscounts(lines))
    /\ priced.promotion_discount = Total(SavedOnLines(active, lines))
    /\ priced.order_discount = Money(discount) + Total(SpentParts(active, Base(lines)))
    /\ priced.final = priced.subtotal - priced.item_discount
           - priced.promotion_discount - priced.order_discount
    /\ priced.final = Total(priced.final_lines) - priced.order_discount
    /\ priced.refused <=> \E k \in DOMAIN active : Exceeds(active[k], lines)

LEMMA PricedIsSettled ==
    ASSUME NEW n \in Nat, NEW active \in [1..n -> Rule],
           NEW m \in Nat, NEW lines \in [1..m -> Line], NEW discount \in Nat
    PROVE  Settled(Priced(active, lines, discount), active, lines, discount)
<1> DEFINE promotions == Apply(active, lines, Base(lines))
<1> DEFINE priced == Priced(active, lines, discount)
<1> DEFINE a == Subtotals(lines)
<1> DEFINE b == ItemDiscounts(lines)
<1> DEFINE c == SavedOnLines(active, lines)
<1> DEFINE d == priced.final_lines
<1> DEFINE spent == SpentParts(active, Base(lines))
<1>1. /\ a \in [1..m -> Int] /\ b \in [1..m -> Int]
      /\ Total(a) \in Nat /\ ItemDiscountTotal(lines) \in Nat
      /\ ItemDiscountTotal(lines) = Total(b)
      /\ Base(lines) \in Int
  BY LinesTypes
<1>2. lines \in Seq(Line)
  OBVIOUS
<1>3. promotions = [order_discount |-> Total(spent), line_discounts |-> c,
                    refused |-> \E k \in 1..n : Exceeds(active[k], lines)]
  BY <1>1, <1>2, ApplyIs DEF SavedOnLines
<1>4. c \in [1..m -> Nat] /\ c \in [1..m -> Int]
  <2>1. ASSUME NEW i \in 1..m
        PROVE  Total(SavedParts(active, lines[i])) \in Nat
    <3>1. SavedParts(active, lines[i]) \in [1..n -> Nat]
      BY PartTypes
    <3>2. QED
      BY <3>1, TotalType
  <2>2. QED
    BY <2>1 DEF SavedOnLines
<1>5. Total(spent) \in Nat
  <2>1. spent \in [1..n -> Nat]
    BY <1>1, PartTypes
  <2> HIDE DEF spent
  <2>2. QED
    BY <2>1, TotalType
<1>6. Money(discount) \in Nat
  BY DEF Money
<1>7. /\ priced.lines = lines
      /\ d = [i \in DOMAIN lines |->
             LineSubtotal(lines[i]) - ItemDiscount(lines[i]) - promotions.line_discounts[i]]
      /\ priced.subtotal = Total(a)
      /\ priced.item_discount = ItemDiscountTotal(lines)
      /\ priced.promotion_discount = Total(promotions.line_discounts)
      /\ priced.order_discount = Money(discount) + promotions.order_discount
      /\ priced.final = Total(a) - ItemDiscountTotal(lines)
             - Total(promotions.line_discounts) - (Money(discount) + promotions.order_discount)
      /\ priced.refused = promotions.refused
  BY PricedIs
<1>8. \A i \in 1..m : a[i] = LineSubtotal(lines[i]) /\ b[i] = ItemDiscount(lines[i])
  BY DEF Subtotals, ItemDiscounts
<1> HIDE DEF promotions, priced, a, b, c, d, spent
<1>9. /\ promotions.order_discount = Total(spent)
      /\ promotions.line_discounts = c
      /\ promotions.refused = (\E k \in 1..n : Exceeds(active[k], lines))
  BY <1>3
<1>10. Total(c) \in Nat
  BY <1>4, TotalType
<1>11. d \in [1..m -> Int] /\ \A i \in 1..m : d[i] = a[i] - b[i] - c[i]
  <2>1. DOMAIN lines = 1..m
    OBVIOUS
  <2>2. d = [i \in 1..m |-> LineSubtotal(lines[i]) - ItemDiscount(lines[i]) - c[i]]
    BY <2>1, <1>7, <1>9
  <2>3. d = [i \in 1..m |-> a[i] - b[i] - c[i]]
    BY <2>2, <1>8
  <2>4. ASSUME NEW i \in 1..m
        PROVE  a[i] - b[i] - c[i] \in Int
    BY <1>1, <1>4
  <2>5. QED
    BY <2>3, <2>4
<1>12. Total(d) = Total(a) - Total(b) - Total(c)
  <2> DEFINE e == [i \in 1..m |-> a[i] - b[i]]
  <2>1. e \in [1..m -> Int] /\ \A i \in 1..m : e[i] = a[i] - b[i]
    BY <1>1
  <2> HIDE DEF e
  <2>2. Total(e) = Total(a) - Total(b)
    BY <1>1, <2>1, TotalDifference
  <2>3. \A i \in 1..m : d[i] = e[i] - c[i]
    BY <1>11, <2>1
  <2>4. Total(d) = Total(e) - Total(c)
    BY <1>4, <1>11, <2>1, <2>3, TotalDifference
  <2>5. QED
    BY <2>2, <2>4
<1>13. /\ priced.subtotal \in Nat /\ priced.item_discount \in Nat
       /\ priced.promotion_discount \in Nat /\ priced.order_discount \in Nat
       /\ priced.final = priced.subtotal - priced.item_discount
              - priced.promotion_discount - priced.order_discount
       /\ priced.final = Total(d) - priced.order_discount
       /\ priced.final \in Int
       /\ priced.order_discount = Money(discount) + Total(spent)
       /\ priced.subtotal = Total(a) /\ priced.item_discount = Total(b)
       /\ priced.promotion_discount = Total(c)
  BY <1>1, <1>5, <1>6, <1>7, <1>9, <1>10, <1>12
<1>14. priced.refused <=> \E k \in DOMAIN active : Exceeds(active[k], lines)
  BY <1>7, <1>9
<1>15. d \in [DOMAIN lines -> Int]
  BY <1>11
<1>16. Settled(priced, active, lines, discount)
  BY <1>7, <1>13, <1>14, <1>15 DEF Settled, a, b, c, d, spent
<1>17. QED
  BY <1>16 DEF priced

\* What a step that stores an order stores.
LEMMA NewOrder ==
    ASSUME TypeOK, [Next]_vars, order' # order
    PROVE  \E lines \in Baskets, discount \in OrderDiscounts :
               /\ lines \in Seq(Line)
               /\ order'.lines = lines
               /\ Accepted(order')
               /\ Settled(order', ActiveRules, lines, discount)
               /\ order = NoOrder
               /\ rules' = rules
<1>1. PICK lines \in Baskets, discount \in OrderDiscounts : CreateOrder(lines, discount)
  BY DEF Next, vars, CreatePromotionRule
<1>2. lines \in Seq(Line) /\ discount \in Nat
  BY PricingAssumption
<1>3. Len(lines) \in Nat /\ lines \in [1..Len(lines) -> Line]
  BY <1>2, SequenceIsFunction
<1>4. Len(rules) \in Nat /\ ActiveRules \in [1..Len(rules) -> Rule]
  BY ActiveTypes DEF TypeOK
<1>5. Settled(Priced(ActiveRules, lines, discount), ActiveRules, lines, discount)
  BY <1>2, <1>3, <1>4, PricedIsSettled
<1>6. /\ order' = Priced(ActiveRules, lines, discount) /\ Accepted(order')
      /\ order = NoOrder /\ rules' = rules
  BY <1>1 DEF CreateOrder
<1>7. order'.lines = lines
  BY <1>5, <1>6 DEF Settled
<1>8. QED
  BY <1>2, <1>5, <1>6, <1>7

\* Inductive on its own: an order is stored once, already accepted.
Inv == TypeOK /\ BreakdownAddsUp

LEMMA InitInv == Init => Inv
BY DEF Init, Inv, TypeOK, BreakdownAddsUp

LEMMA StepInv == Inv /\ [Next]_vars => Inv'
<1> SUFFICES ASSUME Inv, [Next]_vars
             PROVE  Inv'
  OBVIOUS
<1>1. rules' \in Seq(Rules)
  BY DEF Inv, TypeOK, Next, vars, CreatePromotionRule, CreateOrder
<1>2. CASE order' = order
  BY <1>1, <1>2 DEF Inv, TypeOK, BreakdownAddsUp, Total
<1>3. CASE order' # order
  <2>1. PICK lines \in Baskets, discount \in OrderDiscounts :
           /\ order'.lines = lines
           /\ Accepted(order')
           /\ Settled(order', ActiveRules, lines, discount)
    BY <1>3, NewOrder DEF Inv
  <2>2. /\ order'.final_lines \in [DOMAIN lines -> Int]
        /\ {order'.subtotal, order'.item_discount, order'.promotion_discount,
            order'.order_discount} \subseteq Nat
        /\ order'.final \in Int
        /\ order'.final = Total(order'.final_lines) - order'.order_discount
    BY <2>1 DEF Settled
  <2>3. order'.final_lines \in [DOMAIN lines -> Nat] /\ order'.final \in Nat
    BY <2>1, <2>2 DEF Accepted
  <2>4. TypeOK'
    BY <1>1, <2>1, <2>2, <2>3 DEF TypeOK
  <2>5. BreakdownAddsUp'
    BY <2>2 DEF BreakdownAddsUp, Total
  <2>6. QED
    BY <2>4, <2>5 DEF Inv
<1>4. QED
  BY <1>2, <1>3

\* The inductive invariant of the prices.
THEOREM Invariance == Spec => []Inv
BY InitInv, StepInv, PTL DEF Spec

\* For every price list, every set of rules and every basket, no amount of a
\* stored order is negative.
THEOREM TypeCorrect == Spec => []TypeOK
<1>1. Inv => TypeOK
  BY DEF Inv
<1>2. QED
  BY <1>1, Invariance, PTL

\* The two ways to add up a receipt agree for every receipt: the sums over the
\* lines of what is subtracted are what the line amounts are short of the
\* subtotal.
THEOREM BreakdownAddsUpHolds == Spec => []BreakdownAddsUp
<1>1. Inv => BreakdownAddsUp
  BY DEF Inv
<1>2. QED
  BY <1>1, Invariance, PTL

\* However many rules there are, the order in which they are applied does not
\* matter: each adds something that depends on no other rule, and a sum does
\* not depend on the order of its parts.
THEOREM PriorityIrrelevantHolds == Spec => PriorityIrrelevant
<1> DEFINE Alike ==
        order' # order =>
            \A active \in Orderings(rules) :
                Priced(active, order'.lines, 0) = Priced(ActiveRules, order'.lines, 0)
<1>1. Inv /\ [Next]_vars => [Alike]_vars
  <2> SUFFICES ASSUME Inv, [Next]_vars, order' # order, NEW active \in Orderings(rules)
               PROVE  Priced(active, order'.lines, 0) = Priced(ActiveRules, order'.lines, 0)
    OBVIOUS
  <2>1. PICK lines \in Baskets : lines \in Seq(Line) /\ order'.lines = lines
    BY NewOrder DEF Inv
  <2>2. rules \in Seq(Rule) /\ ActiveRules \in Orderings(rules)
    BY ActiveTypes DEF Inv, TypeOK
  <2>3. Base(lines) \in Int
    BY <2>1, SequenceIsFunction, LinesTypes
  <2>4. Apply(active, lines, Base(lines)) = Apply(ActiveRules, lines, Base(lines))
    BY <2>1, <2>2, <2>3, OrderingsApplyAlike
  <2>5. Priced(active, lines, 0) = Priced(ActiveRules, lines, 0)
    BY <2>4 DEF Priced, Base, Subtotals
  <2>6. QED
    BY <2>1, <2>5
<1>2. QED
  BY <1>1, Invariance, PTL DEF Spec, PriorityIrrelevant

\* What a step that stores an order of two lines of one product leaves to
\* show: the merged line is priced by the same rules.
LEMMA NewSplitOrder ==
    ASSUME TypeOK, [Next]_vars, order' # order,
           Len(order'.lines) = 2, order'.lines[1].product = order'.lines[2].product
    PROVE  /\ order'.lines \in Seq(Line)
           /\ ~\E k \in DOMAIN ActiveRules : Exceeds(ActiveRules[k], order'.lines)
           /\ \A discount \in Nat :
                 /\ Settled(Priced(ActiveRules, order'.lines, discount),
                            ActiveRules, order'.lines, discount)
                 /\ Settled(Priced(ActiveRules, Merged(order'.lines), discount),
                            ActiveRules, Merged(order'.lines), discount)
<1>1. PICK lines \in Baskets, discount \in OrderDiscounts :
         /\ lines \in Seq(Line)
         /\ order'.lines = lines
         /\ Accepted(order')
         /\ Settled(order', ActiveRules, lines, discount)
  BY NewOrder
<1>2. Len(rules) \in Nat /\ ActiveRules \in [1..Len(rules) -> Rule]
  BY ActiveTypes DEF TypeOK
<1>3. ~\E k \in DOMAIN ActiveRules : Exceeds(ActiveRules[k], lines)
  BY <1>1 DEF Accepted, Settled
<1>4. lines \in [1..2 -> Line] /\ Merged(lines) \in [1..1 -> Line]
  BY <1>1, MergedIs
<1>5. ASSUME NEW d \in Nat
      PROVE  /\ Settled(Priced(ActiveRules, lines, d), ActiveRules, lines, d)
             /\ Settled(Priced(ActiveRules, Merged(lines), d), ActiveRules, Merged(lines), d)
  BY <1>2, <1>4, PricedIsSettled
<1>6. QED
  BY <1>1, <1>3, <1>5

\* A limit counts all units of a product in the order, so it sees the same
\* number before and after a merge: what is sold as two lines is sold as one.
THEOREM LimitSeesThroughSplitsHolds == Spec => LimitSeesThroughSplits
<1> DEFINE SeenThrough ==
        order' # order =>
            LET lines == order'.lines
            IN  Len(lines) = 2 /\ lines[1].product = lines[2].product =>
                    ~Priced(ActiveRules, Merged(lines), 0).refused
<1>1. Inv /\ [Next]_vars => [SeenThrough]_vars
  <2> SUFFICES ASSUME Inv, [Next]_vars, order' # order, NEW lines, lines = order'.lines,
                      Len(lines) = 2, lines[1].product = lines[2].product
               PROVE  ~Priced(ActiveRules, Merged(lines), 0).refused
    OBVIOUS
  <2>1. /\ lines \in Seq(Line)
        /\ ~\E k \in DOMAIN ActiveRules : Exceeds(ActiveRules[k], lines)
        /\ Settled(Priced(ActiveRules, Merged(lines), 0), ActiveRules, Merged(lines), 0)
    BY NewSplitOrder DEF Inv
  <2>2. \A product : Ordered(product, Merged(lines)) = Ordered(product, lines)
    BY <2>1, MergedTotals
  <2>3. ~\E k \in DOMAIN ActiveRules : Exceeds(ActiveRules[k], Merged(lines))
    BY <2>1, <2>2 DEF Exceeds, WithinLimit
  <2>4. QED
    BY <2>1, <2>3 DEF Settled
<1>2. QED
  BY <1>1, Invariance, PTL DEF Spec, LimitSeesThroughSplits

\* Whatever the rules give for two lines of a product they give for one line
\* of all the units: groups complete in either line complete in the merged one,
\* and a tier reached by either is reached by it.
THEOREM SplitNeverPaysHolds == Spec => SplitNeverPays
<1> DEFINE NeverPays ==
        order' # order =>
            LET lines == order'.lines
            IN  Len(lines) = 2 /\ lines[1].product = lines[2].product =>
                    \A discount \in OrderDiscounts :
                        Priced(ActiveRules, Merged(lines), discount).final
                            <= Priced(ActiveRules, lines, discount).final
<1>1. Inv /\ [Next]_vars => [NeverPays]_vars
  <2> SUFFICES ASSUME Inv, [Next]_vars, order' # order, NEW lines, lines = order'.lines,
                      Len(lines) = 2, lines[1].product = lines[2].product,
                      NEW discount \in OrderDiscounts
               PROVE  Priced(ActiveRules, Merged(lines), discount).final
                          <= Priced(ActiveRules, lines, discount).final
    OBVIOUS
  <2> DEFINE one == Priced(ActiveRules, Merged(lines), discount)
  <2> DEFINE two == Priced(ActiveRules, lines, discount)
  <2> DEFINE savedOne == SavedOnLines(ActiveRules, Merged(lines))
  <2> DEFINE savedTwo == SavedOnLines(ActiveRules, lines)
  <2>1. /\ lines \in Seq(Line)
        /\ Settled(two, ActiveRules, lines, discount)
        /\ Settled(one, ActiveRules, Merged(lines), discount)
    BY NewSplitOrder, PricingAssumption DEF Inv
  <2>2. lines \in [1..2 -> Line] /\ Merged(lines) \in [1..1 -> Line]
    BY <2>1, MergedIs
  <2>3. /\ Total(Subtotals(Merged(lines))) = Total(Subtotals(lines))
        /\ Total(ItemDiscounts(Merged(lines))) = Total(ItemDiscounts(lines))
        /\ Base(Merged(lines)) = Base(lines)
    BY <2>1, <2>2, MergedTotals, LinesTypes
  <2>4. Len(rules) \in Nat /\ ActiveRules \in [1..Len(rules) -> Rule]
    BY ActiveTypes DEF Inv, TypeOK
  <2>5. /\ Total(SavedParts(ActiveRules, lines[1])) + Total(SavedParts(ActiveRules, lines[2]))
               <= Total(SavedParts(ActiveRules, Merged(lines)[1]))
        /\ Total(SavedParts(ActiveRules, lines[1])) \in Int
        /\ Total(SavedParts(ActiveRules, lines[2])) \in Int
        /\ Total(SavedParts(ActiveRules, Merged(lines)[1])) \in Int
    BY <2>1, <2>4, MergedSavesMore
  <2>6. /\ savedOne \in [1..1 -> Int] /\ savedTwo \in [1..2 -> Int]
        /\ savedOne[1] = Total(SavedParts(ActiveRules, Merged(lines)[1]))
        /\ savedTwo[1] = Total(SavedParts(ActiveRules, lines[1]))
        /\ savedTwo[2] = Total(SavedParts(ActiveRules, lines[2]))
    BY <2>2, <2>5 DEF SavedOnLines
  <2> HIDE DEF one, two, savedOne, savedTwo
  <2>7. Total(savedOne) = savedOne[1] /\ Total(savedTwo) = savedTwo[1] + savedTwo[2]
    BY <2>6, FewParts
  <2>8. Total(savedTwo) <= Total(savedOne)
    BY <2>5, <2>6, <2>7
  <2>9. one.order_discount = two.order_discount
    BY <2>1, <2>3 DEF Settled
  <2>10. one.final <= two.final
    BY <2>1, <2>3, <2>8, <2>9 DEF Settled, savedOne, savedTwo
  <2>11. QED
    BY <2>10 DEF one, two
<1>2. QED
  BY <1>1, Invariance, PTL DEF Spec, SplitNeverPays

-----------------------------------------------------------------------------
\* The ledger
\*
\* What becomes of an order once it has its price.  The ledger is a module of
\* its own with variables of its own.

CONSTANTS Orders, Keys, Prices, Amounts
VARIABLES status, price, collected, refunded, used

Ledger == INSTANCE OrderLedger

\* An order that was never opened has seen no money.  Without it Open could
\* give a price below what was already refunded.
LedgerFresh == \A o \in Orders : status[o] = "none" => collected[o] = 0 /\ refunded[o] = 0

\* The promises are inductive together: the overpayment check keeps the paid
\* amount in range only if the status still says there is something to pay,
\* and the status is right only if the paid amount is in range.
LedgerInv ==
    /\ Ledger!TypeOK
    /\ LedgerFresh
    /\ Ledger!PaidWithinPrice
    /\ Ledger!RefundCeiling
    /\ Ledger!StatusMatchesPaid

\* Nothing is promised about an order no step touches.
LEMMA LedgerInitInv == Ledger!Init => LedgerInv
BY
DEF Ledger!Init, LedgerInv, Ledger!TypeOK, LedgerFresh, Ledger!PaidWithinPrice,
    Ledger!RefundCeiling, Ledger!StatusMatchesPaid, Ledger!Paid, Ledger!Statuses

\* Every operation of the ledger preserves the invariant.
LEMMA LedgerStepInv ==
    Ledger!LedgerAssumption /\ LedgerInv /\ [Ledger!Next]_Ledger!vars => LedgerInv'
<1> SUFFICES ASSUME Ledger!LedgerAssumption, LedgerInv, [Ledger!Next]_Ledger!vars PROVE LedgerInv'
  OBVIOUS
<1> USE DEF Ledger!LedgerAssumption
<1>1. ASSUME NEW o \in Orders, NEW p \in Prices, Ledger!Open(o, p) PROVE LedgerInv'
  BY <1>1
  DEF Ledger!Open, LedgerInv, Ledger!TypeOK, LedgerFresh, Ledger!PaidWithinPrice,
      Ledger!RefundCeiling, Ledger!StatusMatchesPaid, Ledger!Paid, Ledger!Statuses
<1>2. ASSUME NEW o \in Orders, NEW a \in Amounts, Ledger!Collect(o, a) PROVE LedgerInv'
  <2>1. a \in Nat /\ status[o] \in Ledger!Unsettled /\ 0 < a /\ Ledger!Paid(o) + a <= price[o]
    BY <1>2 DEF Ledger!Collect
  <2>2. Ledger!Paid(o) \in Int /\ collected[o] \in Nat /\ refunded[o] \in Nat /\ price[o] \in Nat
    BY DEF LedgerInv, Ledger!TypeOK, Ledger!Paid
  <2>3. Ledger!StatusFor(Ledger!Paid(o) + a, price[o]) \in {"settled", "partially_paid"}
    BY <2>1, <2>2 DEF Ledger!StatusFor, LedgerInv, Ledger!PaidWithinPrice
  <2>4. Ledger!TypeOK' /\ LedgerFresh'
    BY <1>2, <2>1, <2>2, <2>3
    DEF Ledger!Collect, LedgerInv, Ledger!TypeOK, LedgerFresh, Ledger!Statuses,
        Ledger!Unsettled
  <2>5. \A q \in Orders \ {o} :
            /\ status'[q] = status[q]
            /\ collected'[q] = collected[q]
            /\ Ledger!Paid(q)' = Ledger!Paid(q)
    BY <1>2 DEF Ledger!Collect, LedgerInv, Ledger!TypeOK, Ledger!Paid
  <2>6. /\ Ledger!Paid(o)' = Ledger!Paid(o) + a
        /\ status'[o] = Ledger!StatusFor(Ledger!Paid(o) + a, price[o])
    BY <1>2, <2>1, <2>2 DEF Ledger!Collect, LedgerInv, Ledger!TypeOK, Ledger!Paid
  <2>7. Ledger!PaidWithinPrice'
    BY <1>2, <2>1, <2>2, <2>5, <2>6 DEF Ledger!Collect, LedgerInv, Ledger!PaidWithinPrice
  <2>8. Ledger!RefundCeiling'
    BY <1>2 DEF Ledger!Collect, LedgerInv, Ledger!RefundCeiling
  <2>9. Ledger!StatusMatchesPaid'
    <3> SUFFICES ASSUME NEW q \in Orders
                 PROVE /\ status'[q] = "settled" => Ledger!Paid(q)' = price'[q] /\ price'[q] > 0
                       /\ status'[q] = "partially_paid" =>
                              0 < Ledger!Paid(q)' /\ Ledger!Paid(q)' < price'[q]
                       /\ status'[q] \in {"none", "pending"} => Ledger!Paid(q)' = 0
      BY DEF Ledger!StatusMatchesPaid
    <3>1. CASE q = o
      BY <1>2, <3>1, <2>1, <2>2, <2>6
      DEF Ledger!Collect, Ledger!StatusFor, LedgerInv, Ledger!PaidWithinPrice
    <3>2. CASE q # o
      BY <1>2, <3>2, <2>5 DEF Ledger!Collect, LedgerInv, Ledger!StatusMatchesPaid
    <3> QED BY <3>1, <3>2
  <2> QED BY <2>4, <2>7, <2>8, <2>9 DEF LedgerInv
<1>3. ASSUME NEW o \in Orders, NEW a \in Amounts, NEW k \in Keys, Ledger!Refund(o, a, k)
      PROVE  LedgerInv'
  <2>1. /\ a \in Nat /\ 0 < a /\ a <= Ledger!Paid(o) /\ refunded[o] + a <= price[o]
        /\ status[o] \in {"partially_paid", "settled"}
    BY <1>3 DEF Ledger!Refund
  <2>2. Ledger!Paid(o) \in Int /\ collected[o] \in Nat /\ refunded[o] \in Nat /\ price[o] \in Nat
    BY DEF LedgerInv, Ledger!TypeOK, Ledger!Paid
  <2>3. Ledger!Paid(o) <= price[o]
    BY DEF LedgerInv, Ledger!PaidWithinPrice
  <2>4. Ledger!TypeOK' /\ LedgerFresh'
    BY <1>3, <2>1, <2>2
    DEF Ledger!Refund, Ledger!StatusFor, LedgerInv, Ledger!TypeOK, LedgerFresh,
        Ledger!Statuses
  <2>5. \A q \in Orders \ {o} :
            /\ status'[q] = status[q]
            /\ refunded'[q] = refunded[q]
            /\ Ledger!Paid(q)' = Ledger!Paid(q)
    BY <1>3 DEF Ledger!Refund, LedgerInv, Ledger!TypeOK, Ledger!Paid
  <2>6. /\ Ledger!Paid(o)' = Ledger!Paid(o) - a
        /\ refunded'[o] = refunded[o] + a
        /\ status'[o] = Ledger!StatusFor(Ledger!Paid(o) - a, price[o])
    BY <1>3, <2>1, <2>2 DEF Ledger!Refund, LedgerInv, Ledger!TypeOK, Ledger!Paid
  <2>7. Ledger!PaidWithinPrice'
    BY <1>3, <2>1, <2>2, <2>3, <2>5, <2>6 DEF Ledger!Refund, LedgerInv, Ledger!PaidWithinPrice
  <2>8. Ledger!RefundCeiling'
    BY <1>3, <2>1, <2>2, <2>5, <2>6 DEF Ledger!Refund, LedgerInv, Ledger!RefundCeiling
  <2>9. Ledger!StatusMatchesPaid'
    <3> SUFFICES ASSUME NEW q \in Orders
                 PROVE /\ status'[q] = "settled" => Ledger!Paid(q)' = price'[q] /\ price'[q] > 0
                       /\ status'[q] = "partially_paid" =>
                              0 < Ledger!Paid(q)' /\ Ledger!Paid(q)' < price'[q]
                       /\ status'[q] \in {"none", "pending"} => Ledger!Paid(q)' = 0
      BY DEF Ledger!StatusMatchesPaid
    <3>1. CASE q = o
      BY <1>3, <3>1, <2>1, <2>2, <2>3, <2>6 DEF Ledger!Refund, Ledger!StatusFor
    <3>2. CASE q # o
      BY <1>3, <3>2, <2>5 DEF Ledger!Refund, LedgerInv, Ledger!StatusMatchesPaid
    <3> QED BY <3>1, <3>2
  <2> QED BY <2>4, <2>7, <2>8, <2>9 DEF LedgerInv
<1>4. ASSUME NEW S \in SUBSET Orders, Ledger!VoidUnsettled(S) PROVE LedgerInv'
  <2>1. \A q \in Orders : status'[q] = IF q \in S THEN "void" ELSE status[q]
    BY <1>4 DEF Ledger!VoidUnsettled
  <2>2. Ledger!TypeOK'
    BY <1>4, <2>1 DEF Ledger!VoidUnsettled, LedgerInv, Ledger!TypeOK, Ledger!Statuses
  <2>3. /\ LedgerFresh' /\ Ledger!PaidWithinPrice'
        /\ Ledger!RefundCeiling' /\ Ledger!StatusMatchesPaid'
    BY <1>4, <2>1
    DEF Ledger!VoidUnsettled, LedgerInv, LedgerFresh, Ledger!PaidWithinPrice,
        Ledger!RefundCeiling, Ledger!StatusMatchesPaid, Ledger!Paid
  <2> QED BY <2>2, <2>3 DEF LedgerInv
<1>5. CASE UNCHANGED Ledger!vars
  BY <1>5
  DEF Ledger!vars, LedgerInv, Ledger!TypeOK, LedgerFresh, Ledger!PaidWithinPrice,
      Ledger!RefundCeiling, Ledger!StatusMatchesPaid, Ledger!Paid
<1> QED BY <1>1, <1>2, <1>3, <1>4, <1>5 DEF Ledger!Next

\* The inductive invariant of the ledger.
THEOREM LedgerInvariance ==
    ASSUME Ledger!LedgerAssumption
    PROVE  Ledger!Spec => []LedgerInv
<1>1. LedgerInv /\ [Ledger!Next]_Ledger!vars => LedgerInv'
  BY LedgerStepInv
<1> QED BY LedgerInitInv, <1>1, PTL DEF Ledger!Spec

\* For every price and every sequence of payments, refunds and voids, the shop
\* holds between nothing and the price of an order.
THEOREM PaidWithinPriceHolds ==
    ASSUME Ledger!LedgerAssumption
    PROVE  Ledger!Spec => []Ledger!PaidWithinPrice
<1>1. LedgerInv => Ledger!PaidWithinPrice
  BY DEF LedgerInv
<1>2. Ledger!Spec => []LedgerInv
  BY LedgerInvariance
<1> QED BY <1>1, <1>2, PTL

\* The lifetime refund ceiling holds for every price and amount.
THEOREM RefundCeilingHolds ==
    ASSUME Ledger!LedgerAssumption
    PROVE  Ledger!Spec => []Ledger!RefundCeiling
<1>1. LedgerInv => Ledger!RefundCeiling
  BY DEF LedgerInv
<1>2. Ledger!Spec => []LedgerInv
  BY LedgerInvariance
<1> QED BY <1>1, <1>2, PTL

\* The status of an order always tells what has been paid.
THEOREM StatusMatchesPaidHolds ==
    ASSUME Ledger!LedgerAssumption
    PROVE  Ledger!Spec => []Ledger!StatusMatchesPaid
<1>1. LedgerInv => Ledger!StatusMatchesPaid
  BY DEF LedgerInv
<1>2. Ledger!Spec => []LedgerInv
  BY LedgerInvariance
<1> QED BY <1>1, <1>2, PTL

\* No more than twice the price ever passes through an order: every cent paid
\* is held, which the price bounds, or was refunded, which the ceiling bounds.
THEOREM ThroughputBoundedHolds ==
    ASSUME Ledger!LedgerAssumption
    PROVE  Ledger!Spec => []Ledger!ThroughputBounded
<1>1. LedgerInv => Ledger!ThroughputBounded
  <2> SUFFICES ASSUME LedgerInv, NEW o \in Orders PROVE collected[o] <= 2 * price[o]
    BY DEF Ledger!ThroughputBounded
  <2>1. collected[o] \in Nat /\ refunded[o] \in Nat /\ price[o] \in Nat
    BY DEF LedgerInv, Ledger!TypeOK
  <2>2. collected[o] - refunded[o] <= price[o] /\ refunded[o] <= price[o]
    BY DEF LedgerInv, Ledger!PaidWithinPrice, Ledger!RefundCeiling, Ledger!Paid
  <2> QED BY <2>1, <2>2
<1>2. Ledger!Spec => []LedgerInv
  BY LedgerInvariance
<1> QED BY <1>1, <1>2, PTL

\* No operation of the ledger touches a void order.
THEOREM VoidIsFinalHolds ==
    ASSUME Ledger!LedgerAssumption
    PROVE  Ledger!Spec => Ledger!VoidIsFinal
<1> DEFINE Kept == \A o \in Orders :
        status[o] = "void" =>
            /\ status'[o] = "void"
            /\ collected'[o] = collected[o]
            /\ refunded'[o] = refunded[o]
<1>1. LedgerInv /\ [Ledger!Next]_Ledger!vars => [Kept]_Ledger!vars
  BY
  DEF LedgerInv, Ledger!TypeOK, Ledger!Next, Ledger!vars, Ledger!Open, Ledger!Collect,
      Ledger!Refund, Ledger!VoidUnsettled, Ledger!Unsettled
<1>2. Ledger!Spec => []LedgerInv
  BY LedgerInvariance
<1> QED BY <1>1, <1>2, PTL DEF Ledger!Spec, Ledger!VoidIsFinal
=============================================================================

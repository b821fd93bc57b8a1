---------------------------- MODULE AmountsProofs ----------------------------
(***************************************************************************)
(* What pricing and RefundsService keep, for any catalog, carts, offers and*)
(* coupons, and for any number of requests, keys and orders.               *)
(*                                                                         *)
(* First what sums and counts are: induction over a sequence comes from    *)
(* the least element of a set of numbers, as the sets of numbers with a    *)
(* property stand for the property.  Then pricing: PricingInv, of which the*)
(* groups and their units are; DraftsKept, of which the order's totals are;*)
(* and MostKept, of which the number of groups is.  Last refunds, where two*)
(* locks carry the proof: the row of the order, held from the first read,  *)
(* keeps what an attempt decided true until it commits (HoldsOrder); the   *)
(* entry in the unique index keeps two orders from sharing a key           *)
(* (HoldsKey).                                                             *)
(***************************************************************************)
EXTENDS Refunds, Pricing, FiniteSetTheorems, SequenceTheorems, TLAPS

-----------------------------------------------------------------------------
(* Induction                                                               *)

(* The order of the natural numbers, as a relation.                        *)
Less == {p \in Nat \X Nat : p[1] < p[2]}

(* Every set of natural numbers that is not empty has a least one.         *)
LEMMA Least ==
  ASSUME NEW T, T \subseteq Nat, T # {}
  PROVE  \E x \in T : \A y \in T : x <= y
<1>1. OpToRel(<, Nat) = Less
  BY DEF OpToRel, Less
<1>2. IsWellFoundedOn(Less, Nat)
  BY <1>1, NatLessThanWellFounded
<1>3. PICK x \in T : \A y \in T : <<y, x>> \notin Less
  BY <1>2, WFMin
<1>4. ASSUME NEW y \in T PROVE x <= y
  <2>1. x \in Nat /\ y \in Nat /\ <<y, x>> \notin Less
    BY <1>3
  <2>2. ~(y < x)
    BY <2>1 DEF Less
  <2> QED
    BY <2>1, <2>2
<1> QED
  BY <1>4

(* A set with 0 and the successor of each of its numbers has them all.     *)
LEMMA Induction ==
  ASSUME NEW T, 0 \in T, \A n \in Nat : n \in T => n + 1 \in T
  PROVE  \A n \in Nat : n \in T
<1> DEFINE U == {n \in Nat : n \notin T}
<1>1. SUFFICES ASSUME U # {} PROVE FALSE
  OBVIOUS
<1>2. PICK x \in U : \A y \in U : x <= y
  <2>1. U \subseteq Nat
    OBVIOUS
  <2> HIDE DEF U
  <2> QED
    BY <1>1, <2>1, Least
<1>3. x \in Nat /\ x # 0
  OBVIOUS
<1>4. x - 1 \in Nat /\ x - 1 \notin U
  BY <1>2, <1>3
<1>5. (x - 1) + 1 \in T
  BY <1>4
<1> QED
  BY <1>3, <1>5

-----------------------------------------------------------------------------
(* Sums.                                                                   *)

(* The function that SumTo chooses exists.                                 *)
LEMMA UpToExists ==
  ASSUME NEW s
  PROVE  \E upTo : upTo = [i \in Nat |-> IF i = 0 THEN 0 ELSE upTo[i - 1] + s[i]]
<1> DEFINE Part(n, f) == f = [i \in 0 .. n |-> IF i = 0 THEN 0 ELSE f[i - 1] + s[i]]
           T == {n \in Nat : \E f : Part(n, f)}
<1>1. \A n \in Nat : n \in T
  <2>1. 0 \in T
    <3> DEFINE f == [i \in 0 .. 0 |-> 0]
    <3>1. Part(0, f)
      OBVIOUS
    <3> QED
      BY <3>1
  <2>2. ASSUME NEW n \in Nat, n \in T PROVE n + 1 \in T
    <3>1. PICK f : Part(n, f)
      BY <2>2
    <3> DEFINE g == [i \in 0 .. n + 1 |-> IF i = n + 1 THEN f[n] + s[n + 1] ELSE f[i]]
    <3>2. ASSUME NEW i \in 0 .. n + 1
          PROVE  g[i] = IF i = 0 THEN 0 ELSE g[i - 1] + s[i]
      <4>1. CASE i = n + 1
        <5>1. g[i] = f[n] + s[n + 1] /\ g[i - 1] = f[n]
          BY <4>1
        <5> QED
          BY <4>1, <5>1
      <4>2. CASE i # n + 1
        <5>1. i \in 0 .. n
          BY <4>2
        <5>2. f[i] = IF i = 0 THEN 0 ELSE f[i - 1] + s[i]
          BY <3>1, <5>1
        <5>3. i # 0 => g[i - 1] = f[i - 1]
          BY <5>1
        <5> QED
          BY <4>2, <5>2, <5>3
      <4> QED
        BY <4>1, <4>2
    <3>3. Part(n + 1, g)
      BY <3>2
    <3> HIDE DEF Part, g
    <3> QED
      BY <3>3
  <2> HIDE DEF T
  <2> QED
    BY <2>1, <2>2, Induction
<1>2. ASSUME NEW m \in Nat, NEW n \in Nat, NEW f, NEW g, Part(m, f), Part(n, g)
      PROVE  \A i \in Nat : i <= m /\ i <= n => f[i] = g[i]
  <2> DEFINE Same == {i \in Nat : i <= m /\ i <= n => f[i] = g[i]}
  <2>1. 0 \in Same
    BY <1>2
  <2>2. ASSUME NEW i \in Nat, i \in Same PROVE i + 1 \in Same
    <3>1. SUFFICES ASSUME i + 1 <= m, i + 1 <= n PROVE f[i + 1] = g[i + 1]
      OBVIOUS
    <3>2. f[i + 1] = f[i] + s[i + 1]
      <4>1. i + 1 \in 0 .. m /\ i + 1 # 0 /\ (i + 1) - 1 = i
        BY <3>1
      <4> QED
        BY <1>2, <4>1
    <3>3. g[i + 1] = g[i] + s[i + 1]
      <4>1. i + 1 \in 0 .. n /\ i + 1 # 0 /\ (i + 1) - 1 = i
        BY <3>1
      <4> QED
        BY <1>2, <4>1
    <3> QED
      BY <2>2, <3>1, <3>2, <3>3
  <2> HIDE DEF Same
  <2>3. \A i \in Nat : i \in Same
    BY <2>1, <2>2, Induction
  <2> QED
    BY <2>3 DEF Same
<1> DEFINE part == [n \in Nat |-> CHOOSE f : Part(n, f)]
           all == [n \in Nat |-> part[n][n]]
<1>3. \A n \in Nat : Part(n, part[n])
  BY <1>1
<1>4. ASSUME NEW n \in Nat PROVE all[n] = IF n = 0 THEN 0 ELSE all[n - 1] + s[n]
  <2>1. part[n][n] = IF n = 0 THEN 0 ELSE part[n][n - 1] + s[n]
    <3>1. n \in 0 .. n
      OBVIOUS
    <3> HIDE DEF part
    <3> QED
      BY <1>3, <3>1
  <2>2. CASE n # 0
    <3>1. n - 1 \in Nat /\ n - 1 <= n
      BY <2>2
    <3> HIDE DEF part, Part
    <3>2. part[n][n - 1] = part[n - 1][n - 1]
      BY <1>2, <1>3, <3>1
    <3> QED
      BY <2>1, <2>2, <3>1, <3>2
  <2> QED
    BY <2>1, <2>2
<1>5. all = [n \in Nat |-> IF n = 0 THEN 0 ELSE all[n - 1] + s[n]]
  BY <1>4
<1> QED
  BY <1>5

(* What SumTo computes: nothing for no amounts, and one amount more each   *)
(* time.                                                                   *)
LEMMA SumToStep ==
  ASSUME NEW s
  PROVE  SumTo(s, 0) = 0 /\ \A n \in Nat : SumTo(s, n + 1) = SumTo(s, n) + s[n + 1]
<1> DEFINE Is(f) == f = [i \in Nat |-> IF i = 0 THEN 0 ELSE f[i - 1] + s[i]]
           upTo == CHOOSE f : Is(f)
<1>1. Is(upTo)
  BY UpToExists
<1>2. \A n : SumTo(s, n) = upTo[n]
  BY DEF SumTo
<1> HIDE DEF upTo
<1>3. upTo[0] = 0
  BY <1>1
<1>4. ASSUME NEW n \in Nat PROVE upTo[n + 1] = upTo[n] + s[n + 1]
  <2>1. n + 1 \in Nat /\ n + 1 # 0 /\ (n + 1) - 1 = n
    OBVIOUS
  <2> QED
    BY <1>1, <2>1
<1> QED
  BY <1>2, <1>3, <1>4

(* A sum of integers is one.                                               *)
LEMMA SumToInt ==
  ASSUME NEW s, NEW n \in Nat,
         \A i \in 1 .. n : s[i] \in Int
  PROVE  SumTo(s, n) \in Int
<1> DEFINE T == {k \in Nat : k <= n => SumTo(s, k) \in Int}
<1>1. 0 \in T
  BY SumToStep
<1>2. ASSUME NEW k \in Nat, k \in T PROVE k + 1 \in T
  <2>1. SUFFICES ASSUME k + 1 <= n PROVE SumTo(s, k + 1) \in Int
    OBVIOUS
  <2>2. k + 1 \in 1 .. n /\ SumTo(s, k) \in Int
    BY <1>2, <2>1
  <2> QED
    BY <2>2, SumToStep
<1> HIDE DEF T
<1>3. \A k \in Nat : k \in T
  BY <1>1, <1>2, Induction
<1> QED
  BY <1>3 DEF T

(* Equal amounts have equal sums.                                          *)
LEMMA SumToSame ==
  ASSUME NEW s, NEW t, NEW n \in Nat,
         \A i \in 1 .. n : s[i] = t[i]
  PROVE  SumTo(s, n) = SumTo(t, n)
<1> DEFINE T == {k \in Nat : k <= n => SumTo(s, k) = SumTo(t, k)}
<1>1. 0 \in T
  BY SumToStep
<1>2. ASSUME NEW k \in Nat, k \in T PROVE k + 1 \in T
  <2>1. SUFFICES ASSUME k + 1 <= n PROVE SumTo(s, k + 1) = SumTo(t, k + 1)
    OBVIOUS
  <2>2. k + 1 \in 1 .. n /\ SumTo(s, k) = SumTo(t, k)
    BY <1>2, <2>1
  <2>3. /\ SumTo(s, k + 1) = SumTo(s, k) + s[k + 1]
        /\ SumTo(t, k + 1) = SumTo(t, k) + t[k + 1]
    BY SumToStep
  <2> QED
    BY <2>2, <2>3
<1> HIDE DEF T
<1>3. \A k \in Nat : k \in T
  BY <1>1, <1>2, Induction
<1> QED
  BY <1>3 DEF T

(* The sum of sums.                                                        *)
LEMMA SumToPlus ==
  ASSUME NEW s, NEW t, NEW u, NEW n \in Nat,
         \A i \in 1 .. n : s[i] \in Int /\ t[i] \in Int /\ u[i] = s[i] + t[i]
  PROVE  SumTo(u, n) = SumTo(s, n) + SumTo(t, n)
<1> DEFINE T == {k \in Nat : k <= n => SumTo(u, k) = SumTo(s, k) + SumTo(t, k)}
<1>1. 0 \in T
  BY SumToStep
<1>2. ASSUME NEW k \in Nat, k \in T PROVE k + 1 \in T
  <2>1. SUFFICES ASSUME k + 1 <= n PROVE SumTo(u, k + 1) = SumTo(s, k + 1) + SumTo(t, k + 1)
    OBVIOUS
  <2>2. k + 1 \in 1 .. n /\ SumTo(u, k) = SumTo(s, k) + SumTo(t, k)
    BY <1>2, <2>1
  <2>3. /\ SumTo(s, k + 1) = SumTo(s, k) + s[k + 1]
        /\ SumTo(t, k + 1) = SumTo(t, k) + t[k + 1]
        /\ SumTo(u, k + 1) = SumTo(u, k) + u[k + 1]
    BY SumToStep
  <2>4. /\ SumTo(s, k) \in Int /\ s[k + 1] \in Int
        /\ SumTo(t, k) \in Int /\ t[k + 1] \in Int
        /\ SumTo(u, k) \in Int /\ u[k + 1] \in Int
    <3>1. \A i \in 1 .. k : s[i] \in Int /\ t[i] \in Int /\ u[i] \in Int
      BY <2>1
    <3> QED
      BY <2>2, <3>1, SumToInt
  <2> QED
    BY <2>2, <2>3, <2>4
<1> HIDE DEF T
<1>3. \A k \in Nat : k \in T
  BY <1>1, <1>2, Induction
<1> QED
  BY <1>3 DEF T

(* Smaller amounts have a smaller sum.                                     *)
LEMMA SumToAtMost ==
  ASSUME NEW s, NEW t, NEW n \in Nat,
         \A i \in 1 .. n : s[i] \in Int /\ t[i] \in Int /\ s[i] <= t[i]
  PROVE  SumTo(s, n) <= SumTo(t, n)
<1> DEFINE T == {k \in Nat : k <= n => SumTo(s, k) <= SumTo(t, k)}
<1>1. 0 \in T
  BY SumToStep
<1>2. ASSUME NEW k \in Nat, k \in T PROVE k + 1 \in T
  <2>1. SUFFICES ASSUME k + 1 <= n PROVE SumTo(s, k + 1) <= SumTo(t, k + 1)
    OBVIOUS
  <2>2. k + 1 \in 1 .. n /\ SumTo(s, k) <= SumTo(t, k)
    BY <1>2, <2>1
  <2>3. /\ SumTo(s, k + 1) = SumTo(s, k) + s[k + 1]
        /\ SumTo(t, k + 1) = SumTo(t, k) + t[k + 1]
    BY SumToStep
  <2>4. /\ SumTo(s, k) \in Int /\ s[k + 1] \in Int
        /\ SumTo(t, k) \in Int /\ t[k + 1] \in Int
    <3>1. \A i \in 1 .. k : s[i] \in Int /\ t[i] \in Int
      BY <2>1
    <3> QED
      BY <2>2, <3>1, SumToInt
  <2> QED
    BY <2>2, <2>3, <2>4
<1> HIDE DEF T
<1>3. \A k \in Nat : k \in T
  BY <1>1, <1>2, Induction
<1> QED
  BY <1>3 DEF T

(* The sum of multiples.                                                   *)
LEMMA SumToTimes ==
  ASSUME NEW s, NEW t, NEW c \in Int, NEW n \in Nat,
         \A i \in 1 .. n : s[i] \in Int /\ t[i] = c * s[i]
  PROVE  SumTo(t, n) = c * SumTo(s, n)
<1> DEFINE T == {k \in Nat : k <= n => SumTo(t, k) = c * SumTo(s, k)}
<1>1. 0 \in T
  BY SumToStep
<1>2. ASSUME NEW k \in Nat, k \in T PROVE k + 1 \in T
  <2>1. SUFFICES ASSUME k + 1 <= n PROVE SumTo(t, k + 1) = c * SumTo(s, k + 1)
    OBVIOUS
  <2>2. k + 1 \in 1 .. n /\ SumTo(t, k) = c * SumTo(s, k)
    BY <1>2, <2>1
  <2>3. /\ SumTo(s, k + 1) = SumTo(s, k) + s[k + 1]
        /\ SumTo(t, k + 1) = SumTo(t, k) + t[k + 1]
    BY SumToStep
  <2>4. /\ SumTo(s, k) \in Int /\ s[k + 1] \in Int
        /\ SumTo(t, k) \in Int /\ t[k + 1] \in Int
    <3>1. \A i \in 1 .. k : s[i] \in Int /\ t[i] \in Int
      BY <2>1
    <3> QED
      BY <2>2, <3>1, SumToInt
  <2> QED
    BY <2>2, <2>3, <2>4, c * (SumTo(s, k) + s[k + 1]) = c * SumTo(s, k) + c * s[k + 1]
<1> HIDE DEF T
<1>3. \A k \in Nat : k \in T
  BY <1>1, <1>2, Induction
<1> QED
  BY <1>3 DEF T

(* The sum of nothing.                                                     *)
LEMMA SumToNothing ==
  ASSUME NEW s, NEW n \in Nat,
         \A i \in 1 .. n : s[i] = 0
  PROVE  SumTo(s, n) = 0
<1> DEFINE T == {k \in Nat : k <= n => SumTo(s, k) = 0}
<1>1. 0 \in T
  BY SumToStep
<1>2. ASSUME NEW k \in Nat, k \in T PROVE k + 1 \in T
  <2>1. SUFFICES ASSUME k + 1 <= n PROVE SumTo(s, k + 1) = 0
    OBVIOUS
  <2>2. k + 1 \in 1 .. n /\ SumTo(s, k) = 0
    BY <1>2, <2>1
  <2> QED
    BY <2>2, SumToStep
<1> HIDE DEF T
<1>3. \A k \in Nat : k \in T
  BY <1>1, <1>2, Induction
<1> QED
  BY <1>3 DEF T

(* A sum of natural numbers is one.                                        *)
LEMMA SumToNat ==
  ASSUME NEW s, NEW n \in Nat,
         \A i \in 1 .. n : s[i] \in Nat
  PROVE  SumTo(s, n) \in Nat
<1> DEFINE none == [i \in 1 .. n |-> 0]
<1>1. SumTo(none, n) = 0
  BY SumToNothing
<1>2. SumTo(none, n) <= SumTo(s, n)
  BY SumToAtMost
<1> QED
  BY <1>1, <1>2, SumToInt

(* The sum of one amount.                                                  *)
LEMMA SumToSingle ==
  ASSUME NEW m, NEW d \in Int, NEW n \in Nat, NEW s,
         \A i \in 1 .. n : s[i] = IF i = m THEN d ELSE 0
  PROVE  SumTo(s, n) = IF m \in 1 .. n THEN d ELSE 0
<1> DEFINE T == {k \in Nat : k <= n => SumTo(s, k) = IF m \in 1 .. k THEN d ELSE 0}
<1>1. 0 \in T
  BY SumToStep
<1>2. ASSUME NEW k \in Nat, k \in T PROVE k + 1 \in T
  <2>1. SUFFICES ASSUME k + 1 <= n PROVE SumTo(s, k + 1) = IF m \in 1 .. k + 1 THEN d ELSE 0
    OBVIOUS
  <2>2. /\ k + 1 \in 1 .. n /\ SumTo(s, k) = IF m \in 1 .. k THEN d ELSE 0
        /\ SumTo(s, k + 1) = SumTo(s, k) + s[k + 1]
    BY <1>2, <2>1, SumToStep
  <2>3. s[k + 1] = IF m = k + 1 THEN d ELSE 0
    BY <2>2
  <2>4. CASE m = k + 1
    BY <2>2, <2>3, <2>4
  <2>5. CASE m # k + 1
    <3>1. m \in 1 .. k + 1 <=> m \in 1 .. k
      BY <2>5
    <3> QED
      BY <2>2, <2>3, <2>5, <3>1
  <2> QED
    BY <2>4, <2>5
<1> HIDE DEF T
<1>3. \A k \in Nat : k \in T
  BY <1>1, <1>2, Induction
<1> QED
  BY <1>3 DEF T

(* A function on 1 .. n is a sequence of length n.                         *)
LEMMA SequenceOf ==
  ASSUME NEW n \in Nat, NEW S, NEW f \in [1 .. n -> S]
  PROVE  f \in Seq(S) /\ Len(f) = n /\ DOMAIN f = 1 .. n
OBVIOUS

(* One amount more.                                                        *)
LEMMA SumGrows ==
  ASSUME NEW n \in Nat, NEW f \in [1 .. n -> Int], NEW g \in [1 .. n + 1 -> Int],
         \A i \in 1 .. n : g[i] = f[i]
  PROVE  Sum(g) = Sum(f) + g[n + 1] /\ Sum(f) \in Int
<1>1. Len(f) = n /\ Len(g) = n + 1
  BY SequenceOf
<1>2. SumTo(g, n) = SumTo(f, n)
  BY SumToSame
<1>3. SumTo(f, n) \in Int
  BY SumToInt
<1> QED
  BY <1>1, <1>2, <1>3, SumToStep DEF Sum

(* The smaller of two numbers.                                             *)
LEMMA MinOfTwo ==
  ASSUME NEW a \in Int, NEW b \in Int
  PROVE  Min({a, b}) = IF a <= b THEN a ELSE b
BY DEF Min

(* The larger of two numbers.                                              *)
LEMMA MaxOfTwo ==
  ASSUME NEW a \in Int, NEW b \in Int
  PROVE  Max({a, b}) = IF a >= b THEN a ELSE b
BY DEF Max

(* A part rounded down is not more than the whole of it.                   *)
LEMMA RoundedDown ==
  ASSUME NEW a \in Nat, NEW c \in Nat, NEW s \in Nat, s > 0, c <= s
  PROVE  /\ (a * c) \div s \in Nat
         /\ (a * c) \div s <= a
         /\ s * ((a * c) \div s) <= a * c
<1> DEFINE p == a * c
           q == p \div s
           r == a * s
<1>1. p \in Nat /\ r \in Nat /\ p <= r
  OBVIOUS
<1>2. q \in Int /\ s * q <= p /\ p < s * q + s
  <2> HIDE DEF p
  <2> QED
    BY <1>1
<1>3. q \in Nat
  <2>1. SUFFICES ASSUME q <= -1 PROVE FALSE
    BY <1>2
  <2> HIDE DEF p, q
  <2>2. s * q <= s * (-1)
    BY <1>2, <2>1
  <2> QED
    BY <1>1, <1>2, <2>2
<1>4. q <= a
  <2>1. SUFFICES ASSUME q >= a + 1 PROVE FALSE
    BY <1>3
  <2> HIDE DEF p, q
  <2>2. s * q >= s * (a + 1)
    BY <1>3, <2>1
  <2>3. s * (a + 1) = r + s
    OBVIOUS
  <2> HIDE DEF r
  <2> QED
    BY <1>1, <1>2, <2>2, <2>3
<1> QED
  BY <1>2, <1>3, <1>4

(* What is left over fills the lines in their order.                       *)
LEMMA Filled ==
  ASSUME NEW n \in Nat, NEW rest \in Nat, NEW room, NEW fill,
         \A i \in 1 .. n : room[i] \in Nat,
         \A i \in 1 .. n : fill[i] = IF rest <= SumTo(room, i - 1) THEN 0
                                   ELSE IF room[i] <= rest - SumTo(room, i - 1) THEN room[i]
                                   ELSE rest - SumTo(room, i - 1)
  PROVE  /\ \A i \in 1 .. n : fill[i] \in Nat /\ fill[i] <= room[i]
         /\ rest <= SumTo(room, n) => SumTo(fill, n) = rest
<1> DEFINE T == {k \in Nat : k <= n => /\ SumTo(room, k) \in Nat
                                       /\ SumTo(fill, k) = IF rest <= SumTo(room, k) THEN rest
                                                           ELSE SumTo(room, k)}
<1>1. ASSUME NEW i \in 1 .. n PROVE fill[i] \in Nat /\ fill[i] <= room[i]
  <2>1. i - 1 \in Nat /\ \A j \in 1 .. i - 1 : j \in 1 .. n
    OBVIOUS
  <2>2. SumTo(room, i - 1) \in Nat
    BY <2>1, SumToNat
  <2> QED
    BY <2>2
<1>2. 0 \in T
  BY SumToStep
<1>3. ASSUME NEW k \in Nat, k \in T PROVE k + 1 \in T
  <2>1. SUFFICES ASSUME k + 1 <= n
                 PROVE  /\ SumTo(room, k + 1) \in Nat
                        /\ SumTo(fill, k + 1) = IF rest <= SumTo(room, k + 1) THEN rest
                                                ELSE SumTo(room, k + 1)
    OBVIOUS
  <2>2. /\ SumTo(room, k) \in Nat
        /\ SumTo(fill, k) = IF rest <= SumTo(room, k) THEN rest ELSE SumTo(room, k)
        /\ k + 1 \in 1 .. n /\ (k + 1) - 1 = k
    BY <1>3, <2>1
  <2>3. /\ SumTo(room, k + 1) = SumTo(room, k) + room[k + 1]
        /\ SumTo(fill, k + 1) = SumTo(fill, k) + fill[k + 1]
    BY SumToStep
  <2> QED
    BY <2>2, <2>3
<1> HIDE DEF T
<1>4. n \in T
  BY <1>2, <1>3, Induction
<1>5. rest <= SumTo(room, n) => SumTo(fill, n) = rest
  BY <1>4 DEF T
<1> QED
  BY <1>1, <1>5

(* allocateDiscount gives away the discount, or all there is, and no line  *)
(* more than it costs.                                                     *)
LEMMA AllocationAddsUp ==
  ASSUME NEW amounts \in Seq(Nat), NEW discount \in Int
  PROVE  /\ AllocateDiscount(amounts, discount) \in Seq(Nat)
         /\ Len(AllocateDiscount(amounts, discount)) = Len(amounts)
         /\ \A i \in 1 .. Len(amounts) : AllocateDiscount(amounts, discount)[i] <= amounts[i]
         /\ Sum(amounts) \in Nat
         /\ discount \in 0 .. Sum(amounts) =>
              Sum(AllocateDiscount(amounts, discount)) = discount
<1> DEFINE n == Len(amounts)
           subtotal == Sum(amounts)
           capped == Min({discount, subtotal})
           floored == [i \in 1 .. n |->
                         Min({amounts[i], (amounts[i] * capped) \div subtotal})]
           room == [i \in 1 .. n |-> amounts[i] - floored[i]]
           rest == capped - SumTo(floored, n)
           fill == [i \in 1 .. n |-> Min({room[i], Max({0, rest - SumTo(room, i - 1)})})]
           shares == [i \in 1 .. n |-> floored[i] + fill[i]]
<1>1. n \in Nat /\ DOMAIN amounts = 1 .. n /\ \A i \in 1 .. n : amounts[i] \in Nat
  OBVIOUS
<1>2. subtotal \in Nat /\ subtotal = SumTo(amounts, n)
  BY <1>1, SumToNat DEF Sum
<1>3. capped = (IF discount <= subtotal THEN discount ELSE subtotal) /\ capped \in Int
  <2> HIDE DEF subtotal
  <2>1. Min({discount, subtotal}) = IF discount <= subtotal THEN discount ELSE subtotal
    BY <1>2, MinOfTwo
  <2> QED
    BY <1>2, <2>1
<1>4. AllocateDiscount(amounts, discount) =
        IF capped <= 0 THEN [i \in 1 .. n |-> 0] ELSE shares
  <2>1. Len(floored) = n
    OBVIOUS
  <2>2. Sum(floored) = SumTo(floored, n)
    BY <2>1 DEF Sum
  <2> QED
    BY <1>1, <2>2 DEF AllocateDiscount
<1>5. CASE capped <= 0
  <2> DEFINE none == [i \in 1 .. n |-> 0]
  <2>1. none \in Seq(Nat) /\ Len(none) = n
    BY <1>1, SequenceOf
  <2>2. Sum(none) = 0
    BY <1>1, <2>1, SumToNothing DEF Sum
  <2>3. AllocateDiscount(amounts, discount) = none
    BY <1>4, <1>5
  <2>4. \A i \in 1 .. n : none[i] <= amounts[i]
    BY <1>1
  <2>5. discount \in 0 .. subtotal => discount = 0
    BY <1>2, <1>3, <1>5
  <2> HIDE DEF none, n, subtotal, capped
  <2> QED
    BY <1>2, <2>1, <2>2, <2>3, <2>4, <2>5 DEF n, subtotal
<1>6. CASE capped > 0
  <2> HIDE DEF n, subtotal, capped
  <2>1. ASSUME NEW i \in 1 .. n
        PROVE  /\ floored[i] \in Nat /\ floored[i] <= amounts[i]
               /\ subtotal * floored[i] <= capped * amounts[i]
    <3> DEFINE part == (amounts[i] * capped) \div subtotal
    <3>1. /\ amounts[i] \in Nat /\ capped \in Nat /\ subtotal \in Nat
          /\ subtotal > 0 /\ capped <= subtotal
      BY <1>1, <1>2, <1>3, <1>6
    <3>2. part \in Nat /\ part <= amounts[i] /\ subtotal * part <= amounts[i] * capped
      BY <3>1, RoundedDown
    <3>3. floored[i] = Min({amounts[i], part})
      OBVIOUS
    <3>4. floored[i] = part
      <4> HIDE DEF part, floored
      <4>1. amounts[i] \in Int /\ part \in Int
        BY <3>1, <3>2
      <4>2. Min({amounts[i], part}) = IF amounts[i] <= part THEN amounts[i] ELSE part
        BY <4>1, MinOfTwo
      <4> QED
        BY <3>1, <3>2, <3>3, <4>2
    <3>5. amounts[i] * capped = capped * amounts[i]
      BY <3>1
    <3> QED
      BY <3>2, <3>4, <3>5
  <2> HIDE DEF floored
  <2>2. SumTo(floored, n) \in Nat /\ SumTo(floored, n) <= capped
    <3>1. SumTo(floored, n) \in Nat
      BY <1>1, <2>1, SumToNat
    <3> DEFINE times == [i \in 1 .. n |-> subtotal * floored[i]]
               most == [i \in 1 .. n |-> capped * amounts[i]]
    <3>2. SumTo(times, n) = subtotal * SumTo(floored, n)
      BY <1>1, <1>2, <2>1, SumToTimes
    <3>3. SumTo(most, n) = capped * SumTo(amounts, n)
      <4>1. \A i \in 1 .. n : amounts[i] \in Int
        BY <1>1
      <4>2. capped \in Int /\ n \in Nat
        BY <1>1, <1>3
      <4>3. \A i \in 1 .. n : most[i] = capped * amounts[i]
        BY Zenon
      <4> HIDE DEF most, times, room, rest, fill, shares
      <4> QED
        BY <4>1, <4>2, <4>3, SumToTimes
    <3>4. ASSUME NEW i \in 1 .. n
          PROVE  times[i] \in Int /\ most[i] \in Int /\ times[i] <= most[i]
      <4>1. times[i] = subtotal * floored[i] /\ most[i] = capped * amounts[i]
        BY Zenon
      <4>2. {subtotal, floored[i], capped, amounts[i]} \subseteq Int
        BY <1>1, <1>2, <1>3, <2>1
      <4> HIDE DEF times, most, fill, room, shares
      <4> QED
        BY <2>1, <4>1, <4>2
    <3>5. SumTo(times, n) <= SumTo(most, n)
      <4> HIDE DEF times, most
      <4> QED
        BY <1>1, <3>4, SumToAtMost
    <3>6. subtotal * SumTo(floored, n) <= subtotal * capped
      BY <1>2, <1>3, <3>2, <3>3, <3>5
    <3>7. ~(SumTo(floored, n) >= capped + 1)
      <4> DEFINE sum == SumTo(floored, n)
      <4>1. sum \in Nat /\ subtotal * sum <= subtotal * capped
        BY <3>1, <3>6
      <4> HIDE DEF sum
      <4>2. SUFFICES ASSUME sum >= capped + 1 PROVE FALSE
        BY DEF sum
      <4>3. subtotal * sum >= subtotal * (capped + 1)
        BY <1>2, <1>3, <1>6, <4>1, <4>2
      <4>4. subtotal * (capped + 1) = subtotal * capped + subtotal
        BY <1>2, <1>3
      <4>5. subtotal * capped \in Int /\ subtotal * sum \in Int /\ subtotal > 0
        BY <1>2, <1>3, <1>6, <4>1
      <4> QED
        BY <1>2, <4>1, <4>3, <4>4, <4>5
    <3> QED
      BY <1>3, <3>1, <3>7
  <2>3. \A i \in 1 .. n : room[i] \in Nat /\ amounts[i] = floored[i] + room[i]
    BY <1>1, <2>1
  <2>4. SumTo(amounts, n) = SumTo(floored, n) + SumTo(room, n) /\ SumTo(room, n) \in Nat
    <3> HIDE DEF room
    <3>1. \A i \in 1 .. n : floored[i] \in Int /\ room[i] \in Int /\ amounts[i] = floored[i] + room[i]
      BY <2>1, <2>3
    <3> QED
      BY <1>1, <2>3, <3>1, SumToPlus, SumToNat
  <2>5. rest \in Nat /\ rest <= SumTo(room, n)
    BY <1>2, <1>3, <2>2, <2>4
  <2>6. /\ \A i \in 1 .. n : fill[i] \in Nat /\ fill[i] <= room[i]
        /\ SumTo(fill, n) = rest
    <3> HIDE DEF room, rest
    <3>1. ASSUME NEW i \in 1 .. n
          PROVE  fill[i] = IF rest <= SumTo(room, i - 1) THEN 0
                           ELSE IF room[i] <= rest - SumTo(room, i - 1) THEN room[i]
                           ELSE rest - SumTo(room, i - 1)
      <4> DEFINE before == SumTo(room, i - 1)
                 over == Max({0, rest - before})
      <4>1. before \in Nat
        <5>1. i - 1 \in Nat /\ \A j \in 1 .. i - 1 : room[j] \in Nat
          BY <1>1, <2>3
        <5> QED
          BY <5>1, SumToNat
      <4>2. fill[i] = Min({room[i], over})
        OBVIOUS
      <4> HIDE DEF before, fill
      <4>3. over = IF rest <= before THEN 0 ELSE rest - before
        <5>1. over = IF 0 >= rest - before THEN 0 ELSE rest - before
          BY <2>5, <4>1, MaxOfTwo
        <5> QED
          BY <2>5, <4>1, <5>1
      <4>4. over \in Int /\ room[i] \in Int
        BY <2>3, <2>5, <4>1, <4>3
      <4> HIDE DEF over
      <4>5. Min({room[i], over}) = IF room[i] <= over THEN room[i] ELSE over
        BY <4>4, MinOfTwo
      <4> QED
        BY <2>3, <2>5, <4>1, <4>2, <4>3, <4>5 DEF before
    <3> HIDE DEF fill
    <3> QED
      BY <1>1, <2>3, <2>5, <3>1, Filled
  <2>7. \A i \in 1 .. n : shares[i] \in Nat /\ shares[i] <= amounts[i]
    <3> HIDE DEF fill
    <3> QED
      BY <1>1, <2>1, <2>3, <2>6
  <2>8. shares \in Seq(Nat) /\ Len(shares) = n
    <3>1. shares \in [1 .. n -> Nat]
      BY <2>7
    <3> HIDE DEF shares
    <3> QED
      BY <1>1, <3>1, SequenceOf
  <2>9. Sum(shares) = capped
    <3>1. \A i \in 1 .. n : floored[i] \in Int /\ fill[i] \in Int /\ shares[i] = floored[i] + fill[i]
      <4> HIDE DEF fill
      <4> QED
        BY <2>1, <2>6
    <3> HIDE DEF fill, shares
    <3>2. SumTo(shares, n) = SumTo(floored, n) + SumTo(fill, n)
      BY <1>1, <3>1, SumToPlus
    <3> QED
      BY <1>3, <2>2, <2>6, <2>8, <3>2 DEF Sum
  <2>10. AllocateDiscount(amounts, discount) = shares
    <3> HIDE DEF shares
    <3> QED
      BY <1>3, <1>4, <1>6
  <2> HIDE DEF shares
  <2> QED
    BY <1>2, <1>3, <2>7, <2>8, <2>9, <2>10 DEF n, subtotal
<1> QED
  BY <1>3, <1>5, <1>6

(* There are n numbers from 1 to n.                                        *)
LEMMA IntervalCardinality ==
  ASSUME NEW n \in Nat
  PROVE  IsFiniteSet(1 .. n) /\ Cardinality(1 .. n) = n
<1>1. CASE n = 0
  <2>1. 1 .. n = {}
    BY <1>1
  <2> QED
    BY <1>1, <2>1, FS_EmptySet
<1>2. CASE n > 0
  BY <1>2, FS_Interval
<1> QED
  BY <1>1, <1>2

(* The units of one refund are as many as its amount.                      *)
LEMMA OwnUnits ==
  ASSUME NEW k, NEW n \in Nat
  PROVE  IsFiniteSet({k} \X (1 .. n)) /\ Cardinality({k} \X (1 .. n)) = n
<1> DEFINE own == {k} \X (1 .. n)
<1>1. IsFiniteSet({k}) /\ Cardinality({k}) = 1
  BY FS_Singleton
<1>2. IsFiniteSet(1 .. n) /\ Cardinality(1 .. n) = n
  BY IntervalCardinality
<1>3. IsFiniteSet(own) /\ Cardinality(own) = Cardinality({k}) * Cardinality(1 .. n)
  BY <1>1, <1>2, FS_Product
<1> HIDE DEF own
<1>4. Cardinality(own) = 1 * n
  BY <1>1, <1>2, <1>3, Zenon
<1>5. 1 * n = n
  OBVIOUS
<1>6. IsFiniteSet(own) /\ Cardinality(own) = n
  BY <1>3, <1>4, <1>5, Zenon
<1> QED
  BY <1>6 DEF own

(* R puts the elements of S in one order.                                  *)
Orders(R, S) ==
  /\ \A x \in S : <<x, x>> \notin R
  /\ \A x, y, z \in S : <<x, y>> \in R /\ <<y, z>> \in R => <<x, z>> \in R
  /\ \A x, y \in S : x # y => <<x, y>> \in R \/ <<y, x>> \in R

(* Position i of q is for an element of S that i - 1 others come before.   *)
Ranking(q, R, S) ==
  /\ q = [i \in 1 .. Cardinality(S) |-> q[i]]
  /\ \A i \in 1 .. Cardinality(S), x \in S :
       Cardinality({y \in S : <<y, x>> \in R}) = i - 1 =>
         q[i] \in S /\ Cardinality({y \in S : <<y, q[i]>> \in R}) = i - 1

(* A finite set in order is a sequence that has each of its elements once. *)
LEMMA Ranks ==
  ASSUME NEW S, IsFiniteSet(S), NEW R, Orders(R, S),
         NEW q, Ranking(q, R, S)
  PROVE  /\ Cardinality(S) \in Nat
         /\ q \in [1 .. Cardinality(S) -> S]
         /\ \A i, j \in 1 .. Cardinality(S) :
              i < j => <<q[i], q[j]>> \in R
         /\ \A x \in S : \E i \in 1 .. Cardinality(S) : q[i] = x
<1> DEFINE n == Cardinality(S)
           below(x) == {y \in S : <<y, x>> \in R}
           rank == [x \in S |-> Cardinality(below(x)) + 1]
<1>1. n \in Nat
  BY FS_CardinalityType
<1>2. ASSUME NEW x \in S
      PROVE  IsFiniteSet(below(x)) /\ Cardinality(below(x)) \in 0 .. n - 1
  <2>1. below(x) \in SUBSET S /\ below(x) # S
    BY DEF Orders
  <2> HIDE DEF below
  <2>2. /\ IsFiniteSet(below(x)) /\ Cardinality(below(x)) <= n
        /\ Cardinality(below(x)) # n
    BY <2>1, FS_Subset
  <2>3. Cardinality(below(x)) \in Nat
    BY <2>2, FS_CardinalityType
  <2> QED
    BY <1>1, <2>2, <2>3
<1>3. ASSUME NEW x \in S, NEW y \in S, <<x, y>> \in R
      PROVE  Cardinality(below(x)) < Cardinality(below(y))
  <2>1. below(x) \in SUBSET below(y)
    BY <1>3 DEF Orders
  <2>2. below(x) # below(y)
    BY <1>3 DEF Orders
  <2> HIDE DEF below
  <2>3. Cardinality(below(x)) <= Cardinality(below(y)) /\ Cardinality(below(x)) # Cardinality(below(y))
    BY <1>2, <2>1, <2>2, FS_Subset
  <2> QED
    BY <1>1, <1>2, <2>3
<1>4. \A x \in S : rank[x] \in 1 .. n
  <2> HIDE DEF below
  <2> QED
    BY <1>1, <1>2
<1>5. ASSUME NEW x \in S, NEW y \in S, <<x, y>> \in R PROVE rank[x] < rank[y]
  <2>1. Cardinality(below(x)) < Cardinality(below(y))
    BY <1>3, <1>5
  <2> HIDE DEF below
  <2> QED
    BY <1>1, <1>2, <2>1
<1> HIDE DEF rank
<1>6. ASSUME NEW i \in 1 .. n PROVE \E x \in S : rank[x] = i
  <2> DEFINE image == {rank[x] : x \in S}
             onto == [x \in S |-> rank[x]]
  <2>1. onto \in Bijection(S, image)
    <3>1. onto \in [S -> image] /\ \A t \in image : \E x \in S : onto[x] = t
      OBVIOUS
    <3>2. \A x, y \in S : onto[x] = onto[y] => x = y
      <4> SUFFICES ASSUME NEW x \in S, NEW y \in S, rank[x] = rank[y], x # y PROVE FALSE
        OBVIOUS
      <4>1. rank[x] < rank[y] \/ rank[y] < rank[x]
        BY <1>5 DEF Orders
      <4>2. rank[x] \in Int /\ rank[y] \in Int
        BY <1>1, <1>4
      <4> QED
        BY <4>1, <4>2
    <3> HIDE DEF image, onto
    <3>3. DOMAIN onto = S
      BY <3>1
    <3> QED
      BY <3>1, <3>2, <3>3 DEF Bijection, Injection, Surjection, IsInjective
  <2>2. image \in SUBSET (1 .. n)
    BY <1>4
  <2> HIDE DEF image, onto
  <2>3. Cardinality(image) = n
    BY <2>1, FS_Bijection DEF ExistsBijection
  <2>4. image = 1 .. n
    BY <1>1, <2>2, <2>3, IntervalCardinality, FS_Subset
  <2> QED
    BY <2>4 DEF image
<1>7. ASSUME NEW i \in 1 .. n PROVE q[i] \in S /\ rank[q[i]] = i
  <2>1. PICK x \in S : rank[x] = i
    BY <1>6
  <2>2. \A y \in S : rank[y] = i <=> Cardinality(below(y)) = i - 1
    <3>1. SUFFICES ASSUME NEW y \in S PROVE rank[y] = i <=> Cardinality(below(y)) = i - 1
      OBVIOUS
    <3>2. rank[y] = Cardinality(below(y)) + 1
      BY DEF rank
    <3> HIDE DEF below, n
    <3>3. Cardinality(below(y)) \in Int
      BY <1>1, <1>2
    <3> QED
      BY <1>1, <3>2, <3>3
  <2>3. Cardinality(below(x)) = i - 1
    BY <2>1, <2>2
  <2>4. q[i] \in S /\ Cardinality(below(q[i])) = i - 1
    BY <2>3 DEF Ranking
  <2> HIDE DEF below
  <2> QED
    BY <2>2, <2>4
<1>8. q \in [1 .. n -> S]
  BY <1>7 DEF Ranking
<1>9. ASSUME NEW i \in 1 .. n, NEW j \in 1 .. n, i < j PROVE <<q[i], q[j]>> \in R
  <2>1. rank[q[i]] = i /\ rank[q[j]] = j /\ i \in Int /\ j \in Int
    BY <1>1, <1>7
  <2>2. q[i] \in S /\ q[j] \in S /\ q[i] # q[j] /\ ~(rank[q[j]] < rank[q[i]])
    BY <1>7, <1>9, <2>1
  <2>3. <<q[j], q[i]>> \notin R
    BY <1>5, <2>2
  <2> HIDE DEF n
  <2> QED
    BY <2>2, <2>3 DEF Orders
<1>10. ASSUME NEW x \in S PROVE \E i \in 1 .. n : q[i] = x
  <2>1. rank[x] \in 1 .. n /\ rank[q[rank[x]]] = rank[x] /\ q[rank[x]] \in S
    BY <1>4, <1>7
  <2>2. q[rank[x]] = x
    <3>1. SUFFICES ASSUME q[rank[x]] # x PROVE FALSE
      OBVIOUS
    <3>2. rank[q[rank[x]]] < rank[x] \/ rank[x] < rank[q[rank[x]]]
      BY <1>5, <2>1, <3>1 DEF Orders
    <3> QED
      BY <1>1, <2>1, <3>2
  <2> QED
    BY <2>1, <2>2
<1> HIDE DEF n
<1> QED
  BY <1>1, <1>8, <1>9, <1>10 DEF n

(* A union of finitely many finite sets.                                   *)
LEMMA FiniteUnion ==
  ASSUME NEW L, IsFiniteSet(L), NEW f, \A l \in L : IsFiniteSet(f[l])
  PROVE  IsFiniteSet(UNION {f[l] : l \in L})
<1> DEFINE T == {f[l] : l \in L}
           onto == [l \in L |-> f[l]]
<1>1. onto \in Surjection(L, T)
  BY DEF Surjection
<1>2. \A t \in T : IsFiniteSet(t)
  OBVIOUS
<1> HIDE DEF T, onto
<1>3. IsFiniteSet(T)
  BY <1>1, FS_Surjection
<1>4. IsFiniteSet(UNION T)
  BY <1>2, <1>3, FS_UNION
<1> QED
  BY <1>4 DEF T

(* What a cart of the right type gives.                                    *)
LEMMA CartTyped ==
  ASSUME PricingTypeOK
  PROVE  /\ Len(cart) \in Nat \ {0} /\ DOMAIN cart = 1 .. Len(cart)
         /\ \A l \in DOMAIN cart :
              /\ cart[l].variant \in DOMAIN Catalog /\ cart[l].quantity \in Nat \ {0}
              /\ Price(l) \in Nat /\ Model(l) \in Nat
<1>1. /\ Len(cart) \in Nat \ {0} /\ DOMAIN cart = 1 .. Len(cart)
      /\ \A l \in DOMAIN cart :
           cart[l].variant \in DOMAIN Catalog /\ cart[l].quantity \in Nat \ {0}
  <2> DEFINE Line == [variant : DOMAIN Catalog, quantity : Nat \ {0}]
  <2>1. cart \in Seq(Line) /\ cart # <<>>
    BY DEF PricingTypeOK
  <2>2. \A x \in Line : x.variant \in DOMAIN Catalog /\ x.quantity \in Nat \ {0}
    OBVIOUS
  <2> HIDE DEF Line
  <2> QED
    BY <2>1, <2>2
<1>2. ASSUME NEW l \in DOMAIN cart PROVE Price(l) \in Nat /\ Model(l) \in Nat
  BY <1>1, PricingAssumption DEF PricingAssumption, Price, Model, EffectiveUnitPrice
<1> QED
  BY <1>1, <1>2

(* What an offer is.                                                       *)
LEMMA OfferTyped ==
  ASSUME PricingTypeOK, NEW n \in DOMAIN offers
  PROVE  /\ Len(offers) \in Nat /\ DOMAIN offers = 1 .. Len(offers)
         /\ offers[n].size \in Nat /\ offers[n].size > 1
         /\ offers[n].fixedTotal \in Nat
         /\ offers[n].differentModels \in BOOLEAN /\ offers[n].repeatable \in BOOLEAN
         /\ \A l \in EligibleLines(offers[n]) : Surcharge(cart[l].variant, offers[n]) \in Nat
<1>1. offers \in Offers
  BY DEF PricingTypeOK
<1>2. offers \in Seq({offers[m] : m \in DOMAIN offers})
  BY <1>1, PricingAssumption DEF PricingAssumption
<1>3. Len(offers) \in Nat /\ DOMAIN offers = 1 .. Len(offers)
  BY <1>2, LenProperties
<1> DEFINE b == offers[n]
<1>4. /\ b.size \in Nat \ {0, 1} /\ b.fixedTotal \in Nat
      /\ {b.differentModels, b.repeatable, b.stacking} \subseteq BOOLEAN
      /\ \A v \in DOMAIN b.surcharges : b.surcharges[v] \in Nat
  BY <1>1, PricingAssumption DEF PricingAssumption
<1> HIDE DEF b
<1>5. b.size \in Nat /\ b.size > 1
  BY <1>4
<1>6. ASSUME NEW l \in EligibleLines(b) PROVE Surcharge(cart[l].variant, b) \in Nat
  <2>1. IsEligible(cart[l].variant, b)
    BY DEF EligibleLines
  <2>2. CASE b.scope = "SPECIFIC_VARIANTS"
    <3>1. cart[l].variant \in DOMAIN b.surcharges
      BY <2>1, <2>2 DEF IsEligible
    <3> QED
      BY <1>4, <2>2, <3>1 DEF Surcharge
  <2>3. CASE b.scope # "SPECIFIC_VARIANTS"
    BY <2>3 DEF Surcharge
  <2> QED
    BY <2>2, <2>3
<1> QED
  BY <1>3, <1>4, <1>5, <1>6 DEF b

(* The units an offer may use are units of the cart.                       *)
LEMMA UnitsTyped ==
  ASSUME PricingTypeOK, NEW b, NEW quantity
  PROVE  UnitsOfLines(b, quantity) \subseteq (DOMAIN cart) \X (Nat \ {0})
BY DEF UnitsOfLines, EligibleLines

(* They are finitely many.                                                 *)
LEMMA UnitsFiniteToo ==
  ASSUME PricingTypeOK, NEW b, NEW quantity \in [DOMAIN cart -> Int]
  PROVE  IsFiniteSet(UnitsOfLines(b, quantity))
<1> DEFINE L == EligibleLines(b)
           f == [l \in L |-> {l} \X (1 .. quantity[l])]
<1>1. IsFiniteSet(L)
  <2>1. IsFiniteSet(1 .. Len(cart))
    BY CartTyped, IntervalCardinality
  <2>2. L \in SUBSET (1 .. Len(cart))
    BY CartTyped DEF EligibleLines
  <2> QED
    BY <2>1, <2>2, FS_Subset
<1>2. ASSUME NEW l \in L PROVE IsFiniteSet(f[l])
  <2>1. quantity[l] \in Int
    BY DEF EligibleLines
  <2>2. IsFiniteSet({l}) /\ IsFiniteSet(1 .. quantity[l])
    <3> DEFINE m == quantity[l]
    <3>1. m \in Int /\ 1 \in Int
      BY <2>1
    <3> HIDE DEF m
    <3>2. IsFiniteSet(1 .. m)
      BY <3>1, FS_Interval
    <3> QED
      BY <3>2, FS_Singleton DEF m
  <2>3. f[l] = {l} \X (1 .. quantity[l])
    OBVIOUS
  <2> QED
    BY <2>2, <2>3, FS_Product
<1>3. UnitsOfLines(b, quantity) = UNION {f[l] : l \in L}
  BY DEF UnitsOfLines
<1> HIDE DEF f, L
<1> QED
  BY <1>1, <1>2, <1>3, FiniteUnion

(* A bucket has each of its units once, the dearer ones first.             *)
LEMMA BucketUnits ==
  ASSUME PricingTypeOK, NEW units, units \subseteq (DOMAIN cart) \X (Nat \ {0}),
         IsFiniteSet(units), NEW b, NEW k
  PROVE  /\ IsFiniteSet(OfKey(k, units, b))
         /\ Bucket(k, units, b) \in Seq(OfKey(k, units, b))
         /\ Len(Bucket(k, units, b)) = Cardinality(OfKey(k, units, b))
         /\ Range(Bucket(k, units, b)) = OfKey(k, units, b)
         /\ IsInjective(Bucket(k, units, b))
         /\ \A i, j \in 1 .. Len(Bucket(k, units, b)) :
              i < j => DearerFirst(Bucket(k, units, b)[i], Bucket(k, units, b)[j])
<1> DEFINE S == OfKey(k, units, b)
           R == {p \in S \X S : DearerFirst(p[1], p[2])}
           q == Bucket(k, units, b)
           n == Cardinality(S)
<1>1. IsFiniteSet(S) /\ S \subseteq (DOMAIN cart) \X (Nat \ {0})
  <2>1. S \in SUBSET units
    BY DEF OfKey
  <2> QED
    BY <2>1, FS_Subset
<1>2. Ranking(q, R, S)
  <2>1. q = [i \in 1 .. n |-> CHOOSE x \in S : Cardinality({y \in S : DearerFirst(y, x)}) = i - 1]
    BY DEF Bucket, InOrder
  <2> HIDE DEF q, S
  <2>2. \A x \in S : {y \in S : DearerFirst(y, x)} = {y \in S : <<y, x>> \in R}
    OBVIOUS
  <2> DEFINE IsAt(x, i) == Cardinality({y \in S : DearerFirst(y, x)}) = i - 1
  <2>3. ASSUME NEW i \in 1 .. n, NEW x \in S, IsAt(x, i)
        PROVE  q[i] \in S /\ IsAt(q[i], i)
    <3>1. q[i] = CHOOSE y \in S : IsAt(y, i)
      BY <2>1
    <3> HIDE DEF IsAt
    <3> QED
      BY <2>3, <3>1
  <2> HIDE DEF R
  <2>4. \A x \in S, i \in 1 .. n : IsAt(x, i) <=> Cardinality({y \in S : <<y, x>> \in R}) = i - 1
    BY <2>2
  <2>5. q = [i \in 1 .. n |-> q[i]]
    <3> DEFINE pick(i) == CHOOSE x \in S : Cardinality({y \in S : DearerFirst(y, x)}) = i - 1
    <3>1. q = [i \in 1 .. n |-> pick(i)]
      BY <2>1
    <3> HIDE DEF pick, n
    <3> QED
      BY <3>1
  <2> HIDE DEF IsAt
  <2> QED
    BY <2>3, <2>4, <2>5 DEF Ranking
<1> HIDE DEF S
<1>3. \A x \in S : Price(x[1]) \in Int /\ x[1] \in Int /\ x[2] \in Int /\ x = <<x[1], x[2]>>
  BY <1>1, CartTyped
<1>4. Orders(R, S)
  <2>1. \A x \in S : <<x, x>> \notin R
    BY <1>3 DEF DearerFirst
  <2>2. ASSUME NEW x \in S, NEW y \in S, NEW z \in S, <<x, y>> \in R, <<y, z>> \in R
        PROVE  <<x, z>> \in R
    BY <1>3, <2>2 DEF DearerFirst
  <2>3. ASSUME NEW x \in S, NEW y \in S, x # y PROVE <<x, y>> \in R \/ <<y, x>> \in R
    BY <1>3, <2>3 DEF DearerFirst
  <2> QED
    BY <2>1, <2>2, <2>3 DEF Orders
<1> HIDE DEF R, q
<1>5. /\ n \in Nat /\ q \in [1 .. n -> S]
      /\ \A i, j \in 1 .. n : i < j => <<q[i], q[j]>> \in R
      /\ \A x \in S : \E i \in 1 .. n : q[i] = x
  BY <1>1, <1>2, <1>4, Ranks
<1>6. q \in Seq(S) /\ Len(q) = n /\ DOMAIN q = 1 .. n
  BY <1>5, SequenceOf
<1>7. Range(q) = S
  BY <1>5, <1>6 DEF Range
<1>8. \A i, j \in 1 .. n : i # j => q[i] # q[j]
  <2>1. SUFFICES ASSUME NEW i \in 1 .. n, NEW j \in 1 .. n, i < j PROVE q[i] # q[j]
    BY <1>5
  <2>2. <<q[i], q[j]>> \in R /\ q[i] \in S
    BY <1>5, <2>1
  <2> QED
    BY <1>4, <2>2 DEF Orders
<1>9. IsInjective(q)
  BY <1>6, <1>8 DEF IsInjective
<1>10. \A i, j \in 1 .. Len(q) : i < j => DearerFirst(q[i], q[j])
  BY <1>5, <1>6 DEF R
<1> QED
  BY <1>1, <1>6, <1>7, <1>9, <1>10 DEF S, q

(* The keys of buckets are numbers.                                        *)
LEMMA KeysTyped ==
  ASSUME PricingTypeOK, NEW b
  PROVE  0 \in Keys(b) /\ Keys(b) \subseteq Nat /\ IsFiniteSet(Keys(b))
<1>1. 0 \in Keys(b) /\ Keys(b) \subseteq Nat
  BY CartTyped DEF Keys, BucketKey, EligibleLines
<1>2. IsFiniteSet(Keys(b))
  <2> DEFINE L == EligibleLines(b)
             key == [l \in L |-> BucketKey(l, b)]
             T == {BucketKey(l, b) : l \in L}
  <2>1. IsFiniteSet(L)
    <3>1. IsFiniteSet(1 .. Len(cart)) /\ L \in SUBSET (1 .. Len(cart))
      BY CartTyped, IntervalCardinality DEF EligibleLines
    <3> QED
      BY <3>1, FS_Subset
  <2>2. key \in Surjection(L, T)
    BY DEF Surjection
  <2> HIDE DEF L, T, key
  <2>3. IsFiniteSet(T)
    BY <2>1, <2>2, FS_Surjection
  <2>4. IsFiniteSet({0} \cup T)
    BY <2>3, FS_Singleton, FS_Union
  <2> QED
    BY <2>4 DEF Keys, T, L
<1> QED
  BY <1>1, <1>2

(* The buckets of the offer at work.                                       *)
LEMMA BucketsTyped ==
  ASSUME PricingTypeOK, Building
  PROVE  /\ turn \in DOMAIN offers
         /\ DOMAIN buckets = Keys(offers[turn]) /\ 0 \in Keys(offers[turn])
         /\ Keys(offers[turn]) \subseteq Nat /\ IsFiniteSet(Keys(offers[turn]))
         /\ \A k \in Keys(offers[turn]) :
              /\ buckets[k] \in Seq((DOMAIN cart) \X (Nat \ {0}))
              /\ Len(buckets[k]) \in Nat /\ DOMAIN buckets[k] = 1 .. Len(buckets[k])
         /\ NonEmpty \subseteq Keys(offers[turn]) /\ IsFiniteSet(NonEmpty)
         /\ \A k \in NonEmpty : Len(buckets[k]) > 0
<1> DEFINE b == offers[turn]
           Unit == (DOMAIN cart) \X (Nat \ {0})
<1>1. buckets \in [Keys(b) -> Seq(Unit)] /\ turn <= Len(offers) /\ turn \in 1 .. Len(offers) + 1
  BY DEF PricingTypeOK
<1>2. turn \in DOMAIN offers
  <2>1. offers \in Offers
    BY DEF PricingTypeOK
  <2>2. offers \in Seq({offers[m] : m \in DOMAIN offers})
    BY <2>1, PricingAssumption DEF PricingAssumption
  <2> QED
    BY <1>1, <2>2, LenProperties
<1>3. 0 \in Keys(b) /\ Keys(b) \subseteq Nat
  BY KeysTyped
<1>4. IsFiniteSet(Keys(b))
  BY KeysTyped
<1> HIDE DEF b, Unit
<1>5. \A k \in Keys(b) : /\ buckets[k] \in Seq(Unit)
                         /\ Len(buckets[k]) \in Nat /\ DOMAIN buckets[k] = 1 .. Len(buckets[k])
  BY <1>1
<1>6. NonEmpty \in SUBSET Keys(b) /\ \A k \in NonEmpty : Len(buckets[k]) > 0
  BY <1>1, <1>5, EmptySeq DEF NonEmpty
<1>7. IsFiniteSet(NonEmpty)
  BY <1>4, <1>6, FS_Subset
<1> QED
  BY <1>1, <1>2, <1>3, <1>4, <1>5, <1>6, <1>7 DEF b, Unit

(* The buckets that have units, the largest first.                         *)
LEMMA RankedKeys ==
  ASSUME PricingTypeOK, Building
  PROVE  LET n == Cardinality(NonEmpty) IN
         /\ n \in Nat /\ Ranked \in [1 .. n -> NonEmpty]
         /\ \A i, j \in 1 .. n : i < j => /\ Ranked[i] # Ranked[j]
                                          /\ Len(buckets[Ranked[j]]) <= Len(buckets[Ranked[i]])
         /\ \A k \in NonEmpty : \E i \in 1 .. n : Ranked[i] = k
<1> DEFINE S == NonEmpty
           R == {p \in S \X S : LargerFirst(p[1], p[2])}
           q == Ranked
           n == Cardinality(S)
<1>1. IsFiniteSet(S) /\ \A k \in S : k \in Nat /\ Len(buckets[k]) \in Nat
  BY BucketsTyped
<1>2. Ranking(q, R, S)
  <2>1. q = [i \in 1 .. n |-> CHOOSE x \in S : Cardinality({y \in S : LargerFirst(y, x)}) = i - 1]
    BY DEF Ranked, InOrder
  <2> HIDE DEF q, S
  <2>2. \A x \in S : {y \in S : LargerFirst(y, x)} = {y \in S : <<y, x>> \in R}
    OBVIOUS
  <2> DEFINE IsAt(x, i) == Cardinality({y \in S : LargerFirst(y, x)}) = i - 1
  <2>3. ASSUME NEW i \in 1 .. n, NEW x \in S, IsAt(x, i)
        PROVE  q[i] \in S /\ IsAt(q[i], i)
    <3>1. q[i] = CHOOSE y \in S : IsAt(y, i)
      BY <2>1
    <3> HIDE DEF IsAt
    <3> QED
      BY <2>3, <3>1
  <2> HIDE DEF R
  <2>4. \A x \in S, i \in 1 .. n : IsAt(x, i) <=> Cardinality({y \in S : <<y, x>> \in R}) = i - 1
    BY <2>2
  <2>5. q = [i \in 1 .. n |-> q[i]]
    <3> DEFINE pick(i) == CHOOSE x \in S : Cardinality({y \in S : LargerFirst(y, x)}) = i - 1
    <3>1. q = [i \in 1 .. n |-> pick(i)]
      BY <2>1
    <3> HIDE DEF pick, n
    <3> QED
      BY <3>1
  <2> HIDE DEF IsAt
  <2> QED
    BY <2>3, <2>4, <2>5 DEF Ranking
<1> HIDE DEF S
<1>3. Orders(R, S)
  <2>1. \A x \in S : <<x, x>> \notin R
    BY <1>1 DEF LargerFirst
  <2>2. ASSUME NEW x \in S, NEW y \in S, NEW z \in S, <<x, y>> \in R, <<y, z>> \in R
        PROVE  <<x, z>> \in R
    BY <1>1, <2>2 DEF LargerFirst
  <2>3. ASSUME NEW x \in S, NEW y \in S, x # y PROVE <<x, y>> \in R \/ <<y, x>> \in R
    BY <1>1, <2>3 DEF LargerFirst
  <2> QED
    BY <2>1, <2>2, <2>3 DEF Orders
<1>4. \A p \in R : Len(buckets[p[2]]) <= Len(buckets[p[1]])
  BY <1>1 DEF LargerFirst
<1> HIDE DEF R, q
<1>5. /\ n \in Nat /\ q \in [1 .. n -> S]
      /\ \A i, j \in 1 .. n : i < j => <<q[i], q[j]>> \in R
      /\ \A x \in S : \E i \in 1 .. n : q[i] = x
  BY <1>1, <1>2, <1>3, Ranks
<1>6. ASSUME NEW i \in 1 .. n, NEW j \in 1 .. n, i < j
      PROVE  q[i] # q[j] /\ Len(buckets[q[j]]) <= Len(buckets[q[i]])
  <2>1. <<q[i], q[j]>> \in R /\ q[i] \in S
    BY <1>5, <1>6
  <2> QED
    BY <1>3, <1>4, <2>1 DEF Orders
<1> QED
  BY <1>5, <1>6 DEF S, q

(* The units a cart can have: those of a line are numbered.                *)
Unit == (DOMAIN cart) \X (Nat \ {0})

(* A group of different models takes the first unit of each of the largest *)
(* buckets.                                                                *)
TakesFirst(key, b) ==
  /\ \A i, j \in 1 .. b.size : key[i] = key[j] => i = j
  /\ Chosen(b) = [i \in 1 .. b.size |-> buckets[key[i]][1]]
  /\ Taken(b) = [k \in Keys(b) |-> IF \E i \in 1 .. b.size : key[i] = k
                                     THEN Tail(buckets[k]) ELSE buckets[k]]
  /\ \A k \in Keys(b), i \in 1 .. b.size :
       (\A j \in 1 .. b.size : key[j] # k) => Len(buckets[k]) <= Len(buckets[key[i]])

(* So does the model: the keys are the first of those ranked by their size.*)
LEMMA OfDifferentModels ==
  ASSUME PricingTypeOK, Building, NEW b, b = offers[turn], b.differentModels, Fillable(b)
  PROVE  \E key \in [1 .. b.size -> NonEmpty] : TakesFirst(key, b)
<1> DEFINE n == Cardinality(NonEmpty)
           key == [i \in 1 .. b.size |-> Ranked[i]]
<1>1. /\ n \in Nat /\ Ranked \in [1 .. n -> NonEmpty]
      /\ \A i, j \in 1 .. n : i < j => /\ Ranked[i] # Ranked[j]
                                       /\ Len(buckets[Ranked[j]]) <= Len(buckets[Ranked[i]])
      /\ \A k \in NonEmpty : \E i \in 1 .. n : Ranked[i] = k
  BY RankedKeys
<1>2. b.size \in Nat /\ b.size <= n
  BY BucketsTyped, OfferTyped, <1>1 DEF Fillable
<1> HIDE DEF n
<1>3. \A i \in 1 .. b.size : i \in 1 .. n /\ key[i] = Ranked[i]
  BY <1>1, <1>2
<1>4. key \in [1 .. b.size -> NonEmpty]
  BY <1>1, <1>3
<1>5. ASSUME NEW i \in 1 .. b.size, NEW j \in 1 .. b.size, key[i] = key[j]
      PROVE  i = j
  <2>1. i \in 1 .. n /\ j \in 1 .. n /\ Ranked[i] = Ranked[j] /\ i \in Int /\ j \in Int
    BY <1>1, <1>2, <1>3, <1>5
  <2>2. ~(i < j) /\ ~(j < i)
    BY <1>1, <2>1
  <2> QED
    BY <2>1, <2>2
<1>6. Chosen(b) = [i \in 1 .. b.size |-> buckets[key[i]][1]]
  <2>1. Chosen(b) = [i \in 1 .. b.size |-> Head(buckets[Ranked[i]])]
    BY DEF Chosen
  <2>2. ASSUME NEW i \in 1 .. b.size PROVE Head(buckets[Ranked[i]]) = buckets[key[i]][1]
    <3>1. key[i] \in NonEmpty /\ key[i] = Ranked[i]
      BY <1>3, <1>4
    <3>2. buckets[key[i]] \in Seq(Unit) /\ buckets[key[i]] # <<>>
      BY <3>1, BucketsTyped DEF Unit, NonEmpty
    <3> QED
      BY <3>1, <3>2
  <2> HIDE DEF key
  <2> QED
    BY <2>1, <2>2
<1>7. Taken(b) = [k \in Keys(b) |-> IF \E i \in 1 .. b.size : key[i] = k
                                      THEN Tail(buckets[k]) ELSE buckets[k]]
  <2>1. DOMAIN buckets = Keys(b)
    BY BucketsTyped
  <2>2. \A k : (\E i \in 1 .. b.size : key[i] = k) <=> (\E i \in 1 .. b.size : Ranked[i] = k)
    BY <1>3
  <2>3. Taken(b) = [k \in Keys(b) |-> IF \E i \in 1 .. b.size : Ranked[i] = k
                                        THEN Tail(buckets[k]) ELSE buckets[k]]
    BY <2>1 DEF Taken
  <2> HIDE DEF key
  <2> QED
    BY <2>2, <2>3
<1>8. ASSUME NEW k \in Keys(b), NEW i \in 1 .. b.size, \A j \in 1 .. b.size : key[j] # k
      PROVE  Len(buckets[k]) <= Len(buckets[key[i]])
  <2>1. i \in 1 .. n /\ key[i] = Ranked[i] /\ Ranked[i] \in NonEmpty
    BY <1>1, <1>3
  <2>2. Len(buckets[Ranked[i]]) \in Nat /\ Len(buckets[Ranked[i]]) > 0 /\ Len(buckets[k]) \in Nat
    BY <2>1, BucketsTyped
  <2>3. CASE k \in NonEmpty
    <3>1. PICK j \in 1 .. n : Ranked[j] = k
      BY <1>1, <2>3
    <3>2. j \notin 1 .. b.size
      BY <1>3, <1>8, <3>1
    <3>3. i < j
      BY <1>1, <1>2, <3>1, <3>2
    <3> QED
      BY <1>1, <2>1, <3>1, <3>3
  <2>4. CASE k \notin NonEmpty
    <3>1. buckets[k] = <<>>
      BY <2>4, BucketsTyped DEF NonEmpty
    <3> QED
      BY <2>1, <2>2, <3>1
  <2> QED
    BY <2>3, <2>4
<1> HIDE DEF key
<1>9. TakesFirst(key, b)
  BY <1>5, <1>6, <1>7, <1>8 DEF TakesFirst
<1> QED
  BY <1>4, <1>9

(* The buckets have each unit once, by its key.                            *)
Sorted(b) ==
  \A k \in Keys(b) :
    /\ \A i, j \in 1 .. Len(buckets[k]) : buckets[k][i] = buckets[k][j] => i = j
    /\ \A i \in 1 .. Len(buckets[k]) : /\ buckets[k][i][1] \in EligibleLines(b)
                                       /\ BucketKey(buckets[k][i][1], b) = k

(* A group has as many units as the offer asks for, each of them once and, *)
(* if the models have to differ, one of each; the buckets keep the others. *)
TakesUnits(b) ==
  /\ Chosen(b) \in [1 .. b.size -> Unit]
  /\ \A i \in 1 .. b.size : \E k \in Keys(b) : \E j \in 1 .. Len(buckets[k]) :
       Chosen(b)[i] = buckets[k][j]
  /\ \A i, j \in 1 .. b.size : Chosen(b)[i] = Chosen(b)[j] => i = j
  /\ b.differentModels =>
       \A i, j \in 1 .. b.size : Model(Chosen(b)[i][1]) = Model(Chosen(b)[j][1]) => i = j
  /\ Taken(b) \in [Keys(b) -> Seq(Unit)]
  /\ \A k \in Keys(b) :
       /\ \A i, j \in 1 .. Len(Taken(b)[k]) : Taken(b)[k][i] = Taken(b)[k][j] => i = j
       /\ \A i \in 1 .. Len(Taken(b)[k]) :
            /\ \E j \in 1 .. Len(buckets[k]) : Taken(b)[k][i] = buckets[k][j]
            /\ \A j \in 1 .. b.size : Taken(b)[k][i] # Chosen(b)[j]

(* Chosen and Taken do so, in both kinds of offers.                        *)
LEMMA GroupTaken ==
  ASSUME PricingTypeOK, Building, NEW b, b = offers[turn], Fillable(b), Sorted(b)
  PROVE  TakesUnits(b)
<1> USE DEF Unit
<1>0. /\ turn \in DOMAIN offers /\ b.size \in Nat /\ b.size > 1 /\ b.differentModels \in BOOLEAN
      /\ DOMAIN buckets = Keys(b) /\ 0 \in Keys(b)
      /\ \A k \in Keys(b) : /\ buckets[k] \in Seq(Unit) /\ Len(buckets[k]) \in Nat
                            /\ DOMAIN buckets[k] = 1 .. Len(buckets[k])
      /\ NonEmpty \subseteq Keys(b)
      /\ \A k \in NonEmpty : Len(buckets[k]) > 0
  BY BucketsTyped, OfferTyped
<1>1. CASE b.differentModels
  <2>0. PICK key \in [1 .. b.size -> NonEmpty] : TakesFirst(key, b)
    BY <1>1, OfDifferentModels
  <2>1. /\ \A i, j \in 1 .. b.size : key[i] = key[j] => i = j
        /\ Chosen(b) = [i \in 1 .. b.size |-> buckets[key[i]][1]]
        /\ Taken(b) = [k \in Keys(b) |-> IF \E i \in 1 .. b.size : key[i] = k
                                           THEN Tail(buckets[k]) ELSE buckets[k]]
    BY <2>0 DEF TakesFirst
  <2>2. ASSUME NEW i \in 1 .. b.size
        PROVE  /\ key[i] \in Keys(b) /\ 1 \in 1 .. Len(buckets[key[i]])
               /\ Chosen(b)[i] = buckets[key[i]][1] /\ Chosen(b)[i] \in Unit
               /\ Chosen(b)[i][1] \in EligibleLines(b)
               /\ BucketKey(Chosen(b)[i][1], b) = key[i]
    <3>1. key[i] \in NonEmpty /\ key[i] \in Keys(b)
      BY <1>0, <2>1
    <3>2. Len(buckets[key[i]]) \in Nat /\ Len(buckets[key[i]]) > 0
          /\ buckets[key[i]] \in Seq(Unit)
      BY <1>0, <3>1
    <3>3. 1 \in 1 .. Len(buckets[key[i]]) /\ buckets[key[i]][1] \in Unit
      BY <3>2
    <3>4. Chosen(b)[i] = buckets[key[i]][1]
      BY <2>1
    <3> QED
      BY <3>1, <3>3, <3>4 DEF Sorted
  <2>3. ASSUME NEW i \in 1 .. b.size, NEW j \in 1 .. b.size,
               Model(Chosen(b)[i][1]) = Model(Chosen(b)[j][1])
        PROVE  i = j
    <3>1. BucketKey(Chosen(b)[i][1], b) = BucketKey(Chosen(b)[j][1], b)
      BY <1>1, <2>3 DEF BucketKey
    <3>2. key[i] = key[j]
      BY <2>2, <3>1
    <3> QED
      BY <2>1, <3>2
  <2>4. \A i, j \in 1 .. b.size : Chosen(b)[i] = Chosen(b)[j] => i = j
    BY <2>3
  <2>5. ASSUME NEW k \in Keys(b)
        PROVE  /\ Taken(b)[k] \in Seq(Unit)
               /\ \A i, j \in 1 .. Len(Taken(b)[k]) : Taken(b)[k][i] = Taken(b)[k][j] => i = j
               /\ \A i \in 1 .. Len(Taken(b)[k]) :
                    /\ \E j \in 1 .. Len(buckets[k]) : Taken(b)[k][i] = buckets[k][j]
                    /\ \A j \in 1 .. b.size : Taken(b)[k][i] # Chosen(b)[j]
    <3> DEFINE s == buckets[k]
    <3>1. /\ s \in Seq(Unit) /\ Len(s) \in Nat
          /\ \A i, j \in 1 .. Len(s) : s[i] = s[j] => i = j
          /\ \A i \in 1 .. Len(s) : BucketKey(s[i][1], b) = k
      BY <1>0 DEF Sorted
    <3>2. CASE \E i \in 1 .. b.size : key[i] = k
      <4>1. PICK c \in 1 .. b.size : key[c] = k
        BY <3>2
      <4>2. Taken(b)[k] = Tail(s) /\ s # <<>> /\ Chosen(b)[c] = s[1]
        BY <2>1, <3>2, <4>1 DEF NonEmpty
      <4> HIDE DEF s
      <4>3. /\ Tail(s) \in Seq(Unit) /\ Len(Tail(s)) = Len(s) - 1
            /\ \A i \in 1 .. Len(s) - 1 : Tail(s)[i] = s[i + 1]
        BY <3>1, <4>2
      <4>4. \A i \in 1 .. Len(s) - 1 : i + 1 \in 1 .. Len(s) /\ i + 1 # 1 /\ 1 \in 1 .. Len(s)
        BY <3>1
      <4>5. ASSUME NEW i \in 1 .. Len(s) - 1, NEW j \in 1 .. b.size PROVE s[i + 1] # Chosen(b)[j]
        <5>1. CASE key[j] = k
          <6>1. j = c
            BY <2>1, <4>1, <5>1
          <6> QED
            BY <3>1, <4>2, <4>4, <6>1
        <5>2. CASE key[j] # k
          BY <2>2, <3>1, <4>4, <5>2
        <5> QED
          BY <5>1, <5>2
      <4>6. \A i, j \in 1 .. Len(s) - 1 : s[i + 1] = s[j + 1] => i = j
        <5>1. SUFFICES ASSUME NEW i \in 1 .. Len(s) - 1, NEW j \in 1 .. Len(s) - 1, s[i + 1] = s[j + 1]
                       PROVE  i = j
          OBVIOUS
        <5>2. i + 1 = j + 1
          BY <3>1, <4>4, <5>1
        <5> QED
          BY <3>1, <5>2
      <4> DEFINE t == Tail(s)
      <4>7. /\ t \in Seq(Unit)
            /\ \A i, j \in 1 .. Len(t) : t[i] = t[j] => i = j
            /\ \A i \in 1 .. Len(t) : /\ \E j \in 1 .. Len(s) : t[i] = s[j]
                                      /\ \A j \in 1 .. b.size : t[i] # Chosen(b)[j]
        <5>1. /\ t \in Seq(Unit) /\ Len(t) = Len(s) - 1 /\ Len(s) \in Nat
              /\ \A i \in 1 .. Len(s) - 1 : t[i] = s[i + 1]
          BY <3>1, <4>3
        <5> HIDE DEF t
        <5>2. \A i, j \in 1 .. Len(t) : t[i] = t[j] => i = j
          BY <4>6, <5>1
        <5>3. ASSUME NEW i \in 1 .. Len(t)
              PROVE  /\ \E j \in 1 .. Len(s) : t[i] = s[j]
                     /\ \A j \in 1 .. b.size : t[i] # Chosen(b)[j]
          <6>1. i \in 1 .. Len(s) - 1 /\ t[i] = s[i + 1]
            BY <5>1
          <6>2. \E j \in 1 .. Len(s) : t[i] = s[j]
            BY <4>4, <6>1
          <6> QED
            BY <4>5, <6>1, <6>2
        <5> QED
          BY <5>1, <5>2, <5>3
      <4> HIDE DEF t
      <4>8. Taken(b)[k] = t
        BY <4>2 DEF t
      <4> QED
        BY <4>7, <4>8 DEF s
    <3>3. CASE \A i \in 1 .. b.size : key[i] # k
      <4>1. Taken(b)[k] = s
        BY <2>1, <3>3
      <4>2. ASSUME NEW i \in 1 .. Len(s), NEW j \in 1 .. b.size PROVE s[i] # Chosen(b)[j]
        BY <2>2, <3>1, <3>3
      <4> QED
        BY <3>1, <4>1, <4>2, SMTT(20)
    <3> QED
      BY <3>2, <3>3
  <2>6. Taken(b) \in [Keys(b) -> Seq(Unit)]
    <3>1. Taken(b) = [k \in Keys(b) |-> Taken(b)[k]]
      BY <2>1
    <3> QED
      BY <2>5, <3>1
  <2>7. Chosen(b) \in [1 .. b.size -> Unit]
    BY <2>1, <2>2
  <2>8. \A i \in 1 .. b.size : \E k \in Keys(b) : \E j \in 1 .. Len(buckets[k]) :
          Chosen(b)[i] = buckets[k][j]
    BY <2>2
  <2> HIDE DEF Unit
  <2> QED
    BY <2>3, <2>4, <2>5, <2>6, <2>7, <2>8 DEF TakesUnits
<1>2. CASE ~b.differentModels
  <2> DEFINE s == buckets[0]
             c == b.size
  <2>1. s \in Seq(Unit) /\ Len(s) \in Nat /\ c \in Nat /\ c <= Len(s)
        /\ \A i, j \in 1 .. Len(s) : s[i] = s[j] => i = j
    BY <1>0, <1>2 DEF Fillable, Sorted
  <2>2. /\ Chosen(b) = SubSeq(s, 1, c)
        /\ Taken(b) = [buckets EXCEPT ![0] = SubSeq(s, c + 1, Len(s))]
    BY <1>2 DEF Chosen, Taken
  <2>3. \A k \in Keys(b) : k = 0
    BY <1>2 DEF Keys, BucketKey
  <2> HIDE DEF s, c
  <2>4. /\ Chosen(b) \in [1 .. c -> Unit]
        /\ \A i \in 1 .. c : i \in 1 .. Len(s) /\ Chosen(b)[i] = s[i]
    <3> DEFINE t == SubSeq(s, 1, c)
    <3>1. /\ t \in Seq(Unit) /\ Len(t) = c
          /\ \A i \in 1 .. c : i \in 1 .. Len(s) /\ t[i] = s[i]
      BY <2>1
    <3> HIDE DEF t
    <3>2. t \in [1 .. c -> Unit]
      BY <3>1
    <3> QED
      BY <2>2, <3>1, <3>2 DEF t
  <2>5. /\ Taken(b) \in [Keys(b) -> Seq(Unit)]
        /\ Len(Taken(b)[0]) = Len(s) - c
        /\ \A i \in 1 .. Len(s) - c : i + c \in 1 .. Len(s) /\ Taken(b)[0][i] = s[i + c]
    <3> DEFINE t == SubSeq(s, c + 1, Len(s))
    <3>1. /\ t \in Seq(Unit) /\ Len(t) = Len(s) - c
          /\ \A i \in 1 .. Len(s) - c : i + c \in 1 .. Len(s) /\ t[i] = s[i + c]
      BY <2>1
    <3> HIDE DEF t
    <3>2. buckets \in [Keys(b) -> Seq(Unit)]
      BY DEF PricingTypeOK
    <3>3. Taken(b) = [buckets EXCEPT ![0] = t]
      BY <2>2 DEF t
    <3> QED
      BY <1>0, <3>1, <3>2, <3>3
  <2>6. \A i \in 1 .. Len(s) - c, j \in 1 .. c : Taken(b)[0][i] # Chosen(b)[j]
    <3>1. SUFFICES ASSUME NEW i \in 1 .. Len(s) - c, NEW j \in 1 .. c PROVE s[i + c] # s[j]
      BY <2>4, <2>5
    <3>2. i + c \in 1 .. Len(s) /\ j \in 1 .. Len(s) /\ i + c # j
      BY <2>1
    <3> QED
      BY <2>1, <3>2
  <2>7. \A i, j \in 1 .. Len(s) - c : Taken(b)[0][i] = Taken(b)[0][j] => i = j
    <3>1. SUFFICES ASSUME NEW i \in 1 .. Len(s) - c, NEW j \in 1 .. Len(s) - c, s[i + c] = s[j + c]
                   PROVE  i = j
      BY <2>5
    <3>2. i + c \in 1 .. Len(s) /\ j + c \in 1 .. Len(s)
      BY <2>1
    <3>3. i + c = j + c
      BY <2>1, <3>1, <3>2
    <3> QED
      BY <2>1, <3>3
  <2>8. \A i, j \in 1 .. c : Chosen(b)[i] = Chosen(b)[j] => i = j
    BY <2>1, <2>4
  <2>9. \A i \in 1 .. c : \E k \in Keys(b) : \E j \in 1 .. Len(buckets[k]) :
          Chosen(b)[i] = buckets[k][j]
    BY <1>0, <2>4 DEF s
  <2>10. ASSUME NEW k \in Keys(b)
         PROVE  /\ \A i, j \in 1 .. Len(Taken(b)[k]) : Taken(b)[k][i] = Taken(b)[k][j] => i = j
                /\ \A i \in 1 .. Len(Taken(b)[k]) :
                     /\ \E j \in 1 .. Len(buckets[k]) : Taken(b)[k][i] = buckets[k][j]
                     /\ \A j \in 1 .. c : Taken(b)[k][i] # Chosen(b)[j]
    <3>1. k = 0 /\ s = buckets[k]
      BY <2>3 DEF s
    <3> DEFINE t == Taken(b)[0]
    <3>2. Len(t) = Len(s) - c
      BY <2>5
    <3>3. \A i \in 1 .. Len(t) : \E j \in 1 .. Len(s) : t[i] = s[j]
      BY <2>5, <3>2
    <3>4. /\ \A i, j \in 1 .. Len(t) : t[i] = t[j] => i = j
          /\ \A i \in 1 .. Len(t), j \in 1 .. c : t[i] # Chosen(b)[j]
      BY <2>6, <2>7, <3>2
    <3>5. \A i \in 1 .. Len(t) : /\ \E j \in 1 .. Len(s) : t[i] = s[j]
                                /\ \A j \in 1 .. c : t[i] # Chosen(b)[j]
      <4> HIDE DEF t
      <4> QED
        BY <3>3, <3>4
    <3>6. s = buckets[k] /\ t = Taken(b)[k]
      BY <3>1
    <3> HIDE DEF t, s
    <3> QED
      BY <3>4, <3>5, <3>6
  <2> HIDE DEF Unit
  <2> QED
    BY <1>2, <2>4, <2>5, <2>8, <2>9, <2>10 DEF c, TakesUnits
<1> QED
  BY <1>0, <1>1, <1>2

(* UnitsOf counts.                                                         *)
LEMMA Counted ==
  ASSUME NEW n \in Nat, NEW units, DOMAIN units = 1 .. n, NEW l
  PROVE  /\ IsFiniteSet({i \in 1 .. n : units[i] = l})
         /\ UnitsOf(l, units) = Cardinality({i \in 1 .. n : units[i] = l})
         /\ UnitsOf(l, units) \in Nat
<1> DEFINE one == [i \in 1 .. n |-> IF units[i] = l THEN 1 ELSE 0]
           those(k) == {i \in 1 .. k : units[i] = l}
           T == {k \in Nat : k <= n => SumTo(one, k) = Cardinality(those(k)) /\ IsFiniteSet(those(k))}
<1>1. 0 \in T
  <2>1. those(0) = {}
    OBVIOUS
  <2> HIDE DEF those
  <2> QED
    BY <2>1, SumToStep, FS_EmptySet
<1>2. ASSUME NEW k \in Nat, k \in T PROVE k + 1 \in T
  <2>1. SUFFICES ASSUME k + 1 <= n
                 PROVE  SumTo(one, k + 1) = Cardinality(those(k + 1)) /\ IsFiniteSet(those(k + 1))
    OBVIOUS
  <2>2. /\ SumTo(one, k) = Cardinality(those(k)) /\ IsFiniteSet(those(k))
        /\ SumTo(one, k + 1) = SumTo(one, k) + one[k + 1]
        /\ one[k + 1] = IF units[k + 1] = l THEN 1 ELSE 0
    <3>1. k + 1 \in 1 .. n
      BY <2>1
    <3>2. SumTo(one, k) = Cardinality(those(k)) /\ IsFiniteSet(those(k))
      <4> HIDE DEF one, those
      <4> QED
        BY <1>2, <2>1
    <3>3. SumTo(one, k + 1) = SumTo(one, k) + one[k + 1]
      BY SumToStep
    <3> QED
      BY <3>1, <3>2, <3>3
  <2>3. those(k + 1) = IF units[k + 1] = l THEN those(k) \cup {k + 1} ELSE those(k)
    <3>1. \A i : i \in 1 .. k + 1 <=> i \in 1 .. k \/ i = k + 1
      OBVIOUS
    <3>2. CASE units[k + 1] = l
      <4>1. those(k + 1) = those(k) \cup {k + 1}
        BY <3>1, <3>2
      <4> QED
        BY <3>2, <4>1
    <3>3. CASE units[k + 1] # l
      <4>1. those(k + 1) = those(k)
        BY <3>1, <3>3
      <4> QED
        BY <3>3, <4>1
    <3> QED
      BY <3>2, <3>3
  <2>4. k + 1 \notin those(k)
    OBVIOUS
  <2> HIDE DEF those, one
  <2>5. Cardinality(those(k)) \in Nat
    BY <2>2, FS_CardinalityType
  <2> QED
    <3>1. CASE units[k + 1] = l
      <4>1. /\ IsFiniteSet(those(k) \cup {k + 1})
            /\ Cardinality(those(k) \cup {k + 1}) = Cardinality(those(k)) + 1
        BY <2>2, <2>4, FS_AddElement
      <4> QED
        BY <2>2, <2>3, <3>1, <4>1
    <3>2. CASE units[k + 1] # l
      BY <2>2, <2>3, <2>5, <3>2
    <3> QED
      BY <3>1, <3>2
<1> HIDE DEF T
<1>3. n \in T
  BY <1>1, <1>2, Induction
<1>4. SumTo(one, n) = Cardinality(those(n)) /\ IsFiniteSet(those(n))
  BY <1>3 DEF T
<1>5. UnitsOf(l, units) = SumTo(one, n)
  BY DEF UnitsOf, Sum
<1> QED
  BY <1>4, <1>5, FS_CardinalityType

(* What a group of an offer comes to.                                      *)
LEMMA GroupAmounts ==
  ASSUME PricingTypeOK, NEW m \in DOMAIN offers,
         NEW units \in Seq(EligibleLines(offers[m]))
  PROVE  /\ PricesOf(units) \in Seq(Nat) /\ Len(PricesOf(units)) = Len(units)
         /\ \A i \in 1 .. Len(units) : PricesOf(units)[i] = Price(units[i])
         /\ Saving(units, offers[m]) \in Int
         /\ Saving(units, offers[m]) <= Sum(PricesOf(units))
<1> DEFINE n == Len(units)
           b == offers[m]
           extra == [i \in 1 .. n |-> Surcharge(cart[units[i]].variant, b)]
<1>1. n \in Nat /\ DOMAIN units = 1 .. n /\ \A i \in 1 .. n : units[i] \in EligibleLines(b)
  OBVIOUS
<1>2. b.fixedTotal \in Nat /\ \A l \in EligibleLines(b) : Surcharge(cart[l].variant, b) \in Nat
  BY OfferTyped
<1> HIDE DEF b, n
<1>3. \A i \in 1 .. n : Price(units[i]) \in Nat
  BY <1>1, CartTyped DEF EligibleLines
<1>4. PricesOf(units) = [i \in 1 .. n |-> Price(units[i])]
  BY <1>1 DEF PricesOf
<1>5. PricesOf(units) \in Seq(Nat) /\ Len(PricesOf(units)) = n
  <2>1. PricesOf(units) \in [1 .. n -> Nat]
    BY <1>3, <1>4
  <2> QED
    BY <1>1, <2>1, SequenceOf
<1>6. Sum(PricesOf(units)) \in Nat
  <2>1. \A i \in 1 .. n : PricesOf(units)[i] \in Nat
    BY <1>3, <1>4
  <2> QED
    BY <1>1, <1>5, <2>1, SumToNat DEF Sum
<1>7. GroupTotal(units, b) \in Nat
  <2>1. \A i \in 1 .. n : extra[i] \in Nat
    BY <1>1, <1>2
  <2>2. extra \in [1 .. n -> Nat]
    BY <2>1
  <2> HIDE DEF extra
  <2>3. Len(extra) = n /\ SumTo(extra, n) \in Nat
    BY <1>1, <2>1, <2>2, SequenceOf, SumToNat
  <2>4. GroupTotal(units, b) = b.fixedTotal + Sum(extra)
    BY <1>1 DEF GroupTotal, extra
  <2> QED
    BY <1>2, <2>3, <2>4 DEF Sum
<1> QED
  BY <1>4, <1>5, <1>6, <1>7 DEF Saving, b, n

-----------------------------------------------------------------------------
(* What pricing keeps.                                                     *)

(* The units of a line that wait in the buckets.                           *)
WaitingOf(l) ==
  {x \in Unit : x[1] = l /\ \E k \in DOMAIN buckets : \E j \in 1 .. Len(buckets[k]) : x = buckets[k][j]}

(* No bucket has a unit that a group has.                                  *)
BucketsKept ==
  Building =>
    /\ ~Blocked(offers[turn]) /\ Sorted(offers[turn])
    /\ \A l \in DOMAIN cart :
         IsFiniteSet(WaitingOf(l)) /\ Cardinality(WaitingOf(l)) <= remaining[l]

(* An order is made once all is priced.                                    *)
OrderBegins ==
  /\ ~Priced => at = Start
  /\ at = Start => drafts = <<>>
  /\ at.line > Len(cart) => at.group = 1

(* Nothing about the cart and its offers changes but by AddUnit.           *)
LEMMA SameInput ==
  ASSUME UNCHANGED inputVars
  PROVE  /\ cart' = cart /\ offers' = offers /\ coupon' = coupon
         /\ \A l : Price(l)' = Price(l) /\ Model(l)' = Model(l)
         /\ Subtotal' = Subtotal /\ CouponIsApplied' = CouponIsApplied
         /\ \A b : /\ EligibleLines(b)' = EligibleLines(b) /\ Keys(b)' = Keys(b)
                   /\ Blocked(b)' = Blocked(b)
         /\ \A l, b : BucketKey(l, b)' = BucketKey(l, b)
<1>1. cart' = cart /\ offers' = offers /\ coupon' = coupon
  BY DEF inputVars
<1>2. \A l : Price(l)' = Price(l) /\ Model(l)' = Model(l)
  BY <1>1 DEF Price, Model
<1>3. Subtotal' = Subtotal
  BY <1>1, <1>2 DEF Subtotal, Price
<1>4. CouponIsApplied' = CouponIsApplied
  BY <1>1, <1>3 DEF CouponIsApplied
<1>5. \A b : EligibleLines(b)' = EligibleLines(b)
  BY <1>1 DEF EligibleLines
<1>6. \A l, b : BucketKey(l, b)' = BucketKey(l, b)
  BY <1>2 DEF BucketKey, Model
<1>7. \A b : Keys(b)' = Keys(b) /\ Blocked(b)' = Blocked(b)
  BY <1>1, <1>4, <1>5, <1>6 DEF Keys, Blocked, EligibleLines, BucketKey, Model
<1> QED
  BY <1>1, <1>2, <1>3, <1>4, <1>5, <1>6, <1>7

(* The group that is formed, and its amounts.                              *)
FormsGroup(units, b) ==
  /\ units \in Seq(EligibleLines(b)) /\ units \in Seq(DOMAIN cart)
  /\ Len(units) = b.size /\ DOMAIN units = 1 .. b.size
  /\ \A i \in 1 .. b.size : units[i] = Chosen(b)[i][1]
  /\ Saving(units, b) \in Nat

(* The shares of a discount: all of it, no unit's above its price.         *)
SharesAddUp(shares, units, discount) ==
  /\ shares \in Seq(Nat) /\ Len(shares) = Len(units) /\ Sum(shares) = discount
  /\ \A i \in 1 .. Len(units) : shares[i] <= Price(units[i])

(* The lines of the units chosen are as many as the offer asks for and     *)
(* eligible.                                                               *)
LEMMA GroupUnits ==
  ASSUME PricingTypeOK, BucketsKept, Building, Fillable(offers[turn]),
         NEW b, b = offers[turn], NEW units, units = LinesOf(Chosen(b))
  PROVE  /\ turn \in DOMAIN offers /\ Sorted(b) /\ b.size \in Nat /\ TakesUnits(b)
         /\ units = [i \in 1 .. b.size |-> Chosen(b)[i][1]]
         /\ units \in Seq(EligibleLines(b)) /\ Len(units) = b.size /\ DOMAIN units = 1 .. b.size
<1>1. /\ turn \in DOMAIN offers /\ Fillable(b) /\ Sorted(b) /\ b.size \in Nat
  BY BucketsTyped, OfferTyped DEF BucketsKept
<1>2. TakesUnits(b)
  BY <1>1, GroupTaken
<1>3. /\ Chosen(b) \in [1 .. b.size -> Unit]
      /\ \A i \in 1 .. b.size : \E k \in Keys(b) : \E j \in 1 .. Len(buckets[k]) :
           Chosen(b)[i] = buckets[k][j]
  BY <1>2 DEF TakesUnits
<1>4. \A i \in 1 .. b.size : Chosen(b)[i][1] \in EligibleLines(b)
  BY <1>1, <1>3 DEF Sorted
<1>5. DOMAIN Chosen(b) = 1 .. b.size /\ units = [i \in 1 .. b.size |-> Chosen(b)[i][1]]
  BY <1>3 DEF LinesOf
<1>6. units \in [1 .. b.size -> EligibleLines(b)]
  BY <1>4, <1>5
<1>7. units \in Seq(EligibleLines(b)) /\ Len(units) = b.size /\ DOMAIN units = 1 .. b.size
  BY <1>1, <1>6, SequenceOf
<1> QED
  BY <1>1, <1>2, <1>5, <1>7

(* The group that FormGroup forms, with its saving and its shares.         *)
LEMMA GroupFormed ==
  ASSUME PricingTypeOK, BucketsKept, Building, AnotherFits(offers[turn]),
         NEW b, b = offers[turn], NEW units, units = LinesOf(Chosen(b))
  PROVE  /\ FormsGroup(units, b) /\ TakesUnits(b)
         /\ SharesAddUp(AllocateDiscount(PricesOf(units), Saving(units, b)), units,
                        Saving(units, b))
<1>0. Fillable(b) /\ Saving(units, b) >= 0
  BY DEF AnotherFits
<1>1. /\ turn \in DOMAIN offers /\ Sorted(b) /\ b.size \in Nat /\ TakesUnits(b)
      /\ units = [i \in 1 .. b.size |-> Chosen(b)[i][1]]
  BY <1>0, GroupUnits
<1>6. units \in Seq(EligibleLines(b)) /\ Len(units) = b.size /\ DOMAIN units = 1 .. b.size
  BY <1>0, GroupUnits
<1>7. units \in Seq(DOMAIN cart)
  <2>1. EligibleLines(b) \subseteq DOMAIN cart
    BY DEF EligibleLines
  <2> QED
    BY <1>6, <2>1, SeqMonotonic
<1>8. /\ PricesOf(units) \in Seq(Nat) /\ Len(PricesOf(units)) = Len(units)
      /\ \A i \in 1 .. Len(units) : PricesOf(units)[i] = Price(units[i])
      /\ Saving(units, b) \in Int /\ Saving(units, b) <= Sum(PricesOf(units))
  BY <1>1, <1>6, GroupAmounts
<1> DEFINE d == Saving(units, b)
           p == PricesOf(units)
<1>9. d \in Nat
  BY <1>0, <1>8
<1> HIDE DEF d, p
<1>10. /\ AllocateDiscount(p, d) \in Seq(Nat) /\ Len(AllocateDiscount(p, d)) = Len(p)
       /\ \A i \in 1 .. Len(p) : AllocateDiscount(p, d)[i] <= p[i]
       /\ Sum(p) \in Nat
       /\ d \in 0 .. Sum(p) => Sum(AllocateDiscount(p, d)) = d
  BY <1>8, <1>9, AllocationAddsUp DEF p
<1>11. d \in 0 .. Sum(p)
  BY <1>8, <1>9, <1>10 DEF d, p
<1>12. FormsGroup(units, b)
  BY <1>1, <1>6, <1>7, <1>9 DEF FormsGroup, d
<1>13. SharesAddUp(AllocateDiscount(p, d), units, d)
  <2> DEFINE a == AllocateDiscount(p, d)
  <2> HIDE DEF a
  <2>1. /\ a \in Seq(Nat) /\ Len(a) = Len(units) /\ Sum(a) = d
        /\ \A i \in 1 .. Len(units) : a[i] <= p[i] /\ p[i] = Price(units[i])
    BY <1>8, <1>10, <1>11 DEF a, p
  <2> QED
    BY <2>1 DEF SharesAddUp, a
<1> QED
  BY <1>1, <1>12, <1>13 DEF d, p

(* A cart that is not priced yet.                                          *)
LEMMA PricingInitType == PricingInit => PricingTypeOK /\ BucketsKept /\ OrderBegins
<1> SUFFICES ASSUME PricingInit PROVE PricingTypeOK /\ BucketsKept /\ OrderBegins
  OBVIOUS
<1> DEFINE Line == [variant : DOMAIN Catalog, quantity : Nat \ {0}]
<1>1. cart \in Seq(Line) \ {<<>>} /\ offers \in Offers /\ coupon \in Coupons
  BY PricingAssumption DEF PricingAssumption, PricingInit
<1>2. \A l \in DOMAIN cart : cart[l].quantity \in Nat
  <2>1. \A x \in Line : x.quantity \in Nat
    OBVIOUS
  <2> HIDE DEF Line
  <2> QED
    BY <1>1, <2>1
<1>3. remaining \in [DOMAIN cart -> Int]
  BY <1>2 DEF PricingInit, Quantities
<1>4. Len(offers) \in Nat
  <2>1. offers \in Seq({offers[m] : m \in DOMAIN offers})
    BY <1>1, PricingAssumption DEF PricingAssumption
  <2> QED
    BY <2>1, LenProperties
<1>5. Len(cart) \in Nat /\ Len(cart) > 0
  <2> HIDE DEF Line
  <2> QED
    BY <1>1
<1>6. ~Building
  BY DEF PricingInit, Building
<1>7. /\ turn = 1 /\ turn \in 1 .. Len(offers) + 1
      /\ groups = <<>> /\ drafts = <<>> /\ Len(groups) = 0
      /\ at = Start /\ at.line = 1 /\ at.group = 1
      /\ at \in [line : 1 .. Len(cart) + 1, group : 1 .. Len(groups) + 1]
  BY <1>4, <1>5 DEF PricingInit, Start
<1>8. PricingTypeOK
  BY <1>1, <1>3, <1>6, <1>7 DEF PricingTypeOK
<1> QED
  BY <1>6, <1>7, <1>8 DEF BucketsKept, OrderBegins

(* The types of what changes seldom.                                       *)
LEMMA SameTypes ==
  ASSUME PricingTypeOK, UNCHANGED inputVars
  PROVE  /\ cart' \in Seq([variant : DOMAIN Catalog, quantity : Nat \ {0}]) \ {<<>>}
         /\ offers' \in Offers /\ coupon' \in Coupons
BY SameInput DEF PricingTypeOK

(* Buckets stay right when nothing about them changes.                     *)
LEMMA SameBuckets ==
  ASSUME BucketsKept, UNCHANGED <<inputVars, remaining, buckets, turn>>
  PROVE  BucketsKept'
<1>1. Building' = Building /\ offers' = offers /\ cart' = cart
  BY SameInput DEF Building
<1>2. \A l : WaitingOf(l)' = WaitingOf(l)
  BY <1>1 DEF WaitingOf, Unit
<1>3. Sorted(offers[turn])' = Sorted(offers[turn])
  BY <1>1, SameInput DEF Sorted
<1>4. Blocked(offers[turn])' = Blocked(offers[turn])
  BY <1>1, SameInput DEF Blocked
<1> QED
  BY <1>1, <1>2, <1>3, <1>4 DEF BucketsKept

(* Groups of a narrower range of offers.                                   *)
LEMMA GroupsMonotonic ==
  ASSUME PricingTypeOK, NEW t \in Nat, turn <= t
  PROVE  groups \in Seq([offer : 1 .. t, units : Seq(DOMAIN cart),
                         discount : Int, shares : Seq(Int)])
<1> DEFINE G(n) == [offer : 1 .. n, units : Seq(DOMAIN cart), discount : Int, shares : Seq(Int)]
<1>1. groups \in Seq(G(turn)) /\ turn \in Nat
  BY DEF PricingTypeOK
<1>2. G(turn) \subseteq G(t)
  <2>1. 1 .. turn \subseteq 1 .. t
    BY <1>1
  <2> QED
    BY <2>1
<1> HIDE DEF G
<1>3. groups \in Seq(G(t))
  BY <1>1, <1>2, SeqMonotonic
<1> QED
  BY <1>3 DEF G

(* The offer at work is one of the offers or the end of them.              *)
LEMMA TurnTyped ==
  ASSUME PricingTypeOK
  PROVE  turn \in Nat /\ Len(offers) \in Nat /\ turn <= Len(offers) + 1 /\ turn > 0
<1>1. offers \in Offers /\ turn \in 1 .. Len(offers) + 1
  BY DEF PricingTypeOK
<1>2. offers \in Seq({offers[m] : m \in DOMAIN offers})
  BY <1>1, PricingAssumption DEF PricingAssumption
<1>3. Len(offers) \in Nat
  BY <1>2, LenProperties
<1> QED
  BY <1>1, <1>3

(* Leaving an offer out or ending it keeps the types.                      *)
LEMMA EndTypes ==
  ASSUME PricingTypeOK, BucketsKept, OrderBegins, SkipOffer \/ EndOffer
  PROVE  PricingTypeOK' /\ BucketsKept' /\ OrderBegins'
<1>1. /\ UNCHANGED inputVars /\ turn' = turn + 1 /\ remaining' = remaining /\ ~Priced
      /\ groups' = groups /\ drafts' = drafts /\ at' = at
  BY DEF SkipOffer, EndOffer, orderVars, Building, Priced, PricingTypeOK, BucketsKept
<1>2. cart' = cart /\ offers' = offers
  BY <1>1, SameInput
<1>3. ~Building'
  BY DEF SkipOffer, EndOffer, BucketsKept, Building
<1>4. turn \in Nat /\ turn + 1 \in 1 .. Len(offers) + 1
  BY <1>1, TurnTyped DEF Priced
<1>5. groups \in Seq([offer : 1 .. turn + 1, units : Seq(DOMAIN cart),
                      discount : Int, shares : Seq(Int)])
  BY <1>4, GroupsMonotonic
<1>6. at = Start
  BY <1>1 DEF OrderBegins
<1>7. PricingTypeOK'
  BY <1>1, <1>2, <1>3, <1>4, <1>5, SameTypes DEF PricingTypeOK
<1> QED
  BY <1>1, <1>2, <1>3, <1>6, <1>7 DEF OrderBegins, BucketsKept, Start

(* New buckets have each unit that no group has, once and by its key.      *)
LEMMA BuildTypes ==
  ASSUME PricingTypeOK, BucketsKept, OrderBegins, UnitsGroupedOnce, BuildBuckets
  PROVE  PricingTypeOK' /\ BucketsKept' /\ OrderBegins'
<1> DEFINE b == offers[turn]
           units == UnitsOfLines(b, remaining)
<1>1. /\ UNCHANGED inputVars /\ turn' = turn /\ remaining' = remaining /\ ~Priced
      /\ groups' = groups /\ drafts' = drafts /\ at' = at
      /\ buckets' = [k \in Keys(b) |-> Bucket(k, units, b)] /\ ~Blocked(b)
  BY DEF BuildBuckets, orderVars
<1>2. cart' = cart /\ offers' = offers /\ Unit' = Unit
  BY <1>1, SameInput DEF Unit
<1>3. units \subseteq Unit /\ IsFiniteSet(units)
  BY UnitsTyped, UnitsFiniteToo DEF PricingTypeOK, Unit
<1> HIDE DEF b
<1>4. ASSUME NEW k \in Keys(b)
      PROVE  /\ buckets'[k] \in Seq(Unit)
             /\ \A i, j \in 1 .. Len(buckets'[k]) : buckets'[k][i] = buckets'[k][j] => i = j
             /\ \A i \in 1 .. Len(buckets'[k]) : buckets'[k][i] \in OfKey(k, units, b)
  <2> DEFINE q == Bucket(k, units, b)
  <2>1. /\ q \in Seq(OfKey(k, units, b)) /\ IsInjective(q)
        /\ OfKey(k, units, b) \subseteq Unit
    <3>1. units \subseteq (DOMAIN cart) \X (Nat \ {0})
      BY <1>3 DEF Unit
    <3>2. OfKey(k, units, b) \subseteq Unit
      BY <1>3 DEF OfKey
    <3> HIDE DEF units
    <3>3. Bucket(k, units, b) \in Seq(OfKey(k, units, b)) /\ IsInjective(Bucket(k, units, b))
      BY <1>3, <3>1, BucketUnits
    <3> QED
      BY <3>2, <3>3
  <2>2. buckets'[k] = q
    BY <1>1
  <2> HIDE DEF q, units, Unit
  <2>3. DOMAIN q = 1 .. Len(q) /\ q \in Seq(Unit) /\ \A i \in 1 .. Len(q) : q[i] \in OfKey(k, units, b)
    BY <2>1, LenProperties, SeqMonotonic
  <2> QED
    BY <2>1, <2>2, <2>3 DEF IsInjective
<1>5. turn <= Len(offers) /\ b = offers'[turn'] /\ Keys(b)' = Keys(b)
  BY <1>1, <1>2, TurnTyped, SameInput DEF Priced, b
<1>6. buckets' \in [Keys(b) -> Seq(Unit)]
  BY <1>1, <1>4
<1>7. PricingTypeOK'
  <2>1. buckets' \in [Keys(offers[turn])' -> Seq((DOMAIN cart') \X (Nat \ {0}))]
    BY <1>2, <1>5, <1>6 DEF Unit, b, Keys
  <2> QED
    BY <1>1, <1>2, <1>5, <2>1, SameTypes DEF PricingTypeOK
<1>8. OrderBegins'
  BY <1>1, <1>2 DEF OrderBegins, Priced
<1>9. Blocked(offers[turn])' = FALSE
  BY <1>1, <1>2, SameInput DEF b, Blocked
<1>10. Sorted(offers[turn])'
  <2>1. \A x \in units : x[1] \in EligibleLines(b)
    BY DEF UnitsOfLines
  <2>2. \A k \in Keys(b) :
         /\ \A i, j \in 1 .. Len(buckets'[k]) : buckets'[k][i] = buckets'[k][j] => i = j
         /\ \A i \in 1 .. Len(buckets'[k]) : /\ buckets'[k][i][1] \in EligibleLines(b)
                                            /\ BucketKey(buckets'[k][i][1], b) = k
    BY <1>4, <2>1 DEF OfKey
  <2> QED
    BY <1>1, <1>2, <1>5, <2>2, SameInput DEF Sorted, b
<1>11. ASSUME NEW l \in DOMAIN cart
       PROVE  IsFiniteSet(WaitingOf(l)') /\ Cardinality(WaitingOf(l)') <= remaining[l]
  <2> DEFINE n == remaining[l]
             W == WaitingOf(l)'
  <2>1. n \in Nat
    BY DEF PricingTypeOK, UnitsGroupedOnce
  <2>2. W \in SUBSET ({l} \X (1 .. n))
    <3>1. ASSUME NEW x \in W PROVE x \in units /\ x[1] = l /\ x \in Unit
      <4>1. DOMAIN buckets' = Keys(b)
        BY <1>1
      <4>2. PICK k \in Keys(b) : \E j \in 1 .. Len(buckets'[k]) : x = buckets'[k][j]
        BY <4>1 DEF WaitingOf
      <4>3. x \in OfKey(k, units, b)
        BY <1>4, <4>2
      <4> QED
        BY <1>2, <4>3 DEF OfKey, WaitingOf
    <3>2. \A x \in units : x[1] = l => x[2] \in 1 .. n
      BY DEF UnitsOfLines
    <3> HIDE DEF W, n, units
    <3> QED
      BY <3>1, <3>2 DEF Unit
  <2> HIDE DEF W, n
  <2>3. IsFiniteSet({l} \X (1 .. n)) /\ Cardinality({l} \X (1 .. n)) = n
    BY <2>1, OwnUnits
  <2>4. IsFiniteSet(W) /\ Cardinality(W) <= n
    BY <2>2, <2>3, FS_Subset
  <2> QED
    BY <2>4 DEF W, n
<1> QED
  BY <1>1, <1>2, <1>7, <1>8, <1>9, <1>10, <1>11 DEF BucketsKept

(* What the groups have of a line.                                         *)
LEMMA ConsumedTyped ==
  ASSUME PricingTypeOK, NEW l
  PROVE  /\ Len(groups) \in Nat /\ DOMAIN groups = 1 .. Len(groups)
         /\ \A i \in 1 .. Len(groups) :
              /\ groups[i].units \in Seq(DOMAIN cart)
              /\ groups[i].offer \in 1 .. turn /\ groups[i].discount \in Int
              /\ groups[i].shares \in Seq(Int)
              /\ UnitsOf(l, groups[i].units) \in Nat
         /\ Consumed(l) = SumTo([i \in 1 .. Len(groups) |-> UnitsOf(l, groups[i].units)], Len(groups))
         /\ Consumed(l) \in Nat
<1> DEFINE G == [offer : 1 .. turn, units : Seq(DOMAIN cart), discount : Int, shares : Seq(Int)]
           n == Len(groups)
           f == [i \in 1 .. n |-> UnitsOf(l, groups[i].units)]
<1>1. groups \in Seq(G)
  BY DEF PricingTypeOK
<1>2. \A g \in G : /\ g.units \in Seq(DOMAIN cart) /\ g.offer \in 1 .. turn
                   /\ g.discount \in Int /\ g.shares \in Seq(Int)
  OBVIOUS
<1> HIDE DEF G
<1>3. n \in Nat /\ DOMAIN groups = 1 .. n /\ \A i \in 1 .. n : groups[i] \in G
  BY <1>1
<1> HIDE DEF n
<1>4. ASSUME NEW i \in 1 .. n PROVE UnitsOf(l, groups[i].units) \in Nat
  <2> DEFINE u == groups[i].units
  <2>1. u \in Seq(DOMAIN cart)
    BY <1>2, <1>3
  <2> HIDE DEF u
  <2>2. Len(u) \in Nat /\ DOMAIN u = 1 .. Len(u)
    BY <2>1, LenProperties
  <2> QED
    BY <2>2, Counted DEF u
<1>5. Consumed(l) = SumTo(f, n)
  <2>1. Consumed(l) = Sum(f)
    BY <1>3 DEF Consumed
  <2>2. f \in [1 .. n -> Nat]
    BY <1>4
  <2> HIDE DEF f
  <2>3. Len(f) = n
    BY <1>3, <2>2, SequenceOf
  <2> QED
    BY <2>1, <2>3 DEF Sum
<1>6. SumTo(f, n) \in Nat
  BY <1>3, <1>4, SumToNat
<1> QED
  BY <1>2, <1>3, <1>4, <1>5, <1>6 DEF n

(* A group more has its units of a line more.                              *)
LEMMA ConsumedGrows ==
  ASSUME PricingTypeOK, NEW l, NEW g, groups' = Append(groups, g), UnitsOf(l, g.units) \in Nat
  PROVE  Consumed(l)' = Consumed(l) + UnitsOf(l, g.units)
<1> DEFINE n == Len(groups)
           f == [i \in 1 .. n |-> UnitsOf(l, groups[i].units)]
           h == [i \in 1 .. n + 1 |-> UnitsOf(l, groups'[i].units)]
<1>1. /\ n \in Nat /\ DOMAIN groups = 1 .. n
      /\ \A i \in 1 .. n : UnitsOf(l, groups[i].units) \in Nat
  BY ConsumedTyped
<1>2. /\ DOMAIN groups' = 1 .. n + 1 /\ groups'[n + 1] = g
      /\ \A i \in 1 .. n : groups'[i] = groups[i]
  BY DEF PricingTypeOK
<1> HIDE DEF n
<1>3. f \in [1 .. n -> Int]
  BY <1>1
<1>4. h \in [1 .. n + 1 -> Int]
  <2>1. \A i \in 1 .. n + 1 : i \in 1 .. n \/ i = n + 1
    BY <1>1
  <2> QED
    BY <1>1, <1>2, <2>1
<1>5. \A i \in 1 .. n : h[i] = f[i]
  BY <1>1, <1>2
<1>6. h[n + 1] = UnitsOf(l, g.units)
  BY <1>1, <1>2
<1>7. Consumed(l) = Sum(f) /\ Consumed(l)' = Sum(h)
  BY <1>1, <1>2 DEF Consumed, UnitsOf
<1> HIDE DEF f, h
<1> QED
  BY <1>1, <1>3, <1>4, <1>5, <1>6, <1>7, SumGrows

(* A group's units leave the buckets.                                      *)
LEMMA UnitsLeave ==
  ASSUME NEW b, NEW units, FormsGroup(units, b), TakesUnits(b), b.size \in Nat,
         DOMAIN buckets = Keys(b), UNCHANGED inputVars, buckets' = Taken(b),
         NEW l \in DOMAIN cart, IsFiniteSet(WaitingOf(l))
  PROVE  /\ UnitsOf(l, units) \in Nat
         /\ IsFiniteSet(WaitingOf(l)')
         /\ Cardinality(WaitingOf(l)') \in Nat
         /\ Cardinality(WaitingOf(l)') + UnitsOf(l, units) <= Cardinality(WaitingOf(l))
<1> DEFINE c == Chosen(b)
           those == {i \in 1 .. b.size : units[i] = l}
           T == {c[i] : i \in those}
           onto == [i \in those |-> c[i]]
           W == WaitingOf(l)
           V == WaitingOf(l)'
<1>1. FormsGroup(units, b) /\ TakesUnits(b) /\ b.size \in Nat /\ DOMAIN buckets = Keys(b)
  OBVIOUS
<1>2. /\ IsFiniteSet(those) /\ UnitsOf(l, units) = Cardinality(those)
      /\ UnitsOf(l, units) \in Nat
  <2>1. DOMAIN units = 1 .. b.size
    BY <1>1 DEF FormsGroup
  <2> QED
    BY <2>1, Counted
<1>3. /\ \A i \in 1 .. b.size : c[i] \in Unit /\ units[i] = c[i][1]
      /\ \A i, j \in 1 .. b.size : c[i] = c[j] => i = j
  BY <1>1 DEF TakesUnits, FormsGroup
<1>4. T \subseteq W
  <2>1. ASSUME NEW i \in those PROVE c[i] \in W
    <3>1. PICK k \in Keys(b) : \E j \in 1 .. Len(buckets[k]) : c[i] = buckets[k][j]
      BY <1>1 DEF TakesUnits
    <3> QED
      BY <1>1, <1>3, <3>1 DEF WaitingOf
  <2> HIDE DEF W, those
  <2> QED
    BY <2>1
<1>5. V \subseteq W \ T
  <2>1. ASSUME NEW x \in V PROVE x \in W /\ x \notin T
    <3>1. DOMAIN buckets' = Keys(b) /\ Unit' = Unit /\ buckets' = Taken(b)
      BY <1>1, SameInput DEF TakesUnits, Unit
    <3>2. PICK k \in Keys(b) : \E j \in 1 .. Len(Taken(b)[k]) : x = Taken(b)[k][j]
      BY <3>1 DEF WaitingOf
    <3>3. /\ \E j \in 1 .. Len(buckets[k]) : x = buckets[k][j]
          /\ \A j \in 1 .. b.size : x # c[j]
      <4>1. PICK i \in 1 .. Len(Taken(b)[k]) : x = Taken(b)[k][i]
        BY <3>2
      <4>2. /\ \E j \in 1 .. Len(buckets[k]) : Taken(b)[k][i] = buckets[k][j]
            /\ \A j \in 1 .. b.size : Taken(b)[k][i] # Chosen(b)[j]
        BY <1>1 DEF TakesUnits
      <4> HIDE DEF c
      <4>3. \A j \in 1 .. b.size : c[j] = Chosen(b)[j]
        BY DEF c
      <4> QED
        BY <4>1, <4>2, <4>3
    <3>4. x \in Unit /\ x[1] = l
      BY <3>1 DEF WaitingOf
    <3>5. x \in W
      BY <1>1, <3>3, <3>4 DEF WaitingOf
    <3> QED
      BY <3>3, <3>5
  <2> HIDE DEF V, W, T
  <2> QED
    BY <2>1
<1>6. Cardinality(T) = Cardinality(those)
  <2>1. onto \in Bijection(those, T)
    BY <1>3 DEF Bijection, Injection, Surjection, IsInjective
  <2> HIDE DEF onto, T, those
  <2> QED
    BY <1>2, <2>1, FS_Bijection DEF ExistsBijection
<1>7. IsFiniteSet(W)
  OBVIOUS
<1> HIDE DEF W, V, T, those
<1>8. /\ IsFiniteSet(W \ T) /\ Cardinality(W \ T) = Cardinality(W) - Cardinality(W \cap T)
      /\ W \cap T = T
  BY <1>4, <1>7, FS_Difference
<1>9. IsFiniteSet(V) /\ Cardinality(V) <= Cardinality(W \ T)
  BY <1>5, <1>8, FS_Subset
<1>10. Cardinality(V) \in Nat /\ Cardinality(W) \in Nat
  BY <1>7, <1>9, FS_CardinalityType
<1> QED
  BY <1>2, <1>6, <1>8, <1>9, <1>10 DEF V, W

(* A group takes its units from the buckets and from what remains, and the *)
(* sum of both stays what the guest put into the cart.                     *)
LEMMA FormTypes ==
  ASSUME PricingTypeOK, BucketsKept, OrderBegins, UnitsGroupedOnce, FormGroup
  PROVE  PricingTypeOK' /\ BucketsKept' /\ OrderBegins' /\ UnitsGroupedOnce'
<1> DEFINE b == offers[turn]
           units == LinesOf(Chosen(b))
           saving == Saving(units, b)
           shares == AllocateDiscount(PricesOf(units), saving)
           g == [offer |-> turn, units |-> units, discount |-> saving, shares |-> shares]
<1>1. /\ UNCHANGED inputVars /\ turn' = turn /\ Building /\ AnotherFits(b)
      /\ groups' = Append(groups, g) /\ drafts' = drafts /\ at' = at
      /\ buckets' = Taken(b)
      /\ remaining' = [l \in DOMAIN remaining |-> remaining[l] - UnitsOf(l, units)]
  BY DEF FormGroup, orderVars
<1>2. cart' = cart /\ offers' = offers /\ Unit' = Unit
  BY <1>1, SameInput DEF Unit
<1>3. /\ FormsGroup(units, b) /\ TakesUnits(b) /\ SharesAddUp(shares, units, saving)
      /\ turn \in DOMAIN offers /\ b.size \in Nat
  BY <1>1, GroupFormed, BucketsTyped, OfferTyped
<1>4. turn \in Nat /\ turn > 0 /\ turn <= Len(offers)
  BY <1>1, TurnTyped DEF PricingTypeOK
<1> DEFINE G == [offer : 1 .. turn, units : Seq(DOMAIN cart), discount : Int, shares : Seq(Int)]
<1>5. groups' \in Seq(G) /\ Len(groups') = Len(groups) + 1 /\ Len(groups) \in Nat
  <2>1. units \in Seq(DOMAIN cart) /\ saving \in Int /\ shares \in Seq(Int)
    BY <1>3, SeqMonotonic DEF FormsGroup, SharesAddUp
  <2>2. g \in G
    <3> HIDE DEF units, saving, shares
    <3> QED
      BY <1>4, <2>1
  <2>3. groups \in Seq(G)
    BY DEF PricingTypeOK
  <2> HIDE DEF G, g
  <2> QED
    BY <1>1, <2>2, <2>3, AppendProperties, LenProperties
<1> HIDE DEF b, units, saving, shares, g
<1>6. ASSUME NEW l \in DOMAIN cart
      PROVE  /\ remaining'[l] = remaining[l] - UnitsOf(l, units) /\ UnitsOf(l, units) \in Nat
             /\ IsFiniteSet(WaitingOf(l)') /\ Cardinality(WaitingOf(l)') <= remaining'[l]
             /\ remaining'[l] \in Nat
  <2>1. /\ UnitsOf(l, units) \in Nat /\ IsFiniteSet(WaitingOf(l)') /\ Cardinality(WaitingOf(l)') \in Nat
        /\ Cardinality(WaitingOf(l)') + UnitsOf(l, units) <= Cardinality(WaitingOf(l))
    <3>1. DOMAIN buckets = Keys(b) /\ IsFiniteSet(WaitingOf(l))
      BY <1>1, BucketsTyped DEF BucketsKept, b
    <3> QED
      BY <1>1, <1>3, <3>1, UnitsLeave
  <2>2. /\ IsFiniteSet(WaitingOf(l)) /\ Cardinality(WaitingOf(l)) <= remaining[l]
        /\ remaining[l] \in Int /\ DOMAIN remaining = DOMAIN cart
    BY <1>1 DEF BucketsKept, PricingTypeOK
  <2>3. Cardinality(WaitingOf(l)) \in Nat
    BY <2>2, FS_CardinalityType
  <2>4. remaining'[l] = remaining[l] - UnitsOf(l, units)
    BY <1>1, <2>2
  <2> QED
    BY <2>1, <2>2, <2>3, <2>4
<1>7. remaining' \in [DOMAIN cart -> Int]
  <2>1. DOMAIN remaining = DOMAIN cart /\ remaining' = [l \in DOMAIN cart |-> remaining'[l]]
    BY <1>1 DEF PricingTypeOK
  <2> QED
    BY <1>6, <2>1
<1>8. buckets' \in [Keys(b) -> Seq(Unit)] /\ b = offers'[turn'] /\ Keys(b)' = Keys(b)
  BY <1>1, <1>2, <1>3, SameInput DEF TakesUnits, b
<1>9. PricingTypeOK'
  <2>1. buckets' \in [Keys(offers[turn])' -> Seq((DOMAIN cart') \X (Nat \ {0}))]
    BY <1>1, <1>2, <1>8 DEF Unit, b, Keys
  <2>2. at' \in [line : 1 .. Len(cart') + 1, group : 1 .. Len(groups') + 1]
    <3>1. at \in [line : 1 .. Len(cart) + 1, group : 1 .. Len(groups) + 1]
      BY DEF PricingTypeOK
    <3>2. 1 .. Len(groups) + 1 \subseteq 1 .. Len(groups') + 1
      BY <1>5
    <3> QED
      BY <1>1, <1>2, <3>1, <3>2
  <2> QED
    BY <1>1, <1>2, <1>4, <1>5, <1>7, <2>1, <2>2, SameTypes DEF PricingTypeOK
<1>10. OrderBegins'
  BY <1>1, <1>2 DEF OrderBegins, Priced
<1>11. ~Blocked(offers[turn])'
  BY <1>1, <1>2, SameInput DEF b, BucketsKept
<1>12. Sorted(offers[turn])'
  <2>1. ASSUME NEW k \in Keys(b)
        PROVE  /\ \A i, j \in 1 .. Len(buckets'[k]) : buckets'[k][i] = buckets'[k][j] => i = j
               /\ \A i \in 1 .. Len(buckets'[k]) : /\ buckets'[k][i][1] \in EligibleLines(b)
                                                  /\ BucketKey(buckets'[k][i][1], b) = k
    <3>1. /\ \A i, j \in 1 .. Len(buckets'[k]) : buckets'[k][i] = buckets'[k][j] => i = j
          /\ \A i \in 1 .. Len(buckets'[k]) : \E j \in 1 .. Len(buckets[k]) : buckets'[k][i] = buckets[k][j]
      <4>1. buckets'[k] = Taken(b)[k]
        BY <1>1
      <4> DEFINE t == Taken(b)[k]
      <4>2. /\ \A i, j \in 1 .. Len(t) : t[i] = t[j] => i = j
            /\ \A i \in 1 .. Len(t) : \E j \in 1 .. Len(buckets[k]) : t[i] = buckets[k][j]
        BY <1>3, Zenon DEF TakesUnits
      <4> HIDE DEF t
      <4>3. buckets'[k] = t
        BY <4>1 DEF t
      <4> QED
        BY <4>2, <4>3
    <3>2. \A j \in 1 .. Len(buckets[k]) : /\ buckets[k][j][1] \in EligibleLines(b)
                                          /\ BucketKey(buckets[k][j][1], b) = k
      BY <1>1 DEF BucketsKept, Sorted, b
    <3> QED
      BY <3>1, <3>2
  <2> QED
    BY <1>1, <1>2, <1>8, <2>1, SameInput DEF Sorted, b
<1>13. UnitsGroupedOnce'
  <2>1. ASSUME NEW l \in DOMAIN cart PROVE Consumed(l)' = Consumed(l) + UnitsOf(l, units)
    <3>1. g.units = units
      BY DEF g
    <3>2. groups' = Append(groups, g) /\ UnitsOf(l, g.units) \in Nat
      BY <1>1, <1>6, <3>1
    <3>3. Consumed(l)' = Consumed(l) + UnitsOf(l, g.units)
      BY <3>2, ConsumedGrows
    <3> QED
      BY <3>1, <3>3
  <2>2. \A l \in DOMAIN cart : /\ Consumed(l) \in Nat /\ remaining[l] \in Int
                               /\ Consumed(l) + remaining[l] = cart[l].quantity
    BY ConsumedTyped DEF UnitsGroupedOnce, PricingTypeOK
  <2>3. ASSUME NEW l \in DOMAIN cart
        PROVE  remaining'[l] >= 0 /\ Consumed(l)' + remaining'[l] = cart[l].quantity
    BY <1>6, <2>1, <2>2
  <2> QED
    BY <1>2, <2>3 DEF UnitsGroupedOnce
<1> QED
  BY <1>1, <1>2, <1>6, <1>9, <1>10, <1>11, <1>12, <1>13 DEF BucketsKept

(* The groups stay, and what they have.                                    *)
LEMMA SameGroups ==
  ASSUME UNCHANGED <<inputVars, remaining, groups>>
  PROVE  UnitsGroupedOnce => UnitsGroupedOnce'
<1>1. cart' = cart /\ remaining' = remaining /\ groups' = groups
  BY SameInput
<1>2. \A l : Consumed(l)' = Consumed(l)
  BY <1>1 DEF Consumed, UnitsOf
<1> QED
  BY <1>1, <1>2 DEF UnitsGroupedOnce

(* No group, no unit of one.                                               *)
LEMMA NothingConsumed ==
  (groups = <<>> => \A l : Consumed(l) = 0) /\ (groups' = <<>> => \A l : Consumed(l)' = 0)
<1>1. \A s : SumTo(s, 0) = 0
  BY SumToStep
<1>2. Sum(<<>>) = 0
  BY <1>1 DEF Sum
<1>3. ASSUME groups = <<>> PROVE \A l : Consumed(l) = 0
  <2>1. \A l : [i \in DOMAIN groups |-> UnitsOf(l, groups[i].units)] = <<>>
    BY <1>3
  <2> QED
    BY <1>2, <2>1 DEF Consumed
<1>4. ASSUME groups' = <<>> PROVE \A l : Consumed(l)' = 0
  <2>1. \A l : [i \in DOMAIN groups' |-> UnitsOf(l, groups'[i].units)] = <<>>
    BY <1>4
  <2> QED
    BY <1>2, <2>1 DEF Consumed, UnitsOf
<1> QED
  BY <1>3, <1>4

(* What is shown changes nothing of it.                                    *)
LEMMA ShowTypes ==
  ASSUME PricingTypeOK, BucketsKept, OrderBegins, UnitsGroupedOnce, Show
  PROVE  PricingTypeOK' /\ BucketsKept' /\ OrderBegins' /\ UnitsGroupedOnce'
<1>1. /\ UNCHANGED inputVars /\ turn' = turn /\ remaining' = remaining
      /\ groups' = groups /\ drafts' = drafts /\ at' = at /\ buckets' = buckets
  BY DEF Show, orderVars
<1>2. cart' = cart /\ offers' = offers
  BY <1>1, SameInput
<1>3. PricingTypeOK'
  <2> DEFINE b == offers[turn]
  <2>1. b' = b /\ Keys(b)' = Keys(b) /\ Building' = Building
    BY <1>1, <1>2, SameInput DEF Building
  <2> QED
    BY <1>1, <1>2, <2>1, SameTypes DEF PricingTypeOK
<1>4. OrderBegins'
  BY <1>1, <1>2 DEF OrderBegins, Priced
<1> QED
  BY <1>1, <1>3, <1>4, SameBuckets, SameGroups

(* A unit of v more, on line j.                                            *)
IsWith(c, d, v, j) ==
  /\ Len(d) \in Nat /\ DOMAIN d = 1 .. Len(d) /\ j \in 1 .. Len(d) /\ d[j].variant = v
  /\ Len(d) = Len(c) \/ (Len(d) = Len(c) + 1 /\ j = Len(d))
  /\ \A l \in 1 .. Len(c) : d[l].variant = c[l].variant
  /\ \A l \in 1 .. Len(d) :
       d[l].quantity = (IF l <= Len(c) THEN c[l].quantity ELSE 0) + (IF l = j THEN 1 ELSE 0)

(* A cart with one unit more is a cart.                                    *)
LEMMA WithOne ==
  ASSUME PricingTypeOK, NEW v \in DOMAIN Catalog
  PROVE  /\ With(cart, v) \in Seq([variant : DOMAIN Catalog, quantity : Nat \ {0}]) \ {<<>>}
         /\ \E j \in Nat : IsWith(cart, With(cart, v), v, j)
<1> DEFINE Line == [variant : DOMAIN Catalog, quantity : Nat \ {0}]
           one == [variant |-> v, quantity |-> 1]
           n == Len(cart)
           lines == {l \in DOMAIN cart : cart[l].variant = v /\ ~Catalog[v].personalizable}
           line == CHOOSE l \in lines : TRUE
           f == [cart EXCEPT ![line].quantity = @ + 1]
           g == Append(cart, one)
<1>1. cart \in Seq(Line) \ {<<>>}
  BY DEF PricingTypeOK
<1>2. one \in Line /\ \A x \in Line : [x EXCEPT !.quantity = @ + 1] \in Line
  OBVIOUS
<1>3. one.variant = v /\ one.quantity = 1
  OBVIOUS
<1>4. With(cart, v) = IF lines = {} THEN g ELSE f
  BY DEF With
<1>5. lines # {} => line \in lines
  OBVIOUS
<1>6. line \in lines => line \in DOMAIN cart /\ cart[line].variant = v
  OBVIOUS
<1> HIDE DEF one, lines, line
<1>7. n \in Nat /\ n > 0 /\ DOMAIN cart = 1 .. n /\ \A l \in 1 .. n : cart[l] \in Line
  <2> HIDE DEF Line
  <2> QED
    BY <1>1
<1>8. /\ g \in Seq(Line) \ {<<>>} /\ Len(g) = n + 1 /\ DOMAIN g = 1 .. n + 1 /\ g[n + 1] = one
      /\ \A l \in 1 .. n : g[l] = cart[l]
  <2>0. cart \in Seq(Line) /\ one \in Line
    BY <1>1, <1>2
  <2> HIDE DEF Line
  <2>1. /\ Append(cart, one) \in Seq(Line) /\ Len(Append(cart, one)) = Len(cart) + 1
        /\ \A l \in 1 .. Len(cart) : Append(cart, one)[l] = cart[l]
        /\ Append(cart, one)[Len(cart) + 1] = one
    BY <2>0, AppendProperties
  <2>2. g \in Seq(Line) /\ Len(g) = n + 1 /\ g[n + 1] = one /\ \A l \in 1 .. n : g[l] = cart[l]
    BY <2>1
  <2> HIDE DEF g, n
  <2>3. DOMAIN g = 1 .. n + 1 /\ g # <<>>
    BY <1>7, <2>2
  <2> QED
    BY <2>2, <2>3
<1>9. IsWith(cart, g, v, n + 1)
  <2>1. /\ n + 1 \in Nat /\ n + 1 \in 1 .. n + 1 /\ \A l \in 1 .. n : l # n + 1 /\ l <= n
        /\ ~(n + 1 <= n) /\ \A l \in 1 .. n + 1 : l \in 1 .. n \/ l = n + 1
    <3>1. n \in Nat
      BY <1>7
    <3> HIDE DEF n
    <3> QED
      BY <3>1
  <2>2. \A l \in 1 .. n : cart[l].quantity \in Nat /\ cart[l].quantity + 0 = cart[l].quantity
    BY <1>7 DEF Line
  <2> HIDE DEF g, Line
  <2>3. \A l \in 1 .. n + 1 :
          g[l].quantity = (IF l <= n THEN cart[l].quantity ELSE 0) + (IF l = n + 1 THEN 1 ELSE 0)
    <3>1. ASSUME NEW l \in 1 .. n
          PROVE  g[l].quantity = (IF l <= n THEN cart[l].quantity ELSE 0) + (IF l = n + 1 THEN 1 ELSE 0)
      BY <1>8, <2>1, <2>2
    <3>2. g[n + 1].quantity = (IF n + 1 <= n THEN cart[n + 1].quantity ELSE 0)
                                + (IF n + 1 = n + 1 THEN 1 ELSE 0)
      BY <1>3, <1>8, <2>1
    <3> QED
      BY <2>1, <3>1, <3>2
  <2>4. Len(g) = n + 1 /\ DOMAIN g = 1 .. n + 1 /\ g[n + 1].variant = v
        /\ \A l \in 1 .. n : g[l].variant = cart[l].variant
    BY <1>3, <1>8
  <2> QED
    BY <2>1, <2>3, <2>4 DEF IsWith
<1>10. ASSUME line \in DOMAIN cart, cart[line].variant = v
       PROVE  f \in Seq(Line) \ {<<>>} /\ IsWith(cart, f, v, line)
  <2>1. /\ DOMAIN f = 1 .. n /\ f[line] = [cart[line] EXCEPT !.quantity = @ + 1]
        /\ \A l \in 1 .. n : l # line => f[l] = cart[l]
    BY <1>7, <1>10
  <2>2. \A l \in 1 .. n : f[l] \in Line
    BY <1>2, <1>7, <1>10, <2>1
  <2>3. f \in [1 .. n -> Line]
    BY <2>1, <2>2
  <2> HIDE DEF f
  <2>4. f \in Seq(Line) /\ Len(f) = n
    BY <1>7, <2>3, SequenceOf
  <2>5. /\ f[line].variant = v /\ f[line].quantity = cart[line].quantity + 1
        /\ \A l \in 1 .. n : cart[l].quantity \in Nat
    BY <1>7, <1>10, <2>1
  <2> HIDE DEF Line
  <2>6. ASSUME NEW l \in 1 .. n
        PROVE  /\ f[l].variant = cart[l].variant
               /\ f[l].quantity = (IF l <= n THEN cart[l].quantity ELSE 0) + (IF l = line THEN 1 ELSE 0)
    <3>1. l <= n /\ cart[l].quantity \in Nat
      BY <1>7, <2>5
    <3>2. CASE l = line
      BY <1>10, <2>5, <3>1, <3>2
    <3>3. CASE l # line
      <4>1. f[l] = cart[l]
        BY <2>1, <3>3
      <4> QED
        BY <3>1, <3>3, <4>1
    <3> QED
      BY <3>2, <3>3
  <2>7. f # <<>>
    BY <1>7, <2>1
  <2> QED
    BY <1>7, <1>10, <2>1, <2>4, <2>5, <2>6, <2>7 DEF IsWith
<1> HIDE DEF f, g
<1>11. CASE lines = {}
  <2>1. n + 1 \in Nat /\ With(cart, v) = g
    BY <1>4, <1>7, <1>11
  <2> QED
    BY <1>8, <1>9, <2>1 DEF Line
<1>12. CASE lines # {}
  <2>1. /\ line \in DOMAIN cart /\ cart[line].variant = v /\ line \in Nat
        /\ With(cart, v) = f
    BY <1>4, <1>5, <1>6, <1>7, <1>12
  <2> QED
    BY <1>10, <2>1 DEF Line
<1> QED
  BY <1>11, <1>12

(* What the groups keep.                                                   *)
KeepsTerms(g, b) ==
  /\ g.units \in Seq(EligibleLines(b)) /\ Len(g.units) = b.size
  /\ DOMAIN g.units = 1 .. b.size /\ b.size \in Nat
  /\ b.differentModels =>
       \A u, w \in 1 .. b.size : Model(g.units[u]) = Model(g.units[w]) => u = w
  /\ g.discount \in Nat /\ SharesAddUp(g.shares, g.units, g.discount)
  /\ ~Blocked(b)

(* And of all groups: an offer that is not repeatable has one at most.     *)
GroupsKept ==
  \A i \in DOMAIN groups :
    /\ KeepsTerms(groups[i], offers[groups[i].offer])
    /\ ~offers[groups[i].offer].repeatable =>
         \A j \in DOMAIN groups : groups[j].offer = groups[i].offer => j = i

(* Nothing of it depends on more than the input.                           *)
LEMMA SameTerms ==
  ASSUME UNCHANGED inputVars, NEW g, NEW b
  PROVE  KeepsTerms(g, b)' <=> KeepsTerms(g, b)
<1>1. /\ \A l : Price(l)' = Price(l) /\ Model(l)' = Model(l)
      /\ EligibleLines(b)' = EligibleLines(b) /\ Blocked(b)' = Blocked(b)
  BY SameInput
<1>2. SharesAddUp(g.shares, g.units, g.discount)' <=> SharesAddUp(g.shares, g.units, g.discount)
  BY <1>1 DEF SharesAddUp
<1> QED
  BY <1>1, <1>2 DEF KeepsTerms

(* Groups that stay keep their terms.                                      *)
LEMMA GroupsStay ==
  ASSUME GroupsKept, UNCHANGED <<inputVars, groups>>
  PROVE  GroupsKept'
<1>1. offers' = offers /\ groups' = groups
  BY SameInput
<1>2. \A g, b : KeepsTerms(g, b)' <=> KeepsTerms(g, b)
  BY SameTerms
<1> QED
  BY <1>1, <1>2 DEF GroupsKept

(* A new group has its terms, and the others keep theirs.                  *)
LEMMA FormGroupKeeps ==
  ASSUME PricingTypeOK, BucketsKept, GroupsKept, FormGroup
  PROVE  GroupsKept'
<1> DEFINE b == offers[turn]
           units == LinesOf(Chosen(b))
           saving == Saving(units, b)
           shares == AllocateDiscount(PricesOf(units), saving)
           g == [offer |-> turn, units |-> units, discount |-> saving, shares |-> shares]
           n == Len(groups)
<1>1. /\ UNCHANGED inputVars /\ Building /\ AnotherFits(b) /\ groups' = Append(groups, g)
  BY DEF FormGroup
<1>2. /\ FormsGroup(units, b) /\ TakesUnits(b) /\ SharesAddUp(shares, units, saving)
      /\ b.size \in Nat /\ ~Blocked(b)
  BY <1>1, GroupFormed, BucketsTyped, OfferTyped DEF BucketsKept
<1>3. b.repeatable \/ Formed(turn) = {}
  BY <1>1 DEF AnotherFits
<1>4. \A i, j \in 1 .. b.size :
        b.differentModels /\ Model(units[i]) = Model(units[j]) => i = j
  BY <1>2 DEF TakesUnits, FormsGroup
<1> HIDE DEF units, saving, shares
<1>5. KeepsTerms(g, b)
  BY <1>2, <1>4 DEF KeepsTerms, FormsGroup, saving
<1>6. g.offer = turn
  OBVIOUS
<1> HIDE DEF g, b
<1>7. /\ n \in Nat /\ DOMAIN groups = 1 .. n /\ DOMAIN groups' = 1 .. n + 1
      /\ groups'[n + 1] = g /\ \A i \in 1 .. n : groups'[i] = groups[i]
  BY <1>1, AppendProperties DEF PricingTypeOK
<1> HIDE DEF n
<1>8. offers' = offers /\ \A h, c : KeepsTerms(h, c)' <=> KeepsTerms(h, c)
  BY <1>1, SameInput, SameTerms
<1>9. ASSUME NEW i \in 1 .. n + 1
      PROVE  KeepsTerms(groups'[i], offers[groups'[i].offer])
  <2>1. CASE i = n + 1
    BY <1>5, <1>6, <1>7, <2>1 DEF b
  <2>2. CASE i \in 1 .. n
    BY <1>7, <2>2 DEF GroupsKept
  <2> QED
    BY <1>7, <2>1, <2>2
<1>10. ASSUME NEW i \in 1 .. n + 1, NEW j \in 1 .. n + 1,
              ~offers[groups'[i].offer].repeatable, groups'[j].offer = groups'[i].offer
       PROVE  j = i
  <2>1. CASE i \in 1 .. n /\ j \in 1 .. n
    BY <1>7, <1>10, <2>1 DEF GroupsKept
  <2>2. CASE i = n + 1 \/ j = n + 1
    <3>1. ~b.repeatable
      BY <1>6, <1>7, <1>10, <2>2 DEF b
    <3>2. \A k \in 1 .. n : groups'[k].offer # turn
      BY <1>3, <1>7, <3>1 DEF Formed
    <3> QED
      BY <1>6, <1>7, <1>10, <2>2, <3>2
  <2> QED
    BY <1>7, <2>1, <2>2
<1> QED
  BY <1>7, <1>8, <1>9, <1>10 DEF GroupsKept

(* What a line has of a group's discount is never above its price.         *)
LEMMA DiscountOfLine ==
  ASSUME NEW g, NEW b, KeepsTerms(g, b), NEW l, Price(l) \in Nat
  PROVE  /\ DiscountIn(l, g) \in Nat /\ UnitsOf(l, g.units) \in Nat
         /\ DiscountIn(l, g) <= Price(l) * UnitsOf(l, g.units)
<1> DEFINE n == b.size
           s == [u \in 1 .. n |-> IF g.units[u] = l THEN g.shares[u] ELSE 0]
           one == [u \in 1 .. n |-> IF g.units[u] = l THEN 1 ELSE 0]
           t == [u \in 1 .. n |-> Price(l) * one[u]]
<1>1. /\ n \in Nat /\ DOMAIN g.units = 1 .. n
      /\ \A u \in 1 .. n : g.shares[u] \in Nat /\ g.shares[u] <= Price(g.units[u])
  BY DEF KeepsTerms, SharesAddUp
<1>2. DiscountIn(l, g) = Sum(s) /\ UnitsOf(l, g.units) = Sum(one)
  BY <1>1 DEF DiscountIn, UnitsOf
<1>3. s \in [1 .. n -> Nat] /\ one \in [1 .. n -> Nat] /\ t \in [1 .. n -> Nat]
  BY <1>1
<1>4. \A u \in 1 .. n : s[u] <= t[u] /\ t[u] = Price(l) * one[u]
  BY <1>1
<1> HIDE DEF n, s, one, t
<1>5. Sum(s) = SumTo(s, n) /\ Sum(one) = SumTo(one, n)
  BY <1>1, <1>3, SequenceOf DEF Sum
<1>6. SumTo(s, n) \in Nat /\ SumTo(one, n) \in Nat
  BY <1>1, <1>3, SumToNat
<1>7. SumTo(s, n) <= SumTo(t, n)
  <2>1. \A u \in 1 .. n : s[u] \in Int /\ t[u] \in Int /\ s[u] <= t[u]
    BY <1>3, <1>4
  <2> QED
    BY <1>1, <2>1, SumToAtMost
<1>8. SumTo(t, n) = Price(l) * SumTo(one, n)
  <2>1. \A u \in 1 .. n : one[u] \in Int /\ t[u] = Price(l) * one[u]
    BY <1>3, <1>4
  <2> QED
    BY <1>1, <2>1, SumToTimes
<1> QED
  BY <1>2, <1>5, <1>6, <1>7, <1>8

(* With a unit more in the cart pricing begins anew.                       *)
LEMMA AddUnitTypes ==
  ASSUME PricingTypeOK, BucketsKept, OrderBegins, NEW v \in DOMAIN Catalog, AddUnit(v)
  PROVE  PricingTypeOK' /\ BucketsKept' /\ OrderBegins' /\ UnitsGroupedOnce' /\ GroupsKept'
<1>1. /\ cart' = With(cart, v) /\ offers' = offers /\ coupon' = coupon /\ Priced
      /\ turn' = 1 /\ remaining' = Quantities(cart') /\ groups' = <<>> /\ buckets' = buckets
      /\ drafts' = drafts /\ at' = Start /\ at = Start
  BY DEF AddUnit, orderVars
<1> DEFINE Line == [variant : DOMAIN Catalog, quantity : Nat \ {0}]
<1>2. cart' \in Seq(Line) \ {<<>>}
  BY <1>1, WithOne
<1>3. \A l \in DOMAIN cart' : cart'[l].quantity \in Nat
  <2>1. \A x \in Line : x.quantity \in Nat
    OBVIOUS
  <2> HIDE DEF Line
  <2> QED
    BY <1>2, <2>1
<1>4. Len(cart') \in Nat /\ Len(cart') > 0
  <2> HIDE DEF Line
  <2> QED
    BY <1>2
<1>5. remaining' \in [DOMAIN cart' -> Int] /\ \A l \in DOMAIN cart' : remaining'[l] = cart'[l].quantity
  BY <1>1, <1>3 DEF Quantities
<1>6. ~Building'
  <2>1. ~Building
    BY <1>1, TurnTyped DEF PricingTypeOK, Priced
  <2> QED
    BY <1>1, <2>1 DEF Building
<1>7. drafts' = <<>>
  BY <1>1 DEF OrderBegins
<1>8. turn' \in 1 .. Len(offers') + 1
  BY <1>1, TurnTyped
<1>9. Len(groups') = 0 /\ groups' = <<>> /\ DOMAIN groups' = {}
  BY <1>1
<1>10. /\ at'.line = 1 /\ at'.group = 1
       /\ at' \in [line : 1 .. Len(cart') + 1, group : 1 .. Len(groups') + 1]
  BY <1>1, <1>4, <1>9 DEF Start
<1>11. PricingTypeOK'
  <2>1. offers' \in Offers /\ coupon' \in Coupons
    BY <1>1 DEF PricingTypeOK
  <2> QED
    BY <1>2, <1>5, <1>6, <1>7, <1>8, <1>9, <1>10, <2>1 DEF PricingTypeOK
<1>12. UnitsGroupedOnce'
  <2>1. \A l : Consumed(l)' = 0
    BY <1>9, NothingConsumed
  <2> QED
    BY <1>3, <1>5, <2>1 DEF UnitsGroupedOnce
<1> QED
  BY <1>1, <1>4, <1>6, <1>7, <1>9, <1>10, <1>11, <1>12 DEF BucketsKept, OrderBegins, GroupsKept

(* An order's line.                                                        *)
LEMMA DraftTyped ==
  ASSUME PricingTypeOK, NEW l \in DOMAIN cart, NEW q \in Nat \ {0}, NEW d \in Int
  PROVE  Append(drafts, [line |-> l, quantity |-> q, bundleDiscount |-> d])
           \in Seq([line : DOMAIN cart, quantity : Nat \ {0}, bundleDiscount : Int])
<1> DEFINE D == [line : DOMAIN cart, quantity : Nat \ {0}, bundleDiscount : Int]
           x == [line |-> l, quantity |-> q, bundleDiscount |-> d]
<1>1. x \in D /\ drafts \in Seq(D)
  BY DEF PricingTypeOK
<1> HIDE DEF D, x
<1>2. Append(drafts, x) \in Seq(D)
  BY <1>1, AppendProperties
<1> QED
  BY <1>2 DEF D, x

(* The line and the group that are drafted next.                           *)
LEMMA PlaceTyped ==
  ASSUME PricingTypeOK
  PROVE  /\ at.line \in Nat /\ at.line > 0 /\ at.line <= Len(cart) + 1
         /\ at.group \in Nat /\ at.group > 0 /\ at.group <= Len(groups) + 1
         /\ at = [line |-> at.line, group |-> at.group]
         /\ Len(cart) \in Nat /\ Len(groups) \in Nat
<1>1. at \in [line : 1 .. Len(cart) + 1, group : 1 .. Len(groups) + 1]
  BY DEF PricingTypeOK
<1>2. Len(cart) \in Nat /\ Len(groups) \in Nat
  BY CartTyped, ConsumedTyped
<1> QED
  BY <1>1, <1>2

(* Making the lines of the order keeps the types and leaves the groups     *)
(* alone.                                                                  *)
LEMMA DraftTypes ==
  ASSUME PricingTypeOK, BucketsKept, OrderBegins, UnitsGroupedOnce, GroupsKept,
         DraftGroup \/ DraftRest
  PROVE  PricingTypeOK' /\ BucketsKept' /\ OrderBegins' /\ UnitsGroupedOnce' /\ GroupsKept'
<1>1. /\ UNCHANGED inputVars /\ turn' = turn /\ remaining' = remaining
      /\ groups' = groups /\ buckets' = buckets /\ Priced /\ ~Ordered
  BY DEF DraftGroup, DraftRest
<1>2. cart' = cart /\ offers' = offers
  BY <1>1, SameInput
<1>3. at.line \in DOMAIN cart
  BY <1>1, PlaceTyped, CartTyped DEF Ordered
<1> DEFINE D == [line : DOMAIN cart, quantity : Nat \ {0}, bundleDiscount : Int]
<1>4. drafts \in Seq(D)
  BY DEF PricingTypeOK
<1>5. drafts' \in Seq(D)
  <2>1. CASE DraftGroup
    <3> DEFINE g == groups[at.group]
               q == UnitsOf(at.line, g.units)
               d == DiscountIn(at.line, g)
    <3>1. /\ drafts' = IF q = 0 THEN drafts
                       ELSE Append(drafts, [line |-> at.line, quantity |-> q, bundleDiscount |-> d])
          /\ at.group <= Len(groups)
      BY <2>1 DEF DraftGroup
    <3>2. KeepsTerms(g, offers[g.offer])
      <4>1. at.group \in DOMAIN groups
        BY <3>1, PlaceTyped, ConsumedTyped
      <4> QED
        BY <4>1 DEF GroupsKept
    <3>3. q \in Nat /\ d \in Int
      <4>1. Price(at.line) \in Nat
        BY <1>3, CartTyped
      <4>2. q \in Nat /\ d \in Nat
        BY <3>2, <4>1, DiscountOfLine
      <4> QED
        BY <4>2
    <3> HIDE DEF q, d, D
    <3>4. ASSUME q # 0
          PROVE  Append(drafts, [line |-> at.line, quantity |-> q, bundleDiscount |-> d]) \in Seq(D)
      BY <1>3, <3>3, <3>4, DraftTyped DEF D
    <3> QED
      BY <1>4, <3>1, <3>4
  <2>2. CASE DraftRest
    <3> DEFINE q == Left(at.line)
    <3>1. drafts' = IF q <= 0 THEN drafts
                    ELSE Append(drafts, [line |-> at.line, quantity |-> q, bundleDiscount |-> 0])
      BY <2>2 DEF DraftRest
    <3>2. q \in Int
      <4>1. Consumed(at.line) \in Nat /\ cart[at.line].quantity \in Nat
        BY <1>3, ConsumedTyped, CartTyped
      <4> QED
        BY <4>1 DEF Left
    <3> HIDE DEF q, D
    <3>3. ASSUME ~(q <= 0)
          PROVE  Append(drafts, [line |-> at.line, quantity |-> q, bundleDiscount |-> 0]) \in Seq(D)
      <4>1. q \in Nat \ {0} /\ 0 \in Int
        BY <3>2, <3>3
      <4> QED
        BY <1>3, <4>1, DraftTyped DEF D
    <3> QED
      BY <1>4, <3>1, <3>3
  <2> QED
    BY <2>1, <2>2
<1>6. /\ at' \in [line : 1 .. Len(cart) + 1, group : 1 .. Len(groups) + 1]
      /\ at' # Start
      /\ at'.line > Len(cart) => at'.group = 1
  <2>1. CASE DraftGroup
    <3>1. at' = [at EXCEPT !.group = @ + 1] /\ at.group <= Len(groups)
      BY <2>1 DEF DraftGroup
    <3>2. at' = [line |-> at.line, group |-> at.group + 1]
      BY <3>1, PlaceTyped
    <3> QED
      BY <1>3, <3>1, <3>2, PlaceTyped, CartTyped DEF Start
  <2>2. CASE DraftRest
    <3>1. at' = [line |-> at.line + 1, group |-> 1]
      BY <2>2 DEF DraftRest
    <3> QED
      BY <1>3, <3>1, PlaceTyped, CartTyped DEF Start
  <2> QED
    BY <2>1, <2>2
<1> HIDE DEF D
<1>7. PricingTypeOK'
  <2> DEFINE b == offers[turn]
  <2>1. b' = b /\ Keys(b)' = Keys(b) /\ Building' = Building
    BY <1>1, <1>2, SameInput DEF Building
  <2> QED
    BY <1>1, <1>2, <1>5, <1>6, <2>1, SameTypes DEF PricingTypeOK, D
<1>8. OrderBegins'
  BY <1>1, <1>2, <1>6 DEF OrderBegins, Priced
<1> QED
  BY <1>1, <1>7, <1>8, SameBuckets, SameGroups, GroupsStay

(* The inductive invariant of pricing: beside the types and what is proved *)
(* of it, that the units in the buckets are in no group and that the lines *)
(* of the order are made once all is priced.                               *)
PricingInv ==
  PricingTypeOK /\ BucketsKept /\ OrderBegins /\ UnitsGroupedOnce /\ GroupsKept

(* The invariant holds at first.                                           *)
LEMMA PricingInvInit == PricingInit => PricingInv
<1> SUFFICES ASSUME PricingInit PROVE PricingInv
  OBVIOUS
<1>1. PricingTypeOK /\ BucketsKept /\ OrderBegins
  BY PricingInitType
<1>2. groups = <<>> /\ DOMAIN groups = {} /\ remaining = Quantities(cart)
  BY DEF PricingInit
<1>3. UnitsGroupedOnce
  <2>1. \A l : Consumed(l) = 0
    BY <1>2, NothingConsumed
  <2>2. \A l \in DOMAIN cart : remaining[l] = cart[l].quantity /\ cart[l].quantity \in Nat
    BY <1>1, <1>2, CartTyped DEF Quantities
  <2> QED
    BY <2>1, <2>2 DEF UnitsGroupedOnce
<1> QED
  BY <1>1, <1>2, <1>3 DEF PricingInv, GroupsKept

(* It holds when nothing happens.                                          *)
LEMMA PricingInvStutter ==
  ASSUME PricingInv, UNCHANGED pricingVars
  PROVE  PricingInv'
<1>1. /\ UNCHANGED inputVars /\ turn' = turn /\ remaining' = remaining
      /\ groups' = groups /\ buckets' = buckets /\ drafts' = drafts /\ at' = at
  BY DEF pricingVars, orderVars
<1>2. cart' = cart /\ offers' = offers
  BY <1>1, SameInput
<1>3. PricingTypeOK'
  <2> DEFINE b == offers[turn]
  <2>1. b' = b /\ Keys(b)' = Keys(b) /\ Building' = Building
    BY <1>1, <1>2, SameInput DEF Building
  <2> QED
    BY <1>1, <1>2, <2>1, SameTypes DEF PricingTypeOK, PricingInv
<1>4. OrderBegins'
  BY <1>1, <1>2 DEF OrderBegins, Priced, PricingInv
<1> QED
  BY <1>1, <1>3, <1>4, SameBuckets, SameGroups, GroupsStay DEF PricingInv

(* Every step keeps it.                                                    *)
LEMMA PricingInvNext == PricingInv /\ [PricingNext]_pricingVars => PricingInv'
<1> SUFFICES ASSUME PricingInv, [PricingNext]_pricingVars PROVE PricingInv'
  OBVIOUS
<1> USE DEF PricingInv
<1>1. CASE SkipOffer \/ EndOffer
  <2>1. UNCHANGED <<inputVars, remaining, groups>>
    BY <1>1 DEF SkipOffer, EndOffer
  <2> QED
    BY <1>1, <2>1, EndTypes, SameGroups, GroupsStay
<1>2. CASE BuildBuckets
  <2>1. UNCHANGED <<inputVars, remaining, groups>>
    BY <1>2 DEF BuildBuckets
  <2> QED
    BY <1>2, <2>1, BuildTypes, SameGroups, GroupsStay
<1>3. CASE FormGroup
  BY <1>3, FormTypes, FormGroupKeeps
<1>4. CASE Show
  <2>1. UNCHANGED <<inputVars, groups>>
    BY <1>4 DEF Show
  <2> QED
    BY <1>4, <2>1, ShowTypes, GroupsStay
<1>5. ASSUME NEW v \in DOMAIN Catalog, AddUnit(v) PROVE PricingInv'
  BY <1>5, AddUnitTypes
<1>6. CASE DraftGroup \/ DraftRest
  BY <1>6, DraftTypes
<1>7. CASE UNCHANGED pricingVars
  BY <1>7, PricingInvStutter
<1> QED
  BY <1>1, <1>2, <1>3, <1>4, <1>5, <1>6, <1>7 DEF PricingNext

(* So it always holds.                                                     *)
LEMMA PricingInvariant == PricingSpec => []PricingInv
  BY PricingInvInit, PricingInvNext, PTL DEF PricingSpec

(* Pricing keeps the types of its variables, also when a guest adds units  *)
(* to the cart (computeBundleInstances, buildView, createOrder).           *)
THEOREM PricingTypes == PricingSpec => []PricingTypeOK
<1>1. PricingInv => PricingTypeOK
  BY DEF PricingInv
<1> QED
  BY <1>1, PricingInvariant, PTL

(* computeBundleInstances never gives a physical unit to two groups,       *)
(* whichever offers work on the same lines: what the groups of a line      *)
(* consumed and what remains of it are together its quantity, and nothing  *)
(* remains below zero.                                                     *)
THEOREM EachUnitInOneGroup == PricingSpec => []UnitsGroupedOnce
<1>1. PricingInv => UnitsGroupedOnce
  BY DEF PricingInv
<1> QED
  BY <1>1, PricingInvariant, PTL

(* What PricingInv keeps of the groups is what their terms are.            *)
LEMMA KeptMeansTerms ==
  ASSUME PricingInv
  PROVE  GroupsKeepTheirTerms
<1> SUFFICES ASSUME NEW i \in DOMAIN groups
             PROVE
    LET g == groups[i]
        b == offers[g.offer]
    IN /\ Len(g.units) = b.size
       /\ \A u \in DOMAIN g.units : /\ IsEligible(cart[g.units[u]].variant, b)
                                    /\ 0 <= g.shares[u] /\ g.shares[u] <= Price(g.units[u])
       /\ b.differentModels => IsInjective([u \in DOMAIN g.units |-> Model(g.units[u])])
       /\ ~b.repeatable => Formed(g.offer) = {i}
       /\ g.discount >= 0 /\ Sum(g.shares) = g.discount
       /\ ~Blocked(b)
  BY DEF GroupsKeepTheirTerms
<1> DEFINE g == groups[i]
           b == offers[g.offer]
<1>1. KeepsTerms(g, b)
  BY DEF PricingInv, GroupsKept
<1>2. ~b.repeatable => \A j \in DOMAIN groups : groups[j].offer = g.offer => j = i
  BY DEF PricingInv, GroupsKept
<1>3. ~b.repeatable => Formed(g.offer) = {i}
  BY <1>2 DEF Formed
<1> HIDE DEF g, b
<1>4. /\ g.units \in Seq(EligibleLines(b)) /\ Len(g.units) = b.size
      /\ DOMAIN g.units = 1 .. b.size /\ g.discount \in Nat /\ ~Blocked(b)
      /\ SharesAddUp(g.shares, g.units, g.discount)
      /\ b.size \in Nat
  BY <1>1 DEF KeepsTerms
<1>5. ASSUME NEW u \in DOMAIN g.units
      PROVE  /\ IsEligible(cart[g.units[u]].variant, b)
             /\ 0 <= g.shares[u] /\ g.shares[u] <= Price(g.units[u])
  <2>1. g.units[u] \in EligibleLines(b)
    BY <1>4
  <2>2. g.shares[u] \in Nat /\ g.shares[u] <= Price(g.units[u])
    BY <1>4 DEF SharesAddUp
  <2> QED
    BY <2>1, <2>2 DEF EligibleLines
<1>6. b.differentModels => IsInjective([u \in DOMAIN g.units |-> Model(g.units[u])])
  BY <1>1, <1>4 DEF KeepsTerms, IsInjective
<1>7. g.discount >= 0 /\ Sum(g.shares) = g.discount
  BY <1>4 DEF SharesAddUp
<1> QED
  BY <1>3, <1>4, <1>5, <1>6, <1>7 DEF g, b

(* Every bundle instance has the size, the eligible units and the different*)
(* models its offer asks for, costs no more than its units, and            *)
(* allocateDiscount splits its discount over them to the last minor unit.  *)
THEOREM TermsKept == PricingSpec => []GroupsKeepTheirTerms
  BY PricingInvariant, KeptMeansTerms, PTL

-----------------------------------------------------------------------------
(* The lines of the order.                                                 *)

(* Their full prices, and what bundles take off them.                      *)
FullOf(s) == [i \in DOMAIN s |-> Full(s[i])]
BundleOf(s) == [i \in DOMAIN s |-> s[i].bundleDiscount]

(* What the lines of the cart come to, what the groups have of a line, and *)
(* what they take off it.                                                  *)
LineTotals == [l \in DOMAIN cart |-> Price(l) * cart[l].quantity]
GroupTotals(l) == [i \in DOMAIN groups |-> Price(l) * UnitsOf(l, groups[i].units)]
GroupDiscounts(l) == [i \in DOMAIN groups |-> DiscountIn(l, groups[i])]
LineDiscounts == [l \in DOMAIN cart |-> Sum(GroupDiscounts(l))]

(* What the drafts come to before a line and a group are drafted.          *)
DraftsAddUp(s, l, i) ==
  /\ \A j \in DOMAIN s : 0 <= s[j].bundleDiscount /\ s[j].bundleDiscount <= Full(s[j])
  /\ Sum(FullOf(s)) = SumTo(LineTotals, l - 1) + SumTo(GroupTotals(l), i - 1)
  /\ Sum(BundleOf(s)) = SumTo(LineDiscounts, l - 1) + SumTo(GroupDiscounts(l), i - 1)

(* So they do, as far as the order is made.                                *)
DraftsKept == at # Start => DraftsAddUp(drafts, at.line, at.group)

(* What drafts come to depends on the cart and the groups alone.           *)
LEMMA DraftsStay ==
  ASSUME UNCHANGED <<inputVars, groups>>, NEW s, NEW l, NEW i
  PROVE  DraftsAddUp(s, l, i)' <=> DraftsAddUp(s, l, i)
<1>1. cart' = cart /\ groups' = groups /\ \A x : Price(x)' = Price(x)
  BY SameInput
<1>2. \A x : Full(x)' = Full(x)
  BY <1>1 DEF Full
<1>3. FullOf(s)' = FullOf(s) /\ LineTotals' = LineTotals
  BY <1>1, <1>2 DEF FullOf, LineTotals
<1>4. GroupTotals(l)' = GroupTotals(l)
  BY <1>1 DEF GroupTotals, UnitsOf
<1>5. \A x : GroupDiscounts(x)' = GroupDiscounts(x)
  BY <1>1 DEF GroupDiscounts, DiscountIn
<1>6. LineDiscounts' = LineDiscounts
  BY <1>1, <1>5 DEF LineDiscounts
<1> QED
  BY <1>2, <1>3, <1>4, <1>5, <1>6 DEF DraftsAddUp, BundleOf

(* At first there are none.                                                *)
LEMMA NoDrafts == DraftsAddUp(<<>>, 1, 1)
<1>1. \A s : SumTo(s, 0) = 0
  BY SumToStep
<1>2. FullOf(<<>>) = <<>> /\ BundleOf(<<>>) = <<>> /\ Sum(<<>>) = 0
  BY <1>1 DEF FullOf, BundleOf, Sum
<1> QED
  BY <1>1, <1>2 DEF DraftsAddUp

(* A line of the order.                                                    *)
Draft == [line : DOMAIN cart, quantity : Nat \ {0}, bundleDiscount : Int]

(* A draft more.                                                           *)
LEMMA DraftAdded ==
  ASSUME PricingTypeOK, NEW s \in Seq(Draft), NEW x \in Draft
  PROVE  /\ Sum(FullOf(s)) \in Int /\ Sum(BundleOf(s)) \in Int
         /\ Sum(FullOf(Append(s, x))) = Sum(FullOf(s)) + Full(x)
         /\ Sum(BundleOf(Append(s, x))) = Sum(BundleOf(s)) + x.bundleDiscount
         /\ \A j \in DOMAIN Append(s, x) :
              (j \in DOMAIN s /\ Append(s, x)[j] = s[j]) \/ Append(s, x)[j] = x
<1> DEFINE n == Len(s)
           t == Append(s, x)
<1>1. \A y \in Draft : Full(y) \in Int /\ y.bundleDiscount \in Int
  BY CartTyped DEF Draft, Full
<1>2. /\ n \in Nat /\ DOMAIN s = 1 .. n /\ DOMAIN t = 1 .. n + 1 /\ t[n + 1] = x
      /\ \A j \in 1 .. n : t[j] = s[j] /\ s[j] \in Draft
  <2>1. s \in Seq(Draft) /\ x \in Draft
    OBVIOUS
  <2>2. n \in Nat /\ DOMAIN s = 1 .. n /\ \A j \in 1 .. n : s[j] \in Draft
    BY <2>1, LenProperties, ElementOfSeq
  <2>3. /\ t \in Seq(Draft) /\ Len(t) = n + 1 /\ t[n + 1] = x
        /\ \A j \in 1 .. n : t[j] = s[j]
    BY <2>1, AppendProperties
  <2> QED
    BY <2>2, <2>3, LenProperties
<1> HIDE DEF n, t
<1>3. /\ \A j \in 1 .. n + 1 : j \in 1 .. n \/ j = n + 1
      /\ \A j \in 1 .. n + 1 : t[j] \in Draft
  <2>1. \A j \in 1 .. n + 1 : j \in 1 .. n \/ j = n + 1
    BY <1>2
  <2> QED
    BY <1>2, <2>1
<1>4. FullOf(s) \in [1 .. n -> Int] /\ FullOf(t) \in [1 .. n + 1 -> Int]
  <2>1. FullOf(s) = [j \in 1 .. n |-> Full(s[j])] /\ FullOf(t) = [j \in 1 .. n + 1 |-> Full(t[j])]
    BY <1>2 DEF FullOf
  <2>2. \A j \in 1 .. n : s[j] \in Draft
    BY <1>2
  <2>3. \A j \in 1 .. n + 1 : t[j] \in Draft
    BY <1>3
  <2>4. /\ \A j \in 1 .. n : Full(s[j]) \in Int
        /\ \A j \in 1 .. n + 1 : Full(t[j]) \in Int
    BY <1>1, <2>2, <2>3
  <2> QED
    BY <2>1, <2>4
<1>5. \A j \in 1 .. n : FullOf(t)[j] = FullOf(s)[j]
  BY <1>2, <1>3 DEF FullOf
<1>6. FullOf(t)[n + 1] = Full(x)
  BY <1>2 DEF FullOf
<1>7. BundleOf(s) \in [1 .. n -> Int] /\ BundleOf(t) \in [1 .. n + 1 -> Int]
  BY <1>1, <1>2, <1>3 DEF BundleOf
<1>8. \A j \in 1 .. n : BundleOf(t)[j] = BundleOf(s)[j]
  BY <1>2, <1>3 DEF BundleOf
<1>9. BundleOf(t)[n + 1] = x.bundleDiscount
  BY <1>2 DEF BundleOf
<1>10. Sum(FullOf(t)) = Sum(FullOf(s)) + Full(x) /\ Sum(FullOf(s)) \in Int
  BY <1>2, <1>4, <1>5, <1>6, SumGrows
<1>11. Sum(BundleOf(t)) = Sum(BundleOf(s)) + x.bundleDiscount /\ Sum(BundleOf(s)) \in Int
  BY <1>2, <1>7, <1>8, <1>9, SumGrows
<1>12. \A j \in DOMAIN t : (j \in DOMAIN s /\ t[j] = s[j]) \/ t[j] = x
  BY <1>2, <1>3
<1> QED
  BY <1>10, <1>11, <1>12 DEF t

(* What a line of the cart has to add.                                     *)
LEMMA LineAmounts ==
  ASSUME PricingTypeOK, GroupsKept, NEW l \in DOMAIN cart
  PROVE  /\ GroupTotals(l) \in [1 .. Len(groups) -> Nat]
         /\ GroupDiscounts(l) \in [1 .. Len(groups) -> Nat]
         /\ \A i \in 1 .. Len(groups) :
              /\ UnitsOf(l, groups[i].units) \in Nat
              /\ GroupTotals(l)[i] = Price(l) * UnitsOf(l, groups[i].units)
              /\ GroupDiscounts(l)[i] = DiscountIn(l, groups[i])
              /\ GroupDiscounts(l)[i] <= GroupTotals(l)[i]
         /\ SumTo(GroupTotals(l), Len(groups)) = Price(l) * Consumed(l)
         /\ Sum(GroupDiscounts(l)) = SumTo(GroupDiscounts(l), Len(groups))
<1> DEFINE n == Len(groups)
           f == [i \in 1 .. n |-> UnitsOf(l, groups[i].units)]
           p == Price(l)
<1>1. n \in Nat /\ DOMAIN groups = 1 .. n /\ Consumed(l) = SumTo(f, n)
  BY ConsumedTyped
<1>2. p \in Nat
  BY CartTyped
<1>3. ASSUME NEW i \in 1 .. n
      PROVE  /\ DiscountIn(l, groups[i]) \in Nat /\ UnitsOf(l, groups[i].units) \in Nat
             /\ DiscountIn(l, groups[i]) <= p * UnitsOf(l, groups[i].units)
  <2>1. KeepsTerms(groups[i], offers[groups[i].offer])
    BY <1>1 DEF GroupsKept
  <2> QED
    BY <1>2, <2>1, DiscountOfLine
<1> HIDE DEF n, p
<1>4. /\ GroupTotals(l) = [i \in 1 .. n |-> p * UnitsOf(l, groups[i].units)]
      /\ GroupDiscounts(l) = [i \in 1 .. n |-> DiscountIn(l, groups[i])]
  BY <1>1 DEF GroupTotals, GroupDiscounts, p
<1>5. \A i \in 1 .. n : p * UnitsOf(l, groups[i].units) \in Nat
  BY <1>2, <1>3
<1>6. GroupTotals(l) \in [1 .. n -> Nat] /\ GroupDiscounts(l) \in [1 .. n -> Nat]
  BY <1>3, <1>4, <1>5
<1>7. SumTo(GroupTotals(l), n) = p * SumTo(f, n)
  <2>1. \A i \in 1 .. n : f[i] \in Int /\ GroupTotals(l)[i] = p * f[i]
    BY <1>3, <1>4
  <2> HIDE DEF f
  <2> QED
    BY <1>1, <1>2, <2>1, SumToTimes
<1>8. Sum(GroupDiscounts(l)) = SumTo(GroupDiscounts(l), n)
  BY <1>1, <1>6, SequenceOf DEF Sum
<1> HIDE DEF f
<1>9. \A i \in 1 .. n : /\ UnitsOf(l, groups[i].units) \in Nat
                        /\ GroupTotals(l)[i] = p * UnitsOf(l, groups[i].units)
                        /\ GroupDiscounts(l)[i] = DiscountIn(l, groups[i])
                        /\ GroupDiscounts(l)[i] <= GroupTotals(l)[i]
  BY <1>3, <1>4
<1> QED
  BY <1>1, <1>6, <1>7, <1>8, <1>9 DEF n, p

(* Totals and discounts of lines are natural numbers, and so are their     *)
(* sums.                                                                   *)
LEMMA LinesTyped ==
  ASSUME PricingTypeOK, GroupsKept
  PROVE  /\ LineTotals \in [1 .. Len(cart) -> Nat] /\ LineDiscounts \in [1 .. Len(cart) -> Nat]
         /\ \A l \in 1 .. Len(cart) :
              /\ LineTotals[l] = Price(l) * cart[l].quantity
              /\ LineDiscounts[l] = SumTo(GroupDiscounts(l), Len(groups))
         /\ \A l \in 1 .. Len(cart) + 1 :
              SumTo(LineTotals, l - 1) \in Nat /\ SumTo(LineDiscounts, l - 1) \in Nat
<1> DEFINE n == Len(cart)
<1>1. n \in Nat /\ DOMAIN cart = 1 .. n
  BY CartTyped
<1>2. ASSUME NEW l \in 1 .. n
      PROVE  /\ Price(l) * cart[l].quantity \in Nat
             /\ Sum(GroupDiscounts(l)) = SumTo(GroupDiscounts(l), Len(groups))
             /\ Sum(GroupDiscounts(l)) \in Nat
  <2>1. Price(l) \in Nat /\ cart[l].quantity \in Nat
    BY <1>1, CartTyped
  <2>2. Price(l) * cart[l].quantity \in Nat
    BY <2>1
  <2>3. /\ GroupDiscounts(l) \in [1 .. Len(groups) -> Nat] /\ Len(groups) \in Nat
        /\ Sum(GroupDiscounts(l)) = SumTo(GroupDiscounts(l), Len(groups))
    BY <1>1, LineAmounts, ConsumedTyped
  <2>4. SumTo(GroupDiscounts(l), Len(groups)) \in Nat
    BY <2>3, SumToNat
  <2> QED
    BY <2>2, <2>3, <2>4
<1>3. LineTotals = [l \in 1 .. n |-> Price(l) * cart[l].quantity]
  BY <1>1 DEF LineTotals
<1>4. LineDiscounts = [l \in 1 .. n |-> Sum(GroupDiscounts(l))]
  BY <1>1 DEF LineDiscounts
<1>5. LineTotals \in [1 .. n -> Nat] /\ LineDiscounts \in [1 .. n -> Nat]
  BY <1>2, <1>3, <1>4
<1>6. ASSUME NEW l \in 1 .. n + 1
      PROVE  SumTo(LineTotals, l - 1) \in Nat /\ SumTo(LineDiscounts, l - 1) \in Nat
  <2>1. l - 1 \in Nat
    BY <1>1
  <2>2. \A i \in 1 .. l - 1 : i \in 1 .. n
    BY <1>1
  <2>3. \A i \in 1 .. l - 1 : LineTotals[i] \in Nat /\ LineDiscounts[i] \in Nat
    BY <1>5, <2>2
  <2> QED
    BY <2>1, <2>3, SumToNat
<1> QED
  BY <1>2, <1>3, <1>4, <1>5, <1>6

(* What the groups up to one have of a line.                               *)
LEMMA GroupsSoFar ==
  ASSUME PricingTypeOK, GroupsKept, NEW l \in DOMAIN cart, NEW i \in 1 .. Len(groups) + 1
  PROVE  /\ SumTo(GroupTotals(l), i - 1) \in Nat /\ SumTo(GroupDiscounts(l), i - 1) \in Nat
         /\ SumTo(GroupTotals(l), i) = SumTo(GroupTotals(l), i - 1) + GroupTotals(l)[i]
         /\ SumTo(GroupDiscounts(l), i) = SumTo(GroupDiscounts(l), i - 1) + GroupDiscounts(l)[i]
<1> DEFINE n == Len(groups)
           k == i - 1
<1>1. n \in Nat
  BY ConsumedTyped
<1>2. GroupTotals(l) \in [1 .. n -> Nat] /\ GroupDiscounts(l) \in [1 .. n -> Nat]
  BY LineAmounts
<1> HIDE DEF n
<1>3. k \in Nat /\ i = k + 1 /\ \A j \in 1 .. k : j \in 1 .. n
  BY <1>1 DEF n
<1> HIDE DEF k
<1>4. \A j \in 1 .. k : GroupTotals(l)[j] \in Nat /\ GroupDiscounts(l)[j] \in Nat
  BY <1>2, <1>3
<1>5. SumTo(GroupTotals(l), k) \in Nat /\ SumTo(GroupDiscounts(l), k) \in Nat
  BY <1>3, <1>4, SumToNat
<1>6. /\ SumTo(GroupTotals(l), k + 1) = SumTo(GroupTotals(l), k) + GroupTotals(l)[k + 1]
      /\ SumTo(GroupDiscounts(l), k + 1) = SumTo(GroupDiscounts(l), k) + GroupDiscounts(l)[k + 1]
  BY <1>3, SumToStep
<1> QED
  BY <1>3, <1>5, <1>6 DEF k

(* DraftGroup and DraftRest add what they should.                          *)
LEMMA GroupDrafted ==
  ASSUME PricingTypeOK, GroupsKept, NEW l \in DOMAIN cart, NEW i \in 1 .. Len(groups),
         NEW s \in Seq(Draft), DraftsAddUp(s, l, i),
         NEW q, q = UnitsOf(l, groups[i].units), NEW d, d = DiscountIn(l, groups[i])
  PROVE  DraftsAddUp(IF q = 0 THEN s
                     ELSE Append(s, [line |-> l, quantity |-> q, bundleDiscount |-> d]), l, i + 1)
<1> DEFINE x == [line |-> l, quantity |-> q, bundleDiscount |-> d]
           t == Append(s, x)
           A == SumTo(LineTotals, l - 1)
           B == SumTo(LineDiscounts, l - 1)
           F == SumTo(GroupTotals(l), i - 1)
           G == SumTo(GroupDiscounts(l), i - 1)
<1>1. /\ q \in Nat /\ d \in Nat /\ GroupTotals(l)[i] = Price(l) * q
      /\ GroupDiscounts(l)[i] = d /\ d <= Price(l) * q
  BY LineAmounts
<1>2. Price(l) \in Nat
  BY CartTyped
<1>3. l \in 1 .. Len(cart) + 1 /\ i \in 1 .. Len(groups) + 1 /\ i + 1 - 1 = i
  BY CartTyped, ConsumedTyped
<1>4. A \in Nat /\ B \in Nat /\ F \in Nat /\ G \in Nat
  BY <1>3, LinesTyped, GroupsSoFar
<1>5. /\ SumTo(GroupTotals(l), i) = F + Price(l) * q
      /\ SumTo(GroupDiscounts(l), i) = G + d
  BY <1>1, <1>3, GroupsSoFar
<1>6. /\ Sum(FullOf(s)) = A + F /\ Sum(BundleOf(s)) = B + G
      /\ \A j \in DOMAIN s : 0 <= s[j].bundleDiscount /\ s[j].bundleDiscount <= Full(s[j])
  BY DEF DraftsAddUp
<1> HIDE DEF A, B, F, G
<1>7. CASE q = 0
  <2>1. Price(l) * q = 0 /\ d = 0
    BY <1>1, <1>2, <1>7
  <2>2. SumTo(GroupTotals(l), i) = F /\ SumTo(GroupDiscounts(l), i) = G
    BY <1>4, <1>5, <2>1
  <2>3. DraftsAddUp(s, l, i + 1)
    BY <1>3, <1>6, <2>2 DEF DraftsAddUp, A, B
  <2> QED
    BY <1>7, <2>3
<1>8. CASE q # 0
  <2>1. x \in Draft /\ Full(x) = Price(l) * q /\ x.bundleDiscount = d
    BY <1>1, <1>8 DEF Draft, Full
  <2> HIDE DEF x
  <2>2. /\ Sum(FullOf(t)) = Sum(FullOf(s)) + Full(x)
        /\ Sum(BundleOf(t)) = Sum(BundleOf(s)) + x.bundleDiscount
        /\ \A j \in DOMAIN t : (j \in DOMAIN s /\ t[j] = s[j]) \/ t[j] = x
    BY <2>1, DraftAdded
  <2> HIDE DEF t
  <2>3. \A j \in DOMAIN t : 0 <= t[j].bundleDiscount /\ t[j].bundleDiscount <= Full(t[j])
    BY <1>1, <1>6, <2>1, <2>2
  <2>4. Price(l) * q \in Nat
    BY <1>1, <1>2
  <2>5. /\ Sum(FullOf(t)) = A + SumTo(GroupTotals(l), i)
        /\ Sum(BundleOf(t)) = B + SumTo(GroupDiscounts(l), i)
    BY <1>1, <1>4, <1>5, <1>6, <2>1, <2>2, <2>4, SMTT(20)
  <2>6. DraftsAddUp(t, l, i + 1)
    BY <1>3, <2>3, <2>5 DEF DraftsAddUp, A, B
  <2> QED
    BY <1>8, <2>6 DEF t, x
<1> QED
  BY <1>7, <1>8

(* The units in no group are all that is missing of a line.                *)
LEMMA RestDrafted ==
  ASSUME PricingTypeOK, GroupsKept, UnitsGroupedOnce, NEW l \in DOMAIN cart,
         NEW s \in Seq(Draft), DraftsAddUp(s, l, Len(groups) + 1), NEW q, q = Left(l)
  PROVE  DraftsAddUp(IF q <= 0 THEN s
                     ELSE Append(s, [line |-> l, quantity |-> q, bundleDiscount |-> 0]), l + 1, 1)
<1> DEFINE x == [line |-> l, quantity |-> q, bundleDiscount |-> 0]
           t == Append(s, x)
           n == Len(groups)
           p == Price(l)
           c == Consumed(l)
           A == SumTo(LineTotals, l - 1)
           B == SumTo(LineDiscounts, l - 1)
           G == SumTo(GroupDiscounts(l), n)
<1>1. /\ n \in Nat /\ n + 1 \in 1 .. n + 1 /\ n + 1 - 1 = n /\ c \in Nat
  <2>1. n \in Nat /\ c \in Nat
    BY ConsumedTyped
  <2> HIDE DEF n
  <2> QED
    BY <2>1
<1>2. p \in Nat /\ cart[l].quantity \in Nat /\ l \in 1 .. Len(cart) /\ Len(cart) \in Nat
  BY CartTyped
<1>3. q \in Nat /\ cart[l].quantity = c + q
  <2>1. remaining[l] >= 0 /\ c + remaining[l] = cart[l].quantity /\ remaining[l] \in Int
    BY DEF UnitsGroupedOnce, PricingTypeOK
  <2> QED
    BY <1>1, <1>2, <2>1 DEF Left
<1>4. /\ A \in Nat /\ B \in Nat /\ G \in Nat
      /\ LineTotals[l] = p * cart[l].quantity /\ LineDiscounts[l] = G
  <2>1. l \in 1 .. Len(cart) + 1
    BY <1>2
  <2>2. G \in Nat
    BY <1>1, GroupsSoFar
  <2> QED
    BY <1>2, <2>1, <2>2, LinesTyped
<1>5. SumTo(GroupTotals(l), n) = p * c
  BY LineAmounts
<1>6. /\ Sum(FullOf(s)) = A + p * c /\ Sum(BundleOf(s)) = B + G
      /\ \A j \in DOMAIN s : 0 <= s[j].bundleDiscount /\ s[j].bundleDiscount <= Full(s[j])
  BY <1>1, <1>5 DEF DraftsAddUp
<1>7. /\ SumTo(LineTotals, l) = A + p * cart[l].quantity
      /\ SumTo(LineDiscounts, l) = B + G
      /\ SumTo(GroupTotals(l + 1), 0) = 0 /\ SumTo(GroupDiscounts(l + 1), 0) = 0
  <2>1. l - 1 \in Nat /\ (l - 1) + 1 = l
    BY <1>2
  <2>2. /\ SumTo(LineTotals, l) = A + LineTotals[l]
        /\ SumTo(LineDiscounts, l) = B + LineDiscounts[l]
    BY <2>1, SumToStep
  <2> QED
    BY <1>4, <2>2, SumToStep
<1> HIDE DEF A, B, G, n, c, p
<1>8. p * c \in Nat /\ p * q \in Nat /\ p * cart[l].quantity = p * c + p * q
  BY <1>1, <1>2, <1>3
<1>9. l + 1 - 1 = l /\ 1 - 1 = 0
  BY <1>2
<1>10. CASE q <= 0
  <2>1. p * q = 0
    BY <1>2, <1>3, <1>10
  <2>2. /\ Sum(FullOf(s)) = SumTo(LineTotals, l) + 0
        /\ Sum(BundleOf(s)) = SumTo(LineDiscounts, l) + 0
    BY <1>4, <1>6, <1>7, <1>8, <2>1
  <2>3. DraftsAddUp(s, l + 1, 1)
    <3>1. /\ Sum(FullOf(s)) = SumTo(LineTotals, l + 1 - 1) + SumTo(GroupTotals(l + 1), 1 - 1)
          /\ Sum(BundleOf(s)) = SumTo(LineDiscounts, l + 1 - 1) + SumTo(GroupDiscounts(l + 1), 1 - 1)
      BY <1>7, <1>9, <2>2
    <3> QED
      BY <1>6, <3>1 DEF DraftsAddUp
  <2> QED
    BY <1>10, <2>3
<1>11. CASE ~(q <= 0)
  <2>1. x \in Draft /\ Full(x) = p * q /\ x.bundleDiscount = 0
    BY <1>3, <1>11 DEF Draft, Full, p
  <2> HIDE DEF x
  <2>2. /\ Sum(FullOf(t)) = Sum(FullOf(s)) + Full(x)
        /\ Sum(BundleOf(t)) = Sum(BundleOf(s)) + x.bundleDiscount
        /\ \A j \in DOMAIN t : (j \in DOMAIN s /\ t[j] = s[j]) \/ t[j] = x
    BY <2>1, DraftAdded
  <2> HIDE DEF t
  <2>3. \A j \in DOMAIN t : 0 <= t[j].bundleDiscount /\ t[j].bundleDiscount <= Full(t[j])
    BY <1>6, <1>8, <2>1, <2>2
  <2>4. /\ Sum(FullOf(t)) = SumTo(LineTotals, l) + 0
        /\ Sum(BundleOf(t)) = SumTo(LineDiscounts, l) + 0
    BY <1>4, <1>6, <1>7, <1>8, <2>1, <2>2
  <2>5. DraftsAddUp(t, l + 1, 1)
    <3>1. /\ Sum(FullOf(t)) = SumTo(LineTotals, l + 1 - 1) + SumTo(GroupTotals(l + 1), 1 - 1)
          /\ Sum(BundleOf(t)) = SumTo(LineDiscounts, l + 1 - 1) + SumTo(GroupDiscounts(l + 1), 1 - 1)
      BY <1>7, <1>9, <2>4
    <3> QED
      BY <2>3, <3>1 DEF DraftsAddUp
  <2> QED
    BY <1>11, <2>5 DEF t, x
<1> QED
  BY <1>10, <1>11

(* By rows or by columns, a table has one sum.                             *)
Table(row, rows, n, column, columns, m) ==
  /\ \A l \in 1 .. n, i \in 1 .. m : row[l][i] \in Int /\ column[i][l] = row[l][i]
  /\ \A l \in 1 .. n : rows[l] = SumTo(row[l], m)
  /\ \A i \in 1 .. m : columns[i] = SumTo(column[i], n)

(* The sum of the rows is that of the columns.                             *)
LEMMA SumsExchange ==
  ASSUME NEW n \in Nat, NEW m \in Nat, NEW row, NEW column, NEW rows, NEW columns,
         Table(row, rows, n, column, columns, m)
  PROVE  SumTo(rows, n) = SumTo(columns, m)
<1> USE DEF Table
<1> DEFINE upTo(k) == [i \in 1 .. m |-> SumTo(column[i], k)]
           T == {k \in Nat : k <= n => SumTo(rows, k) = SumTo(upTo(k), m)}
<1>1. 0 \in T
  <2>1. \A i \in 1 .. m : upTo(0)[i] = 0
    BY SumToStep
  <2> HIDE DEF upTo
  <2>2. SumTo(upTo(0), m) = 0
    BY <2>1, SumToNothing
  <2> QED
    BY <2>2, SumToStep
<1>2. ASSUME NEW k \in Nat, k \in T PROVE k + 1 \in T
  <2>1. SUFFICES ASSUME k + 1 <= n PROVE SumTo(rows, k + 1) = SumTo(upTo(k + 1), m)
    OBVIOUS
  <2>2. k + 1 \in 1 .. n /\ SumTo(rows, k) = SumTo(upTo(k), m)
    BY <1>2, <2>1
  <2>3. SumTo(rows, k + 1) = SumTo(rows, k) + rows[k + 1]
    BY SumToStep
  <2>4. rows[k + 1] = SumTo(row[k + 1], m)
    BY <2>2
  <2>5. ASSUME NEW i \in 1 .. m
        PROVE  /\ upTo(k)[i] \in Int /\ row[k + 1][i] \in Int
               /\ upTo(k + 1)[i] = upTo(k)[i] + row[k + 1][i]
    <3>1. column[i][k + 1] = row[k + 1][i] /\ row[k + 1][i] \in Int
      BY <2>2
    <3>2. \A j \in 1 .. k : column[i][j] \in Int
      BY <2>1
    <3>3. SumTo(column[i], k) \in Int
      BY <3>2, SumToInt
    <3>4. SumTo(column[i], k + 1) = SumTo(column[i], k) + column[i][k + 1]
      BY SumToStep
    <3> QED
      BY <3>1, <3>3, <3>4
  <2> HIDE DEF upTo
  <2>6. SumTo(upTo(k + 1), m) = SumTo(upTo(k), m) + SumTo(row[k + 1], m)
    BY <2>5, SumToPlus
  <2> QED
    BY <2>2, <2>3, <2>4, <2>6
<1>3. \A k \in Nat : k \in T
  <2> HIDE DEF T
  <2> QED
    BY <1>1, <1>2, Induction
<1>4. SumTo(rows, n) = SumTo(upTo(n), m)
  BY <1>3
<1>5. \A i \in 1 .. m : upTo(n)[i] = columns[i]
  OBVIOUS
<1> HIDE DEF upTo
<1>6. SumTo(upTo(n), m) = SumTo(columns, m)
  BY <1>5, SumToSame
<1> QED
  BY <1>4, <1>6

(* Each share of a group is some line's.                                   *)
LEMMA DiscountOfGroup ==
  ASSUME NEW n \in Nat, NEW g, NEW b, KeepsTerms(g, b), EligibleLines(b) \subseteq 1 .. n,
         NEW f, \A l \in 1 .. n : f[l] = DiscountIn(l, g)
  PROVE  SumTo(f, n) = g.discount
<1> DEFINE m == b.size
           row == [l \in 1 .. n |-> [u \in 1 .. m |-> IF g.units[u] = l THEN g.shares[u] ELSE 0]]
           column == [u \in 1 .. m |-> [l \in 1 .. n |-> IF g.units[u] = l THEN g.shares[u] ELSE 0]]
<1>1. /\ m \in Nat /\ DOMAIN g.units = 1 .. m /\ Len(g.shares) = m
      /\ g.shares \in Seq(Nat) /\ Sum(g.shares) = g.discount
      /\ \A u \in 1 .. m : g.units[u] \in 1 .. n
  BY DEF KeepsTerms, SharesAddUp
<1>2. \A u \in 1 .. m : g.shares[u] \in Nat
  BY <1>1
<1>3. \A l \in 1 .. n, u \in 1 .. m : row[l][u] \in Int /\ column[u][l] = row[l][u]
  BY <1>2
<1>4. ASSUME NEW l \in 1 .. n PROVE f[l] = SumTo(row[l], m)
  <2>1. DiscountIn(l, g) = Sum(row[l])
    BY <1>1 DEF DiscountIn
  <2>2. row[l] \in [1 .. m -> Nat]
    BY <1>2
  <2> HIDE DEF row, m
  <2>3. Len(row[l]) = m
    BY <1>1, <2>2, SequenceOf
  <2> QED
    BY <2>1, <2>3 DEF Sum
<1>5. ASSUME NEW u \in 1 .. m PROVE g.shares[u] = SumTo(column[u], n)
  <2>1. \A l \in 1 .. n : column[u][l] = IF l = g.units[u] THEN g.shares[u] ELSE 0
    OBVIOUS
  <2> DEFINE d == g.shares[u]
             k == g.units[u]
  <2>2. d \in Int /\ k \in 1 .. n
    BY <1>1, <1>2
  <2> HIDE DEF column, d, k
  <2>3. \A l \in 1 .. n : column[u][l] = IF l = k THEN d ELSE 0
    BY <2>1 DEF d, k
  <2>4. SumTo(column[u], n) = IF k \in 1 .. n THEN d ELSE 0
    BY <2>2, <2>3, SumToSingle
  <2> QED
    BY <2>2, <2>4 DEF d
<1> HIDE DEF row, column
<1>6. SumTo(f, n) = SumTo(g.shares, m)
  <2>1. Table(row, f, n, column, g.shares, m)
    BY <1>3, <1>4, <1>5 DEF Table
  <2> QED
    BY <1>1, <2>1, SumsExchange
<1> QED
  BY <1>1, <1>6 DEF Sum

(* Split by lines, the discounts of the groups come to what they are       *)
(* together.                                                               *)
LEMMA DiscountsAgree ==
  ASSUME PricingTypeOK, GroupsKept
  PROVE  SumTo(LineDiscounts, Len(cart)) = BundleDiscountTotal
<1> DEFINE n == Len(cart)
           m == Len(groups)
           row == [l \in 1 .. n |-> GroupDiscounts(l)]
           column == [i \in 1 .. m |-> [l \in 1 .. n |-> DiscountIn(l, groups[i])]]
           discounts == [i \in 1 .. m |-> groups[i].discount]
<1>1. n \in Nat /\ DOMAIN cart = 1 .. n /\ m \in Nat /\ DOMAIN groups = 1 .. m
  BY CartTyped, ConsumedTyped
<1>2. \A l \in 1 .. n, i \in 1 .. m :
        /\ DiscountIn(l, groups[i]) \in Nat
        /\ GroupDiscounts(l)[i] = DiscountIn(l, groups[i])
  <2>1. ASSUME NEW l \in 1 .. n, NEW i \in 1 .. m
        PROVE  /\ GroupDiscounts(l)[i] \in Nat
               /\ GroupDiscounts(l)[i] = DiscountIn(l, groups[i])
    <3>1. l \in DOMAIN cart
      BY <1>1
    <3>2. /\ GroupDiscounts(l) \in [1 .. m -> Nat]
          /\ \A j \in 1 .. m : GroupDiscounts(l)[j] = DiscountIn(l, groups[j])
      BY <3>1, LineAmounts
    <3> QED
      BY <3>2
  <2> QED
    BY <2>1
<1> HIDE DEF n, m
<1>3. \A l \in 1 .. n, i \in 1 .. m : row[l][i] \in Int /\ column[i][l] = row[l][i]
  BY <1>2
<1>4. ASSUME NEW l \in 1 .. n PROVE LineDiscounts[l] = SumTo(row[l], m)
  BY <1>1, LinesTyped DEF n, m
<1>5. ASSUME NEW i \in 1 .. m PROVE discounts[i] = SumTo(column[i], n)
  <2> DEFINE g == groups[i]
             b == offers[g.offer]
  <2>1. KeepsTerms(g, b)
    BY <1>1 DEF GroupsKept
  <2>2. EligibleLines(b) \subseteq 1 .. n
    BY <1>1 DEF EligibleLines
  <2>3. \A l \in 1 .. n : column[i][l] = DiscountIn(l, g)
    OBVIOUS
  <2> HIDE DEF column, g, b
  <2>4. SumTo(column[i], n) = g.discount
    BY <1>1, <2>1, <2>2, <2>3, DiscountOfGroup
  <2> QED
    BY <2>4 DEF g
<1>6. ASSUME NEW i \in 1 .. m PROVE groups[i].discount \in Int
  BY <1>1, <1>6, ConsumedTyped DEF m
<1> HIDE DEF row, column, discounts
<1>7. SumTo(LineDiscounts, n) = SumTo(discounts, m)
  <2>1. Table(row, LineDiscounts, n, column, discounts, m)
    BY <1>3, <1>4, <1>5 DEF Table
  <2> QED
    BY <1>1, <2>1, SumsExchange
<1>8. BundleDiscountTotal = Sum(discounts)
  BY <1>1 DEF BundleDiscountTotal, discounts
<1>9. Sum(discounts) = SumTo(discounts, m)
  <2>1. discounts \in [1 .. m -> Int]
    BY <1>6 DEF discounts
  <2> QED
    BY <1>1, <2>1, SequenceOf DEF Sum
<1> QED
  BY <1>7, <1>8, <1>9 DEF n

(* Drafts that add up where the next one is made.                          *)
LEMMA DraftsNow ==
  ASSUME NEW s, NEW l, NEW i, drafts' = s, at'.line = l, at'.group = i,
         UNCHANGED <<inputVars, groups>>, DraftsAddUp(s, l, i)
  PROVE  DraftsKept'
<1>1. DraftsAddUp(s, l, i)'
  BY DraftsStay
<1> QED
  BY <1>1 DEF DraftsKept

(* Every step keeps what the drafts come to.                               *)
LEMMA DraftsKeptNext ==
  ASSUME PricingInv, DraftsKept, [PricingNext]_pricingVars
  PROVE  DraftsKept'
<1> USE DEF PricingInv
<1>1. drafts \in Seq(Draft)
  BY DEF PricingTypeOK, Draft
<1>2. CASE SkipOffer \/ BuildBuckets \/ FormGroup \/ EndOffer
  <2>1. ~Priced /\ at' = at
    BY <1>2, TurnTyped
       DEF SkipOffer, BuildBuckets, FormGroup, EndOffer, orderVars, Priced, PricingTypeOK
  <2> QED
    BY <2>1 DEF OrderBegins, DraftsKept
<1>3. CASE Show
  BY <1>3 DEF Show, orderVars, DraftsKept
<1>4. ASSUME NEW v \in DOMAIN Catalog, AddUnit(v) PROVE DraftsKept'
  BY <1>4 DEF AddUnit, orderVars, DraftsKept
<1>5. ASSUME DraftGroup \/ DraftRest
      PROVE  /\ at.line \in DOMAIN cart /\ DraftsAddUp(drafts, at.line, at.group)
             /\ UNCHANGED <<inputVars, groups>>
  <2>1. UNCHANGED <<inputVars, groups>> /\ ~Ordered /\ Priced
    BY <1>5 DEF DraftGroup, DraftRest
  <2>2. at.line \in DOMAIN cart
    BY <2>1, PlaceTyped, CartTyped DEF Ordered
  <2>3. DraftsAddUp(drafts, at.line, at.group)
    <3>1. CASE at = Start
      <4>1. drafts = <<>> /\ at.line = 1 /\ at.group = 1
        BY <3>1 DEF OrderBegins, Start
      <4> QED
        BY <4>1, NoDrafts
    <3>2. CASE at # Start
      BY <3>2 DEF DraftsKept
    <3> QED
      BY <3>1, <3>2
  <2> QED
    BY <2>1, <2>2, <2>3
<1>6. CASE DraftGroup
  <2> DEFINE q == UnitsOf(at.line, groups[at.group].units)
             d == DiscountIn(at.line, groups[at.group])
             t == IF q = 0 THEN drafts
                  ELSE Append(drafts, [line |-> at.line, quantity |-> q, bundleDiscount |-> d])
  <2>1. drafts' = t /\ at' = [at EXCEPT !.group = @ + 1] /\ at.group <= Len(groups)
    BY <1>6 DEF DraftGroup
  <2>2. at'.line = at.line /\ at'.group = at.group + 1 /\ at.group \in 1 .. Len(groups)
    BY <2>1, PlaceTyped
  <2>3. DraftsAddUp(t, at.line, at.group + 1)
    BY <1>1, <1>5, <1>6, <2>2, GroupDrafted
  <2> HIDE DEF t
  <2> QED
    BY <1>5, <1>6, <2>1, <2>2, <2>3, DraftsNow
<1>7. CASE DraftRest
  <2> DEFINE q == Left(at.line)
             t == IF q <= 0 THEN drafts
                  ELSE Append(drafts, [line |-> at.line, quantity |-> q, bundleDiscount |-> 0])
  <2>1. /\ drafts' = t /\ at' = [line |-> at.line + 1, group |-> 1]
        /\ at.group > Len(groups)
    BY <1>7 DEF DraftRest
  <2>2. at'.line = at.line + 1 /\ at'.group = 1 /\ at.group = Len(groups) + 1
    BY <2>1, PlaceTyped
  <2>3. DraftsAddUp(t, at.line + 1, 1)
    BY <1>1, <1>5, <1>7, <2>2, RestDrafted
  <2> HIDE DEF t
  <2> QED
    BY <1>5, <1>7, <2>1, <2>2, <2>3, DraftsNow
<1>8. CASE UNCHANGED pricingVars
  <2>1. UNCHANGED <<inputVars, groups>> /\ drafts' = drafts /\ at' = at
    BY <1>8 DEF pricingVars, orderVars
  <2>2. CASE at = Start
    BY <2>1, <2>2 DEF DraftsKept
  <2>3. CASE at # Start
    BY <2>1, <2>3, DraftsNow DEF DraftsKept
  <2> QED
    BY <2>2, <2>3
<1> QED
  BY <1>2, <1>3, <1>4, <1>6, <1>7, <1>8 DEF PricingNext

(* The coupon never takes more than is left.                               *)
LEMMA CouponDiscount ==
  ASSUME PricingTypeOK, NEW s \in Nat
  PROVE  ComputeDiscount(coupon, s) \in 0 .. s
<1> DEFINE v == coupon.value
           by == (s * v) \div 100
           x == IF coupon.type = "FIXED" THEN v ELSE by
<1>1. v \in Nat
  BY PricingAssumption DEF PricingAssumption, PricingTypeOK
<1>2. by \in Nat
  <2> HIDE DEF v
  <2>1. s * v \in Nat
    BY <1>1
  <2> DEFINE y == s * v
  <2> HIDE DEF y
  <2>2. y \div 100 \in Nat
    BY <2>1 DEF y
  <2> QED
    BY <2>2 DEF y
<1>3. x \in Nat
  BY <1>1, <1>2
<1>4. ComputeDiscount(coupon, s) = IF s <= 0 THEN 0 ELSE Min({s, x})
  BY DEF ComputeDiscount
<1> HIDE DEF x
<1>5. Min({s, x}) = IF s <= x THEN s ELSE x
  BY <1>3, MinOfTwo
<1> QED
  BY <1>3, <1>4, <1>5

(* Once all lines are drafted the coupon is split over what bundles left of*)
(* them, and all amounts agree with those of the cart.                     *)
LEMMA WhatIsCharged ==
  ASSUME PricingInv, DraftsKept
  PROVE  OrderAddsUp
<1> USE DEF PricingInv
<1> SUFFICES ASSUME Ordered
             PROVE  LET lines == OrderLines IN
                    /\ \A i \in DOMAIN lines : lines[i].total >= 0 /\ lines[i].discount >= 0
                    /\ Sum([i \in DOMAIN lines |-> lines[i].discount]) = DiscountTotal
                    /\ Sum([i \in DOMAIN lines |-> lines[i].total])
                         = Subtotal - BundleDiscountTotal - DiscountTotal
  BY DEF OrderAddsUp
<1> DEFINE n == Len(drafts)
           rest == [i \in 1 .. n |-> Full(drafts[i]) - drafts[i].bundleDiscount]
           full == FullOf(drafts)
           bundle == BundleOf(drafts)
           share == AllocateDiscount(rest, DiscountTotal)
           total == [i \in 1 .. n |-> rest[i] - share[i]]
<1>1. at.line = Len(cart) + 1 /\ at.group = 1 /\ at # Start /\ Len(cart) \in Nat
  BY PlaceTyped, CartTyped DEF Ordered, OrderBegins, Start
<1>2. /\ n \in Nat /\ DOMAIN drafts = 1 .. n
      /\ \A i \in 1 .. n : Full(drafts[i]) \in Int /\ drafts[i].bundleDiscount \in Int
  <2>1. drafts \in Seq(Draft)
    BY DEF PricingTypeOK, Draft
  <2>2. \A y \in Draft : Full(y) \in Int /\ y.bundleDiscount \in Int
    BY CartTyped DEF Draft, Full
  <2>3. n \in Nat /\ DOMAIN drafts = 1 .. n /\ \A i \in 1 .. n : drafts[i] \in Draft
    BY <2>1, LenProperties, ElementOfSeq
  <2> QED
    BY <2>2, <2>3
<1>3. /\ \A i \in 1 .. n : drafts[i].bundleDiscount <= Full(drafts[i])
      /\ Sum(full) = SumTo(LineTotals, Len(cart)) + SumTo(GroupTotals(at.line), 0)
      /\ Sum(bundle) = SumTo(LineDiscounts, Len(cart)) + SumTo(GroupDiscounts(at.line), 0)
  <2>1. DraftsAddUp(drafts, at.line, at.group)
    BY <1>1 DEF DraftsKept
  <2>2. at.line - 1 = Len(cart) /\ at.group - 1 = 0
    BY <1>1
  <2> QED
    BY <1>2, <2>1, <2>2 DEF DraftsAddUp
<1>4. /\ SumTo(GroupTotals(at.line), 0) = 0 /\ SumTo(GroupDiscounts(at.line), 0) = 0
      /\ SumTo(LineDiscounts, Len(cart)) = BundleDiscountTotal
      /\ SumTo(LineTotals, Len(cart)) = Subtotal
      /\ SumTo(LineTotals, Len(cart)) \in Nat /\ SumTo(LineDiscounts, Len(cart)) \in Nat
  <2>1. SumTo(GroupTotals(at.line), 0) = 0 /\ SumTo(GroupDiscounts(at.line), 0) = 0
    BY SumToStep
  <2>2. /\ LineTotals \in [1 .. Len(cart) -> Nat] /\ LineDiscounts \in [1 .. Len(cart) -> Nat]
    BY LinesTyped
  <2>3. Subtotal = SumTo(LineTotals, Len(cart))
    <3>1. Subtotal = Sum(LineTotals)
      BY DEF Subtotal, LineTotals
    <3>2. Len(LineTotals) = Len(cart)
      BY <1>1, <2>2, SequenceOf
    <3> QED
      BY <3>1, <3>2 DEF Sum
  <2>4. SumTo(LineTotals, Len(cart)) \in Nat /\ SumTo(LineDiscounts, Len(cart)) \in Nat
    BY <1>1, <2>2, SumToNat
  <2> QED
    BY <2>1, <2>3, <2>4, DiscountsAgree
<1>5. Sum(full) = Subtotal /\ Sum(bundle) = BundleDiscountTotal
      /\ Subtotal \in Nat /\ BundleDiscountTotal \in Nat
  BY <1>3, <1>4
<1>6. rest \in [1 .. n -> Nat]
  BY <1>2, <1>3
<1>7. /\ full \in [1 .. n -> Int] /\ bundle \in [1 .. n -> Int]
      /\ \A i \in 1 .. n : full[i] = rest[i] + bundle[i]
  BY <1>2 DEF FullOf, BundleOf
<1>8. OrderLines = [i \in 1 .. n |-> [total |-> total[i], discount |-> share[i]]]
  BY <1>2 DEF OrderLines, Charged
<1> HIDE DEF n, rest, full, bundle
<1>9. /\ rest \in Seq(Nat) /\ Len(rest) = n
      /\ Len(full) = n /\ Len(bundle) = n
  BY <1>2, <1>6, <1>7, SequenceOf
<1>10. Sum(rest) \in Nat /\ Sum(full) = Sum(rest) + Sum(bundle)
  <2>1. SumTo(rest, n) \in Nat
    BY <1>2, <1>6, SumToNat
  <2>2. \A i \in 1 .. n : rest[i] \in Int /\ bundle[i] \in Int /\ full[i] = rest[i] + bundle[i]
    BY <1>6, <1>7
  <2>3. SumTo(full, n) = SumTo(rest, n) + SumTo(bundle, n)
    BY <1>2, <2>2, SumToPlus
  <2> QED
    BY <1>9, <2>1, <2>3 DEF Sum
<1>11. DiscountTotal \in 0 .. Sum(rest)
  <2>1. Sum(rest) = Subtotal - BundleDiscountTotal
    BY <1>5, <1>10
  <2> QED
    BY <1>10, <2>1, CouponDiscount DEF DiscountTotal
<1>12. /\ share \in Seq(Nat) /\ Len(share) = n /\ \A i \in 1 .. n : share[i] <= rest[i]
       /\ Sum(share) = DiscountTotal
  BY <1>9, <1>11, AllocationAddsUp
<1> HIDE DEF share
<1>13. \A i \in 1 .. n : share[i] \in Nat /\ rest[i] \in Nat
  BY <1>6, <1>12
<1>14. total \in [1 .. n -> Nat]
  BY <1>12, <1>13
<1>15. \A i \in 1 .. n : total[i] \in Int /\ share[i] \in Int /\ rest[i] = total[i] + share[i]
  BY <1>13
<1> HIDE DEF total
<1>16. Sum(rest) = Sum(total) + Sum(share) /\ Sum(total) \in Nat
  <2>1. SumTo(rest, n) = SumTo(total, n) + SumTo(share, n)
    BY <1>2, <1>15, SumToPlus
  <2>2. Len(total) = n /\ SumTo(total, n) \in Nat
    BY <1>2, <1>14, SequenceOf, SumToNat
  <2> QED
    BY <1>9, <1>12, <2>1, <2>2 DEF Sum
<1>17. Sum(total) = Subtotal - BundleDiscountTotal - DiscountTotal
  BY <1>5, <1>10, <1>11, <1>12, <1>16
<1> DEFINE lines == OrderLines
<1>18. /\ DOMAIN lines = 1 .. n
       /\ [i \in DOMAIN lines |-> lines[i].discount] = [i \in 1 .. n |-> share[i]]
       /\ [i \in DOMAIN lines |-> lines[i].total] = [i \in 1 .. n |-> total[i]]
       /\ \A i \in 1 .. n : lines[i].total = total[i] /\ lines[i].discount = share[i]
  BY <1>8
<1>19. [i \in 1 .. n |-> share[i]] = share /\ [i \in 1 .. n |-> total[i]] = total
  BY <1>12, <1>14
<1> HIDE DEF lines
<1>20. \A i \in DOMAIN lines : lines[i].total >= 0 /\ lines[i].discount >= 0
  BY <1>13, <1>14, <1>18
<1> QED
  BY <1>12, <1>17, <1>18, <1>19, <1>20 DEF lines

(* createOrder charges what buildView showed: its lines, made from the     *)
(* groups, and the coupon's shares of them sum to the cart's totals, none  *)
(* below zero.                                                             *)
THEOREM ChargesAddUp == PricingSpec => []OrderAddsUp
<1>1. PricingInit => DraftsKept
  BY DEF PricingInit, DraftsKept
<1> QED
  BY <1>1, PricingInvariant, DraftsKeptNext, WhatIsCharged, PTL DEF PricingSpec

-----------------------------------------------------------------------------
(* The places of groups.                                                   *)

(* What the places of n groups are, and that they can be counted.          *)
LEMMA PlacesTyped ==
  ASSUME NEW b, IsFiniteSet(Keys(b)), NEW n \in Nat, NEW w \in [Keys(b) -> Nat],
         b.differentModels \in BOOLEAN
  PROVE  /\ IsFiniteSet(Places(n, b, w)) /\ Cardinality(Places(n, b, w)) \in Nat
         /\ Places(n, b, w) \subseteq Keys(b) \X Nat
         /\ \A k \in Keys(b), i \in Nat :
              <<k, i>> \in Places(n, b, w)
                <=> 1 <= i /\ i <= w[k] /\ (b.differentModels => i <= n)
<1> DEFINE usable == [k \in Keys(b) |-> IF b.differentModels /\ n < w[k] THEN n ELSE w[k]]
           own == [k \in Keys(b) |-> {k} \X (1 .. usable[k])]
<1>1. \A k \in Keys(b) : usable[k] \in Nat
  OBVIOUS
<1>2. Places(n, b, w) = UNION {own[k] : k \in Keys(b)}
  BY DEF Places
<1>3. \A k \in Keys(b), i \in Nat :
        i \in 1 .. usable[k] <=> 1 <= i /\ i <= w[k] /\ (b.differentModels => i <= n)
  OBVIOUS
<1> HIDE DEF usable
<1>4. \A k \in Keys(b) : IsFiniteSet(own[k])
  BY <1>1, OwnUnits
<1>5. \A k \in Keys(b), i \in Nat : <<k, i>> \in UNION {own[j] : j \in Keys(b)} <=> i \in 1 .. usable[k]
  OBVIOUS
<1>6. UNION {own[j] : j \in Keys(b)} \subseteq Keys(b) \X Nat
  BY <1>1
<1> HIDE DEF own
<1>7. IsFiniteSet(UNION {own[j] : j \in Keys(b)})
  BY <1>4, FiniteUnion
<1> QED
  BY <1>2, <1>3, <1>5, <1>6, <1>7, FS_CardinalityType

(* The places that the groups formed so far have.                          *)
UsedPlaces(b, count, w) == UNION {{k} \X (1 .. count[k] - w[k]) : k \in Keys(b)}

(* They are finitely many, and those between the count and what waits.     *)
LEMMA UsedTyped ==
  ASSUME NEW b, IsFiniteSet(Keys(b)), NEW count \in [Keys(b) -> Nat], NEW w \in [Keys(b) -> Nat],
         \A k \in Keys(b) : w[k] <= count[k]
  PROVE  /\ IsFiniteSet(UsedPlaces(b, count, w)) /\ Cardinality(UsedPlaces(b, count, w)) \in Nat
         /\ UsedPlaces(b, count, w) \subseteq Keys(b) \X Nat
         /\ \A k \in Keys(b), i \in Nat :
              <<k, i>> \in UsedPlaces(b, count, w) <=> 1 <= i /\ i <= count[k] - w[k]
<1> DEFINE used == [k \in Keys(b) |-> count[k] - w[k]]
           own == [k \in Keys(b) |-> {k} \X (1 .. used[k])]
<1>1. \A k \in Keys(b) : used[k] \in Nat /\ used[k] = count[k] - w[k]
  OBVIOUS
<1>2. UsedPlaces(b, count, w) = UNION {own[k] : k \in Keys(b)}
  BY DEF UsedPlaces
<1> HIDE DEF used
<1>4. \A k \in Keys(b) : IsFiniteSet(own[k])
  BY <1>1, OwnUnits
<1>5. \A k \in Keys(b), i \in Nat :
        <<k, i>> \in UNION {own[j] : j \in Keys(b)} <=> 1 <= i /\ i <= used[k]
  BY <1>1
<1>6. UNION {own[j] : j \in Keys(b)} \subseteq Keys(b) \X Nat
  BY <1>1
<1> HIDE DEF own
<1>7. IsFiniteSet(UNION {own[j] : j \in Keys(b)})
  BY <1>4, FiniteUnion
<1> QED
  BY <1>1, <1>2, <1>5, <1>6, <1>7, FS_CardinalityType

(* A group takes the first of each of the largest buckets, or all it needs *)
(* from the only one.                                                      *)
TakesTops(v, w, key, b) ==
  /\ \A i, j \in 1 .. b.size : key[i] = key[j] => i = j
  /\ \A i \in 1 .. b.size : w[key[i]] > 0 /\ v[key[i]] = w[key[i]] - 1
  /\ \A k \in Keys(b) :
       (\A i \in 1 .. b.size : key[i] # k) =>
         v[k] = w[k] /\ \A i \in 1 .. b.size : w[k] <= w[key[i]]

(* There are places for n groups.                                          *)
HasPlaces(n, b, count) == b.size * n <= Cardinality(Places(n, b, count))

(* A multiple, and the one before it.                                      *)
LEMMA OneLess ==
  ASSUME NEW s \in Nat, NEW m \in Nat, m > 0
  PROVE  m - 1 \in Nat /\ s * (m - 1) \in Nat /\ s * m = s * (m - 1) + s
<1>1. m - 1 \in Nat
  OBVIOUS
<1> DEFINE k == m - 1
<1>2. m = k + 1 /\ k \in Nat
  BY <1>1
<1> HIDE DEF k
<1>3. s * k \in Nat /\ s * (k + 1) = s * k + s
  BY <1>2
<1> QED
  BY <1>2, <1>3 DEF k

(* The group after it has as many places as the rest needs.                *)
LEMMA PlacesLeft ==
  ASSUME NEW b, IsFiniteSet(Keys(b)), b.differentModels, b.size \in Nat,
         NEW w \in [Keys(b) -> Nat], NEW v \in [Keys(b) -> Nat],
         NEW key \in [1 .. b.size -> Keys(b)], TakesTops(v, w, key, b),
         NEW m \in Nat, m > 0, HasPlaces(m, b, w)
  PROVE  HasPlaces(m - 1, b, v)
<1> DEFINE P == Places(m, b, w)
           Q == Places(m - 1, b, v)
           keys == {key[i] : i \in 1 .. b.size}
           top == [i \in 1 .. b.size |-> <<key[i], IF w[key[i]] <= m THEN w[key[i]] ELSE m>>]
           tops == {top[i] : i \in 1 .. b.size}
           x == b.size * (m - 1)
<1>1. m - 1 \in Nat /\ x \in Nat /\ b.size * m = x + b.size
  BY OneLess
<1>0. x + b.size <= Cardinality(P)
  BY <1>1 DEF HasPlaces
<1> HIDE DEF x
<1>2. /\ IsFiniteSet(P) /\ Cardinality(P) \in Nat /\ P \subseteq Keys(b) \X Nat
      /\ \A k \in Keys(b), i \in Nat : <<k, i>> \in P <=> 1 <= i /\ i <= w[k] /\ i <= m
  BY PlacesTyped
<1>3. /\ IsFiniteSet(Q) /\ Cardinality(Q) \in Nat /\ Q \subseteq Keys(b) \X Nat
      /\ \A k \in Keys(b), i \in Nat : <<k, i>> \in Q <=> 1 <= i /\ i <= v[k] /\ i <= m - 1
  BY <1>1, PlacesTyped
<1>4. IsFiniteSet(1 .. b.size) /\ Cardinality(1 .. b.size) = b.size
  BY IntervalCardinality
<1> HIDE DEF P, Q
<1>5. CASE \E k \in Keys(b) : w[k] >= m /\ \A i \in 1 .. b.size : key[i] # k
  <2>1. \A i \in 1 .. b.size : v[key[i]] >= m - 1
    BY <1>5, SMTT(20) DEF TakesTops
  <2>2. keys \X (1 .. m - 1) \subseteq Q
    <3>1. ASSUME NEW k \in keys, NEW i \in 1 .. m - 1 PROVE <<k, i>> \in Q
      <4>1. k \in Keys(b) /\ v[k] >= m - 1
        BY <2>1
      <4>2. i \in Nat /\ 1 <= i /\ i <= m - 1 /\ v[k] \in Nat
        BY <1>1, <4>1
      <4>3. i <= v[k]
        BY <1>1, <4>1, <4>2
      <4> QED
        BY <1>3, <4>1, <4>2, <4>3
    <3> HIDE DEF keys
    <3> QED
      BY <3>1
  <2>3. IsFiniteSet(keys) /\ Cardinality(keys) = b.size
    <3>1. key \in Bijection(1 .. b.size, keys)
      BY DEF Bijection, Injection, Surjection, IsInjective, TakesTops
    <3> HIDE DEF keys
    <3> QED
      BY <1>4, <3>1, FS_Bijection DEF ExistsBijection
  <2>4. IsFiniteSet(1 .. m - 1) /\ Cardinality(1 .. m - 1) = m - 1
    BY <1>1, IntervalCardinality
  <2> HIDE DEF keys
  <2>5. Cardinality(keys \X (1 .. m - 1)) = x
    <3>1. Cardinality(keys \X (1 .. m - 1)) = Cardinality(keys) * Cardinality(1 .. m - 1)
      BY <2>3, <2>4, FS_Product
    <3> QED
      BY <2>3, <2>4, <3>1, Zenon DEF x
  <2>6. Cardinality(keys \X (1 .. m - 1)) <= Cardinality(Q)
    BY <1>3, <2>2, FS_Subset
  <2> QED
    BY <2>5, <2>6 DEF Q, x, HasPlaces
<1>6. CASE \A k \in Keys(b) : w[k] < m \/ \E i \in 1 .. b.size : key[i] = k
  <2>1. P \subseteq Q \cup tops
    <3>1. ASSUME NEW k \in Keys(b), NEW i \in Nat, <<k, i>> \in P
          PROVE  <<k, i>> \in Q \cup tops
      <4>1. 1 <= i /\ i <= w[k] /\ i <= m
        BY <1>2, <3>1
      <4>2. CASE \A j \in 1 .. b.size : key[j] # k
        <5>1. w[k] < m /\ v[k] = w[k]
          BY <1>6, <4>2 DEF TakesTops
        <5>2. i <= v[k] /\ i <= m - 1
          BY <4>1, <5>1
        <5> QED
          BY <1>3, <4>1, <5>2
      <4>3. CASE \E j \in 1 .. b.size : key[j] = k
        <5>1. PICK j \in 1 .. b.size : key[j] = k
          BY <4>3
        <5>2. v[k] = w[k] - 1 /\ w[k] \in Nat
          BY <5>1 DEF TakesTops
        <5>3. CASE i = IF w[k] <= m THEN w[k] ELSE m
          <6>1. top[j] = <<k, i>>
            BY <5>1, <5>3
          <6> HIDE DEF top
          <6> QED
            BY <6>1
        <5>4. CASE i # IF w[k] <= m THEN w[k] ELSE m
          <6>1. i <= v[k] /\ i <= m - 1
            BY <4>1, <5>2, <5>4
          <6> QED
            BY <1>3, <4>1, <6>1
        <5> QED
          BY <5>3, <5>4
      <4> QED
        BY <4>2, <4>3
    <3> HIDE DEF tops
    <3> QED
      BY <1>2, <3>1
  <2>2. IsFiniteSet(tops) /\ Cardinality(tops) <= b.size
    <3> HIDE DEF top
    <3> DEFINE onto == [i \in 1 .. b.size |-> top[i]]
    <3>1. onto \in Surjection(1 .. b.size, tops)
      BY DEF Surjection
    <3> HIDE DEF tops, onto
    <3> QED
      BY <1>4, <3>1, FS_Surjection
  <2> HIDE DEF tops
  <2>3. /\ IsFiniteSet(Q \cup tops) /\ IsFiniteSet(Q \cap tops)
        /\ Cardinality(Q \cup tops) = Cardinality(Q) + Cardinality(tops) - Cardinality(Q \cap tops)
    BY <1>3, <2>2, FS_Union, FS_Subset
  <2>4. Cardinality(tops) \in Nat /\ Cardinality(Q \cap tops) \in Nat
    BY <2>2, <2>3, FS_CardinalityType
  <2>5. Cardinality(P) <= Cardinality(Q \cup tops)
    BY <2>1, <2>3, FS_Subset
  <2>6. Cardinality(P) <= Cardinality(Q) + b.size
    BY <1>2, <1>3, <2>2, <2>3, <2>4, <2>5
  <2>7. x <= Cardinality(Q)
    BY <1>0, <1>1, <1>2, <1>3, <2>6
  <2> QED
    BY <2>7 DEF x, Q, HasPlaces
<1>7. \A k \in Keys(b) : w[k] < m \/ w[k] >= m
  OBVIOUS
<1> QED
  BY <1>5, <1>6, <1>7

(* What the buckets have while the first offer is at work: enough for as   *)
(* many groups more as are possible.                                       *)
EnoughLeft(b, count, w, g) ==
  /\ w \in [Keys(b) -> Nat]
  /\ \A k \in Keys(b) : w[k] <= count[k] /\ (b.differentModels => count[k] - w[k] <= g)
  /\ b.size * g <= Cardinality(UsedPlaces(b, count, w))
  /\ \A n \in Nat : n >= g /\ HasPlaces(n, b, count) => HasPlaces(n - g, b, w)

(* What the counting below needs of an offer.                              *)
AnyOffer(b) ==
  IsFiniteSet(Keys(b)) /\ b.differentModels \in BOOLEAN /\ b.size \in Nat /\ b.size > 0

(* Before any group is formed nothing is used.                             *)
LEMMA EnoughAtFirst ==
  ASSUME NEW b, AnyOffer(b), NEW count \in [Keys(b) -> Nat]
  PROVE  EnoughLeft(b, count, count, 0)
<1>1. \A k \in Keys(b) : count[k] <= count[k] /\ count[k] - count[k] <= 0
  OBVIOUS
<1>2. Cardinality(UsedPlaces(b, count, count)) \in Nat
  BY <1>1, UsedTyped DEF AnyOffer
<1>3. b.size * 0 = 0
  BY DEF AnyOffer
<1>4. \A n \in Nat : n - 0 = n
  OBVIOUS
<1> QED
  BY <1>1, <1>2, <1>3, <1>4 DEF EnoughLeft

(* What is left after one group more.                                      *)
LEMMA SameRest ==
  ASSUME NEW g \in Nat, NEW n \in Nat, n >= g + 1
  PROVE  n >= g /\ n - g \in Nat /\ n - g > 0 /\ n - (g + 1) = (n - g) - 1
OBVIOUS

(* A group from the largest buckets leaves enough: had it taken others,    *)
(* none more could be formed.                                              *)
LEMMA EnoughOfDifferentModels ==
  ASSUME NEW b, AnyOffer(b), b.differentModels, NEW count \in [Keys(b) -> Nat], NEW g \in Nat,
         NEW w, EnoughLeft(b, count, w, g),
         NEW v \in [Keys(b) -> Nat], NEW key \in [1 .. b.size -> Keys(b)], TakesTops(v, w, key, b)
  PROVE  EnoughLeft(b, count, v, g + 1)
<1> USE DEF AnyOffer
<1>1. /\ w \in [Keys(b) -> Nat]
      /\ \A k \in Keys(b) : w[k] <= count[k] /\ count[k] - w[k] <= g
  BY DEF EnoughLeft
<1>2. \A k \in Keys(b) : v[k] = w[k] \/ v[k] = w[k] - 1
  BY DEF TakesTops
<1>3. \A k \in Keys(b) : v[k] <= count[k] /\ count[k] - v[k] <= g + 1
  <2>1. ASSUME NEW k \in Keys(b) PROVE v[k] <= count[k] /\ count[k] - v[k] <= g + 1
    <3>1. /\ w[k] \in Nat /\ v[k] \in Nat /\ count[k] \in Nat
          /\ w[k] <= count[k] /\ count[k] - w[k] <= g
          /\ (v[k] = w[k] \/ v[k] = w[k] - 1)
      BY <1>1, <1>2
    <3> QED
      BY <3>1
  <2> QED
    BY <2>1
<1>4. \A n \in Nat : n >= g + 1 /\ HasPlaces(n, b, count) => HasPlaces(n - (g + 1), b, v)
  <2>1. ASSUME NEW n \in Nat, n >= g + 1, HasPlaces(n, b, count)
        PROVE  HasPlaces(n - (g + 1), b, v)
    <3> DEFINE m == n - g
    <3>1. n >= g /\ m \in Nat /\ m > 0 /\ n - (g + 1) = m - 1
      BY <2>1, SameRest
    <3>2. HasPlaces(m, b, w)
      BY <2>1, <3>1 DEF EnoughLeft
    <3> HIDE DEF m
    <3>3. HasPlaces(m - 1, b, v)
      BY <1>1, <3>1, <3>2, PlacesLeft
    <3> QED
      BY <3>1, <3>3
  <2> QED
    BY <2>1
<1> DEFINE U == UsedPlaces(b, count, w)
           V == UsedPlaces(b, count, v)
           top == [i \in 1 .. b.size |-> <<key[i], count[key[i]] - w[key[i]] + 1>>]
           tops == {top[i] : i \in 1 .. b.size}
<1>5. /\ IsFiniteSet(U) /\ Cardinality(U) \in Nat /\ U \subseteq Keys(b) \X Nat
      /\ \A k \in Keys(b), i \in Nat : <<k, i>> \in U <=> 1 <= i /\ i <= count[k] - w[k]
  BY <1>1, UsedTyped
<1>6. /\ IsFiniteSet(V) /\ Cardinality(V) \in Nat /\ V \subseteq Keys(b) \X Nat
      /\ \A k \in Keys(b), i \in Nat : <<k, i>> \in V <=> 1 <= i /\ i <= count[k] - v[k]
  BY <1>3, UsedTyped
<1> HIDE DEF U, V
<1>7. U \subseteq V
  <2>1. ASSUME NEW k \in Keys(b), NEW i \in Nat, <<k, i>> \in U PROVE <<k, i>> \in V
    <3>1. 1 <= i /\ i <= count[k] - w[k]
      BY <1>5, <2>1
    <3>2. w[k] \in Nat /\ v[k] \in Nat /\ count[k] \in Nat /\ (v[k] = w[k] \/ v[k] = w[k] - 1)
      BY <1>1, <1>2
    <3>3. i <= count[k] - v[k]
      BY <3>1, <3>2
    <3> QED
      BY <1>6, <3>1, <3>3
  <2> QED
    BY <1>5, <2>1
<1>8. ASSUME NEW i \in 1 .. b.size PROVE top[i] \in V /\ top[i] \notin U
  <2> DEFINE k == key[i]
             j == count[k] - w[k] + 1
  <2>1. top[i] = <<k, j>> /\ k \in Keys(b)
    OBVIOUS
  <2>2. /\ w[k] \in Nat /\ w[k] > 0 /\ v[k] = w[k] - 1 /\ count[k] \in Nat /\ w[k] <= count[k]
    BY <1>1, <2>1 DEF TakesTops
  <2>3. j \in Nat /\ 1 <= j /\ j <= count[k] - v[k] /\ ~(j <= count[k] - w[k])
    BY <2>2
  <2> HIDE DEF j, k, top
  <2> QED
    BY <1>5, <1>6, <2>1, <2>3
<1>9. IsFiniteSet(tops) /\ Cardinality(tops) = b.size
  <2>1. top \in Bijection(1 .. b.size, tops)
    <3>1. \A i, j \in 1 .. b.size : top[i] = top[j] => i = j
      BY DEF TakesTops
    <3> HIDE DEF top
    <3>2. DOMAIN top = 1 .. b.size
      BY DEF top
    <3>3. top \in [1 .. b.size -> tops]
      BY <3>2 DEF top
    <3> QED
      BY <3>1, <3>2, <3>3 DEF Bijection, Injection, Surjection, IsInjective
  <2>2. IsFiniteSet(1 .. b.size) /\ Cardinality(1 .. b.size) = b.size
    BY IntervalCardinality
  <2> HIDE DEF tops, top
  <2> QED
    BY <2>1, <2>2, FS_Bijection DEF ExistsBijection
<1> HIDE DEF top
<1>10. tops \subseteq V /\ U \cap tops = {}
  BY <1>8
<1> HIDE DEF tops
<1>11. Cardinality(U \cup tops) = Cardinality(U) + b.size
  <2>1. Cardinality(U \cup tops) = Cardinality(U) + Cardinality(tops) - Cardinality(U \cap tops)
    BY <1>5, <1>9, FS_Union
  <2>2. Cardinality(U \cap tops) = 0
    BY <1>10, FS_EmptySet
  <2> QED
    BY <1>5, <1>9, <2>1, <2>2
<1>12. Cardinality(U \cup tops) <= Cardinality(V)
  BY <1>6, <1>7, <1>10, FS_Subset
<1>13. b.size * (g + 1) <= Cardinality(V)
  <2> DEFINE x == b.size * g
  <2>1. x \in Nat /\ b.size * (g + 1) = x + b.size
    OBVIOUS
  <2>2. x <= Cardinality(U)
    BY DEF EnoughLeft, U
  <2> HIDE DEF x
  <2> QED
    BY <1>5, <1>6, <1>11, <1>12, <2>1, <2>2
<1> QED
  BY <1>3, <1>4, <1>13 DEF EnoughLeft, V

(* If any models do, there is one bucket and all of it can be used.        *)
LEMMA OneBucket ==
  ASSUME NEW b, AnyOffer(b), ~b.differentModels
  PROVE  /\ Keys(b) = {0}
         /\ \A n \in Nat, w \in [Keys(b) -> Nat] : Cardinality(Places(n, b, w)) = w[0]
         /\ \A w \in [Keys(b) -> Nat], count \in [Keys(b) -> Nat] :
              w[0] <= count[0] => Cardinality(UsedPlaces(b, count, w)) = count[0] - w[0]
<1>1. Keys(b) = {0}
  BY DEF Keys, BucketKey
<1>2. ASSUME NEW n \in Nat, NEW w \in [Keys(b) -> Nat]
      PROVE  Cardinality(Places(n, b, w)) = w[0]
  <2>1. Places(n, b, w) = {0} \X (1 .. w[0])
    BY <1>1 DEF Places
  <2>2. w[0] \in Nat
    BY <1>1
  <2> QED
    BY <2>1, <2>2, OwnUnits
<1>3. ASSUME NEW w \in [Keys(b) -> Nat], NEW count \in [Keys(b) -> Nat], w[0] <= count[0]
      PROVE  Cardinality(UsedPlaces(b, count, w)) = count[0] - w[0]
  <2>1. UsedPlaces(b, count, w) = {0} \X (1 .. count[0] - w[0])
    BY <1>1 DEF UsedPlaces
  <2>2. count[0] - w[0] \in Nat
    BY <1>1, <1>3
  <2> QED
    BY <2>1, <2>2, OwnUnits
<1> QED
  BY <1>1, <1>2, <1>3

(* Of one bucket any units do.                                             *)
LEMMA EnoughOfAnyModels ==
  ASSUME NEW b, AnyOffer(b), ~b.differentModels, NEW count \in [Keys(b) -> Nat], NEW g \in Nat,
         NEW w, EnoughLeft(b, count, w, g),
         NEW v \in [Keys(b) -> Nat], w[0] >= b.size, v[0] = w[0] - b.size
  PROVE  EnoughLeft(b, count, v, g + 1)
<1> DEFINE s == b.size
           c == count[0]
           x == w[0]
           y == v[0]
           t == s * g
<1>1. /\ s \in Nat /\ w \in [Keys(b) -> Nat] /\ Keys(b) = {0}
      /\ \A k \in Keys(b) : w[k] <= count[k]
  BY OneBucket DEF EnoughLeft, AnyOffer
<1>2. x \in Nat /\ y \in Nat /\ c \in Nat /\ x <= c /\ y = x - s
  BY <1>1
<1>3. t \in Nat /\ s * (g + 1) = t + s
  BY <1>1
<1>4. t <= c - x
  <2>1. Cardinality(UsedPlaces(b, count, w)) = c - x
    BY <1>1, <1>2, OneBucket
  <2> QED
    BY <2>1 DEF EnoughLeft
<1>5. Cardinality(UsedPlaces(b, count, v)) = c - y
  <2>1. y <= c
    BY <1>1, <1>2
  <2> QED
    BY <1>1, <2>1, OneBucket
<1> HIDE DEF t
<1>6. b.size * (g + 1) <= Cardinality(UsedPlaces(b, count, v))
  BY <1>1, <1>2, <1>3, <1>4, <1>5
<1>7. \A n \in Nat : n >= g + 1 /\ HasPlaces(n, b, count) => HasPlaces(n - (g + 1), b, v)
  <2>1. ASSUME NEW n \in Nat, n >= g + 1, HasPlaces(n, b, count)
        PROVE  HasPlaces(n - (g + 1), b, v)
    <3> DEFINE m == n - g
    <3>1. n >= g /\ m \in Nat /\ m > 0 /\ n - (g + 1) = m - 1
      BY <2>1, SameRest
    <3>2. HasPlaces(m, b, w)
      BY <2>1, <3>1 DEF EnoughLeft
    <3> HIDE DEF m
    <3>3. s * m <= x
      BY <1>1, <3>1, <3>2, OneBucket DEF HasPlaces
    <3> DEFINE z == s * (m - 1)
    <3>4. m - 1 \in Nat /\ z \in Nat /\ s * m = z + s
      BY <1>1, <3>1, OneLess
    <3> HIDE DEF z
    <3>5. z <= y
      BY <1>1, <1>2, <3>3, <3>4
    <3>6. HasPlaces(m - 1, b, v)
      BY <3>4, <3>5, OneBucket DEF HasPlaces, z
    <3> QED
      BY <3>1, <3>6
  <2> QED
    BY <2>1
<1>8. \A k \in Keys(b) : v[k] <= count[k]
  BY <1>1, <1>2
<1> QED
  BY <1>6, <1>7, <1>8 DEF EnoughLeft

(* When the buckets have too little for a group, there was too little.     *)
LEMMA EnoughAtLast ==
  ASSUME NEW b, AnyOffer(b), NEW count \in [Keys(b) -> Nat], NEW g \in Nat,
         NEW w, EnoughLeft(b, count, w, g),
         IF b.differentModels THEN Cardinality({k \in Keys(b) : w[k] > 0}) < b.size
                              ELSE w[0] < b.size
  PROVE  /\ HasPlaces(g, b, count)
         /\ \A n \in Nat : n > g => ~HasPlaces(n, b, count)
<1> DEFINE K == {k \in Keys(b) : w[k] > 0}
<1>1. /\ IsFiniteSet(Keys(b)) /\ b.differentModels \in BOOLEAN /\ b.size \in Nat /\ b.size > 0
      /\ w \in [Keys(b) -> Nat]
      /\ \A k \in Keys(b) : w[k] <= count[k] /\ (b.differentModels => count[k] - w[k] <= g)
  BY DEF AnyOffer, EnoughLeft
<1>2. HasPlaces(g, b, count)
  <2> DEFINE U == UsedPlaces(b, count, w)
             P == Places(g, b, count)
  <2>1. /\ IsFiniteSet(U) /\ Cardinality(U) \in Nat /\ U \subseteq Keys(b) \X Nat
        /\ \A k \in Keys(b), i \in Nat : <<k, i>> \in U <=> 1 <= i /\ i <= count[k] - w[k]
    BY <1>1, UsedTyped
  <2>2. /\ IsFiniteSet(P) /\ Cardinality(P) \in Nat
        /\ \A k \in Keys(b), i \in Nat :
             <<k, i>> \in P <=> 1 <= i /\ i <= count[k] /\ (b.differentModels => i <= g)
    BY <1>1, PlacesTyped
  <2> HIDE DEF U, P
  <2>3. U \subseteq P
    <3>1. ASSUME NEW k \in Keys(b), NEW i \in Nat, <<k, i>> \in U PROVE <<k, i>> \in P
      <4>1. 1 <= i /\ i <= count[k] - w[k] /\ count[k] \in Nat /\ w[k] \in Nat
        BY <1>1, <2>1, <3>1
      <4>2. i <= count[k] /\ (b.differentModels => i <= g)
        BY <1>1, <4>1
      <4> QED
        BY <2>2, <4>1, <4>2
    <3> QED
      BY <2>1, <3>1
  <2>4. Cardinality(U) <= Cardinality(P)
    BY <2>2, <2>3, FS_Subset
  <2> DEFINE x == b.size * g
  <2>5. x \in Nat /\ x <= Cardinality(U)
    BY <1>1 DEF EnoughLeft, U
  <2> HIDE DEF x
  <2>6. x <= Cardinality(P)
    BY <2>1, <2>2, <2>4, <2>5
  <2> QED
    BY <2>6 DEF HasPlaces, x, P
<1>3. ASSUME NEW n \in Nat, n > g, HasPlaces(n, b, count) PROVE FALSE
  <2> DEFINE m == n - g
             z == b.size * (m - 1)
  <2>1. m \in Nat /\ m > 0 /\ n >= g
    BY <1>3
  <2>2. HasPlaces(m, b, w)
    BY <1>3, <2>1 DEF EnoughLeft
  <2> HIDE DEF m
  <2>3. m - 1 \in Nat /\ z \in Nat /\ b.size * m = z + b.size
    BY <1>1, <2>1, OneLess
  <2>4. CASE ~b.differentModels
    <3>1. b.size * m <= w[0] /\ w[0] < b.size /\ w[0] \in Nat
      BY <1>1, <2>1, <2>2, <2>4, OneBucket DEF HasPlaces
    <3> HIDE DEF z
    <3> QED
      BY <1>1, <2>3, <3>1
  <2>5. CASE b.differentModels
    <3> DEFINE P == Places(m, b, w)
    <3>1. /\ IsFiniteSet(P) /\ Cardinality(P) \in Nat /\ P \subseteq Keys(b) \X Nat
          /\ \A k \in Keys(b), i \in Nat : <<k, i>> \in P <=> 1 <= i /\ i <= w[k] /\ i <= m
      BY <1>1, <2>1, <2>5, PlacesTyped
    <3>2. IsFiniteSet(K) /\ Cardinality(K) \in Nat /\ Cardinality(K) < b.size
      BY <1>1, <2>5, FS_Subset, FS_CardinalityType
    <3>3. P \subseteq K \X (1 .. m)
      <4> HIDE DEF P
      <4>1. ASSUME NEW k \in Keys(b), NEW i \in Nat, <<k, i>> \in P
            PROVE  k \in K /\ i \in 1 .. m
        <5>1. 1 <= i /\ i <= w[k] /\ i <= m /\ w[k] \in Nat
          BY <1>1, <3>1, <4>1
        <5> QED
          BY <2>1, <5>1
      <4> HIDE DEF K
      <4> QED
        BY <3>1, <4>1
    <3>4. IsFiniteSet(1 .. m) /\ Cardinality(1 .. m) = m
      BY <2>1, IntervalCardinality
    <3> HIDE DEF K
    <3>5. /\ IsFiniteSet(K \X (1 .. m))
          /\ Cardinality(K \X (1 .. m)) = Cardinality(K) * Cardinality(1 .. m)
      BY <3>2, <3>4, FS_Product
    <3>6. Cardinality(P) <= Cardinality(K \X (1 .. m))
      BY <3>3, <3>5, FS_Subset
    <3>7. b.size * m <= Cardinality(P)
      BY <2>2 DEF HasPlaces
    <3> DEFINE c == Cardinality(K)
    <3> HIDE DEF P, c
    <3>8. c \in Nat /\ c < b.size /\ b.size * m <= c * m
      <4>1. Cardinality(P) <= c * m
        BY <3>4, <3>5, <3>6 DEF c
      <4>2. c \in Nat /\ c < b.size
        BY <3>2 DEF c
      <4> DEFINE e == b.size * m
                 f == c * m
      <4>3. e \in Nat /\ f \in Nat
        BY <1>1, <2>1, <4>2
      <4> HIDE DEF e, f
      <4>4. e <= f
        BY <3>1, <3>7, <4>1, <4>3 DEF e, f
      <4> QED
        BY <4>2, <4>4 DEF e, f
    <3> QED
      <4>1. b.size * m = c * m + (b.size - c) * m
        BY <1>1, <2>1, <3>8
      <4>2. (b.size - c) * m > 0
        BY <1>1, <2>1, <3>8
      <4>3. c * m \in Nat /\ (b.size - c) * m \in Int
        BY <1>1, <2>1, <3>8
      <4> QED
        BY <3>8, <4>1, <4>2, <4>3
  <2> QED
    BY <2>4, <2>5
<1> QED
  BY <1>2, <1>3

(* The sum of equal amounts.                                               *)
LEMMA SumToEqual ==
  ASSUME NEW s, NEW c \in Int, NEW n \in Nat, \A i \in 1 .. n : s[i] = c
  PROVE  SumTo(s, n) = n * c
<1> DEFINE T == {k \in Nat : k <= n => SumTo(s, k) = k * c}
<1>1. 0 \in T
  BY SumToStep, 0 * c = 0
<1>2. ASSUME NEW k \in Nat, k \in T PROVE k + 1 \in T
  <2>1. SUFFICES ASSUME k + 1 <= n PROVE SumTo(s, k + 1) = (k + 1) * c
    OBVIOUS
  <2>2. k + 1 \in 1 .. n /\ SumTo(s, k) = k * c
    BY <1>2, <2>1
  <2>3. SumTo(s, k + 1) = SumTo(s, k) + s[k + 1]
    BY SumToStep
  <2>4. (k + 1) * c = k * c + c
    OBVIOUS
  <2> QED
    BY <2>2, <2>3, <2>4
<1> HIDE DEF T
<1>3. \A k \in Nat : k \in T
  BY <1>1, <1>2, Induction
<1> QED
  BY <1>3 DEF T

(* If any unit is worth its part of a group, so is every group.            *)
LEMMA PaysForGroups ==
  ASSUME PricingTypeOK, NEW m \in DOMAIN offers, Pays(offers[m]),
         NEW units \in Seq(EligibleLines(offers[m])), Len(units) = offers[m].size
  PROVE  Saving(units, offers[m]) >= 0
<1> DEFINE n == Len(units)
           b == offers[m]
           p == PricesOf(units)
           extra == [i \in 1 .. n |-> Surcharge(cart[units[i]].variant, b)]
           gain == [i \in 1 .. n |-> p[i] - extra[i]]
           many == [i \in 1 .. n |-> n * gain[i]]
           total == [i \in 1 .. n |-> b.fixedTotal]
<1>1. n \in Nat /\ DOMAIN units = 1 .. n /\ \A i \in 1 .. n : units[i] \in EligibleLines(b)
  OBVIOUS
<1>2. /\ b.fixedTotal \in Nat /\ n = b.size /\ n > 0
      /\ \A l \in EligibleLines(b) : Surcharge(cart[l].variant, b) \in Nat
  BY OfferTyped
<1>3. /\ \A i \in 1 .. n : p[i] = Price(units[i]) /\ Price(units[i]) \in Nat
      /\ Sum(p) = SumTo(p, n)
  <2>1. Len(p) = n /\ \A i \in 1 .. n : p[i] = Price(units[i])
    BY GroupAmounts
  <2>2. \A i \in 1 .. n : Price(units[i]) \in Nat
    BY <1>1, CartTyped DEF EligibleLines
  <2> HIDE DEF n, p
  <2> QED
    BY <2>1, <2>2 DEF Sum
<1>4. \A i \in 1 .. n : n * (Price(units[i]) - Surcharge(cart[units[i]].variant, b)) >= b.fixedTotal
  BY <1>1, <1>2 DEF Pays
<1>5. GroupTotal(units, b) = b.fixedTotal + Sum(extra)
  BY <1>1 DEF GroupTotal
<1>6. Saving(units, b) = Sum(p) - (b.fixedTotal + Sum(extra))
  BY <1>5 DEF Saving
<1> HIDE DEF n, b, p
<1>7. \A i \in 1 .. n : extra[i] \in Nat /\ p[i] \in Nat /\ gain[i] = p[i] - extra[i]
  BY <1>1, <1>2, <1>3
<1>8. \A i \in 1 .. n : n * gain[i] >= b.fixedTotal
  BY <1>3, <1>4
<1>9. extra \in [1 .. n -> Nat]
  BY <1>7
<1> HIDE DEF extra
<1>10. \A i \in 1 .. n : gain[i] \in Int
  BY <1>7
<1> HIDE DEF gain
<1>11. \A i \in 1 .. n : n * gain[i] \in Int
  BY <1>1, <1>10
<1>12. Sum(extra) = SumTo(extra, n) /\ SumTo(extra, n) \in Nat /\ SumTo(gain, n) \in Int
  <2>1. Len(extra) = n
    BY <1>1, <1>9, SequenceOf
  <2> QED
    BY <1>1, <1>7, <1>10, <2>1, SumToNat, SumToInt DEF Sum
<1>13. SumTo(p, n) = SumTo(gain, n) + SumTo(extra, n)
  <2>1. \A i \in 1 .. n : gain[i] \in Int /\ extra[i] \in Int /\ p[i] = gain[i] + extra[i]
    BY <1>7, <1>10
  <2> QED
    BY <1>1, <2>1, SumToPlus
<1>14. SumTo(many, n) = n * SumTo(gain, n)
  <2>1. \A i \in 1 .. n : gain[i] \in Int /\ many[i] = n * gain[i]
    BY <1>10
  <2> HIDE DEF many
  <2> QED
    BY <1>1, <2>1, SumToTimes
<1>15. SumTo(total, n) = n * b.fixedTotal
  <2>1. \A i \in 1 .. n : total[i] = b.fixedTotal
    OBVIOUS
  <2>2. n \in Nat /\ b.fixedTotal \in Int
    BY <1>1, <1>2
  <2> DEFINE f == b.fixedTotal
  <2>3. f \in Int /\ \A i \in 1 .. n : total[i] = f
    BY <2>1, <2>2
  <2> HIDE DEF total, f
  <2>4. SumTo(total, n) = n * f
    BY <2>2, <2>3, SumToEqual
  <2> QED
    BY <2>4 DEF f
<1>16. SumTo(total, n) <= SumTo(many, n)
  <2>1. \A i \in 1 .. n : total[i] \in Int /\ many[i] \in Int /\ total[i] <= many[i]
    <3>1. ASSUME NEW i \in 1 .. n
          PROVE  total[i] \in Int /\ many[i] \in Int /\ total[i] <= many[i]
      <4>1. total[i] = b.fixedTotal /\ many[i] = n * gain[i]
        OBVIOUS
      <4>2. n * gain[i] \in Int /\ b.fixedTotal <= n * gain[i] /\ b.fixedTotal \in Int
        BY <1>2, <1>8, <1>11
      <4> DEFINE x == n * gain[i]
      <4> HIDE DEF x, many, total
      <4> QED
        BY <4>1, <4>2 DEF x
    <3> QED
      BY <3>1
  <2> HIDE DEF total, many
  <2> QED
    BY <1>1, <2>1, SumToAtMost
<1> HIDE DEF many, total
<1> DEFINE f == b.fixedTotal
           g == SumTo(gain, n)
<1>17. f \in Nat /\ g \in Int /\ n * f <= n * g
  BY <1>2, <1>12, <1>14, <1>15, <1>16
<1>18. Sum(p) - (f + Sum(extra)) = g - f
  BY <1>3, <1>12, <1>13, <1>17
<1> HIDE DEF f, g
<1>19. f <= g
  <2> SUFFICES ASSUME g < f PROVE FALSE
    BY <1>17
  <2>1. f - g \in Nat /\ f - g > 0
    BY <1>17
  <2>2. n * (f - g) > 0 /\ n * (f - g) = n * f - n * g
    BY <1>1, <1>2, <1>17, <2>1
  <2>3. n * f \in Int /\ n * g \in Int
    BY <1>1, <1>17
  <2> QED
    BY <1>17, <2>2, <2>3
<1>20. Saving(units, b) = g - f
  BY <1>6, <1>18 DEF f
<1> QED
  BY <1>17, <1>19, <1>20 DEF b

-----------------------------------------------------------------------------
(* As many groups as possible.                                             *)

(* How many units wait in each bucket.                                     *)
Waits == [k \in DOMAIN buckets |-> Len(buckets[k])]

(* The premise of MostGroups.                                              *)
FirstPays == offers # <<>> /\ offers[1].repeatable /\ Pays(offers[1]) /\ ~Blocked(offers[1])

(* What the first offer has formed, and that it can form no more.          *)
FirstGroups == Cardinality(Formed(1))

FirstDone ==
  /\ HasPlaces(FirstGroups, offers[1], UnitCounts(offers[1]))
  /\ \A n \in Nat : n > FirstGroups => ~HasPlaces(n, offers[1], UnitCounts(offers[1]))

(* The inductive invariant: while the first offer is at work enough is left*)
(* for as many groups as are possible, and afterwards they are formed.     *)
MostKept ==
  FirstPays =>
    /\ turn = 1 /\ ~Building => groups = <<>> /\ remaining = Quantities(cart)
    /\ turn = 1 /\ Building =>
         EnoughLeft(offers[1], UnitCounts(offers[1]), Waits, FirstGroups)
    /\ turn # 1 => FirstDone

(* None of it depends on more than the input.                              *)
LEMMA SameFirst ==
  ASSUME UNCHANGED inputVars
  PROVE  /\ FirstPays' <=> FirstPays
         /\ \A b : UnitCounts(b)' = UnitCounts(b)
         /\ \A n, b, c : HasPlaces(n, b, c)' <=> HasPlaces(n, b, c)
         /\ \A b, c, w, g : EnoughLeft(b, c, w, g)' <=> EnoughLeft(b, c, w, g)
<1>1. /\ cart' = cart /\ offers' = offers /\ \A l : Price(l)' = Price(l)
      /\ \A b : /\ EligibleLines(b)' = EligibleLines(b) /\ Keys(b)' = Keys(b)
                /\ Blocked(b)' = Blocked(b)
      /\ \A l, b : BucketKey(l, b)' = BucketKey(l, b)
  BY SameInput
<1>2. \A b : Pays(b)' <=> Pays(b)
  BY <1>1 DEF Pays
<1>3. FirstPays' <=> FirstPays
  BY <1>1, <1>2 DEF FirstPays
<1>4. \A b, q : UnitsOfLines(b, q)' = UnitsOfLines(b, q)
  BY <1>1 DEF UnitsOfLines
<1>5. \A k, units, b : OfKey(k, units, b)' = OfKey(k, units, b)
  BY <1>1 DEF OfKey
<1>6. \A b : UnitCounts(b)' = UnitCounts(b)
  BY <1>1, <1>4, <1>5 DEF UnitCounts
<1>7. \A n, b, c : HasPlaces(n, b, c)' <=> HasPlaces(n, b, c)
  BY <1>1 DEF HasPlaces, Places
<1>8. \A b, c, w : UsedPlaces(b, c, w)' = UsedPlaces(b, c, w)
  BY <1>1 DEF UsedPlaces
<1>9. \A b, c, w, g : EnoughLeft(b, c, w, g)' <=> EnoughLeft(b, c, w, g)
  BY <1>1, <1>7, <1>8 DEF EnoughLeft
<1> QED
  BY <1>3, <1>6, <1>7, <1>9

(* The groups of the first offer can be counted, and so can its units.     *)
LEMMA FirstTyped ==
  ASSUME PricingTypeOK
  PROVE  /\ IsFiniteSet(Formed(1)) /\ FirstGroups \in Nat
         /\ offers # <<>> => /\ 1 \in DOMAIN offers /\ AnyOffer(offers[1])
                             /\ UnitCounts(offers[1]) \in [Keys(offers[1]) -> Nat]
<1>1. IsFiniteSet(Formed(1)) /\ FirstGroups \in Nat
  <2>1. Formed(1) \in SUBSET (1 .. Len(groups)) /\ Len(groups) \in Nat
    BY ConsumedTyped DEF Formed
  <2> QED
    BY <2>1, IntervalCardinality, FS_Subset, FS_CardinalityType DEF FirstGroups
<1> SUFFICES ASSUME offers # <<>>
             PROVE  /\ 1 \in DOMAIN offers /\ AnyOffer(offers[1])
                    /\ UnitCounts(offers[1]) \in [Keys(offers[1]) -> Nat]
  BY <1>1
<1>2. 1 \in DOMAIN offers
  <2>1. offers \in Seq({offers[m] : m \in DOMAIN offers})
    BY PricingAssumption DEF PricingAssumption, PricingTypeOK
  <2> DEFINE O == {offers[m] : m \in DOMAIN offers}
  <2> HIDE DEF O
  <2>2. offers \in Seq(O)
    BY <2>1 DEF O
  <2> QED
    BY <2>2
<1> DEFINE b == offers[1]
           q == Quantities(cart)
           units == UnitsOfLines(b, q)
<1>3. AnyOffer(b)
  BY <1>2, OfferTyped, KeysTyped DEF AnyOffer
<1>4. q \in [DOMAIN cart -> Int]
  BY CartTyped DEF Quantities
<1>5. units \subseteq (DOMAIN cart) \X (Nat \ {0}) /\ IsFiniteSet(units)
  BY <1>4, UnitsTyped, UnitsFiniteToo
<1> HIDE DEF b, q, units
<1>6. \A k \in Keys(b) : Cardinality(OfKey(k, units, b)) \in Nat
  BY <1>5, BucketUnits, FS_CardinalityType
<1>7. UnitCounts(b) = [k \in Keys(b) |-> Cardinality(OfKey(k, units, b))]
  BY DEF UnitCounts, units, q
<1> QED
  BY <1>2, <1>3, <1>6, <1>7 DEF b

(* Whatever has changed, to what it is now.                                *)
LEMMA EnoughNow ==
  ASSUME UNCHANGED inputVars, NEW w, Waits' = w, NEW g, FirstGroups' = g,
         EnoughLeft(offers[1], UnitCounts(offers[1]), w, g)
  PROVE  EnoughLeft(offers[1], UnitCounts(offers[1]), Waits, FirstGroups)'
<1> DEFINE b == offers[1]
           c == UnitCounts(b)
<1>1. b' = b /\ c' = c
  BY SameInput, SameFirst
<1>2. EnoughLeft(b, c, w, g)'
  <2>1. \A x, y, z, u : EnoughLeft(x, y, z, u)' <=> EnoughLeft(x, y, z, u)
    BY SameFirst
  <2> HIDE DEF b, c
  <2>2. EnoughLeft(b, c, w, g)
    BY DEF b, c
  <2> QED
    BY <1>1, <2>1, <2>2
<1> QED
  BY <1>1, <1>2

(* What the first offer has formed stays.                                  *)
LEMMA DoneStays ==
  ASSUME UNCHANGED inputVars, Formed(1)' = Formed(1), FirstDone
  PROVE  FirstDone'
<1>1. FirstGroups' = FirstGroups /\ offers' = offers
      /\ UnitCounts(offers[1])' = UnitCounts(offers[1])
  BY SameInput, SameFirst DEF FirstGroups
<1>2. \A n, b, c : HasPlaces(n, b, c)' <=> HasPlaces(n, b, c)
  BY SameFirst
<1> QED
  BY <1>1, <1>2 DEF FirstDone

(* The buckets of the first offer hold all its units.                      *)
LEMMA MostKeptBuild ==
  ASSUME PricingInv, MostKept, BuildBuckets
  PROVE  MostKept'
<1> USE DEF PricingInv
<1> DEFINE b == offers[1]
           c == UnitCounts(b)
<1>1. /\ UNCHANGED inputVars /\ turn' = turn /\ groups' = groups /\ remaining' = remaining
      /\ ~Building /\ ~Priced
      /\ LET o == offers[turn]
         IN buckets' = [k \in Keys(o) |-> Bucket(k, UnitsOfLines(o, remaining), o)]
  BY DEF BuildBuckets, Building
<1>2. cart' = cart /\ offers' = offers /\ Formed(1)' = Formed(1)
  BY <1>1, SameInput DEF Formed
<1> SUFFICES ASSUME FirstPays
             PROVE  /\ turn = 1 => groups' = <<>> /\ remaining' = Quantities(cart')
                    /\ turn = 1 =>
                         EnoughLeft(offers[1], UnitCounts(offers[1]), Waits, FirstGroups)'
                    /\ turn # 1 => FirstDone'
  BY <1>1, <1>2, SameFirst DEF MostKept
<1>3. turn # 1 => FirstDone'
  BY <1>1, <1>2, DoneStays DEF MostKept
<1>4. ASSUME turn = 1 PROVE groups = <<>> /\ remaining = Quantities(cart)
  BY <1>1, <1>4 DEF MostKept
<1>5. ASSUME turn = 1
      PROVE  EnoughLeft(offers[1], UnitCounts(offers[1]), Waits, FirstGroups)'
  <2> DEFINE q == Quantities(cart)
             units == UnitsOfLines(b, q)
  <2>1. /\ AnyOffer(b) /\ c \in [Keys(b) -> Nat]
    BY FirstTyped DEF FirstPays
  <2>2. buckets' = [k \in Keys(b) |-> Bucket(k, units, b)]
    BY <1>1, <1>4, <1>5
  <2>3. q \in [DOMAIN cart -> Int]
    BY CartTyped DEF Quantities
  <2>4. units \subseteq (DOMAIN cart) \X (Nat \ {0}) /\ IsFiniteSet(units)
    BY <2>3, UnitsTyped, UnitsFiniteToo
  <2>5. c = [k \in Keys(b) |-> Cardinality(OfKey(k, units, b))]
    BY DEF UnitCounts
  <2> HIDE DEF b, c, units, q
  <2>6. \A k \in Keys(b) : Len(Bucket(k, units, b)) = Cardinality(OfKey(k, units, b))
    BY <2>4, BucketUnits
  <2>7. Waits' = [k \in Keys(b) |-> Len(Bucket(k, units, b))]
    BY <2>2 DEF Waits
  <2>8. Waits' = c
    BY <2>5, <2>6, <2>7
  <2>9. FirstGroups' = 0
    <3>1. Formed(1) = {}
      BY <1>4, <1>5 DEF Formed
    <3> QED
      BY <1>2, <3>1, FS_EmptySet DEF FirstGroups
  <2>10. EnoughLeft(b, c, c, 0)
    BY <2>1, EnoughAtFirst
  <2> QED
    BY <1>1, <2>8, <2>9, <2>10, EnoughNow DEF b, c
<1> QED
  BY <1>1, <1>2, <1>3, <1>4, <1>5

(* What a group takes of the buckets.                                      *)
LEMMA WaitsTyped ==
  ASSUME PricingTypeOK, Building
  PROVE  /\ Waits \in [Keys(offers[turn]) -> Nat]
         /\ NonEmpty = {k \in Keys(offers[turn]) : Waits[k] > 0}
<1> DEFINE b == offers[turn]
<1>1. /\ DOMAIN buckets = Keys(b)
      /\ \A k \in Keys(b) : Len(buckets[k]) \in Nat /\ DOMAIN buckets[k] = 1 .. Len(buckets[k])
      /\ \A k \in Keys(b) : buckets[k] \in Seq((DOMAIN cart) \X (Nat \ {0}))
  BY BucketsTyped
<1>2. Waits = [k \in Keys(b) |-> Len(buckets[k])]
  BY <1>1 DEF Waits
<1>3. \A k \in Keys(b) : buckets[k] # <<>> <=> Len(buckets[k]) > 0
  BY <1>1, EmptySeq
<1> HIDE DEF b
<1> QED
  BY <1>1, <1>2, <1>3 DEF NonEmpty, b

(* A group of different models takes one from each of the largest buckets. *)
LEMMA TopsTaken ==
  ASSUME PricingTypeOK, Building, NEW b, b = offers[turn], b.differentModels, Fillable(b),
         buckets' = Taken(b)
  PROVE  \E key \in [1 .. b.size -> Keys(b)] :
           Waits' \in [Keys(b) -> Nat] /\ TakesTops(Waits', Waits, key, b)
<1>1. PICK key \in [1 .. b.size -> NonEmpty] : TakesFirst(key, b)
  BY OfDifferentModels
<1>2. /\ DOMAIN buckets = Keys(b) /\ NonEmpty \subseteq Keys(b)
      /\ \A k \in Keys(b) : Len(buckets[k]) \in Nat
      /\ \A k \in Keys(b) : buckets[k] \in Seq(Unit)
      /\ \A k \in NonEmpty : Len(buckets[k]) > 0
  BY BucketsTyped DEF Unit
<1>3. /\ \A i, j \in 1 .. b.size : key[i] = key[j] => i = j
      /\ buckets' = [k \in Keys(b) |-> IF \E i \in 1 .. b.size : key[i] = k
                                         THEN Tail(buckets[k]) ELSE buckets[k]]
      /\ \A k \in Keys(b), i \in 1 .. b.size :
           (\A j \in 1 .. b.size : key[j] # k) => Len(buckets[k]) <= Len(buckets[key[i]])
  BY <1>1 DEF TakesFirst
<1>4. Waits = [k \in Keys(b) |-> Len(buckets[k])] /\ Waits' = [k \in Keys(b) |-> Len(buckets'[k])]
  BY <1>2, <1>3 DEF Waits
<1>5. key \in [1 .. b.size -> Keys(b)]
  BY <1>2
<1>6. ASSUME NEW k \in Keys(b), \A i \in 1 .. b.size : key[i] # k
      PROVE  buckets'[k] = buckets[k]
  BY <1>3, <1>6
<1>7. ASSUME NEW i \in 1 .. b.size
      PROVE  Len(buckets[key[i]]) > 0 /\ Len(buckets'[key[i]]) = Len(buckets[key[i]]) - 1
  <2> DEFINE s == buckets[key[i]]
  <2>1. s \in Seq(Unit) /\ Len(s) > 0 /\ Len(s) \in Nat /\ key[i] \in Keys(b)
    BY <1>2
  <2>2. buckets'[key[i]] = Tail(s)
    BY <1>3, <2>1
  <2> HIDE DEF s
  <2>3. Len(Tail(s)) = Len(s) - 1
    BY <2>1
  <2> QED
    BY <2>1, <2>2, <2>3 DEF s
<1>8. \A k \in Keys(b) : Len(buckets'[k]) \in Nat
  <2>1. ASSUME NEW k \in Keys(b) PROVE Len(buckets'[k]) \in Nat
    <3>1. CASE \A i \in 1 .. b.size : key[i] # k
      BY <1>2, <1>6, <3>1
    <3>2. CASE \E i \in 1 .. b.size : key[i] = k
      <4>1. PICK i \in 1 .. b.size : key[i] = k
        BY <3>2
      <4> QED
        BY <1>2, <1>7, <4>1
    <3> QED
      BY <3>1, <3>2
  <2> QED
    BY <2>1
<1>9. TakesTops(Waits', Waits, key, b)
  BY <1>3, <1>4, <1>5, <1>6, <1>7 DEF TakesTops
<1>10. Waits' \in [Keys(b) -> Nat]
  BY <1>4, <1>8
<1> QED
  BY <1>5, <1>9, <1>10

(* If any models do, a group takes its units from the only bucket.         *)
LEMMA UnitsTaken ==
  ASSUME PricingTypeOK, Building, NEW b, b = offers[turn], ~b.differentModels, Fillable(b),
         buckets' = Taken(b)
  PROVE  /\ Waits' \in [Keys(b) -> Nat] /\ Waits[0] >= b.size
         /\ Waits'[0] = Waits[0] - b.size
<1>1. /\ DOMAIN buckets = Keys(b) /\ 0 \in Keys(b)
      /\ \A k \in Keys(b) : /\ buckets[k] \in Seq(Unit) /\ Len(buckets[k]) \in Nat
      /\ turn \in DOMAIN offers
  BY BucketsTyped DEF Unit
<1>2. b.size \in Nat
  BY <1>1, OfferTyped
<1>3. Keys(b) = {0}
  BY DEF Keys, BucketKey
<1> DEFINE s == buckets[0]
           rest == SubSeq(s, b.size + 1, Len(s))
<1>4. s \in Seq(Unit) /\ Len(s) \in Nat /\ Len(s) >= b.size
  BY <1>1 DEF Fillable
<1>5. buckets' = [buckets EXCEPT ![0] = rest]
  BY DEF Taken
<1> HIDE DEF s
<1>6. Len(rest) = Len(s) - b.size
  BY <1>2, <1>4
<1> HIDE DEF rest
<1>7. DOMAIN buckets' = {0} /\ buckets'[0] = rest
  BY <1>1, <1>3, <1>5
<1>8. Waits' = [k \in {0} |-> Len(rest)]
  BY <1>7 DEF Waits
<1>9. Waits[0] = Len(s)
  BY <1>1, <1>3 DEF Waits, s
<1> QED
  BY <1>2, <1>3, <1>4, <1>6, <1>8, <1>9

(* A group more of the first offer, and enough left for the rest.          *)
LEMMA MostKeptForm ==
  ASSUME PricingInv, MostKept, FormGroup
  PROVE  MostKept'
<1> USE DEF PricingInv
<1> DEFINE b == offers[turn]
           units == LinesOf(Chosen(b))
           saving == Saving(units, b)
           shares == AllocateDiscount(PricesOf(units), saving)
           g == [offer |-> turn, units |-> units, discount |-> saving, shares |-> shares]
           n == Len(groups)
<1>1. /\ UNCHANGED inputVars /\ turn' = turn /\ Building /\ AnotherFits(b)
      /\ groups' = Append(groups, g) /\ buckets' = Taken(b)
  BY DEF FormGroup
<1>2. TakesUnits(b) /\ Fillable(b)
  BY <1>1, GroupFormed DEF AnotherFits
<1>3. Building'
  <2>1. DOMAIN buckets' = Keys(b) /\ 0 \in Keys(b)
    BY <1>1, <1>2, BucketsTyped DEF TakesUnits
  <2> QED
    BY <2>1 DEF Building, NotBuilt
<1>4. g.offer = turn
  OBVIOUS
<1> HIDE DEF g
<1>5. /\ n \in Nat /\ DOMAIN groups = 1 .. n /\ DOMAIN groups' = 1 .. n + 1
      /\ groups'[n + 1] = g /\ \A i \in 1 .. n : groups'[i] = groups[i]
  BY <1>1, AppendProperties DEF PricingTypeOK
<1> HIDE DEF n
<1> SUFFICES ASSUME FirstPays
             PROVE  /\ turn = 1 =>
                         EnoughLeft(offers[1], UnitCounts(offers[1]), Waits, FirstGroups)'
                    /\ turn # 1 => FirstDone'
  BY <1>1, <1>3, SameFirst DEF MostKept
<1>6. ASSUME turn # 1 PROVE FirstDone'
  <2>1. Formed(1)' = Formed(1)
    BY <1>4, <1>5, <1>6 DEF Formed
  <2> QED
    BY <1>1, <1>6, <2>1, DoneStays DEF MostKept
<1>7. ASSUME turn = 1
      PROVE  EnoughLeft(offers[1], UnitCounts(offers[1]), Waits, FirstGroups)'
  <2> DEFINE c == UnitCounts(b)
  <2>1. b = offers[1] /\ AnyOffer(b) /\ c \in [Keys(b) -> Nat] /\ FirstGroups \in Nat
    BY <1>7, FirstTyped DEF FirstPays
  <2>2. FirstGroups' = FirstGroups + 1
    <3>1. Formed(1)' = Formed(1) \cup {n + 1} /\ n + 1 \notin Formed(1)
      BY <1>4, <1>5, <1>7 DEF Formed
    <3>2. IsFiniteSet(Formed(1))
      BY FirstTyped
    <3> QED
      BY <3>1, <3>2, FS_AddElement DEF FirstGroups
  <2>3. EnoughLeft(b, c, Waits, FirstGroups)
    BY <1>1, <1>7, <2>1 DEF MostKept
  <2>4. EnoughLeft(b, c, Waits', FirstGroups + 1)
    <3>1. CASE b.differentModels
      <4>1. PICK key \in [1 .. b.size -> Keys(b)] :
              Waits' \in [Keys(b) -> Nat] /\ TakesTops(Waits', Waits, key, b)
        BY <1>1, <1>2, <3>1, TopsTaken
      <4> HIDE DEF b, c
      <4> QED
        BY <2>1, <2>3, <3>1, <4>1, EnoughOfDifferentModels
    <3>2. CASE ~b.differentModels
      <4>1. /\ Waits' \in [Keys(b) -> Nat] /\ Waits[0] >= b.size
            /\ Waits'[0] = Waits[0] - b.size
        BY <1>1, <1>2, <3>2, UnitsTaken
      <4> HIDE DEF b, c
      <4> QED
        BY <2>1, <2>3, <3>2, <4>1, EnoughOfAnyModels
    <3> QED
      BY <3>1, <3>2
  <2> DEFINE w == Waits'
             f == FirstGroups + 1
  <2>5. Waits' = w /\ FirstGroups' = f /\ EnoughLeft(offers[1], UnitCounts(offers[1]), w, f)
    BY <2>1, <2>2, <2>4
  <2> QED
    BY <1>1, <2>5, EnoughNow
<1> QED
  BY <1>6, <1>7

(* The first offer ends when its units are too few for one more.           *)
LEMMA MostKeptEnd ==
  ASSUME PricingInv, MostKept, SkipOffer \/ EndOffer
  PROVE  MostKept'
<1> USE DEF PricingInv
<1> DEFINE b == offers[1]
           c == UnitCounts(b)
<1>1. UNCHANGED inputVars /\ groups' = groups /\ turn' = turn + 1 /\ turn \in Nat /\ turn > 0
  BY TurnTyped DEF SkipOffer, EndOffer, PricingTypeOK
<1>2. Formed(1)' = Formed(1) /\ turn' # 1
  BY <1>1 DEF Formed
<1> SUFFICES ASSUME FirstPays PROVE FirstDone'
  BY <1>1, <1>2, SameFirst DEF MostKept
<1>3. ASSUME turn = 1 PROVE FirstDone
  <2>1. EndOffer
    BY <1>3 DEF SkipOffer, FirstPays
  <2>2. Building /\ ~AnotherFits(b)
    BY <1>3, <2>1 DEF EndOffer
  <2>3. /\ 1 \in DOMAIN offers /\ AnyOffer(b) /\ c \in [Keys(b) -> Nat] /\ FirstGroups \in Nat
        /\ Pays(b) /\ b.repeatable
    BY FirstTyped DEF FirstPays
  <2>4. ~Fillable(b)
    <3> SUFFICES ASSUME Fillable(b) PROVE FALSE
      OBVIOUS
    <3> DEFINE units == LinesOf(Chosen(b))
    <3>1. units \in Seq(EligibleLines(b)) /\ Len(units) = b.size
      BY <1>3, <2>2, GroupUnits
    <3>2. Saving(units, b) >= 0
      BY <2>3, <3>1, PaysForGroups
    <3> QED
      BY <1>3, <2>2, <2>3, <3>2 DEF AnotherFits
  <2>5. EnoughLeft(b, c, Waits, FirstGroups)
    BY <1>3, <2>2 DEF MostKept
  <2>6. /\ Waits \in [Keys(b) -> Nat] /\ NonEmpty = {k \in Keys(b) : Waits[k] > 0}
    BY <1>3, <2>2, WaitsTyped
  <2>7. IF b.differentModels THEN Cardinality({k \in Keys(b) : Waits[k] > 0}) < b.size
                             ELSE Waits[0] < b.size
    <3>1. CASE b.differentModels
      <4>1. IsFiniteSet(NonEmpty) /\ Cardinality(NonEmpty) \in Nat
        BY <1>3, <2>2, BucketsTyped, FS_CardinalityType
      <4> QED
        BY <2>3, <2>4, <2>6, <3>1, <4>1 DEF Fillable, AnyOffer
    <3>2. CASE ~b.differentModels
      <4>1. DOMAIN buckets = Keys(b) /\ 0 \in Keys(b) /\ Len(buckets[0]) \in Nat
        BY <1>3, <2>2, BucketsTyped
      <4>2. Waits[0] = Len(buckets[0])
        BY <4>1 DEF Waits
      <4> QED
        BY <2>3, <2>4, <3>2, <4>1, <4>2 DEF Fillable, AnyOffer
    <3> QED
      BY <3>1, <3>2
  <2> HIDE DEF b, c
  <2>8. /\ HasPlaces(FirstGroups, b, c)
        /\ \A n \in Nat : n > FirstGroups => ~HasPlaces(n, b, c)
    BY <2>3, <2>5, <2>7, EnoughAtLast
  <2> QED
    BY <2>8 DEF FirstDone, b, c
<1>4. FirstDone
  BY <1>3 DEF MostKept
<1> QED
  BY <1>1, <1>2, <1>4, DoneStays

(* With a unit more in the cart all begins anew.                           *)
LEMMA MostKeptAdd ==
  ASSUME PricingInv, NEW v, AddUnit(v)
  PROVE  MostKept'
<1>1. turn' = 1 /\ groups' = <<>> /\ remaining' = Quantities(cart') /\ buckets' = buckets /\ Priced
  BY DEF AddUnit
<1>2. ~Building
  <2>1. turn \in Nat /\ Len(offers) \in Nat
    BY TurnTyped DEF PricingInv, PricingTypeOK
  <2> QED
    BY <1>1, <2>1 DEF PricingInv, PricingTypeOK, Priced
<1>3. ~Building'
  BY <1>1, <1>2 DEF Building
<1> QED
  BY <1>1, <1>3 DEF MostKept, Quantities

(* A step that prices nothing leaves it as it is.                          *)
LEMMA MostKeptStays ==
  ASSUME MostKept, UNCHANGED <<inputVars, remaining, buckets, groups, turn>>
  PROVE  MostKept'
<1>1. /\ UNCHANGED inputVars /\ remaining' = remaining /\ buckets' = buckets
      /\ groups' = groups /\ turn' = turn
  OBVIOUS
<1>2. cart' = cart /\ Formed(1)' = Formed(1)
  BY <1>1, SameInput DEF Formed
<1>3. Waits' = Waits /\ FirstGroups' = FirstGroups /\ Building' = Building
  BY <1>1, <1>2 DEF Waits, FirstGroups, Building
<1>4. EnoughLeft(offers[1], UnitCounts(offers[1]), Waits, FirstGroups)
        => EnoughLeft(offers[1], UnitCounts(offers[1]), Waits, FirstGroups)'
  BY <1>1, <1>3, EnoughNow
<1>5. FirstDone => FirstDone'
  BY <1>1, <1>2, DoneStays
<1>6. FirstPays' <=> FirstPays
  BY <1>1, SameFirst
<1> QED
  BY <1>1, <1>2, <1>3, <1>4, <1>5, <1>6 DEF MostKept, Quantities

(* At first nothing is built.                                              *)
LEMMA MostKeptInit == PricingInit => MostKept
  BY DEF PricingInit, MostKept, Building

(* Every step keeps it.                                                    *)
LEMMA MostKeptNext == PricingInv /\ MostKept /\ [PricingNext]_pricingVars => MostKept'
<1> SUFFICES ASSUME PricingInv, MostKept, [PricingNext]_pricingVars PROVE MostKept'
  OBVIOUS
<1>1. CASE SkipOffer \/ EndOffer
  BY <1>1, MostKeptEnd
<1>2. CASE BuildBuckets
  BY <1>2, MostKeptBuild
<1>3. CASE FormGroup
  BY <1>3, MostKeptForm
<1>4. ASSUME NEW v \in DOMAIN Catalog, AddUnit(v) PROVE MostKept'
  BY <1>4, MostKeptAdd
<1>5. CASE Show \/ DraftGroup \/ DraftRest
  <2>1. UNCHANGED <<inputVars, remaining, buckets, groups, turn>>
    BY <1>5 DEF Show, DraftGroup, DraftRest
  <2> QED
    BY <2>1, MostKeptStays
<1>6. CASE UNCHANGED pricingVars
  <2>1. UNCHANGED <<inputVars, remaining, buckets, groups, turn>>
    BY <1>6 DEF pricingVars
  <2> QED
    BY <2>1, MostKeptStays
<1> QED
  BY <1>1, <1>2, <1>3, <1>4, <1>5, <1>6 DEF PricingNext

(* Once all is priced the first offer is done.                             *)
LEMMA KeptMeansMost ==
  ASSUME PricingInv, MostKept
  PROVE  MostGroups
<1> SUFFICES ASSUME Priced, offers # <<>>, FirstPays
             PROVE  /\ Possible(FirstGroups, offers[1])
                    /\ \A n \in FirstGroups + 1 .. Sum(Quantities(cart)) : ~Possible(n, offers[1])
  BY DEF MostGroups, FirstPays, FirstGroups
<1>1. turn # 1 /\ FirstGroups \in Nat
  <2>1. 1 \in DOMAIN offers /\ FirstGroups \in Nat
    BY FirstTyped DEF PricingInv
  <2>2. Len(offers) \in Nat /\ DOMAIN offers = 1 .. Len(offers)
    BY <2>1, OfferTyped DEF PricingInv
  <2> QED
    BY <2>1, <2>2 DEF Priced
<1>2. FirstDone
  BY <1>1 DEF MostKept
<1>3. \A n \in FirstGroups + 1 .. Sum(Quantities(cart)) : n \in Nat /\ n > FirstGroups
  BY <1>1
<1> QED
  BY <1>2, <1>3 DEF FirstDone, HasPlaces, Possible

(* "Maximizing the number of pairs formed": an offer of                    *)
(* computeBundleInstances that may be repeated and pays for any units forms*)
(* as many groups as the units of the cart allow, however it chooses among *)
(* buckets of the same size.                                               *)
THEOREM MostGroupsFormed == PricingSpec => []MostGroups
<1>1. PricingSpec => []MostKept
  BY PricingInvariant, MostKeptInit, MostKeptNext, PTL DEF PricingSpec
<1> QED
  BY <1>1, PricingInvariant, KeptMeansMost, PTL

-----------------------------------------------------------------------------
(* Refunds and returns                                                     *)

USE RefundsAssumption DEF RefundsAssumption

(* The recorded refund of the attempt's key is one of its own order.       *)
Recorded(a) ==
  refund[KeyOf[a]] # NoRefund /\ refund[KeyOf[a]].order = OrderOf[a]

(* What was read under the lock of the order still holds.                  *)
HoldsOrder(a) ==
  /\ pc[a] \in {"look", "insert", "commit"} => locked[OrderOf[a]] = a
  /\ pc[a] \in {"insert", "commit"} => Refundable(a) /\ ~Recorded(a)

(* An uncommitted row is alone with its key.                               *)
HoldsKey(a) ==
  pc[a] = "commit" => inserted[KeyOf[a]] = a /\ refund[KeyOf[a]] = NoRefund

(* What was read under the lock of the line still holds.                   *)
HoldsLine(r) ==
  pc[r] = "record" => lineLock = r /\ returned[r] = returned["committed"]

RefundsInv ==
  /\ RefundsTypeOK
  /\ \A a \in Attempt : HoldsOrder(a) /\ HoldsKey(a)
  /\ \A r \in Return : HoldsLine(r)
  /\ RefundsAddUp
  /\ ReturnsWithinPurchase

-----------------------------------------------------------------------------
(* Units of money                                                          *)

Units(f, K) == UNION {{k} \X (1 .. f[k].amount) : k \in K}

(* The units of any refunds can be counted.                                *)
LEMMA UnitsFinite ==
  ASSUME NEW f, NEW K \in SUBSET Key, \A k \in K : f[k].amount \in Nat
  PROVE  IsFiniteSet(Units(f, K)) /\ Cardinality(Units(f, K)) \in Nat
<1> DEFINE own(k) == {k} \X (1 .. f[k].amount)
           unitsOf == [k \in K |-> own(k)]
           T == {unitsOf[k] : k \in K}
<1>1. IsFiniteSet(K)
  BY FS_Subset
<1>2. IsFiniteSet(T)
  <2>1. unitsOf \in Surjection(K, T)
    BY DEF Surjection
  <2> QED
    BY <1>1, <2>1, FS_Surjection
<1>3. ASSUME NEW k \in K
      PROVE  IsFiniteSet(unitsOf[k])
  <2>1. f[k].amount \in Nat
    OBVIOUS
  <2>2. IsFiniteSet(own(k))
    BY <2>1, OwnUnits
  <2> HIDE DEF own
  <2>3. unitsOf[k] = own(k)
    OBVIOUS
  <2> QED
    BY <2>2, <2>3, Zenon
<1>4. Units(f, K) = UNION T
  BY DEF Units
<1> HIDE DEF own, unitsOf
<1>5. \A t \in T : IsFiniteSet(t)
  BY <1>3
<1> HIDE DEF T
<1>6. IsFiniteSet(UNION T)
  BY <1>2, <1>5, FS_UNION
<1> QED
  BY <1>4, <1>6, FS_CardinalityType

(* A refund that is recorded adds its amount.                              *)
LEMMA UnitsAdd ==
  ASSUME NEW f, NEW K \in SUBSET Key, NEW k \in Key \ K,
         \A j \in K \cup {k} : f[j].amount \in Nat
  PROVE  Cardinality(Units(f, K \cup {k})) = Cardinality(Units(f, K)) + f[k].amount
<1> DEFINE own == {k} \X (1 .. f[k].amount)
           n == Cardinality(Units(f, K))
           q == f[k].amount
<1>1. IsFiniteSet(own) /\ Cardinality(own) = q
  BY OwnUnits
<1>2. Units(f, K \cup {k}) = Units(f, K) \cup own
  BY DEF Units
<1>3. Units(f, K) \cap own = {}
  BY DEF Units
<1>4. IsFiniteSet(Units(f, K)) /\ n \in Nat
  BY UnitsFinite
<1>5. Cardinality(Units(f, K) \cap own) = 0
  BY <1>3, FS_EmptySet
<1> HIDE DEF own
<1>6. Cardinality(Units(f, K) \cup own)
        = Cardinality(Units(f, K)) + Cardinality(own) - Cardinality(Units(f, K) \cap own)
  BY <1>1, <1>4, FS_Union
<1>7. n \in Nat /\ q \in Nat
  BY <1>4
<1>8. Cardinality(Units(f, K) \cup own) = n + q - 0
  BY <1>1, <1>5, <1>6, Zenon
<1>9. n + q - 0 = n + q
  BY <1>7
<1> QED
  BY <1>2, <1>8, <1>9, Zenon

(* What is refunded of an order is a number, and none without a refund.    *)
LEMMA RefundedType ==
  ASSUME RefundsTypeOK, NEW o \in Order
  PROVE  Refunded(o) \in Nat
<1>1. RefundsOf(o) \in SUBSET Key /\ \A k \in RefundsOf(o) : refund[k].amount \in Nat
  BY DEF RefundsOf, RefundsTypeOK
<1>2. Refunded(o) = Cardinality(Units(refund, RefundsOf(o)))
  BY DEF Refunded, Units
<1> QED
  BY <1>1, <1>2, UnitsFinite

(* A commit adds the amount of its refund to its own order and to no other.*)
LEMMA CommitAdds ==
  ASSUME RefundsTypeOK, NEW a \in Attempt, NEW o \in Order,
         refund[KeyOf[a]] = NoRefund,
         refund' = [refund EXCEPT ![KeyOf[a]] =
                      [order |-> OrderOf[a], amount |-> AmountOf[a]]]
  PROVE  /\ o = OrderOf[a] => /\ Refunded(o)' = Refunded(o) + AmountOf[a]
                              /\ RefundsOf(o)' # {}
         /\ o # OrderOf[a] => /\ Refunded(o)' = Refunded(o)
                              /\ RefundsOf(o)' = RefundsOf(o)
<1> USE DEF RefundsTypeOK
<1> DEFINE k == KeyOf[a]
           K == RefundsOf(o)
           entry == [order |-> OrderOf[a], amount |-> AmountOf[a]]
<1>1. /\ k \in Key /\ refund'[k] = entry /\ refund'[k] # NoRefund
      /\ \A j \in Key \ {k} : refund'[j] = refund[j]
  <2>1. k \in Key
    OBVIOUS
  <2>2. entry \in [order : Order, amount : Nat \ {0}]
    OBVIOUS
  <2>3. entry # NoRefund
    BY <2>2
  <2> QED
    BY <2>1, <2>3
<1>2. K \in SUBSET Key /\ k \notin K /\ \A j \in K : refund[j].amount \in Nat
  BY DEF RefundsOf
<1>3. \A j \in K : refund'[j] = refund[j]
  BY <1>1, <1>2
<1>4. Units(refund', K) = Units(refund, K)
  BY <1>3 DEF Units
<1>5. /\ Refunded(o) = Cardinality(Units(refund, K))
      /\ Refunded(o)' = Cardinality(Units(refund', RefundsOf(o)'))
  BY DEF Refunded, Units
<1>6. CASE o = OrderOf[a]
  <2>1. RefundsOf(o)' = K \cup {k}
    BY <1>1, <1>6 DEF RefundsOf
  <2>2. \A j \in K \cup {k} : refund'[j].amount \in Nat
    BY <1>1, <1>2, <1>3
  <2>3. k \in Key \ K
    BY <1>1, <1>2
  <2>4. ASSUME NEW f, \A j \in K \cup {k} : f[j].amount \in Nat
        PROVE  Cardinality(Units(f, K \cup {k})) = Cardinality(Units(f, K)) + f[k].amount
    BY <1>2, <2>3, <2>4, UnitsAdd
  <2>5. Cardinality(Units(refund', K \cup {k}))
          = Cardinality(Units(refund', K)) + refund'[k].amount
    BY <2>2, <2>4
  <2> QED
    BY <1>1, <1>4, <1>5, <1>6, <2>1, <2>5
<1>7. CASE o # OrderOf[a]
  <2>1. RefundsOf(o)' = K
    BY <1>1, <1>2, <1>3, <1>7 DEF RefundsOf
  <2> QED
    BY <1>4, <1>5, <1>7, <2>1
<1> QED
  BY <1>6, <1>7

-----------------------------------------------------------------------------
(* Types                                                                   *)

LEMMA RefundsInitType == Init => RefundsTypeOK
BY DEF Init, RefundsTypeOK

LEMMA EndType ==
  ASSUME RefundsTypeOK, NEW a \in Attempt,
         NEW result \in {"none", "refund", "refused", "conflict", "error"},
         End(a, result)
  PROVE  /\ inserted' \in [Key -> Attempt \cup {Nobody}]
         /\ locked' \in [Order -> Attempt \cup {Nobody}]
         /\ pc' \in [Attempt \cup Return ->
                      {"start", "look", "insert", "commit", "record", "done"}]
         /\ answer' \in [Attempt -> {"none", "refund", "refused", "conflict", "error"}]
         /\ UNCHANGED <<lineLock, returned>>
BY DEF RefundsTypeOK, End, Goto, returnVars

LEMMA RefundsStepType ==
  ASSUME RefundsTypeOK, [Next]_vars
  PROVE  RefundsTypeOK'
<1> USE DEF RefundsTypeOK, Goto, refundVars, returnVars
<1>1. ASSUME NEW a \in Attempt, Lock(a)
      PROVE  RefundsTypeOK'
  BY <1>1 DEF Lock
<1>2. ASSUME NEW a \in Attempt, Replay(a)
      PROVE  RefundsTypeOK'
  BY <1>2, EndType DEF Replay
<1>3. ASSUME NEW a \in Attempt, Refuse(a)
      PROVE  RefundsTypeOK'
  BY <1>3, EndType DEF Refuse
<1>4. ASSUME NEW a \in Attempt, Accept(a)
      PROVE  RefundsTypeOK'
  BY <1>4 DEF Accept
<1>5. ASSUME NEW a \in Attempt, Insert(a)
      PROVE  RefundsTypeOK'
  BY <1>5 DEF Insert
<1>6. ASSUME NEW a \in Attempt, InsertConflicts(a)
      PROVE  RefundsTypeOK'
  BY <1>6, EndType DEF InsertConflicts
<1>7. ASSUME NEW a \in Attempt, Commit(a)
      PROVE  RefundsTypeOK'
  BY <1>7, EndType DEF Commit
<1>8. ASSUME NEW a \in Attempt, Fail(a)
      PROVE  RefundsTypeOK'
  BY <1>8, EndType DEF Fail
<1>9. ASSUME NEW r \in Return, ReadLine(r)
      PROVE  RefundsTypeOK'
  BY <1>9 DEF ReadLine
<1>10. ASSUME NEW r \in Return, RecordReturn(r)
       PROVE  RefundsTypeOK'
  BY <1>10 DEF RecordReturn
<1>11. ASSUME NEW r \in Return, FailReturn(r)
       PROVE  RefundsTypeOK'
  BY <1>11 DEF FailReturn
<1>12. ASSUME NEW o \in Order, MarkPaid(o)
       PROVE  RefundsTypeOK'
  BY <1>12 DEF MarkPaid
<1>13. CASE UNCHANGED vars
  BY <1>13 DEF vars
<1> QED
  BY <1>1, <1>2, <1>3, <1>4, <1>5, <1>6, <1>7, <1>8, <1>9, <1>10, <1>11, <1>12, <1>13
     DEF Next, RefundStep, ReturnStep

-----------------------------------------------------------------------------
(* The invariant                                                           *)

(* Without a commit or a payment the books stay as they are.               *)
LEMMA SameMoney ==
  ASSUME UNCHANGED <<payment, refund>>
  PROVE  /\ RefundsAddUp => RefundsAddUp'
         /\ \A a : Refundable(a)' = Refundable(a) /\ Recorded(a)' = Recorded(a)
<1>1. ASSUME NEW o
      PROVE  Refunded(o)' = Refunded(o) /\ RefundsOf(o)' = RefundsOf(o)
  BY DEF Refunded, RefundsOf
<1>2. RefundsAddUp => RefundsAddUp'
  BY <1>1 DEF RefundsAddUp
<1>3. ASSUME NEW a
      PROVE  Refundable(a)' = Refundable(a) /\ Recorded(a)' = Recorded(a)
  BY <1>1 DEF Refundable, Recorded
<1> QED
  BY <1>2, <1>3

(* An attempt that takes a step touches no lock of another one.            *)
LEMMA LockKeeps ==
  ASSUME RefundsInv, NEW a \in Attempt, Lock(a), NEW b \in Attempt
  PROVE  HoldsOrder(b)' /\ HoldsKey(b)'
<1> USE DEF RefundsInv, RefundsTypeOK
<1>1. Refundable(b)' = Refundable(b) /\ Recorded(b)' = Recorded(b)
  BY SameMoney DEF Lock
<1>2. CASE b = a
  BY <1>2 DEF Lock, Goto, HoldsOrder, HoldsKey
<1>3. CASE b # a
  <2>1. pc'[b] = pc[b] /\ UNCHANGED <<inserted, refund>>
    BY <1>3 DEF Lock, Goto
  <2>2. locked'[OrderOf[b]] = b \/ locked'[OrderOf[b]] = locked[OrderOf[b]]
          \/ locked[OrderOf[b]] = Nobody
    BY DEF Lock
  <2>3. HoldsKey(b)'
    BY <2>1 DEF HoldsKey
  <2>4. HoldsOrder(b)'
    BY <1>1, <2>1, <2>2 DEF HoldsOrder
  <2> QED
    BY <2>3, <2>4
<1> QED
  BY <1>2, <1>3

LEMMA EndKeeps ==
  ASSUME RefundsInv, NEW a \in Attempt, NEW result, End(a, result),
         UNCHANGED <<payment, refund>>, NEW b \in Attempt
  PROVE  HoldsOrder(b)' /\ HoldsKey(b)'
<1> USE DEF RefundsInv, RefundsTypeOK
<1>1. Refundable(b)' = Refundable(b) /\ Recorded(b)' = Recorded(b)
  BY SameMoney
<1>2. CASE b = a
  BY <1>2 DEF End, Goto, HoldsOrder, HoldsKey
<1>3. CASE b # a
  <2>1. pc'[b] = pc[b]
    BY <1>3 DEF End, Goto
  <2>2. locked[OrderOf[b]] = b => locked'[OrderOf[b]] = b
    BY <1>3 DEF End
  <2>3. inserted[KeyOf[b]] = b => inserted'[KeyOf[b]] = b
    BY <1>3 DEF End
  <2>4. HoldsOrder(b)'
    BY <1>1, <2>1, <2>2 DEF HoldsOrder
  <2>5. HoldsKey(b)'
    BY <2>1, <2>3 DEF HoldsKey
  <2> QED
    BY <2>4, <2>5
<1> QED
  BY <1>2, <1>3

LEMMA AcceptKeeps ==
  ASSUME RefundsInv, NEW a \in Attempt, Accept(a), NEW b \in Attempt
  PROVE  HoldsOrder(b)' /\ HoldsKey(b)'
<1> USE DEF RefundsInv, RefundsTypeOK, refundVars
<1>1. Refundable(b)' = Refundable(b) /\ Recorded(b)' = Recorded(b)
  BY SameMoney DEF Accept
<1>2. CASE b = a
  <2>1. Refundable(a) /\ ~Recorded(a) /\ locked[OrderOf[a]] = a
    BY DEF Accept, Recorded, HoldsOrder
  <2> QED
    BY <1>1, <1>2, <2>1 DEF Accept, Goto, HoldsOrder, HoldsKey
<1>3. CASE b # a
  BY <1>1, <1>3 DEF Accept, Goto, HoldsOrder, HoldsKey
<1> QED
  BY <1>2, <1>3

LEMMA InsertKeeps ==
  ASSUME RefundsInv, NEW a \in Attempt, Insert(a), NEW b \in Attempt
  PROVE  HoldsOrder(b)' /\ HoldsKey(b)'
<1> USE DEF RefundsInv, RefundsTypeOK
<1>1. Refundable(b)' = Refundable(b) /\ Recorded(b)' = Recorded(b)
  BY SameMoney DEF Insert
<1>2. CASE b = a
  BY <1>1, <1>2 DEF Insert, Goto, HoldsOrder, HoldsKey
<1>3. CASE b # a
  <2>1. pc'[b] = pc[b] /\ UNCHANGED <<locked, refund>>
    BY <1>3 DEF Insert, Goto
  <2>2. inserted[KeyOf[b]] = b => inserted'[KeyOf[b]] = b
    BY DEF Insert
  <2>3. HoldsOrder(b)'
    BY <1>1, <2>1 DEF HoldsOrder
  <2>4. HoldsKey(b)'
    BY <2>1, <2>2 DEF HoldsKey
  <2> QED
    BY <2>3, <2>4
<1> QED
  BY <1>2, <1>3

(* A commit disturbs nobody: attempts at the same order wait for its row,  *)
(* and those with the same key wait for the entry in the index.            *)
LEMMA CommitKeeps ==
  ASSUME RefundsInv, NEW a \in Attempt, Commit(a), NEW b \in Attempt
  PROVE  HoldsOrder(b)' /\ HoldsKey(b)'
<1> USE DEF RefundsInv, RefundsTypeOK
<1>1. CASE b = a
  BY <1>1 DEF Commit, End, Goto, HoldsOrder, HoldsKey
<1>2. CASE b # a
  <2>1. pc'[b] = pc[b]
    BY <1>2 DEF Commit, End, Goto
  <2>2. locked[OrderOf[b]] = b => locked'[OrderOf[b]] = b
    BY <1>2 DEF Commit, End
  <2>3. inserted[KeyOf[b]] = b => inserted'[KeyOf[b]] = b
    BY <1>2 DEF Commit, End
  <2>4. /\ locked[OrderOf[a]] = a /\ inserted[KeyOf[a]] = a
        /\ refund[KeyOf[a]] = NoRefund
    BY DEF Commit, HoldsOrder, HoldsKey
  <2>5. refund' = [refund EXCEPT ![KeyOf[a]] =
                     [order |-> OrderOf[a], amount |-> AmountOf[a]]]
    BY DEF Commit
  <2>6. ASSUME pc[b] \in {"insert", "commit"}
        PROVE  Refundable(b)' /\ ~Recorded(b)'
    <3>1. locked[OrderOf[b]] = b /\ Refundable(b) /\ ~Recorded(b)
      BY <2>6 DEF HoldsOrder
    <3>2. OrderOf[b] # OrderOf[a]
      BY <1>2, <2>4, <3>1
    <3>3. Refunded(OrderOf[b])' = Refunded(OrderOf[b])
      BY <2>4, <2>5, <3>2, CommitAdds
    <3>4. payment'[OrderOf[b]] = payment[OrderOf[b]]
      BY <3>2 DEF Commit
    <3>5. Refundable(b)'
      BY <3>1, <3>3, <3>4 DEF Refundable
    <3>6. ~Recorded(b)'
      BY <2>5, <3>1, <3>2 DEF Recorded
    <3> QED
      BY <3>5, <3>6
  <2>7. HoldsOrder(b)'
    BY <2>1, <2>2, <2>6 DEF HoldsOrder
  <2>8. HoldsKey(b)'
    <3>1. SUFFICES ASSUME pc[b] = "commit"
                   PROVE  inserted'[KeyOf[b]] = b /\ refund'[KeyOf[b]] = NoRefund
      BY <2>1 DEF HoldsKey
    <3>2. inserted[KeyOf[b]] = b /\ refund[KeyOf[b]] = NoRefund
      BY <3>1 DEF HoldsKey
    <3>3. KeyOf[b] # KeyOf[a]
      BY <1>2, <2>4, <3>2
    <3> QED
      BY <2>3, <2>5, <3>2, <3>3
  <2> QED
    BY <2>7, <2>8
<1> QED
  BY <1>1, <1>2

(* ... and keeps the books: the sum was read under the lock.               *)
LEMMA CommitAddsUp ==
  ASSUME RefundsInv, NEW a \in Attempt, Commit(a)
  PROVE  RefundsAddUp'
<1> USE DEF RefundsInv, RefundsTypeOK
<1>1. refund[KeyOf[a]] = NoRefund /\ Refundable(a)
  BY DEF Commit, HoldsOrder, HoldsKey
<1>2. refund' = [refund EXCEPT ![KeyOf[a]] =
                   [order |-> OrderOf[a], amount |-> AmountOf[a]]]
  BY DEF Commit
<1> SUFFICES ASSUME NEW o \in Order
             PROVE  /\ Refunded(o)' <= Total[o]
                    /\ payment'[o] = "REFUNDED"
                         <=> Refunded(o)' = Total[o] /\ RefundsOf(o)' # {}
                    /\ payment'[o] = "PARTIALLY_REFUNDED"
                         <=> Refunded(o)' \in 1 .. Total[o] - 1
  BY DEF RefundsAddUp
<1>3. Refunded(o) \in Nat /\ Total[o] \in Nat /\ AmountOf[a] \in Nat \ {0}
  BY RefundedType
<1>4. CASE o = OrderOf[a]
  <2>1. Refunded(o)' = Refunded(o) + AmountOf[a] /\ RefundsOf(o)' # {}
    BY <1>1, <1>2, <1>4, CommitAdds
  <2>2. payment'[o] = IF Refunded(o) + AmountOf[a] >= Total[o] THEN "REFUNDED"
                                                              ELSE "PARTIALLY_REFUNDED"
    BY <1>4 DEF Commit
  <2>3. Refunded(o) + AmountOf[a] <= Total[o]
    BY <1>1, <1>4 DEF Refundable
  <2> DEFINE n == Refunded(o)
             m == Refunded(o)'
  <2>4. n \in Nat /\ m = n + AmountOf[a] /\ m \in Nat \ {0} /\ m <= Total[o]
    BY <1>3, <2>1, <2>3
  <2>5. payment'[o] = IF m >= Total[o] THEN "REFUNDED" ELSE "PARTIALLY_REFUNDED"
    BY <2>2, <2>4
  <2>6. RefundsOf(o)' # {}
    BY <2>1
  <2> HIDE DEF n, m
  <2>7. /\ payment'[o] = "REFUNDED" <=> m = Total[o]
        /\ payment'[o] = "PARTIALLY_REFUNDED" <=> m \in 1 .. Total[o] - 1
    BY <1>3, <2>4, <2>5
  <2> QED
    BY <2>4, <2>6, <2>7 DEF m
<1>5. CASE o # OrderOf[a]
  <2>1. Refunded(o)' = Refunded(o) /\ RefundsOf(o)' = RefundsOf(o)
    BY <1>1, <1>2, <1>5, CommitAdds
  <2>2. payment'[o] = payment[o]
    BY <1>5 DEF Commit
  <2> QED
    BY <2>1, <2>2 DEF RefundsAddUp
<1> QED
  BY <1>4, <1>5

LEMMA MarkPaidKeeps ==
  ASSUME RefundsInv, NEW o \in Order, MarkPaid(o)
  PROVE  /\ RefundsAddUp'
         /\ \A b \in Attempt : HoldsOrder(b)' /\ HoldsKey(b)'
<1> USE DEF RefundsInv, RefundsTypeOK
<1>1. \A p \in Order : Refunded(p)' = Refunded(p) /\ RefundsOf(p)' = RefundsOf(p)
  BY DEF MarkPaid, Refunded, RefundsOf
<1>2. /\ payment[o] = "UNPAID" /\ payment'[o] = "PAID"
      /\ \A p \in Order \ {o} : payment'[p] = payment[p]
  BY DEF MarkPaid
<1>3. RefundsAddUp'
  BY <1>1, <1>2 DEF RefundsAddUp
<1>4. ASSUME NEW b \in Attempt
      PROVE  HoldsOrder(b)' /\ HoldsKey(b)'
  <2>1. pc' = pc /\ locked' = locked /\ inserted' = inserted /\ refund' = refund
    BY DEF MarkPaid
  <2>2. Refundable(b) => Refundable(b)'
    BY <1>1, <1>2 DEF Refundable
  <2>3. Recorded(b)' = Recorded(b)
    BY <2>1 DEF Recorded
  <2> QED
    BY <2>1, <2>2, <2>3 DEF HoldsOrder, HoldsKey
<1> QED
  BY <1>3, <1>4

(* The returns of a line.                                                  *)
LEMMA ReturnKeeps ==
  ASSUME RefundsInv, NEW r \in Return,
         ReadLine(r) \/ RecordReturn(r) \/ FailReturn(r)
  PROVE  /\ \A q \in Return : HoldsLine(q)'
         /\ ReturnsWithinPurchase'
         /\ UNCHANGED refundVars
         /\ \A a \in Attempt : pc'[a] = pc[a]
<1> USE DEF RefundsInv, RefundsTypeOK, Goto
<1>1. CASE ReadLine(r)
  BY <1>1 DEF ReadLine, HoldsLine, ReturnsWithinPurchase
<1>2. CASE RecordReturn(r)
  <2>1. lineLock = r /\ returned[r] = returned["committed"]
    BY <1>2 DEF RecordReturn, HoldsLine
  <2>2. returned'["committed"] = IF returned[r] + QuantityOf[r] > Purchased
                                 THEN returned["committed"]
                                 ELSE returned["committed"] + QuantityOf[r]
    BY <1>2 DEF RecordReturn
  <2>3. ReturnsWithinPurchase'
    BY <2>1, <2>2 DEF ReturnsWithinPurchase
  <2> QED
    BY <1>2, <2>1, <2>3 DEF RecordReturn, HoldsLine
<1>3. CASE FailReturn(r)
  BY <1>3 DEF FailReturn, HoldsLine, ReturnsWithinPurchase
<1> QED
  BY <1>1, <1>2, <1>3

LEMMA RefundsInitInv == Init => RefundsInv
<1> SUFFICES ASSUME Init
             PROVE  RefundsInv
  OBVIOUS
<1>1. RefundsTypeOK
  BY RefundsInitType
<1>2. ASSUME NEW o \in Order
      PROVE  RefundsOf(o) = {} /\ Refunded(o) = 0
  <2>1. RefundsOf(o) = {}
    BY DEF Init, RefundsOf
  <2>2. UNION {{k} \X (1 .. refund[k].amount) : k \in RefundsOf(o)} = {}
    BY <2>1
  <2> QED
    BY <2>1, <2>2, FS_EmptySet DEF Refunded
<1>3. RefundsAddUp
  BY <1>2 DEF Init, RefundsAddUp
<1> QED
  BY <1>1, <1>3 DEF Init, RefundsInv, HoldsOrder, HoldsKey, HoldsLine, ReturnsWithinPurchase

LEMMA RefundsStepInv == RefundsInv /\ [Next]_vars => RefundsInv'
<1> SUFFICES ASSUME RefundsInv, [Next]_vars
             PROVE  RefundsInv'
  OBVIOUS
<1>1. RefundsTypeOK'
  BY RefundsStepType DEF RefundsInv
<1> DEFINE Rest == /\ \A b \in Attempt : HoldsOrder(b)' /\ HoldsKey(b)'
                   /\ \A r \in Return : HoldsLine(r)'
                   /\ RefundsAddUp'
                   /\ ReturnsWithinPurchase'
<1>2. ASSUME NEW a \in Attempt, RefundStep(a) \/ Fail(a)
      PROVE  Rest
  <2>1. /\ \A r \in Return : pc'[r] = pc[r]
        /\ UNCHANGED returnVars
    BY <1>2 DEF RefundStep, Lock, Replay, Refuse, Accept, Insert, InsertConflicts, Commit,
       Fail, End, Goto, RefundsInv, RefundsTypeOK
  <2>2. (\A r \in Return : HoldsLine(r)') /\ ReturnsWithinPurchase'
    BY <2>1 DEF RefundsInv, HoldsLine, ReturnsWithinPurchase, returnVars
  <2>3. ASSUME NEW result, End(a, result), UNCHANGED <<payment, refund>>
        PROVE  Rest
    BY <2>2, <2>3, EndKeeps, SameMoney DEF RefundsInv
  <2>4. CASE Lock(a)
    <3>1. RefundsAddUp'
      BY <2>4, SameMoney DEF Lock, RefundsInv
    <3> QED
      BY <2>2, <2>4, <3>1, LockKeeps
  <2>5. CASE Accept(a)
    <3>1. RefundsAddUp'
      BY <2>5, SameMoney DEF Accept, RefundsInv, refundVars
    <3> QED
      BY <2>2, <2>5, <3>1, AcceptKeeps
  <2>6. CASE Insert(a)
    <3>1. RefundsAddUp'
      BY <2>6, SameMoney DEF Insert, RefundsInv
    <3> QED
      BY <2>2, <2>6, <3>1, InsertKeeps
  <2>7. CASE Commit(a)
    BY <2>2, <2>7, CommitKeeps, CommitAddsUp
  <2>8. CASE Replay(a) \/ Refuse(a) \/ InsertConflicts(a) \/ Fail(a)
    BY <2>3, <2>8 DEF Replay, Refuse, InsertConflicts, Fail
  <2> QED
    BY <1>2, <2>4, <2>5, <2>6, <2>7, <2>8 DEF RefundStep
<1>3. ASSUME NEW r \in Return, ReturnStep(r) \/ FailReturn(r)
      PROVE  Rest
  <2>1. /\ \A q \in Return : HoldsLine(q)'
        /\ ReturnsWithinPurchase'
        /\ UNCHANGED refundVars
        /\ \A a \in Attempt : pc'[a] = pc[a]
    BY <1>3, ReturnKeeps DEF ReturnStep
  <2>2. UNCHANGED <<payment, refund>>
    BY <2>1 DEF refundVars
  <2>3. RefundsAddUp' /\ \A a : Refundable(a)' = Refundable(a) /\ Recorded(a)' = Recorded(a)
    BY <2>2, SameMoney DEF RefundsInv
  <2>4. \A b \in Attempt : HoldsOrder(b)' /\ HoldsKey(b)'
    BY <2>1, <2>3 DEF RefundsInv, HoldsOrder, HoldsKey, refundVars
  <2> QED
    BY <2>1, <2>3, <2>4
<1>4. ASSUME NEW o \in Order, MarkPaid(o)
      PROVE  Rest
  <2>1. UNCHANGED <<pc, returnVars>>
    BY <1>4 DEF MarkPaid
  <2>2. (\A r \in Return : HoldsLine(r)') /\ ReturnsWithinPurchase'
    BY <2>1 DEF RefundsInv, HoldsLine, ReturnsWithinPurchase, returnVars
  <2> QED
    BY <1>4, <2>2, MarkPaidKeeps
<1>5. ASSUME UNCHANGED vars
      PROVE  Rest
  <2>1. RefundsAddUp' /\ \A a : Refundable(a)' = Refundable(a) /\ Recorded(a)' = Recorded(a)
    BY <1>5, SameMoney DEF RefundsInv, vars, refundVars
  <2> QED
    BY <1>5, <2>1 DEF RefundsInv, HoldsOrder, HoldsKey, HoldsLine, ReturnsWithinPurchase,
       vars, refundVars, returnVars
<1>6. Rest
  BY <1>2, <1>3, <1>4, <1>5 DEF Next
<1> QED
  BY <1>1, <1>6 DEF RefundsInv

LEMMA RefundsInvariant == Spec => []RefundsInv
BY RefundsInitInv, RefundsStepInv, PTL DEF Spec

-----------------------------------------------------------------------------
(* RefundsService never records more than was paid, and the status of the  *)
(* order always says how much was sent back, however staff overlap.        *)
THEOREM RefundsAlwaysAddUp == Spec => []RefundsAddUp
BY RefundsInvariant, PTL DEF RefundsInv

(* recordItemReturn never takes back more units than the line had.         *)
THEOREM ReturnsAlwaysWithinPurchase == Spec => []ReturnsWithinPurchase
BY RefundsInvariant, PTL DEF RefundsInv

(* A retry under the same key is told of the refund that is recorded, and  *)
(* is refused only when its order has none under that key.                 *)
THEOREM RetriesAlwaysGetTheRefund == Spec => RetryGetsTheRefund
<1> DEFINE Told ==
      \A a \in Attempt : answer[a] = "none" =>
        LET own == refund'[KeyOf[a]] # NoRefund /\ refund'[KeyOf[a]].order = OrderOf[a]
        IN  /\ answer'[a] = "refund" => own
            /\ answer'[a] \in {"refused", "conflict"} => ~own
<1>1. ASSUME RefundsInv, [Next]_vars
      PROVE  Told
  <2> USE DEF RefundsInv, RefundsTypeOK
  <2>1. (\A a \in Attempt : answer[a] = "none" => answer'[a] \in {"none", "error"}) => Told
    OBVIOUS
  <2>2. ASSUME NEW a \in Attempt,
               \/ answer'[a] \notin {"refund", "refused", "conflict"}
               \/ answer'[a] = "refund" /\ Recorded(a)'
               \/ answer'[a] \in {"refused", "conflict"} /\ ~Recorded(a)',
               \A b \in Attempt \ {a} : answer'[b] = answer[b]
        PROVE  Told
    BY <2>2 DEF Recorded
  <2>3. ASSUME NEW a \in Attempt, NEW result, End(a, result)
        PROVE  answer'[a] = result /\ \A b \in Attempt \ {a} : answer'[b] = answer[b]
    BY <1>1, <2>3 DEF End
  <2>4. ASSUME NEW a \in Attempt, Replay(a)
        PROVE  Told
    BY <2>2, <2>3, <2>4 DEF Replay, Recorded
  <2>5. ASSUME NEW a \in Attempt, Refuse(a)
        PROVE  Told
    BY <2>2, <2>3, <2>5 DEF Refuse, Recorded
  <2>6. ASSUME NEW a \in Attempt, InsertConflicts(a)
        PROVE  Told
    <3>1. ~Recorded(a) /\ refund' = refund
      BY <1>1, <2>6 DEF InsertConflicts, HoldsOrder
    <3> QED
      BY <2>2, <2>3, <2>6, <3>1 DEF InsertConflicts, Recorded
  <2>7. ASSUME NEW a \in Attempt, Commit(a)
        PROVE  Told
    <3> DEFINE entry == [order |-> OrderOf[a], amount |-> AmountOf[a]]
    <3>1. refund'[KeyOf[a]] = entry
      BY <1>1, <2>7 DEF Commit
    <3>2. entry \in [order : Order, amount : Nat \ {0}] /\ entry.order = OrderOf[a]
      OBVIOUS
    <3>3. Recorded(a)'
      BY <3>1, <3>2 DEF Recorded
    <3> QED
      BY <2>2, <2>3, <2>7, <3>3 DEF Commit
  <2>8. ASSUME NEW a \in Attempt, Fail(a)
        PROVE  Told
    BY <2>2, <2>3, <2>8 DEF Fail
  <2>9. answer' = answer => Told
    OBVIOUS
  <2> QED
    BY <1>1, <2>4, <2>5, <2>6, <2>7, <2>8, <2>9
       DEF Next, RefundStep, ReturnStep, Lock, Accept, Insert, ReadLine, RecordReturn,
       FailReturn, MarkPaid, refundVars, vars
<1>2. RefundsInv /\ [Next]_vars => [Told]_vars
  BY <1>1
<1> QED
  BY <1>2, RefundsInvariant, PTL DEF Spec, RetryGetsTheRefund

=============================================================================

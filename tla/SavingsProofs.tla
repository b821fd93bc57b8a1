---------------------------- MODULE SavingsProofs ----------------------------
(***************************************************************************)
(* What the view of a cart shows as the saving of one more group is saved  *)
(* once the units that are missing are there: SavingsAsShown, for any      *)
(* catalog, carts, offers and coupons.                                     *)
(*                                                                         *)
(* The two pricings are of different carts, so what they have in common is *)
(* stated of a shelf: the lines of a cart as the offer sees them (how many *)
(* units it can use, the bucket they go to, their price, what they are     *)
(* worth in a group).  Counts of units of each line stand for units.       *)
(*                                                                         *)
(* What is shown becomes a Promise: with so many units to come there is a  *)
(* choice of units that makes so many groups and is worth so much.  Any    *)
(* unit that the offer waits for leaves it one (PromiseWithUnit).  Where   *)
(* the offer stands while groups are formed says Stands: the units taken   *)
(* are the dearest of each bucket, and the buckets are balanced.  A promise*)
(* that waits for nothing is reached before the offer ends (PromiseReached)*)
(* and then kept, as no choice of as many units is worth more than the     *)
(* dearest (PromiseKept).                                                  *)
(***************************************************************************)
EXTENDS AmountsProofs

-----------------------------------------------------------------------------
(* Units of lines, as so many of each line.                                *)

(* What an offer may use of a cart: of each line so many units, by key, at *)
(* a price, and worth that price without the surcharge.                    *)
IsShelf(s) ==
  /\ s.n \in Nat /\ s.stock \in [1 .. s.n -> Nat] /\ s.key \in [1 .. s.n -> Nat]
  /\ s.price \in [1 .. s.n -> Nat] /\ s.net \in [1 .. s.n -> Int]

(* Some of the units.                                                      *)
Part(s, x) == x \in [1 .. s.n -> Nat] /\ \A l \in 1 .. s.n : x[l] <= s.stock[l]

(* How many they are, how many of a key, and what they come to.            *)
Count(s, x) == SumTo(x, s.n)
AtKey(s, a, x) == [l \in 1 .. s.n |-> IF s.key[l] = a THEN x[l] ELSE 0]
KeyCount(s, a, x) == SumTo(AtKey(s, a, x), s.n)
Times(s, p, x) == [l \in 1 .. s.n |-> p[l] * x[l]]
Value(s, p, x) == SumTo(Times(s, p, x), s.n)

(* The other units.                                                        *)
Others(s, x) == [l \in 1 .. s.n |-> s.stock[l] - x[l]]

(* The order of lines in a bucket, and units from its top.                 *)
Before(s, l, m) == s.price[l] > s.price[m] \/ (s.price[l] = s.price[m] /\ l < m)

(* The units are the first ones of each bucket.                            *)
TopClosed(s, x) ==
  \A l, m \in 1 .. s.n :
    s.key[l] = s.key[m] /\ Before(s, l, m) /\ x[m] > 0 => x[l] = s.stock[l]

(* Less somewhere, and nowhere more, is less.                              *)
LEMMA SumToLess ==
  ASSUME NEW s, NEW t, NEW n \in Nat, NEW k \in 1 .. n,
         \A i \in 1 .. n : s[i] \in Int /\ t[i] \in Int /\ s[i] <= t[i],
         s[k] < t[k]
  PROVE  SumTo(s, n) < SumTo(t, n)
<1> DEFINE one == [i \in 1 .. n |-> IF i = k THEN 1 ELSE 0]
           u == [i \in 1 .. n |-> s[i] + one[i]]
<1>1. \A i \in 1 .. n : one[i] = IF i = k THEN 1 ELSE 0
  OBVIOUS
<1>2. \A i \in 1 .. n : s[i] \in Int /\ one[i] \in Int /\ u[i] = s[i] + one[i]
  OBVIOUS
<1>3. \A i \in 1 .. n : u[i] \in Int /\ t[i] \in Int /\ u[i] <= t[i]
  OBVIOUS
<1> HIDE DEF one, u
<1>4. SumTo(one, n) = 1
  <2> DEFINE d == 1
  <2>1. d \in Int /\ \A i \in 1 .. n : one[i] = IF i = k THEN d ELSE 0
    BY <1>1
  <2> HIDE DEF d
  <2>2. SumTo(one, n) = IF k \in 1 .. n THEN d ELSE 0
    BY <2>1, SumToSingle
  <2> QED
    BY <2>2 DEF d
<1>5. SumTo(u, n) = SumTo(s, n) + SumTo(one, n)
  BY <1>2, SumToPlus
<1>6. SumTo(u, n) <= SumTo(t, n)
  BY <1>3, SumToAtMost
<1>7. SumTo(s, n) \in Int /\ SumTo(t, n) \in Int
  BY SumToInt
<1> QED
  BY <1>4, <1>5, <1>6, <1>7

(* Nowhere more and the same in all is the same.                           *)
LEMMA SumToEqualParts ==
  ASSUME NEW s, NEW t, NEW n \in Nat,
         \A i \in 1 .. n : s[i] \in Int /\ t[i] \in Int /\ s[i] <= t[i],
         SumTo(s, n) >= SumTo(t, n)
  PROVE  \A i \in 1 .. n : s[i] = t[i]
<1> SUFFICES ASSUME NEW k \in 1 .. n, s[k] # t[k] PROVE FALSE
  OBVIOUS
<1>1. s[k] < t[k]
  OBVIOUS
<1>2. SumTo(s, n) < SumTo(t, n)
  BY <1>1, SumToLess
<1>3. SumTo(s, n) \in Int /\ SumTo(t, n) \in Int
  BY SumToInt
<1> QED
  BY <1>2, <1>3

(* Counts are numbers.                                                     *)
LEMMA CountsTyped ==
  ASSUME NEW s, IsShelf(s), NEW x \in [1 .. s.n -> Int], NEW a,
         NEW p \in [1 .. s.n -> Int]
  PROVE  /\ Count(s, x) \in Int /\ KeyCount(s, a, x) \in Int /\ Value(s, p, x) \in Int
         /\ x \in [1 .. s.n -> Nat] => Count(s, x) \in Nat /\ KeyCount(s, a, x) \in Nat
<1>1. s.n \in Nat
  BY DEF IsShelf
<1> DEFINE n == s.n
           k == AtKey(s, a, x)
           v == Times(s, p, x)
<1>2. \A l \in 1 .. n : x[l] \in Int /\ k[l] \in Int
  BY DEF AtKey
<1>3. \A l \in 1 .. n : v[l] \in Int
  <2>1. \A l \in 1 .. n : p[l] \in Int /\ x[l] \in Int /\ v[l] = p[l] * x[l]
    BY DEF Times
  <2> QED
    BY <2>1
<1>4. ASSUME x \in [1 .. s.n -> Nat] PROVE \A l \in 1 .. n : x[l] \in Nat /\ k[l] \in Nat
  BY <1>4 DEF AtKey
<1>5. Count(s, x) = SumTo(x, n) /\ KeyCount(s, a, x) = SumTo(k, n) /\ Value(s, p, x) = SumTo(v, n)
  BY DEF Count, KeyCount, Value
<1> HIDE DEF n, k, v
<1>6. n \in Nat
  BY <1>1 DEF n
<1>7. SumTo(x, n) \in Int /\ SumTo(k, n) \in Int /\ SumTo(v, n) \in Int
  BY <1>2, <1>3, <1>6, SumToInt
<1>8. x \in [1 .. s.n -> Nat] => SumTo(x, n) \in Nat /\ SumTo(k, n) \in Nat
  BY <1>4, <1>6, SumToNat
<1> QED
  BY <1>5, <1>7, <1>8

(* z has the units of x and those of y.                                    *)
Together(s, x, y, z) ==
  /\ x \in [1 .. s.n -> Int] /\ y \in [1 .. s.n -> Int] /\ z \in [1 .. s.n -> Int]
  /\ \A l \in 1 .. s.n : z[l] = x[l] + y[l]

(* Their counts add up.                                                    *)
LEMMA CountsAddUp ==
  ASSUME NEW s, IsShelf(s), NEW x, NEW y, NEW z, Together(s, x, y, z)
  PROVE  /\ Count(s, z) = Count(s, x) + Count(s, y)
         /\ \A a : KeyCount(s, a, z) = KeyCount(s, a, x) + KeyCount(s, a, y)
         /\ \A p \in [1 .. s.n -> Int] : Value(s, p, z) = Value(s, p, x) + Value(s, p, y)
<1> DEFINE n == s.n
<1>1. n \in Nat
  BY DEF IsShelf
<1>2. \A l \in 1 .. n : x[l] \in Int /\ y[l] \in Int /\ z[l] = x[l] + y[l]
  BY DEF Together
<1>3. ASSUME NEW a PROVE KeyCount(s, a, z) = KeyCount(s, a, x) + KeyCount(s, a, y)
  <2> DEFINE kx == AtKey(s, a, x)
             ky == AtKey(s, a, y)
             kz == AtKey(s, a, z)
  <2>1. \A l \in 1 .. n : kx[l] \in Int /\ ky[l] \in Int /\ kz[l] = kx[l] + ky[l]
    BY <1>2 DEF AtKey
  <2> HIDE DEF n, kx, ky, kz
  <2>2. SumTo(kz, n) = SumTo(kx, n) + SumTo(ky, n)
    BY <1>1, <2>1, SumToPlus
  <2> QED
    BY <2>2 DEF KeyCount, n, kx, ky, kz
<1>4. ASSUME NEW p \in [1 .. n -> Int] PROVE Value(s, p, z) = Value(s, p, x) + Value(s, p, y)
  <2> DEFINE vx == Times(s, p, x)
             vy == Times(s, p, y)
             vz == Times(s, p, z)
  <2>1. ASSUME NEW l \in 1 .. n
        PROVE  vx[l] \in Int /\ vy[l] \in Int /\ vz[l] = vx[l] + vy[l]
    <3>1. p[l] \in Int /\ x[l] \in Int /\ y[l] \in Int /\ z[l] = x[l] + y[l]
      BY <1>2
    <3>2. vx[l] = p[l] * x[l] /\ vy[l] = p[l] * y[l] /\ vz[l] = p[l] * z[l]
      BY DEF Times
    <3> HIDE DEF vx, vy, vz
    <3> QED
      BY <3>1, <3>2
  <2> HIDE DEF n, vx, vy, vz
  <2>2. SumTo(vz, n) = SumTo(vx, n) + SumTo(vy, n)
    BY <1>1, <2>1, SumToPlus
  <2> QED
    BY <2>2 DEF Value, n, vx, vy, vz
<1>5. Count(s, z) = Count(s, x) + Count(s, y)
  <2> HIDE DEF n
  <2>1. SumTo(z, n) = SumTo(x, n) + SumTo(y, n)
    BY <1>1, <1>2, SumToPlus
  <2> QED
    BY <2>1 DEF Count, n
<1> QED
  BY <1>3, <1>4, <1>5

(* Of less there is less.                                                  *)
LEMMA CountsGrow ==
  ASSUME NEW s, IsShelf(s), NEW x \in [1 .. s.n -> Int], NEW y \in [1 .. s.n -> Int], NEW a,
         \A l \in 1 .. s.n : s.key[l] = a => x[l] <= y[l]
  PROVE  /\ KeyCount(s, a, x) <= KeyCount(s, a, y)
         /\ (\E l \in 1 .. s.n : s.key[l] = a /\ x[l] < y[l]) =>
              KeyCount(s, a, x) < KeyCount(s, a, y)
<1> DEFINE n == s.n
           kx == AtKey(s, a, x)
           ky == AtKey(s, a, y)
<1>1. n \in Nat
  BY DEF IsShelf
<1>2. \A l \in 1 .. n : /\ kx[l] \in Int /\ ky[l] \in Int /\ kx[l] <= ky[l]
                        /\ s.key[l] = a => kx[l] = x[l] /\ ky[l] = y[l]
  BY DEF AtKey
<1> HIDE DEF kx, ky
<1>3. SumTo(kx, n) <= SumTo(ky, n)
  BY <1>1, <1>2, SumToAtMost
<1>4. ASSUME NEW l \in 1 .. n, s.key[l] = a, x[l] < y[l] PROVE SumTo(kx, n) < SumTo(ky, n)
  <2>1. kx[l] < ky[l]
    BY <1>2, <1>4
  <2> QED
    BY <1>1, <1>2, <2>1, SumToLess
<1> QED
  BY <1>3, <1>4 DEF KeyCount, kx, ky

(* Units from the tops of their buckets: of no key more, but in all as     *)
(* many, are the same.                                                     *)
LEMMA SameUnits ==
  ASSUME NEW s, IsShelf(s), NEW u, NEW x, Part(s, u), Part(s, x),
         TopClosed(s, u), TopClosed(s, x),
         \A a \in Nat : KeyCount(s, a, u) <= KeyCount(s, a, x),
         Count(s, u) = Count(s, x)
  PROVE  u = x
<1> DEFINE n == s.n
<1>1. /\ n \in Nat /\ \A l \in 1 .. n : /\ u[l] \in Nat /\ x[l] \in Nat /\ s.stock[l] \in Nat
                                        /\ u[l] <= s.stock[l] /\ x[l] <= s.stock[l]
                                        /\ s.key[l] \in Nat /\ s.price[l] \in Nat
      /\ u \in [1 .. n -> Nat] /\ x \in [1 .. n -> Nat]
      /\ u \in [1 .. n -> Int] /\ x \in [1 .. n -> Int]
  BY DEF IsShelf, Part
<1>2. ASSUME NEW l \in 1 .. n, u[l] > x[l] PROVE FALSE
  <2> DEFINE a == s.key[l]
  <2>1. ASSUME NEW m \in 1 .. n, s.key[m] = a, m # l PROVE x[m] <= u[m]
    <3>1. Before(s, m, l) \/ Before(s, l, m)
      BY <1>1, <2>1 DEF Before
    <3>2. CASE Before(s, m, l)
      <4>1. u[m] = s.stock[m]
        BY <1>1, <1>2, <2>1, <3>2 DEF TopClosed
      <4> QED
        BY <1>1, <4>1
    <3>3. CASE Before(s, l, m)
      <4>1. ~(x[m] > 0)
        BY <1>1, <1>2, <2>1, <3>3 DEF TopClosed
      <4> QED
        BY <1>1, <4>1
    <3> QED
      BY <3>1, <3>2, <3>3
  <2>2. \A m \in 1 .. n : s.key[m] = a => x[m] <= u[m]
    BY <1>1, <1>2, <2>1
  <2>3. s.key[l] = a /\ x[l] < u[l] /\ a \in Nat
    BY <1>1, <1>2
  <2> HIDE DEF a
  <2>4. KeyCount(s, a, x) < KeyCount(s, a, u)
    BY <1>1, <2>2, <2>3, CountsGrow
  <2>5. KeyCount(s, a, x) \in Int /\ KeyCount(s, a, u) \in Int
    BY <1>1, CountsTyped DEF IsShelf
  <2> QED
    BY <2>3, <2>4, <2>5
<1>3. \A l \in 1 .. n : u[l] \in Int /\ x[l] \in Int /\ u[l] <= x[l]
  BY <1>1, <1>2
<1>4. SumTo(u, n) = SumTo(x, n) /\ SumTo(u, n) \in Int
  <2>1. SumTo(u, n) \in Int
    BY <1>1, <1>3, SumToInt
  <2> QED
    BY <2>1 DEF Count
<1>5. \A l \in 1 .. n : u[l] = x[l]
  <2>1. SumTo(u, n) >= SumTo(x, n)
    BY <1>4
  <2> QED
    BY <1>1, <1>3, <2>1, SumToEqualParts
<1> QED
  BY <1>1, <1>5

(* One of the amounts has grown, and it may be a new one.                  *)
Grown(f, n, g, k, m, d) ==
  /\ m \in Nat /\ n \in Nat /\ (n = m \/ n = m + 1) /\ k \in 1 .. n /\ d \in Int
  /\ \A i \in 1 .. m : f[i] \in Int
  /\ \A i \in 1 .. n : g[i] = (IF i <= m THEN f[i] ELSE 0) + (IF i = k THEN d ELSE 0)

(* The sum grows by what was added.                                        *)
LEMMA SumToMore ==
  ASSUME NEW f, NEW n, NEW g, NEW k, NEW m, NEW d, Grown(f, n, g, k, m, d)
  PROVE  SumTo(g, n) = SumTo(f, m) + d
<1> DEFINE h == [i \in 1 .. n |-> IF i <= m THEN f[i] ELSE 0]
           e == [i \in 1 .. n |-> IF i = k THEN d ELSE 0]
<1>1. m \in Nat /\ n \in Nat /\ (n = m \/ n = m + 1) /\ k \in 1 .. n /\ d \in Int
  BY DEF Grown
<1>2. /\ \A i \in 1 .. n : h[i] \in Int /\ e[i] \in Int /\ g[i] = h[i] + e[i]
      /\ \A i \in 1 .. n : e[i] = IF i = k THEN d ELSE 0
      /\ \A i \in 1 .. m : f[i] = h[i]
      /\ n = m + 1 => h[m + 1] = 0
  BY <1>1 DEF Grown
<1> HIDE DEF h, e
<1>3. SumTo(g, n) = SumTo(h, n) + SumTo(e, n)
  BY <1>1, <1>2, SumToPlus
<1>4. SumTo(e, n) = d
  <2>1. n \in Nat /\ d \in Int /\ \A i \in 1 .. n : e[i] = IF i = k THEN d ELSE 0
    BY <1>1, <1>2
  <2>2. SumTo(e, n) = IF k \in 1 .. n THEN d ELSE 0
    BY <2>1, SumToSingle
  <2> QED
    BY <1>1, <2>2
<1>5. SumTo(f, m) = SumTo(h, m)
  BY <1>1, <1>2, SumToSame
<1>6. SumTo(h, n) = SumTo(h, m)
  <2>1. CASE n = m
    BY <2>1
  <2>2. CASE n = m + 1
    <3>1. SumTo(h, m + 1) = SumTo(h, m) + h[m + 1]
      BY <1>1, SumToStep
    <3>2. SumTo(h, m) \in Int
      <4>1. \A i \in 1 .. m : h[i] \in Int
        BY <1>1, <1>2
      <4> QED
        BY <1>1, <4>1, SumToInt
    <3> QED
      BY <1>2, <2>2, <3>1, <3>2
  <2> QED
    BY <1>1, <2>1, <2>2
<1> QED
  BY <1>3, <1>4, <1>5, <1>6

(* What is left is the cheapest: other units, as many, cost no less.       *)
LEMMA CheapestLeft ==
  ASSUME NEW s, IsShelf(s), NEW r, Part(s, r), NEW y, Part(s, y), Count(s, y) = Count(s, r),
         \A l, m \in 1 .. s.n : r[l] > 0 /\ r[m] < s.stock[m] => s.price[l] <= s.price[m]
  PROVE  Value(s, s.price, r) <= Value(s, s.price, y)
<1> DEFINE n == s.n
           vr == Times(s, s.price, r)
           vy == Times(s, s.price, y)
           T == {s.price[m] : m \in {k \in 1 .. n : r[k] < s.stock[k]}}
<1>1. /\ n \in Nat /\ s.price \in [1 .. n -> Nat]
      /\ \A l \in 1 .. n : /\ y[l] \in Nat /\ r[l] \in Nat /\ s.stock[l] \in Nat
                           /\ r[l] <= s.stock[l] /\ y[l] <= s.stock[l] /\ s.price[l] \in Nat
                           /\ vr[l] = s.price[l] * r[l] /\ vy[l] = s.price[l] * y[l]
  BY DEF IsShelf, Part, Times
<1>2. SumTo(y, n) = SumTo(r, n)
  BY DEF Count
<1>3. \A l \in 1 .. n : vr[l] \in Int /\ vy[l] \in Int
  BY <1>1
<1> HIDE DEF vr, vy
<1>4. CASE T = {}
  <2>1. \A l \in 1 .. n : ~(r[l] < s.stock[l])
    BY <1>4
  <2>2. \A l \in 1 .. n : y[l] \in Int /\ r[l] \in Int /\ y[l] <= r[l]
    BY <1>1, <2>1
  <2>3. SumTo(y, n) >= SumTo(r, n)
    <3>1. SumTo(y, n) \in Int
      BY <1>1, <2>2, SumToInt
    <3> QED
      BY <1>2, <3>1
  <2>4. \A l \in 1 .. n : y[l] = r[l]
    BY <1>1, <2>2, <2>3, SumToEqualParts
  <2>5. \A l \in 1 .. n : vr[l] \in Int /\ vy[l] \in Int /\ vr[l] <= vy[l]
    BY <1>1, <1>3, <2>4
  <2> QED
    BY <1>1, <2>5, SumToAtMost DEF Value, vr, vy
<1>5. CASE T # {}
  <2>1. T \subseteq Nat
    BY <1>1
  <2>2. PICK p \in T : \A q \in T : p <= q
    <3> HIDE DEF T
    <3> QED
      BY <1>5, <2>1, Least
  <2>3. PICK k \in 1 .. n : r[k] < s.stock[k] /\ p = s.price[k]
    BY <2>2
  <2>4. p \in Nat
    BY <2>1, <2>2
  <2> DEFINE pr == [l \in 1 .. n |-> p * r[l]]
             py == [l \in 1 .. n |-> p * y[l]]
             f == [l \in 1 .. n |-> vr[l] + py[l]]
             g == [l \in 1 .. n |-> vy[l] + pr[l]]
  <2>5. ASSUME NEW l \in 1 .. n
        PROVE  /\ pr[l] \in Int /\ py[l] \in Int /\ f[l] \in Int /\ g[l] \in Int
               /\ f[l] <= g[l] /\ f[l] = vr[l] + py[l] /\ g[l] = vy[l] + pr[l]
               /\ pr[l] = p * r[l] /\ py[l] = p * y[l]
    <3>1. /\ y[l] \in Int /\ r[l] \in Int /\ s.price[l] \in Int /\ p \in Int
          /\ vr[l] = s.price[l] * r[l] /\ vy[l] = s.price[l] * y[l]
          /\ vr[l] \in Int /\ vy[l] \in Int
      BY <1>1, <1>3, <2>4
    <3>2. pr[l] = p * r[l] /\ py[l] = p * y[l] /\ f[l] = vr[l] + py[l] /\ g[l] = vy[l] + pr[l]
      OBVIOUS
    <3>3. pr[l] \in Int /\ py[l] \in Int
      BY <3>1, <3>2
    <3>4. (s.price[l] - p) * (y[l] - r[l]) >= 0
      <4>1. CASE y[l] > r[l]
        <5>1. r[l] < s.stock[l]
          BY <1>1, <4>1
        <5>2. p <= s.price[l]
          BY <2>2, <5>1
        <5> DEFINE c == s.price[l] - p
                   d == y[l] - r[l]
        <5>3. c \in Nat /\ d \in Nat
          BY <3>1, <4>1, <5>2
        <5> HIDE DEF c, d
        <5>4. c * d >= 0
          BY <5>3
        <5> QED
          BY <5>4 DEF c, d
      <4>2. CASE y[l] < r[l]
        <5>1. r[l] > 0
          BY <1>1, <4>2
        <5>2. s.price[l] <= p
          BY <2>3, <5>1
        <5> DEFINE c == p - s.price[l]
                   d == r[l] - y[l]
        <5>3. c \in Nat /\ d \in Nat
          BY <3>1, <4>2, <5>2
        <5>4. s.price[l] - p = 0 - c /\ y[l] - r[l] = 0 - d
          BY <3>1
        <5> HIDE DEF c, d
        <5>5. (0 - c) * (0 - d) >= 0
          BY <5>3
        <5> QED
          BY <5>4, <5>5
      <4>3. CASE y[l] = r[l]
        <5>1. y[l] - r[l] = 0
          BY <3>1, <4>3
        <5> QED
          BY <3>1, <5>1
      <4> QED
        BY <3>1, <4>1, <4>2, <4>3
    <3> HIDE DEF f, g, pr, py
    <3>5. \A a, b, c, d \in Int : (a - b) * (c - d) = a * c - a * d - b * c + b * d
      OBVIOUS
    <3>6. (s.price[l] - p) * (y[l] - r[l]) = vy[l] - vr[l] - py[l] + pr[l]
      BY <3>1, <3>2, <3>5
    <3> QED
      BY <3>1, <3>2, <3>3, <3>4, <3>6
  <2> HIDE DEF f, g, pr, py
  <2>6. SumTo(f, n) <= SumTo(g, n)
    BY <1>1, <2>5, SumToAtMost
  <2>7. SumTo(f, n) = SumTo(vr, n) + SumTo(py, n)
    <3> HIDE DEF n, T
    <3>1. n \in Nat /\ \A l \in 1 .. n : vr[l] \in Int /\ py[l] \in Int /\ f[l] = vr[l] + py[l]
      BY <1>1, <1>3, <2>5
    <3> QED
      BY <3>1, SumToPlus
  <2>8. SumTo(g, n) = SumTo(vy, n) + SumTo(pr, n)
    <3> HIDE DEF n, T
    <3>1. n \in Nat /\ \A l \in 1 .. n : vy[l] \in Int /\ pr[l] \in Int /\ g[l] = vy[l] + pr[l]
      BY <1>1, <1>3, <2>5
    <3> QED
      BY <3>1, SumToPlus
  <2>9. SumTo(py, n) = p * SumTo(y, n) /\ SumTo(pr, n) = p * SumTo(r, n)
    <3> HIDE DEF n, T
    <3>1. \A l \in 1 .. n : y[l] \in Int /\ py[l] = p * y[l]
      BY <1>1, <2>5
    <3>2. \A l \in 1 .. n : r[l] \in Int /\ pr[l] = p * r[l]
      BY <1>1, <2>5
    <3>3. p \in Int
      BY <2>4
    <3>4. SumTo(py, n) = p * SumTo(y, n)
      BY <1>1, <3>1, <3>3, SumToTimes
    <3>5. SumTo(pr, n) = p * SumTo(r, n)
      BY <1>1, <3>2, <3>3, SumToTimes
    <3> QED
      BY <3>4, <3>5
  <2>10. SumTo(vr, n) \in Int /\ SumTo(vy, n) \in Int /\ SumTo(pr, n) \in Int
    BY <1>1, <1>3, <2>5, SumToInt
  <2>11. SumTo(vr, n) <= SumTo(vy, n)
    BY <1>2, <2>6, <2>7, <2>8, <2>9, <2>10
  <2> QED
    BY <2>11 DEF Value, vr, vy
<1> QED
  BY <1>4, <1>5

-----------------------------------------------------------------------------
(* One line of each key of which there are units.                          *)

(* R has one such line for each key.                                       *)
IsChoice(s, r, R) ==
  /\ R \subseteq 1 .. s.n
  /\ \A l \in R : r[l] > 0
  /\ \A l, m \in R : s.key[l] = s.key[m] => l = m
  /\ \A l \in 1 .. s.n : r[l] > 0 => \E m \in R : s.key[m] = s.key[l]

(* A unit of each of these lines.                                          *)
Ones(s, R) == [l \in 1 .. s.n |-> IF l \in R THEN 1 ELSE 0]

(* The keys of which there are units.                                      *)
KeysLeft(s, r) == {s.key[l] : l \in {m \in 1 .. s.n : r[m] > 0}}

(* There are as many of them as there are keys.                            *)
LEMMA ChoiceCount ==
  ASSUME NEW s, IsShelf(s), NEW r, Part(s, r), NEW R, IsChoice(s, r, R)
  PROVE  /\ Count(s, Ones(s, R)) = Cardinality(KeysLeft(s, r)) /\ Part(s, Ones(s, R))
         /\ \A l \in 1 .. s.n : Ones(s, R)[l] <= r[l]
         /\ IsFiniteSet(KeysLeft(s, r)) /\ Cardinality(KeysLeft(s, r)) \in Nat
<1> DEFINE n == s.n
           y == Ones(s, R)
           c == [l \in DOMAIN y |-> IF y[l] = 1 THEN 1 ELSE 0]
<1>1. n \in Nat /\ R \subseteq 1 .. n /\ s.key \in [1 .. n -> Nat]
      /\ \A l \in 1 .. n : r[l] \in Nat /\ s.stock[l] \in Nat /\ r[l] <= s.stock[l]
  BY DEF IsShelf, IsChoice, Part
<1>2. DOMAIN y = 1 .. n /\ y \in [1 .. n -> Nat] /\ {l \in 1 .. n : y[l] = 1} = R /\ c = y
  <2>1. DOMAIN y = 1 .. n /\ y \in [1 .. n -> Nat]
    BY DEF Ones
  <2>2. \A l \in 1 .. n : /\ y[l] = 1 <=> l \in R
                          /\ y[l] = IF y[l] = 1 THEN 1 ELSE 0
    BY DEF Ones
  <2> HIDE DEF y
  <2>3. {l \in 1 .. n : y[l] = 1} = R
    BY <1>1, <2>2
  <2>4. c = y
    BY <2>1, <2>2
  <2> QED
    BY <2>1, <2>3, <2>4
<1>3. UnitsOf(1, y) = SumTo(y, n)
  <2> HIDE DEF y, c
  <2>1. Len(y) = n
    BY <1>1, <1>2, SequenceOf
  <2> QED
    BY <1>2, <2>1 DEF UnitsOf, Sum, c
<1>4. IsFiniteSet(R) /\ SumTo(y, n) = Cardinality(R)
  <2> DEFINE t == 1
  <2> HIDE DEF t, y, n, c
  <2>1. n \in Nat /\ DOMAIN y = 1 .. n
    BY <1>1, <1>2
  <2>2. /\ IsFiniteSet({i \in 1 .. n : y[i] = t})
        /\ UnitsOf(t, y) = Cardinality({i \in 1 .. n : y[i] = t})
    BY <2>1, Counted
  <2> QED
    BY <1>2, <1>3, <2>2 DEF t
<1> DEFINE f == [l \in R |-> s.key[l]]
<1>5. f \in Bijection(R, KeysLeft(s, r))
  <2>1. \A l \in R : r[l] > 0 /\ l \in 1 .. n
    BY <1>1 DEF IsChoice
  <2>2. f \in [R -> KeysLeft(s, r)]
    BY <2>1 DEF KeysLeft
  <2>3. \A l, m \in R : f[l] = f[m] => l = m
    BY DEF IsChoice
  <2>4. ASSUME NEW k \in KeysLeft(s, r) PROVE \E m \in R : f[m] = k
    <3>1. PICK l \in 1 .. n : r[l] > 0 /\ s.key[l] = k
      BY DEF KeysLeft
    <3> QED
      BY <3>1 DEF IsChoice
  <2> QED
    BY <2>2, <2>3, <2>4 DEF Bijection, Injection, Surjection, IsInjective
<1>6. IsFiniteSet(KeysLeft(s, r)) /\ Cardinality(KeysLeft(s, r)) = Cardinality(R)
  <2>1. ExistsBijection(R, KeysLeft(s, r))
    BY <1>5 DEF ExistsBijection
  <2> QED
    BY <1>4, <2>1, FS_Bijection
<1>7. \A l \in 1 .. n : y[l] \in Nat /\ y[l] <= r[l]
  BY <1>1 DEF Ones, IsChoice
<1>8. Part(s, y)
  <2>1. y \in [1 .. n -> Nat]
    BY DEF Ones
  <2>2. \A l \in 1 .. n : y[l] <= s.stock[l]
    BY <1>1, <1>7
  <2> QED
    BY <2>1, <2>2 DEF Part
<1> QED
  BY <1>4, <1>6, <1>7, <1>8, FS_CardinalityType DEF Count

(* Of each of the keys it is one.                                          *)
LEMMA ChoiceKey ==
  ASSUME NEW s, IsShelf(s), NEW r, NEW R, IsChoice(s, r, R), NEW a
  PROVE  KeyCount(s, a, Ones(s, R)) = IF a \in KeysLeft(s, r) THEN 1 ELSE 0
<1> DEFINE n == s.n
           k == AtKey(s, a, Ones(s, R))
<1>1. n \in Nat /\ R \subseteq 1 .. n
  BY DEF IsShelf, IsChoice
<1>2. \A l \in 1 .. n : k[l] = IF s.key[l] = a /\ l \in R THEN 1 ELSE 0
  BY DEF AtKey, Ones
<1> HIDE DEF k
<1>3. CASE a \in KeysLeft(s, r)
  <2>1. PICK m \in R : s.key[m] = a
    BY <1>3 DEF KeysLeft, IsChoice
  <2> DEFINE d == 1
  <2>2. d \in Int /\ \A l \in 1 .. n : k[l] = IF l = m THEN d ELSE 0
    BY <1>1, <1>2, <2>1 DEF IsChoice
  <2> HIDE DEF d
  <2>3. SumTo(k, n) = IF m \in 1 .. n THEN d ELSE 0
    BY <1>1, <2>2, SumToSingle
  <2> QED
    BY <1>1, <1>3, <2>1, <2>3 DEF KeyCount, k, d
<1>4. CASE a \notin KeysLeft(s, r)
  <2>1. \A l \in R : s.key[l] # a
    BY <1>1, <1>4 DEF KeysLeft, IsChoice
  <2>2. \A l \in 1 .. n : k[l] = 0
    BY <1>2, <2>1
  <2>3. SumTo(k, n) = 0
    BY <1>1, <2>2, SumToNothing
  <2> QED
    BY <1>4, <2>3 DEF KeyCount, k
<1> QED
  BY <1>3, <1>4

(* Amounts of keys without units are not above 0, those of the others not  *)
(* above what c has of their line.                                         *)
ByKey(s, R, v, c) ==
  /\ v \in [1 .. s.n -> Int] /\ c \in [1 .. s.n -> Int]
  /\ \A m \in 1 .. s.n : v[m] <= 0 \/ \E l \in R : s.key[l] = s.key[m]
  /\ \A l \in R : KeyCount(s, s.key[l], v) <= c[l]
  /\ \A l \in 1 .. s.n : l \notin R => c[l] = 0

(* So all of them together are not either.                                 *)
LEMMA KeySums ==
  ASSUME NEW s, IsShelf(s), NEW r, NEW R, IsChoice(s, r, R),
         NEW v, NEW c, ByKey(s, R, v, c)
  PROVE  SumTo(v, s.n) <= SumTo(c, s.n)
<1> DEFINE n == s.n
           row == [l \in 1 .. n |-> [m \in 1 .. n |->
                     IF l \in R /\ s.key[m] = s.key[l] THEN v[m] ELSE 0]]
           column == [m \in 1 .. n |-> [l \in 1 .. n |->
                        IF l \in R /\ s.key[m] = s.key[l] THEN v[m] ELSE 0]]
           rows == [l \in 1 .. n |-> SumTo(row[l], n)]
           columns == [m \in 1 .. n |-> SumTo(column[m], n)]
<1>1. /\ n \in Nat /\ \A l \in 1 .. n : v[l] \in Int /\ c[l] \in Int
      /\ R \subseteq 1 .. n /\ v \in [1 .. n -> Int]
  BY DEF IsShelf, IsChoice, ByKey
<1>2. \A l \in 1 .. n, m \in 1 .. n : row[l][m] \in Int /\ column[m][l] = row[l][m]
  BY <1>1
<1>3. ASSUME NEW l \in 1 .. n PROVE rows[l] \in Int /\ rows[l] <= c[l]
  <2>1. rows[l] = SumTo(row[l], n)
    OBVIOUS
  <2>2. CASE l \in R
    <3> DEFINE k == AtKey(s, s.key[l], v)
    <3>1. \A m \in 1 .. n : row[l][m] = k[m]
      BY <2>2 DEF AtKey
    <3> HIDE DEF row, rows, k
    <3>2. SumTo(row[l], n) = SumTo(k, n)
      BY <1>1, <3>1, SumToSame
    <3>3. SumTo(k, n) = KeyCount(s, s.key[l], v)
      BY DEF KeyCount, k
    <3>4. KeyCount(s, s.key[l], v) <= c[l]
      BY <2>2 DEF ByKey
    <3>5. KeyCount(s, s.key[l], v) \in Int
      BY <1>1, CountsTyped
    <3> QED
      BY <2>1, <3>2, <3>3, <3>4, <3>5
  <2>3. CASE l \notin R
    <3>1. \A m \in 1 .. n : row[l][m] = 0
      BY <2>3
    <3> HIDE DEF row, rows
    <3>2. SumTo(row[l], n) = 0
      BY <1>1, <3>1, SumToNothing
    <3>3. c[l] = 0
      BY <2>3 DEF ByKey
    <3> QED
      BY <2>1, <3>2, <3>3
  <2> QED
    BY <2>2, <2>3
<1>4. ASSUME NEW m \in 1 .. n PROVE columns[m] \in Int /\ v[m] <= columns[m]
  <2>1. columns[m] = SumTo(column[m], n)
    OBVIOUS
  <2>2. CASE \E l \in R : s.key[l] = s.key[m]
    <3>1. PICK k \in R : s.key[k] = s.key[m]
      BY <2>2
    <3> DEFINE d == v[m]
    <3>2. \A l \in R : s.key[l] = s.key[m] => l = k
      BY <3>1 DEF IsChoice
    <3>3. d \in Int /\ \A l \in 1 .. n : column[m][l] = IF l = k THEN d ELSE 0
      BY <1>1, <3>1, <3>2
    <3> HIDE DEF d, column, columns
    <3>4. SumTo(column[m], n) = IF k \in 1 .. n THEN d ELSE 0
      BY <1>1, <3>3, SumToSingle
    <3>5. columns[m] = d
      BY <1>1, <2>1, <3>1, <3>4
    <3> QED
      BY <3>3, <3>5 DEF d
  <2>3. CASE ~\E l \in R : s.key[l] = s.key[m]
    <3>1. \A l \in 1 .. n : column[m][l] = 0
      BY <2>3
    <3> HIDE DEF column, columns
    <3>2. SumTo(column[m], n) = 0
      BY <1>1, <3>1, SumToNothing
    <3>3. v[m] <= 0
      BY <2>3 DEF ByKey
    <3> QED
      BY <2>1, <3>2, <3>3
  <2> QED
    BY <2>2, <2>3
<1>5. \A l \in 1 .. n : rows[l] = SumTo(row[l], n) /\ columns[l] = SumTo(column[l], n)
  OBVIOUS
<1> HIDE DEF row, column, rows, columns
<1>6. SumTo(rows, n) = SumTo(columns, n)
  <2>1. Table(row, rows, n, column, columns, n)
    BY <1>2, <1>5 DEF Table
  <2> QED
    BY <1>1, <2>1, SumsExchange
<1>7. SumTo(v, n) <= SumTo(columns, n)
  BY <1>1, <1>4, SumToAtMost
<1>8. SumTo(rows, n) <= SumTo(c, n)
  BY <1>1, <1>3, SumToAtMost
<1>9. SumTo(v, n) \in Int /\ SumTo(c, n) \in Int /\ SumTo(rows, n) \in Int
  BY <1>1, <1>3, SumToInt
<1> QED
  BY <1>6, <1>7, <1>8, <1>9

(* Every finite set has a first element, whatever puts it in one order.    *)
LEMMA FirstOf ==
  ASSUME NEW S, IsFiniteSet(S), S # {}, NEW R, Orders(R, S)
  PROVE  \E x \in S : \A y \in S \ {x} : <<x, y>> \in R
<1> DEFINE n == Cardinality(S)
           pick(i) == CHOOSE x \in S : Cardinality({y \in S : <<y, x>> \in R}) = i - 1
           q == [i \in 1 .. n |-> pick(i)]
<1>1. \A i \in 1 .. n, x \in S :
        Cardinality({y \in S : <<y, x>> \in R}) = i - 1 =>
          pick(i) \in S /\ Cardinality({y \in S : <<y, pick(i)>> \in R}) = i - 1
  OBVIOUS
<1> HIDE DEF pick
<1>2. Ranking(q, R, S)
  BY <1>1 DEF Ranking
<1> HIDE DEF q
<1>3. /\ n \in Nat /\ q \in [1 .. n -> S]
      /\ \A i, j \in 1 .. n : i < j => <<q[i], q[j]>> \in R
      /\ \A x \in S : \E i \in 1 .. n : q[i] = x
  BY <1>2, Ranks
<1>4. n # 0
  BY FS_EmptySet
<1>5. 1 \in 1 .. n
  BY <1>3, <1>4
<1>6. ASSUME NEW y \in S \ {q[1]} PROVE <<q[1], y>> \in R
  <2>1. PICK i \in 1 .. n : q[i] = y
    BY <1>3
  <2>2. i # 1
    BY <2>1
  <2>3. 1 < i
    BY <1>3, <2>1, <2>2
  <2> QED
    BY <1>3, <1>5, <2>1, <2>3
<1> QED
  BY <1>3, <1>5, <1>6

(* The lines of a key that have units.                                     *)
LinesLeft(s, r, a) == {m \in 1 .. s.n : r[m] > 0 /\ s.key[m] = a}

(* The first line of each key, by R.                                       *)
FirstBy(s, r, R) ==
  {l \in 1 .. s.n : /\ r[l] > 0
                    /\ \A m \in 1 .. s.n : r[m] > 0 /\ s.key[m] = s.key[l] /\ m # l =>
                         <<l, m>> \in R}

(* It is a choice, by any order of the lines.                              *)
LEMMA FirstLines ==
  ASSUME NEW s, IsShelf(s), NEW r, NEW R, Orders(R, 1 .. s.n)
  PROVE  IsChoice(s, r, FirstBy(s, r, R))
<1> USE DEF FirstBy
<1> DEFINE F == FirstBy(s, r, R)
<1>1. F \subseteq 1 .. s.n /\ \A l \in F : r[l] > 0
  OBVIOUS
<1>2. \A l, m \in F : s.key[l] = s.key[m] => l = m
  <2> SUFFICES ASSUME NEW l \in F, NEW m \in F, s.key[l] = s.key[m], l # m PROVE FALSE
    OBVIOUS
  <2>1. <<l, m>> \in R /\ <<m, l>> \in R
    OBVIOUS
  <2> QED
    BY <1>1, <2>1 DEF Orders
<1>3. ASSUME NEW l \in 1 .. s.n, r[l] > 0 PROVE \E m \in F : s.key[m] = s.key[l]
  <2> DEFINE S == LinesLeft(s, r, s.key[l])
  <2>1. S \subseteq 1 .. s.n /\ l \in S
    BY <1>3 DEF LinesLeft
  <2>2. IsFiniteSet(S)
    <3>1. IsFiniteSet(1 .. s.n)
      BY IntervalCardinality DEF IsShelf
    <3> QED
      BY <2>1, <3>1, FS_Subset
  <2>3. Orders(R, S)
    BY <2>1 DEF Orders
  <2> HIDE DEF S, F
  <2>4. \E m \in S : \A k \in S \ {m} : <<m, k>> \in R
    <3>1. S # {}
      BY <2>1
    <3> QED
      BY <2>2, <2>3, <3>1, FirstOf
  <2>5. PICK m \in S : \A k \in S \ {m} : <<m, k>> \in R
    BY <2>4
  <2>6. m \in 1 .. s.n /\ r[m] > 0 /\ s.key[m] = s.key[l]
    BY DEF S, LinesLeft
  <2>7. \A k \in 1 .. s.n : r[k] > 0 /\ s.key[k] = s.key[m] /\ k # m => <<m, k>> \in R
    BY <2>5, <2>6 DEF S, LinesLeft
  <2> QED
    BY <2>6, <2>7 DEF F
<1> QED
  BY <1>1, <1>2, <1>3 DEF IsChoice

(* There is a choice of the dearest lines.                                 *)
LEMMA DearestLines ==
  ASSUME NEW s, IsShelf(s), NEW r
  PROVE  \E F : /\ IsChoice(s, r, F)
                /\ \A l \in F, m \in 1 .. s.n :
                     r[m] > 0 /\ s.key[m] = s.key[l] /\ m # l => Before(s, l, m)
<1> DEFINE R == {p \in (1 .. s.n) \X (1 .. s.n) : Before(s, p[1], p[2])}
           F == FirstBy(s, r, R)
<1>1. \A l, m \in 1 .. s.n : <<l, m>> \in R <=> Before(s, l, m)
  OBVIOUS
<1>2. s.n \in Nat /\ \A l \in 1 .. s.n : s.price[l] \in Nat /\ l \in Nat
  BY DEF IsShelf
<1> HIDE DEF R
<1>3. Orders(R, 1 .. s.n)
  BY <1>1, <1>2 DEF Before, Orders
<1>4. IsChoice(s, r, F)
  BY <1>3, FirstLines
<1>5. \A l \in F, m \in 1 .. s.n :
        r[m] > 0 /\ s.key[m] = s.key[l] /\ m # l => Before(s, l, m)
  BY <1>1 DEF FirstBy
<1> QED
  BY <1>4, <1>5

(* The first of the cheapest lines of each key.                            *)
CheapestLines(s, r) ==
  {l \in 1 .. s.n : /\ r[l] > 0
                    /\ \A m \in 1 .. s.n : r[m] > 0 /\ s.key[m] = s.key[l] =>
                         s.price[l] < s.price[m] \/ (s.price[l] = s.price[m] /\ l <= m)}

(* They are a choice.                                                      *)
LEMMA CheapestChosen ==
  ASSUME NEW s, IsShelf(s), NEW r
  PROVE  IsChoice(s, r, CheapestLines(s, r))
<1> DEFINE R == {p \in (1 .. s.n) \X (1 .. s.n) :
                   \/ s.price[p[1]] < s.price[p[2]]
                   \/ s.price[p[1]] = s.price[p[2]] /\ p[1] < p[2]}
           F == FirstBy(s, r, R)
<1>1. \A l, m \in 1 .. s.n :
        <<l, m>> \in R <=> s.price[l] < s.price[m] \/ (s.price[l] = s.price[m] /\ l < m)
  OBVIOUS
<1>2. s.n \in Nat /\ \A l \in 1 .. s.n : s.price[l] \in Nat /\ l \in Nat
  BY DEF IsShelf
<1> HIDE DEF R
<1>3. Orders(R, 1 .. s.n)
  BY <1>1, <1>2 DEF Orders
<1>4. IsChoice(s, r, F)
  BY <1>3, FirstLines
<1> DEFINE first(l, m) == s.price[l] < s.price[m] \/ (s.price[l] = s.price[m] /\ l <= m)
<1>5. ASSUME NEW l \in 1 .. s.n, NEW m \in 1 .. s.n
      PROVE  first(l, m) <=> (m # l => <<l, m>> \in R)
  <2>1. /\ <<l, m>> \in R <=> s.price[l] < s.price[m] \/ (s.price[l] = s.price[m] /\ l < m)
        /\ l \in Nat /\ m \in Nat /\ s.price[l] \in Nat /\ s.price[m] \in Nat
    BY <1>1, <1>2
  <2>2. CASE l = m
    BY <2>1, <2>2
  <2>3. CASE l # m
    BY <2>1, <2>3
  <2> QED
    BY <2>2, <2>3
<1>6. CheapestLines(s, r) = F
  <2>1. CheapestLines(s, r) =
          {l \in 1 .. s.n : /\ r[l] > 0
                            /\ \A m \in 1 .. s.n : r[m] > 0 /\ s.key[m] = s.key[l] => first(l, m)}
    BY DEF CheapestLines
  <2> HIDE DEF first
  <2> QED
    BY <1>5, <2>1 DEF FirstBy
<1> QED
  BY <1>4, <1>6

(* The cheapest line of each key costs no more than another choice.        *)
LEMMA CheapestChoice ==
  ASSUME NEW s, IsShelf(s), NEW r, NEW R, IsChoice(s, r, R),
         NEW C, C = CheapestLines(s, r)
  PROVE  Value(s, s.price, Ones(s, C)) <= Value(s, s.price, Ones(s, R))
<1> DEFINE n == s.n
           v == Times(s, s.price, Ones(s, C))
           c == Times(s, s.price, Ones(s, R))
<1>1. /\ n \in Nat /\ \A l \in 1 .. n : s.price[l] \in Nat /\ s.key[l] \in Nat
      /\ IsChoice(s, r, C) /\ R \subseteq 1 .. n /\ C \subseteq 1 .. n
  <2>1. n \in Nat /\ \A l \in 1 .. n : s.price[l] \in Nat /\ s.key[l] \in Nat
    BY DEF IsShelf
  <2>2. IsChoice(s, r, C)
    BY CheapestChosen
  <2> QED
    BY <2>1, <2>2 DEF IsChoice
<1>2. \A l \in 1 .. n : /\ v[l] = IF l \in C THEN s.price[l] ELSE 0
                        /\ c[l] = IF l \in R THEN s.price[l] ELSE 0
  <2>1. \A l \in 1 .. n : /\ v[l] = s.price[l] * (IF l \in C THEN 1 ELSE 0)
                          /\ c[l] = s.price[l] * (IF l \in R THEN 1 ELSE 0)
    BY DEF Times, Ones
  <2> QED
    BY <1>1, <2>1
<1>3. v \in [1 .. n -> Int] /\ c \in [1 .. n -> Int]
  <2>1. \A l \in 1 .. n : v[l] \in Int /\ c[l] \in Int
    BY <1>1, <1>2
  <2> QED
    BY <2>1 DEF Times
<1> HIDE DEF v, c
<1>4. ASSUME NEW l \in R PROVE KeyCount(s, s.key[l], v) <= c[l]
  <2> DEFINE a == s.key[l]
             k == AtKey(s, a, v)
  <2>1. l \in 1 .. n /\ r[l] > 0
    BY <1>1 DEF IsChoice
  <2>2. PICK z \in C : s.key[z] = a
    BY <1>1, <2>1 DEF IsChoice
  <2>3. s.price[z] <= s.price[l] /\ z \in 1 .. n
    BY <1>1, <2>1, <2>2 DEF CheapestLines
  <2> DEFINE d == s.price[z]
  <2>4. d \in Int /\ \A m \in 1 .. n : k[m] = IF m = z THEN d ELSE 0
    <3>1. \A m \in C : s.key[m] = a => m = z
      BY <1>1, <2>2 DEF IsChoice
    <3>2. \A m \in 1 .. n : k[m] = IF s.key[m] = a THEN v[m] ELSE 0
      BY DEF AtKey
    <3> QED
      BY <1>1, <1>2, <2>2, <2>3, <3>1, <3>2
  <2> HIDE DEF k, d, n
  <2>5. SumTo(k, n) = IF z \in 1 .. n THEN d ELSE 0
    BY <1>1, <2>4, SumToSingle
  <2>6. KeyCount(s, a, v) = SumTo(k, n)
    BY DEF KeyCount, k, n
  <2>7. c[l] = s.price[l]
    BY <1>2, <2>1
  <2> QED
    BY <2>3, <2>5, <2>6, <2>7 DEF d
<1>5. \A m \in 1 .. n : v[m] <= 0 \/ \E l \in R : s.key[l] = s.key[m]
  <2>1. \A m \in C : m \in 1 .. n /\ r[m] > 0
    BY <1>1 DEF IsChoice
  <2> QED
    BY <1>2, <2>1 DEF IsChoice
<1>6. ByKey(s, R, v, c)
  BY <1>2, <1>3, <1>4, <1>5 DEF ByKey
<1>7. SumTo(v, n) <= SumTo(c, n)
  BY <1>6, KeySums
<1> QED
  BY <1>7 DEF Value, v, c

-----------------------------------------------------------------------------
(* What is shown, and what it comes to.                                    *)

(* An offer.                                                               *)
IsOffer(b) ==
  /\ b.size \in Nat /\ b.size > 1 /\ b.fixedTotal \in Nat
  /\ b.differentModels \in BOOLEAN /\ b.repeatable \in BOOLEAN

(* If units of different models are taken from the largest buckets, a key  *)
(* that has not been in every group has not many more left than others.    *)
Balanced(s, b, r, g) ==
  \A a \in Nat :
    \/ KeyCount(s, a, Others(s, r)) = g
    \/ KeyCount(s, a, r) <= 1
    \/ \E f \in [1 .. b.size -> Nat] :
         /\ \A i, j \in 1 .. b.size : f[i] = f[j] => i = j
         /\ \A i \in 1 .. b.size : KeyCount(s, f[i], r) >= KeyCount(s, a, r) - 1

(* So many groups are formed, together worth d, and r is left.             *)
Stands(s, b, r, g, d) ==
  /\ Part(s, r) /\ g \in Nat /\ (~b.repeatable => g <= 1)
  /\ TopClosed(s, Others(s, r)) /\ Count(s, Others(s, r)) = b.size * g
  /\ d = Value(s, s.net, Others(s, r)) - b.fixedTotal * g
  /\ b.differentModels =>
       Balanced(s, b, r, g) /\ \A a \in Nat : KeyCount(s, a, Others(s, r)) <= g

(* No group more is formed: the offer is used up, or too little is left, or*)
(* a group of any models would cost more than its units.                   *)
Ended(s, b, r, g) ==
  \/ ~b.repeatable /\ g >= 1
  \/ IF b.differentModels
       THEN Cardinality(KeysLeft(s, r)) < b.size
       ELSE \/ Count(s, r) < b.size
            \/ \E y : Part(s, y) /\ Count(s, y) = b.size /\ Value(s, s.net, y) < b.fixedTotal

(* The lowest price and the highest surcharge there are.                   *)
Bounded(s, lo, hi) ==
  /\ lo \in Nat /\ hi \in Nat
  /\ \A l \in 1 .. s.n : s.stock[l] > 0 => s.price[l] >= lo /\ s.net[l] >= s.price[l] - hi

(* The units x make k groups once m units more are there.                  *)
Promised(s, b, x, k, m) ==
  /\ Part(s, x) /\ TopClosed(s, x) /\ k \in Nat /\ k >= 1 /\ m \in Nat /\ m <= b.size
  /\ k = 1 \/ b.repeatable
  /\ Count(s, x) + m = b.size * k

(* Of different models, they are as many of each key as k groups can have; *)
(* and the keys that are not among models have nothing else.               *)
OfEachKey(s, x, k, models) ==
  /\ \A a \in Nat : /\ KeyCount(s, a, x) <= k
                    /\ KeyCount(s, a, x) = k \/ KeyCount(s, a, x) = KeyCount(s, a, s.stock)
  /\ \A a \in Nat \ models :
       KeyCount(s, a, x) < k /\ \A l \in 1 .. s.n : s.key[l] = a => x[l] = s.stock[l]

(* Of any models, they are all there are; and any units that the units to  *)
(* come complete to a group are worth one.                                 *)
OfAnyKeys(s, b, x, m, lo, hi) ==
  /\ x = s.stock
  /\ \A y : Part(s, y) /\ Count(s, y) + m = b.size =>
              Value(s, s.price, y) + m * lo > b.fixedTotal + b.size * hi

(* Together they are worth d, whatever these units are.                    *)
Promise(s, b, x, k, m, d, models, lo, hi) ==
  /\ Promised(s, b, x, k, m)
  /\ d \in Int /\ d <= Value(s, s.net, x) + m * (lo - hi) - b.fixedTotal * k
  /\ IF b.differentModels THEN OfEachKey(s, x, k, models) ELSE OfAnyKeys(s, b, x, m, lo, hi)

(* The types of what is left and what is not.                              *)
LEMMA OthersTyped ==
  ASSUME NEW s, IsShelf(s), NEW r, Part(s, r)
  PROVE  /\ Part(s, Others(s, r)) /\ Together(s, Others(s, r), r, s.stock)
         /\ Part(s, s.stock)
<1>1. \A l \in 1 .. s.n : /\ r[l] \in Nat /\ s.stock[l] \in Nat /\ r[l] <= s.stock[l]
                          /\ Others(s, r)[l] = s.stock[l] - r[l]
  BY DEF IsShelf, Part, Others
<1>2. \A l \in 1 .. s.n : /\ Others(s, r)[l] \in Nat /\ Others(s, r)[l] <= s.stock[l]
                          /\ s.stock[l] = Others(s, r)[l] + r[l]
  BY <1>1
<1>3. Others(s, r) \in [1 .. s.n -> Nat]
  BY <1>2 DEF Others
<1>4. r \in [1 .. s.n -> Nat] /\ s.stock \in [1 .. s.n -> Nat]
  BY DEF Part, IsShelf
<1>5. /\ r \in [1 .. s.n -> Int] /\ s.stock \in [1 .. s.n -> Int]
      /\ Others(s, r) \in [1 .. s.n -> Int]
  BY <1>3, <1>4
<1>6. Part(s, s.stock)
  BY <1>1, <1>4 DEF Part
<1> QED
  BY <1>2, <1>3, <1>5, <1>6 DEF Part, Together

(* Counts of a part.                                                       *)
LEMMA PartCounts ==
  ASSUME NEW s, IsShelf(s), NEW x, Part(s, x)
  PROVE  /\ Count(s, x) \in Nat /\ \A a : KeyCount(s, a, x) \in Nat
         /\ \A p \in [1 .. s.n -> Int] : Value(s, p, x) \in Int
         /\ Value(s, s.net, x) \in Int /\ Value(s, s.price, x) \in Int
         /\ \A a : KeyCount(s, a, x) <= KeyCount(s, a, s.stock)
<1>1. /\ x \in [1 .. s.n -> Int] /\ x \in [1 .. s.n -> Nat] /\ s.stock \in [1 .. s.n -> Int]
      /\ \A l \in 1 .. s.n : x[l] <= s.stock[l]
      /\ s.net \in [1 .. s.n -> Int] /\ s.price \in [1 .. s.n -> Int]
  BY DEF Part, IsShelf
<1>2. \A a : KeyCount(s, a, x) <= KeyCount(s, a, s.stock)
  BY <1>1, CountsGrow
<1>3. \A a : Count(s, x) \in Nat /\ KeyCount(s, a, x) \in Nat
  BY <1>1, CountsTyped
<1>4. \A p \in [1 .. s.n -> Int] : Value(s, p, x) \in Int
  BY <1>1, CountsTyped
<1> QED
  BY <1>1, <1>2, <1>3, <1>4

(* When the groups are as many as promised, they are worth it.             *)
LEMMA PromiseKept ==
  ASSUME NEW s, IsShelf(s), NEW b, IsOffer(b), NEW r, NEW k, NEW w, Stands(s, b, r, k, w),
         NEW x, NEW d, NEW models, NEW lo, NEW hi, lo \in Int, hi \in Int,
         Promise(s, b, x, k, 0, d, models, lo, hi)
  PROVE  w >= d
<1> DEFINE u == Others(s, r)
<1>1. /\ Part(s, u) /\ Part(s, x) /\ TopClosed(s, u) /\ TopClosed(s, x)
      /\ k \in Nat /\ Count(s, u) = b.size * k /\ Count(s, x) + 0 = b.size * k
  BY OthersTyped DEF Stands, Promise, Promised
<1> HIDE DEF u
<1>2. /\ Count(s, u) \in Nat /\ Count(s, x) \in Nat /\ Value(s, s.net, x) \in Int
      /\ \A a : KeyCount(s, a, u) \in Nat /\ KeyCount(s, a, x) \in Nat
      /\ \A a : KeyCount(s, a, u) <= KeyCount(s, a, s.stock)
  BY <1>1, PartCounts
<1>3. ASSUME NEW a \in Nat PROVE KeyCount(s, a, u) <= KeyCount(s, a, x)
  <2>1. CASE b.differentModels
    <3>1. KeyCount(s, a, u) <= k
      BY <2>1 DEF Stands, u
    <3>2. KeyCount(s, a, x) = k \/ KeyCount(s, a, x) = KeyCount(s, a, s.stock)
      BY <2>1 DEF Promise, OfEachKey
    <3> QED
      BY <1>1, <1>2, <3>1, <3>2
  <2>2. CASE ~b.differentModels
    <3>1. x = s.stock
      BY <2>2 DEF Promise, OfAnyKeys
    <3> QED
      BY <1>2, <3>1
  <2> QED
    BY <2>1, <2>2
<1>4. Count(s, u) = Count(s, x)
  BY <1>1, <1>2
<1>5. u = x
  BY <1>1, <1>3, <1>4, SameUnits
<1>6. w = Value(s, s.net, x) - b.fixedTotal * k
  BY <1>5 DEF Stands, u
<1>7. d \in Int /\ d <= Value(s, s.net, x) + 0 * (lo - hi) - b.fixedTotal * k
  BY DEF Promise
<1>8. 0 * (lo - hi) = 0 /\ b.fixedTotal * k \in Int
  BY <1>1 DEF IsOffer
<1> QED
  BY <1>2, <1>6, <1>7, <1>8

(* A key of which there are units is one of those left.                    *)
LEMMA KeyLeft ==
  ASSUME NEW s, IsShelf(s), NEW r, Part(s, r), NEW a
  PROVE  KeyCount(s, a, r) > 0 <=> a \in KeysLeft(s, r)
<1> DEFINE n == s.n
           k == AtKey(s, a, r)
<1>1. n \in Nat /\ \A l \in 1 .. n : r[l] \in Nat /\ k[l] = IF s.key[l] = a THEN r[l] ELSE 0
  BY DEF IsShelf, Part, AtKey
<1> HIDE DEF k
<1>2. ASSUME a \notin KeysLeft(s, r) PROVE KeyCount(s, a, r) = 0
  <2>1. \A l \in 1 .. n : k[l] = 0
    BY <1>1, <1>2 DEF KeysLeft
  <2> QED
    BY <1>1, <2>1, SumToNothing DEF KeyCount, k
<1>3. ASSUME a \in KeysLeft(s, r) PROVE KeyCount(s, a, r) > 0
  <2>1. PICK m \in 1 .. n : r[m] > 0 /\ s.key[m] = a
    BY <1>3 DEF KeysLeft
  <2> DEFINE z == [l \in 1 .. n |-> 0]
  <2>2. \A l \in 1 .. n : z[l] = 0 /\ z[l] \in Int /\ k[l] \in Int /\ z[l] <= k[l]
    BY <1>1
  <2>3. z[m] < k[m]
    BY <1>1, <2>1
  <2> HIDE DEF z
  <2>4. SumTo(z, n) < SumTo(k, n)
    BY <1>1, <2>2, <2>3, SumToLess
  <2>5. SumTo(z, n) = 0
    BY <1>1, <2>2, SumToNothing
  <2>6. SumTo(k, n) \in Int
    BY <1>1, <2>2, SumToInt
  <2> QED
    BY <2>4, <2>5, <2>6 DEF KeyCount, k
<1> QED
  BY <1>2, <1>3

(* When fewer keys than a group needs are left, each of them was in every  *)
(* group or has one unit.                                                  *)
LEMMA BalancedAtEnd ==
  ASSUME NEW s, IsShelf(s), NEW b, IsOffer(b), b.differentModels,
         NEW r, NEW g, NEW w, Stands(s, b, r, g, w),
         Cardinality(KeysLeft(s, r)) < b.size, NEW a \in Nat
  PROVE  KeyCount(s, a, Others(s, r)) = g \/ KeyCount(s, a, r) <= 1
<1> SUFFICES ASSUME KeyCount(s, a, Others(s, r)) # g, ~(KeyCount(s, a, r) <= 1) PROVE FALSE
  OBVIOUS
<1>1. Part(s, r) /\ Balanced(s, b, r, g)
  BY DEF Stands
<1>2. PICK f \in [1 .. b.size -> Nat] :
        /\ \A i, j \in 1 .. b.size : f[i] = f[j] => i = j
        /\ \A i \in 1 .. b.size : KeyCount(s, f[i], r) >= KeyCount(s, a, r) - 1
  BY <1>1 DEF Balanced
<1>3. \A c : KeyCount(s, c, r) \in Nat
  BY <1>1, PartCounts
<1>4. ASSUME NEW i \in 1 .. b.size PROVE f[i] \in KeysLeft(s, r)
  <2>1. KeyCount(s, f[i], r) > 0
    BY <1>2, <1>3
  <2> QED
    BY <1>1, <2>1, KeyLeft
<1>5. f \in [1 .. b.size -> KeysLeft(s, r)]
  BY <1>2, <1>4
<1>6. IsFiniteSet(KeysLeft(s, r))
  <2>1. PICK F : IsChoice(s, r, F)
    BY DearestLines
  <2> QED
    BY <1>1, <2>1, ChoiceCount
<1>7. IsFiniteSet(1 .. b.size) /\ Cardinality(1 .. b.size) = b.size
  BY IntervalCardinality DEF IsOffer
<1>8. \E i, j \in 1 .. b.size : i # j /\ f[i] = f[j]
  BY <1>5, <1>6, <1>7, FS_PigeonHole
<1>9. PICK i, j \in 1 .. b.size : i # j /\ f[i] = f[j]
  BY <1>8
<1>10. f[i] = f[j] => i = j
  BY <1>2
<1> QED
  BY <1>9, <1>10

(* Units are worth their price without the highest surcharge for each.     *)
LEMMA NetBound ==
  ASSUME NEW s, IsShelf(s), NEW lo, NEW hi, Bounded(s, lo, hi), NEW x, Part(s, x)
  PROVE  Value(s, s.price, x) <= Value(s, s.net, x) + hi * Count(s, x)
<1> DEFINE n == s.n
           p == Times(s, s.price, x)
           v == Times(s, s.net, x)
           e == [l \in 1 .. n |-> hi * x[l]]
           t == [l \in 1 .. n |-> v[l] + e[l]]
<1>1. n \in Nat /\ hi \in Nat
  BY DEF IsShelf, Bounded
<1>2. ASSUME NEW l \in 1 .. n
      PROVE  /\ p[l] \in Int /\ v[l] \in Int /\ e[l] \in Int /\ t[l] \in Int /\ x[l] \in Int
             /\ p[l] <= t[l] /\ t[l] = v[l] + e[l] /\ e[l] = hi * x[l]
  <2>1. /\ x[l] \in Nat /\ s.price[l] \in Nat /\ s.net[l] \in Int /\ hi \in Nat
        /\ x[l] > 0 => s.net[l] >= s.price[l] - hi
    BY <1>1 DEF IsShelf, Part, Bounded
  <2>2. p[l] = s.price[l] * x[l] /\ v[l] = s.net[l] * x[l]
    BY DEF Times
  <2>3. e[l] = hi * x[l] /\ t[l] = v[l] + e[l]
    OBVIOUS
  <2> HIDE DEF p, v, e, t
  <2>4. CASE x[l] = 0
    <3>1. \A i \in Int : i * 0 = 0
      OBVIOUS
    <3>2. p[l] = 0 /\ v[l] = 0 /\ e[l] = 0
      BY <2>1, <2>2, <2>3, <2>4, <3>1
    <3> QED
      BY <2>3, <2>4, <3>2
  <2>5. CASE x[l] > 0
    <3> DEFINE c == s.net[l] + hi - s.price[l]
    <3>1. c \in Nat
      BY <2>1, <2>5
    <3>2. c * x[l] = s.net[l] * x[l] + hi * x[l] - s.price[l] * x[l]
      <4>1. \A i, j, k, m \in Int : (i + j - k) * m = i * m + j * m - k * m
        OBVIOUS
      <4> QED
        BY <2>1, <4>1
    <3> HIDE DEF c
    <3>3. c * x[l] >= 0
      BY <2>1, <3>1
    <3> QED
      BY <2>1, <2>2, <2>3, <3>2, <3>3
  <2> QED
    BY <2>1, <2>4, <2>5
<1> HIDE DEF p, v, e, t, n
<1>3. SumTo(p, n) <= SumTo(t, n)
  BY <1>1, <1>2, SumToAtMost
<1>4. SumTo(t, n) = SumTo(v, n) + SumTo(e, n)
  <2>1. n \in Nat /\ \A l \in 1 .. n : v[l] \in Int /\ e[l] \in Int /\ t[l] = v[l] + e[l]
    BY <1>1, <1>2
  <2> QED
    BY <2>1, SumToPlus
<1>5. SumTo(e, n) = hi * SumTo(x, n)
  <2>1. n \in Nat /\ hi \in Int /\ \A l \in 1 .. n : x[l] \in Int /\ e[l] = hi * x[l]
    BY <1>1, <1>2
  <2> QED
    BY <2>1, SumToTimes
<1> QED
  BY <1>3, <1>4, <1>5 DEF Value, Count, p, v, n

(* When no group more is formed, they are as many as promised.             *)
LEMMA PromiseReached ==
  ASSUME NEW s, IsShelf(s), NEW b, IsOffer(b), NEW lo, NEW hi, Bounded(s, lo, hi),
         NEW r, NEW g, NEW w, Stands(s, b, r, g, w), Ended(s, b, r, g),
         NEW x, NEW k, NEW d, NEW models, Promise(s, b, x, k, 0, d, models, lo, hi)
  PROVE  g >= k
<1> DEFINE u == Others(s, r)
<1>1. /\ Part(s, u) /\ Part(s, x) /\ Part(s, r) /\ k \in Nat /\ g \in Nat /\ k >= 1
      /\ Count(s, u) = b.size * g /\ Count(s, x) + 0 = b.size * k /\ (k = 1 \/ b.repeatable)
      /\ Together(s, u, r, s.stock)
  BY OthersTyped DEF Stands, Promise, Promised
<1> HIDE DEF u
<1>2. /\ Count(s, u) \in Nat /\ Count(s, x) \in Nat /\ Count(s, r) \in Nat
      /\ \A a : KeyCount(s, a, u) \in Nat /\ KeyCount(s, a, x) \in Nat /\ KeyCount(s, a, r) \in Nat
      /\ \A a : KeyCount(s, a, x) <= KeyCount(s, a, s.stock)
  BY <1>1, PartCounts
<1>3. b.size \in Nat /\ b.size > 1 /\ b.fixedTotal \in Nat /\ lo \in Nat /\ hi \in Nat
  BY DEF IsOffer, Bounded
<1> SUFFICES ASSUME g < k PROVE FALSE
  BY <1>1
<1>4. ~(~b.repeatable /\ g >= 1)
  BY <1>1
<1>5. Count(s, s.stock) = Count(s, u) + Count(s, r)
      /\ \A a : KeyCount(s, a, s.stock) = KeyCount(s, a, u) + KeyCount(s, a, r)
  BY <1>1, CountsAddUp
<1> DEFINE e == k - g
<1>6. /\ e \in Nat /\ e >= 1 /\ b.size * k = b.size * g + b.size * e
      /\ b.size * g \in Int /\ b.size * e \in Int
  BY <1>1, <1>3
<1>7. CASE ~b.differentModels
  <2>1. /\ x = s.stock
        /\ \A y : Part(s, y) /\ Count(s, y) + 0 = b.size =>
                    Value(s, s.price, y) + 0 * lo > b.fixedTotal + b.size * hi
    BY <1>7 DEF Promise, OfAnyKeys
  <2>2. Count(s, r) = b.size * e
    BY <1>1, <1>2, <1>5, <1>6, <2>1
  <2>3. b.size * e >= b.size
    BY <1>3, <1>6
  <2>4. PICK y : Part(s, y) /\ Count(s, y) = b.size /\ Value(s, s.net, y) < b.fixedTotal
    BY <1>2, <1>3, <1>4, <1>7, <2>2, <2>3 DEF Ended
  <2>5. Value(s, s.price, y) + 0 * lo > b.fixedTotal + b.size * hi
    BY <1>3, <2>1, <2>4
  <2>6. Value(s, s.price, y) <= Value(s, s.net, y) + hi * Count(s, y)
    BY <2>4, NetBound
  <2>7. Value(s, s.price, y) \in Int /\ Value(s, s.net, y) \in Int
    BY <2>4, PartCounts
  <2>8. 0 * lo = 0 /\ hi * b.size = b.size * hi /\ b.size * hi \in Int
    BY <1>3
  <2> QED
    BY <1>3, <2>4, <2>5, <2>6, <2>7, <2>8
<1>8. CASE b.differentModels
  <2>1. Cardinality(KeysLeft(s, r)) < b.size
    BY <1>4, <1>8 DEF Ended
  <2>2. PICK F : IsChoice(s, r, F)
    BY DearestLines
  <2> DEFINE n == s.n
             y == Ones(s, F)
             v == [l \in 1 .. n |-> x[l] - u[l]]
             c == [l \in 1 .. n |-> e * y[l]]
  <2>3. /\ Count(s, y) = Cardinality(KeysLeft(s, r)) /\ Count(s, y) \in Nat /\ Part(s, y)
        /\ n \in Nat
    BY <1>1, <2>2, ChoiceCount DEF IsShelf
  <2>4. \A l \in 1 .. n : /\ x[l] \in Int /\ u[l] \in Int /\ r[l] \in Nat /\ y[l] \in Int
                          /\ x[l] <= s.stock[l] /\ s.stock[l] \in Int
                          /\ s.stock[l] = u[l] + r[l]
                          /\ y[l] = IF l \in F THEN 1 ELSE 0
    <3>1. \A l \in 1 .. n : x[l] \in Nat /\ u[l] \in Nat /\ r[l] \in Nat /\ x[l] <= s.stock[l]
      BY <1>1 DEF Part
    <3>2. \A l \in 1 .. n : s.stock[l] \in Int /\ s.stock[l] = u[l] + r[l]
      BY <1>1 DEF Together
    <3>3. \A l \in 1 .. n : y[l] \in Int /\ y[l] = IF l \in F THEN 1 ELSE 0
      BY DEF Ones
    <3> QED
      BY <3>1, <3>2, <3>3
  <2>5. \A l \in 1 .. n : v[l] \in Int /\ c[l] \in Int /\ v[l] = x[l] - u[l] /\ c[l] = e * y[l]
    BY <1>6, <2>4
  <2>6. v \in [1 .. n -> Int] /\ c \in [1 .. n -> Int]
    BY <2>5
  <2> HIDE DEF v, c, y
  <2>7. Together(s, u, v, x)
    BY <1>1, <2>4, <2>5, <2>6 DEF Together, Part
  <2>8. Count(s, x) = Count(s, u) + Count(s, v)
        /\ \A a : KeyCount(s, a, x) = KeyCount(s, a, u) + KeyCount(s, a, v)
    BY <2>7, CountsAddUp
  <2>9. Count(s, v) \in Int /\ \A a : KeyCount(s, a, v) \in Int
    <3>1. s.net \in [1 .. n -> Int]
      BY DEF IsShelf
    <3> QED
      BY <2>6, <3>1, CountsTyped
  <2>10. Count(s, v) = b.size * e
    BY <1>1, <1>2, <1>3, <1>6, <2>8, <2>9
  <2>11. ASSUME NEW l \in F PROVE KeyCount(s, s.key[l], v) <= c[l]
    <3> DEFINE a == s.key[l]
    <3>1. l \in 1 .. n /\ a \in Nat
      BY <2>2 DEF IsChoice, IsShelf
    <3> HIDE DEF a
    <3>2. c[l] = e
      BY <1>6, <2>4, <2>5, <3>1
    <3>3. KeyCount(s, a, u) = g \/ KeyCount(s, a, r) <= 1
      BY <1>8, <2>1, <3>1, BalancedAtEnd DEF u
    <3>4. KeyCount(s, a, x) <= k
      BY <1>8, <3>1 DEF Promise, OfEachKey
    <3>5. KeyCount(s, a, v) <= e
      BY <1>1, <1>2, <1>5, <1>6, <2>8, <2>9, <3>3, <3>4
    <3> QED
      BY <3>2, <3>5 DEF a
  <2>12. ASSUME NEW m \in 1 .. n PROVE v[m] <= 0 \/ \E l \in F : s.key[l] = s.key[m]
    <3>1. CASE r[m] > 0
      BY <2>2, <3>1 DEF IsChoice
    <3>2. CASE ~(r[m] > 0)
      BY <2>4, <2>5, <3>2
    <3> QED
      BY <3>1, <3>2
  <2>13. \A l \in 1 .. n : l \notin F => c[l] = 0
    BY <1>6, <2>4, <2>5
  <2>14. ByKey(s, F, v, c)
    BY <2>6, <2>11, <2>12, <2>13 DEF ByKey
  <2>15. SumTo(v, n) <= SumTo(c, n)
    BY <2>2, <2>14, KeySums
  <2>16. SumTo(c, n) = e * SumTo(y, n)
    <3>1. n \in Nat /\ e \in Int /\ \A l \in 1 .. n : y[l] \in Int /\ c[l] = e * y[l]
      BY <1>6, <2>3, <2>4, <2>5
    <3> HIDE DEF n, e
    <3> QED
      BY <3>1, SumToTimes
  <2> DEFINE q == Count(s, y)
  <2>17. b.size * e <= e * q /\ q \in Nat /\ q < b.size
    BY <2>1, <2>3, <2>10, <2>15, <2>16 DEF Count
  <2> HIDE DEF q, e
  <2>18. e * q < e * b.size
    BY <1>3, <1>6, <2>17
  <2>19. e * b.size = b.size * e /\ e * q \in Int /\ b.size * e \in Int
    BY <1>3, <1>6, <2>17
  <2> QED
    BY <2>17, <2>18, <2>19
<1> QED
  BY <1>7, <1>8 DEF IsOffer

(* What a group gains when m units come to others that cost so much.       *)
GainOf(b, cost, m, lo, hi) == cost + m * lo - (b.fixedTotal + b.size * hi)

(* What is promised of an offer of any models: all units and those to come.*)
LEMMA ShownOfAny ==
  ASSUME NEW s, IsShelf(s), NEW b, IsOffer(b), ~b.differentModels,
         \A l \in 1 .. s.n : s.key[l] = 0, NEW lo, NEW hi, Bounded(s, lo, hi),
         NEW r, NEW g, NEW w, Stands(s, b, r, g, w), g = 0 \/ b.repeatable,
         NEW m \in Nat, m = b.size - Count(s, r), NEW gain \in Int, gain > 0,
         gain = GainOf(b, Value(s, s.price, r), m, lo, hi)
  PROVE  \A models : Promise(s, b, s.stock, g + 1, m, w + gain, models, lo, hi)
<1> DEFINE u == Others(s, r)
           x == s.stock
<1>1. /\ Part(s, u) /\ Part(s, x) /\ Part(s, r) /\ g \in Nat
      /\ Count(s, u) = b.size * g /\ TopClosed(s, u)
      /\ Together(s, u, r, x) /\ w = Value(s, s.net, u) - b.fixedTotal * g
  BY OthersTyped DEF Stands
<1>2. /\ Count(s, u) \in Nat /\ Count(s, x) \in Nat /\ Count(s, r) \in Nat
      /\ Value(s, s.net, u) \in Int /\ Value(s, s.net, x) \in Int /\ Value(s, s.net, r) \in Int
      /\ Value(s, s.price, r) \in Int
  BY <1>1, PartCounts
<1>3. b.size \in Nat /\ b.size > 1 /\ b.fixedTotal \in Nat /\ lo \in Nat /\ hi \in Nat
  BY DEF IsOffer, Bounded
<1>4. Count(s, x) = Count(s, u) + Count(s, r)
      /\ Value(s, s.net, x) = Value(s, s.net, u) + Value(s, s.net, r)
  <2>1. s.net \in [1 .. s.n -> Int]
    BY DEF IsShelf
  <2> HIDE DEF u, x
  <2> QED
    BY <1>1, <2>1, CountsAddUp
<1>5. b.size * (g + 1) = b.size * g + b.size /\ b.fixedTotal * (g + 1) = b.fixedTotal * g + b.fixedTotal
      /\ b.size * g \in Int /\ b.fixedTotal * g \in Int
  <2>1. \A i, j \in Nat : i * (j + 1) = i * j + i /\ i * j \in Int
    OBVIOUS
  <2> QED
    BY <1>1, <1>3, <2>1
<1>6. TopClosed(s, x)
  BY DEF TopClosed
<1>7. Count(s, x) + m = b.size * (g + 1)
  BY <1>1, <1>2, <1>3, <1>4, <1>5
<1>8. Promised(s, b, x, g + 1, m)
  BY <1>1, <1>2, <1>3, <1>6, <1>7 DEF Promised
<1>9. w + gain \in Int /\ w + gain <= Value(s, s.net, x) + m * (lo - hi) - b.fixedTotal * (g + 1)
  <2>1. Value(s, s.price, r) <= Value(s, s.net, r) + hi * Count(s, r)
    BY <1>1, NetBound
  <2>2. m * (lo - hi) = m * lo - m * hi /\ m * lo \in Int /\ m * hi \in Int
    BY <1>3
  <2>3. b.size * hi = hi * Count(s, r) + m * hi /\ hi * Count(s, r) \in Int /\ b.size * hi \in Int
    <3>1. \A i, j, h \in Nat : (i + j) * h = h * i + j * h /\ i * h \in Int /\ h * i \in Int
      OBVIOUS
    <3>2. b.size = Count(s, r) + m
      BY <1>2, <1>3
    <3>3. (Count(s, r) + m) * hi = hi * Count(s, r) + m * hi /\ hi * Count(s, r) \in Int
      BY <1>2, <1>3, <3>1
    <3> QED
      BY <1>3, <3>1, <3>2, <3>3
  <2> DEFINE ml == m * lo
             mh == m * hi
             sh == b.size * hi
             ch == hi * Count(s, r)
             fg == b.fixedTotal * g
  <2>4. ml \in Int /\ mh \in Int /\ sh \in Int /\ ch \in Int /\ fg \in Int /\ sh = ch + mh
    BY <1>5, <2>2, <2>3
  <2>5. w = Value(s, s.net, u) - fg /\ gain = Value(s, s.price, r) + ml - (b.fixedTotal + sh)
    BY <1>1 DEF GainOf
  <2> HIDE DEF ml, mh, sh, ch, fg, u, x
  <2>6. w + gain <= Value(s, s.net, x) + (ml - mh) - (fg + b.fixedTotal)
    <3>1. Value(s, s.price, r) <= Value(s, s.net, r) + ch
      BY <2>1 DEF ch
    <3> QED
      BY <1>2, <1>3, <1>4, <2>4, <2>5, <3>1
  <2>7. w + gain \in Int
    BY <1>2, <2>4, <2>5
  <2> QED
    BY <1>5, <2>2, <2>6, <2>7 DEF ml, mh, fg
<1>10. OfAnyKeys(s, b, x, m, lo, hi)
  <2>1. ASSUME NEW y, Part(s, y), Count(s, y) + m = b.size
        PROVE  Value(s, s.price, y) + m * lo > b.fixedTotal + b.size * hi
    <3>1. Count(s, y) = Count(s, r) /\ Value(s, s.price, y) \in Int
      <4>1. Count(s, y) \in Nat /\ Value(s, s.price, y) \in Int
        BY <2>1, PartCounts
      <4>2. Count(s, r) \in Nat /\ m \in Nat /\ m = b.size - Count(s, r) /\ b.size \in Nat
            /\ Count(s, y) + m = b.size
        BY <1>2, <1>3, <2>1
      <4>3. Count(s, y) = Count(s, r)
        BY <4>1, <4>2
      <4> QED
        BY <4>1, <4>3
    <3>2. ASSUME NEW l \in 1 .. s.n, NEW k \in 1 .. s.n, r[l] > 0, r[k] < s.stock[k]
          PROVE  s.price[l] <= s.price[k]
      <4>1. /\ r[l] \in Nat /\ r[k] \in Nat /\ u[l] = s.stock[l] - r[l] /\ u[k] = s.stock[k] - r[k]
            /\ s.stock[l] \in Nat /\ s.stock[k] \in Nat
            /\ s.price[l] \in Nat /\ s.price[k] \in Nat
        BY <1>1 DEF Part, Others, IsShelf
      <4>2. s.price[l] > s.price[k] => u[l] = s.stock[l]
        <5>1. s.key[l] = s.key[k] /\ u[k] > 0
          BY <3>2, <4>1
        <5> HIDE DEF u
        <5> QED
          BY <1>1, <5>1 DEF TopClosed, Before
      <4> QED
        BY <3>2, <4>1, <4>2
    <3>3. Value(s, s.price, r) <= Value(s, s.price, y)
      BY <1>1, <2>1, <3>1, <3>2, CheapestLeft
    <3>4. m * lo \in Int /\ b.size * hi \in Int
      BY <1>3
    <3>5. Value(s, s.price, r) + m * lo > b.fixedTotal + b.size * hi
      BY <1>2, <1>3, <3>4 DEF GainOf
    <3> QED
      BY <1>2, <1>3, <3>1, <3>3, <3>4, <3>5
  <2> QED
    BY <2>1 DEF OfAnyKeys
<1> QED
  BY <1>8, <1>9, <1>10 DEF Promise

(* A promise of another group, by the numbers: u is grouped, y will be.    *)
Gains(b, lo, hi, g, m, c, cost, vu, vy, w, gain) ==
  /\ {lo, hi, g, m, c} \subseteq Nat /\ {cost, vu, vy} \subseteq Int
  /\ b.size = c + m /\ cost <= vy + hi * c
  /\ w = vu - b.fixedTotal * g /\ gain = GainOf(b, cost, m, lo, hi)

(* What is shown is no more than what one more group saves.                *)
LEMMA GainAddsUp ==
  ASSUME NEW b, IsOffer(b), NEW lo, NEW hi, NEW g, NEW m, NEW c, NEW cost, NEW vu, NEW vy,
         NEW w, NEW gain, Gains(b, lo, hi, g, m, c, cost, vu, vy, w, gain)
  PROVE  w + gain \in Int /\ w + gain <= (vu + vy) + m * (lo - hi) - b.fixedTotal * (g + 1)
<1> DEFINE ml == m * lo
           mh == m * hi
           sh == b.size * hi
           ch == hi * c
           fg == b.fixedTotal * g
<1>1. /\ b.fixedTotal \in Nat /\ lo \in Nat /\ hi \in Nat /\ g \in Nat /\ m \in Nat /\ c \in Nat
      /\ cost \in Int /\ vu \in Int /\ vy \in Int /\ b.size = c + m
  BY DEF IsOffer, Gains
<1>2. /\ m * (lo - hi) = ml - mh /\ b.fixedTotal * (g + 1) = fg + b.fixedTotal
      /\ ml \in Int /\ mh \in Int /\ ch \in Int /\ fg \in Int
  <2>1. \A i, j, k \in Nat : i * (j - k) = i * j - i * k /\ i * j \in Int
    OBVIOUS
  <2>2. \A i, j \in Nat : i * (j + 1) = i * j + i
    OBVIOUS
  <2>3. m * (lo - hi) = m * lo - m * hi /\ m * lo \in Int /\ m * hi \in Int /\ hi * c \in Int
    BY <1>1, <2>1
  <2>4. b.fixedTotal * (g + 1) = b.fixedTotal * g + b.fixedTotal /\ b.fixedTotal * g \in Int
    BY <1>1, <2>1, <2>2
  <2> QED
    BY <2>3, <2>4
<1>3. sh = ch + mh
  <2>1. \A i, j, h \in Nat : (i + j) * h = h * i + j * h
    OBVIOUS
  <2>2. (c + m) * hi = hi * c + m * hi
    BY <1>1, <2>1
  <2> QED
    BY <1>1, <2>2
<1>4. w = vu - fg /\ gain = cost + ml - (b.fixedTotal + sh) /\ cost <= vy + ch
  BY DEF GainOf, Gains
<1> HIDE DEF ml, mh, sh, ch, fg
<1> QED
  BY <1>1, <1>2, <1>3, <1>4

(* What is promised of an offer of different models: a unit more of each   *)
(* key that has one.                                                       *)
LEMMA ShownOfDifferent ==
  ASSUME NEW s, IsShelf(s), NEW b, IsOffer(b), b.differentModels,
         NEW lo, NEW hi, Bounded(s, lo, hi),
         NEW r, NEW g, NEW w, Stands(s, b, r, g, w), g = 0 \/ b.repeatable,
         NEW m \in Nat, m > 0, m = b.size - Cardinality(KeysLeft(s, r)),
         NEW gain, gain = GainOf(b, Value(s, s.price, Ones(s, CheapestLines(s, r))), m, lo, hi)
  PROVE  \E x : Promise(s, b, x, g + 1, m, w + gain, KeysLeft(s, r), lo, hi)
<1> DEFINE u == Others(s, r)
           left == KeysLeft(s, r)
           c == Cardinality(left)
<1>1. PICK F : /\ IsChoice(s, r, F)
               /\ \A l \in F, j \in 1 .. s.n :
                    r[j] > 0 /\ s.key[j] = s.key[l] /\ j # l => Before(s, l, j)
  BY DearestLines
<1> DEFINE y == Ones(s, F)
           n == s.n
           x == [l \in 1 .. n |-> u[l] + y[l]]
<1>2. /\ Part(s, u) /\ Part(s, r) /\ g \in Nat /\ n \in Nat
      /\ Count(s, u) = b.size * g /\ TopClosed(s, u)
      /\ Together(s, u, r, s.stock) /\ w = Value(s, s.net, u) - b.fixedTotal * g
      /\ \A a \in Nat : KeyCount(s, a, u) <= g
  BY OthersTyped DEF Stands, IsShelf
<1>3. /\ Count(s, y) = c /\ Part(s, y) /\ c \in Nat
      /\ \A l \in 1 .. n : y[l] <= r[l]
      /\ \A a : KeyCount(s, a, y) = IF a \in left THEN 1 ELSE 0
  BY <1>1, <1>2, ChoiceCount, ChoiceKey
<1>4. b.size \in Nat /\ b.size > 1 /\ b.fixedTotal \in Nat /\ lo \in Nat /\ hi \in Nat
  BY DEF IsOffer, Bounded
<1>5. c < b.size /\ b.size = c + m
  BY <1>3, <1>4
<1>6. \A l \in 1 .. n : /\ u[l] \in Nat /\ y[l] \in Nat /\ r[l] \in Nat /\ s.stock[l] \in Nat
                        /\ s.stock[l] = u[l] + r[l] /\ y[l] <= r[l]
                        /\ y[l] = IF l \in F THEN 1 ELSE 0
  <2>1. \A l \in 1 .. n : u[l] \in Nat /\ r[l] \in Nat /\ y[l] \in Nat
    BY <1>2, <1>3 DEF Part
  <2>2. \A l \in 1 .. n : s.stock[l] = u[l] + r[l]
    BY <1>2 DEF Together
  <2>3. \A l \in 1 .. n : y[l] = IF l \in F THEN 1 ELSE 0
    BY DEF Ones
  <2>4. \A l \in 1 .. n : s.stock[l] \in Nat
    BY DEF IsShelf
  <2> QED
    BY <1>3, <2>1, <2>2, <2>3, <2>4
<1>7. \A l \in 1 .. n : x[l] = u[l] + y[l] /\ x[l] \in Nat /\ x[l] <= s.stock[l]
  <2> HIDE DEF u, y
  <2> QED
    BY <1>6
<1>8. x \in [1 .. n -> Nat]
  BY <1>7
<1> HIDE DEF u, y, x, left, c
<1>9. Part(s, x) /\ Together(s, u, y, x)
  <2>1. Part(s, x)
    BY <1>7, <1>8 DEF Part
  <2>2. u \in [1 .. n -> Int] /\ y \in [1 .. n -> Int] /\ x \in [1 .. n -> Int]
    BY <1>2, <1>3, <1>8 DEF Part
  <2> QED
    BY <1>7, <2>1, <2>2 DEF Together
<1>10. /\ Count(s, x) = Count(s, u) + Count(s, y)
       /\ \A a : KeyCount(s, a, x) = KeyCount(s, a, u) + KeyCount(s, a, y)
       /\ Value(s, s.net, x) = Value(s, s.net, u) + Value(s, s.net, y)
       /\ \A a : KeyCount(s, a, s.stock) = KeyCount(s, a, u) + KeyCount(s, a, r)
  <2>1. s.net \in [1 .. s.n -> Int]
    BY DEF IsShelf
  <2> QED
    BY <1>2, <1>9, <2>1, CountsAddUp
<1>11. /\ Count(s, u) \in Nat /\ \A a : KeyCount(s, a, u) \in Nat /\ KeyCount(s, a, r) \in Nat
       /\ Value(s, s.net, u) \in Int /\ Value(s, s.net, y) \in Int /\ Value(s, s.price, y) \in Int
  BY <1>2, <1>3, PartCounts
<1>12. TopClosed(s, x)
  <2> SUFFICES ASSUME NEW l \in 1 .. n, NEW j \in 1 .. n, s.key[l] = s.key[j], Before(s, l, j), x[j] > 0
               PROVE  x[l] = s.stock[l]
    BY DEF TopClosed
  <2>1. CASE u[j] > 0
    <3>1. u[l] = s.stock[l]
      BY <1>2, <2>1 DEF TopClosed
    <3> QED
      BY <1>6, <1>7, <3>1
  <2>2. CASE u[j] = 0
    <3>1. j \in F
      BY <1>6, <1>7, <2>2
    <3>2. ASSUME r[l] > 0 PROVE FALSE
      <4>1. l # j /\ s.price[l] \in Nat /\ s.price[j] \in Nat /\ l \in Nat /\ j \in Nat
        BY <1>2 DEF Before, IsShelf
      <4>2. Before(s, j, l)
        BY <1>1, <3>1, <3>2, <4>1
      <4> QED
        BY <4>1, <4>2 DEF Before
    <3> QED
      BY <1>6, <1>7, <3>2
  <2> QED
    BY <1>6, <2>1, <2>2
<1>13. Count(s, x) + m = b.size * (g + 1)
  <2>1. \A i, j \in Nat : i * (j + 1) = i * j + i /\ i * j \in Int
    OBVIOUS
  <2>2. b.size * (g + 1) = b.size * g + b.size /\ b.size * g \in Int
    BY <1>2, <1>4, <2>1
  <2>3. /\ Count(s, u) = b.size * g /\ Count(s, y) = c /\ c \in Nat
        /\ b.size = c + m /\ Count(s, x) = Count(s, u) + Count(s, y)
    BY <1>2, <1>3, <1>5, <1>10
  <2> DEFINE bg == b.size * g
             cx == Count(s, x)
  <2>4. cx = bg + c /\ b.size * (g + 1) = bg + (c + m) /\ bg \in Int /\ c \in Nat
    BY <2>2, <2>3
  <2> HIDE DEF bg, cx
  <2>5. cx + m = bg + (c + m)
    BY <2>4
  <2> QED
    BY <2>4, <2>5 DEF cx
<1>14. Promised(s, b, x, g + 1, m)
  BY <1>2, <1>3, <1>4, <1>5, <1>9, <1>12, <1>13 DEF Promised
<1>15. w + gain \in Int /\ w + gain <= Value(s, s.net, x) + m * (lo - hi) - b.fixedTotal * (g + 1)
  <2> DEFINE cost == Value(s, s.price, Ones(s, CheapestLines(s, r)))
             vu == Value(s, s.net, u)
             vy == Value(s, s.net, y)
  <2>1. cost <= Value(s, s.price, y) /\ cost \in Int
    <3>1. cost <= Value(s, s.price, y)
      BY <1>1, CheapestChoice DEF y
    <3>2. Part(s, Ones(s, CheapestLines(s, r)))
      BY <1>2, CheapestChosen, ChoiceCount
    <3> QED
      BY <3>1, <3>2, PartCounts
  <2>2. Value(s, s.price, y) <= vy + hi * c
    BY <1>3, NetBound
  <2>3. cost <= vy + hi * c
    <3>1. hi * c \in Int
      BY <1>3, <1>4
    <3> QED
      BY <1>11, <2>1, <2>2, <3>1
  <2>4. gain = GainOf(b, cost, m, lo, hi) /\ w = vu - b.fixedTotal * g
    BY <1>2
  <2>5. vu \in Int /\ vy \in Int /\ cost \in Int
    BY <1>11, <2>1
  <2>6. Value(s, s.net, x) = vu + vy
    BY <1>10
  <2> HIDE DEF cost, vu, vy
  <2>7. w + gain \in Int /\ w + gain <= (vu + vy) + m * (lo - hi) - b.fixedTotal * (g + 1)
    <3>1. /\ lo \in Nat /\ hi \in Nat /\ g \in Nat /\ c \in Nat /\ b.size = c + m
      BY <1>2, <1>3, <1>4, <1>5
    <3>2. Gains(b, lo, hi, g, m, c, cost, vu, vy, w, gain)
      BY <2>3, <2>4, <2>5, <3>1 DEF Gains
    <3> QED
      BY <3>2, GainAddsUp
  <2> QED
    BY <2>6, <2>7
<1>16. OfEachKey(s, x, g + 1, left)
  <2>1. ASSUME NEW a \in Nat
        PROVE  /\ KeyCount(s, a, x) <= g + 1
               /\ KeyCount(s, a, x) = g + 1 \/ KeyCount(s, a, x) = KeyCount(s, a, s.stock)
    <3>1. KeyCount(s, a, u) = g \/ KeyCount(s, a, r) <= 1
      BY <1>5, BalancedAtEnd DEF u, c, left
    <3>2. KeyCount(s, a, r) > 0 <=> a \in left
      BY <1>2, KeyLeft DEF left
    <3> QED
      BY <1>2, <1>3, <1>10, <1>11, <3>1, <3>2
  <2>2. ASSUME NEW a \in Nat \ left
        PROVE  KeyCount(s, a, x) < g + 1 /\ \A l \in 1 .. s.n : s.key[l] = a => x[l] = s.stock[l]
    <3>1. KeyCount(s, a, x) < g + 1
      BY <1>2, <1>3, <1>10, <1>11
    <3>2. \A l \in 1 .. s.n : s.key[l] = a => ~(r[l] > 0)
      BY DEF left, KeysLeft
    <3> QED
      BY <1>6, <1>7, <3>1, <3>2
  <2> QED
    BY <2>1, <2>2 DEF OfEachKey
<1> QED
  BY <1>14, <1>15, <1>16 DEF Promise, left

-----------------------------------------------------------------------------
(* A unit comes to a cart.                                                 *)

(* The lines are as before, and perhaps there is a new one.                *)
HasLines(s, t) ==
  /\ IsShelf(s) /\ IsShelf(t) /\ (t.n = s.n \/ t.n = s.n + 1)
  /\ \A l \in 1 .. s.n : t.key[l] = s.key[l] /\ t.price[l] = s.price[l] /\ t.net[l] = s.net[l]

(* y has a unit of line q more than x.                                     *)
OneMore(s, x, t, y, q) ==
  /\ x \in [1 .. s.n -> Nat] /\ y \in [1 .. t.n -> Nat] /\ q \in 1 .. t.n
  /\ \A l \in 1 .. t.n : y[l] = (IF l <= s.n THEN x[l] ELSE 0) + (IF l = q THEN 1 ELSE 0)

(* What one unit more changes.                                             *)
LEMMA OneMoreCounts ==
  ASSUME NEW s, NEW t, HasLines(s, t), NEW x, NEW y, NEW q, OneMore(s, x, t, y, q)
  PROVE  /\ Count(t, y) = Count(s, x) + 1
         /\ \A a : KeyCount(t, a, y) = KeyCount(s, a, x) + (IF t.key[q] = a THEN 1 ELSE 0)
         /\ Value(t, t.net, y) = Value(s, s.net, x) + t.net[q]
         /\ Value(t, t.price, y) = Value(s, s.price, x) + t.price[q]
<1> DEFINE n == t.n
           m == s.n
<1>1. /\ n \in Nat /\ m \in Nat /\ (n = m \/ n = m + 1) /\ q \in 1 .. n
      /\ \A l \in 1 .. m : l \in 1 .. n
  BY DEF HasLines, IsShelf, OneMore
<1>2. /\ \A l \in 1 .. m : x[l] \in Nat
      /\ \A l \in 1 .. n : y[l] = (IF l <= m THEN x[l] ELSE 0) + (IF l = q THEN 1 ELSE 0)
  BY DEF OneMore
<1>3. Count(t, y) = Count(s, x) + 1
  <2>1. \A l \in 1 .. m : x[l] \in Int
    BY <1>2
  <2> HIDE DEF n, m
  <2>2. Grown(x, n, y, q, m, 1)
    BY <1>1, <1>2, <2>1 DEF Grown
  <2> QED
    BY <2>2, SumToMore DEF Count, n, m
<1>4. ASSUME NEW a
      PROVE  KeyCount(t, a, y) = KeyCount(s, a, x) + (IF t.key[q] = a THEN 1 ELSE 0)
  <2> DEFINE f == AtKey(s, a, x)
             g == AtKey(t, a, y)
             d == IF t.key[q] = a THEN 1 ELSE 0
  <2>1. \A l \in 1 .. m : f[l] = IF t.key[l] = a THEN x[l] ELSE 0
    BY DEF AtKey, HasLines
  <2>2. \A l \in 1 .. n : g[l] = IF t.key[l] = a THEN y[l] ELSE 0
    BY DEF AtKey
  <2>3. d \in Int
    OBVIOUS
  <2>4. \A l \in 1 .. m : f[l] \in Int
    BY <1>2, <2>1
  <2>5. ASSUME NEW l \in 1 .. n
        PROVE  g[l] = (IF l <= m THEN f[l] ELSE 0) + (IF l = q THEN d ELSE 0)
    <3>1. l <= m => l \in 1 .. m
      BY <1>1
    <3>2. l <= m => x[l] \in Nat /\ f[l] = IF t.key[l] = a THEN x[l] ELSE 0
      BY <1>2, <2>1, <3>1
    <3>3. /\ y[l] = (IF l <= m THEN x[l] ELSE 0) + (IF l = q THEN 1 ELSE 0)
          /\ g[l] = IF t.key[l] = a THEN y[l] ELSE 0
      BY <1>2, <2>2
    <3> HIDE DEF f, g, n, m
    <3>4. CASE t.key[l] = a
      <4>1. l = q => d = 1
        BY <3>4
      <4> HIDE DEF d
      <4> QED
        BY <3>2, <3>3, <3>4, <4>1
    <3>5. CASE t.key[l] # a
      <4>1. l = q => d = 0
        BY <3>5
      <4> HIDE DEF d
      <4> QED
        BY <3>2, <3>3, <3>5, <4>1
    <3> QED
      BY <3>4, <3>5
  <2> HIDE DEF f, g, n, m, d
  <2>6. Grown(f, n, g, q, m, d)
    BY <1>1, <2>3, <2>4, <2>5 DEF Grown
  <2> QED
    BY <2>6, SumToMore DEF KeyCount, n, m, f, g, d
<1>5. ASSUME NEW p, NEW v, p \in [1 .. n -> Int], v \in [1 .. m -> Int],
             \A l \in 1 .. m : v[l] = p[l]
      PROVE  Value(t, p, y) = Value(s, v, x) + p[q]
  <2> DEFINE f == Times(s, v, x)
             g == Times(t, p, y)
             d == p[q]
  <2>1. /\ \A l \in 1 .. n : p[l] \in Int /\ g[l] = p[l] * y[l]
        /\ \A l \in 1 .. m : f[l] = p[l] * x[l]
    BY <1>5 DEF Times
  <2>2. d \in Int
    BY <1>1, <2>1
  <2>3. \A i \in Int, j \in Nat : i * j \in Int /\ i * (j + 1) = i * j + i /\ i * 0 = 0 /\ i * 1 = i
    OBVIOUS
  <2>4. \A l \in 1 .. m : f[l] \in Int
    BY <1>1, <1>2, <2>1, <2>3
  <2>5. ASSUME NEW l \in 1 .. n
        PROVE  g[l] = (IF l <= m THEN f[l] ELSE 0) + (IF l = q THEN d ELSE 0)
    <3>1. l <= m => l \in 1 .. m
      BY <1>1
    <3>2. l <= m => x[l] \in Nat /\ f[l] = p[l] * x[l]
      BY <1>2, <2>1, <3>1
    <3>3. /\ y[l] = (IF l <= m THEN x[l] ELSE 0) + (IF l = q THEN 1 ELSE 0)
          /\ g[l] = p[l] * y[l] /\ p[l] \in Int
      BY <1>2, <2>1
    <3> HIDE DEF f, g, n, m
    <3>4. CASE l = q /\ l <= m
      <4>1. y[l] = x[l] + 1 /\ x[l] \in Nat
        BY <3>2, <3>3, <3>4
      <4>2. p[l] * y[l] = p[l] * x[l] + p[l]
        BY <2>3, <3>3, <4>1
      <4> QED
        BY <3>2, <3>3, <3>4, <4>2
    <3>5. CASE l = q /\ ~(l <= m)
      <4>1. y[l] = 1
        BY <3>3, <3>5
      <4>2. p[l] * y[l] = p[l]
        BY <2>3, <3>3, <4>1
      <4> QED
        BY <3>3, <3>5, <4>2
    <3>6. CASE l # q /\ l <= m
      <4>1. y[l] = x[l]
        BY <3>2, <3>3, <3>6
      <4>2. f[l] = g[l] /\ f[l] \in Int
        BY <2>3, <3>2, <3>3, <3>6, <4>1
      <4> QED
        BY <3>6, <4>2
    <3>7. CASE l # q /\ ~(l <= m)
      <4>1. y[l] = 0
        BY <3>3, <3>7
      <4> QED
        BY <2>3, <3>3, <3>7, <4>1
    <3> QED
      BY <3>4, <3>5, <3>6, <3>7
  <2> HIDE DEF f, g, n, m, d
  <2>6. Grown(f, n, g, q, m, d)
    BY <1>1, <2>2, <2>4, <2>5 DEF Grown
  <2> QED
    BY <2>6, SumToMore DEF Value, n, m, f, g, d
<1>6. /\ t.net \in [1 .. n -> Int] /\ t.price \in [1 .. n -> Int]
      /\ s.net \in [1 .. m -> Int] /\ s.price \in [1 .. m -> Int]
      /\ \A l \in 1 .. m : s.net[l] = t.net[l] /\ s.price[l] = t.price[l]
  BY DEF HasLines, IsShelf
<1> HIDE DEF n, m
<1>7. Value(t, t.net, y) = Value(s, s.net, x) + t.net[q]
  BY <1>5, <1>6
<1>8. Value(t, t.price, y) = Value(s, s.price, x) + t.price[q]
  BY <1>5, <1>6
<1> QED
  BY <1>3, <1>4, <1>7, <1>8

(* The unit comes to line j.                                               *)
HasUnitMore(s, t, j) ==
  HasLines(s, t) /\ OneMore(s, s.stock, t, t.stock, j) /\ (t.n # s.n => j = t.n)

(* The units promised, with the one that came.                             *)
WithUnitOf(s, x, t, j) ==
  [l \in 1 .. t.n |-> (IF l <= s.n THEN x[l] ELSE 0) + (IF l = j THEN 1 ELSE 0)]

(* They are units of the new shelf.                                        *)
LEMMA WithUnitTyped ==
  ASSUME NEW s, NEW t, NEW j, HasUnitMore(s, t, j), NEW x, Part(s, x),
         NEW y, y = WithUnitOf(s, x, t, j)
  PROVE  /\ Part(t, y) /\ OneMore(s, x, t, y, j)
         /\ \A l \in 1 .. s.n : x[l] = s.stock[l] => y[l] = t.stock[l]
         /\ j \notin 1 .. s.n => j = t.n
         /\ y[j] = t.stock[j] \/ j \in 1 .. s.n
         /\ \A l \in 1 .. t.n : l # j => l \in 1 .. s.n /\ y[l] = x[l]
<1>1. /\ t.n \in Nat /\ s.n \in Nat /\ (t.n = s.n \/ t.n = s.n + 1) /\ j \in 1 .. t.n
      /\ (t.n # s.n => j = t.n)
      /\ \A l \in 1 .. t.n : t.stock[l] = (IF l <= s.n THEN s.stock[l] ELSE 0) + (IF l = j THEN 1 ELSE 0)
      /\ \A l \in 1 .. s.n : s.stock[l] \in Nat
      /\ \A l \in 1 .. t.n : t.stock[l] \in Nat
  BY DEF HasUnitMore, OneMore, HasLines, IsShelf
<1>2. \A l \in 1 .. s.n : x[l] \in Nat /\ x[l] <= s.stock[l] /\ l \in 1 .. t.n
  BY <1>1 DEF Part
<1>3. \A l \in 1 .. t.n : y[l] = (IF l <= s.n THEN x[l] ELSE 0) + (IF l = j THEN 1 ELSE 0)
  BY DEF WithUnitOf
<1>4. \A l \in 1 .. t.n : l <= s.n => l \in 1 .. s.n
  BY <1>1
<1>5. ASSUME NEW l \in 1 .. t.n
      PROVE  y[l] \in Nat /\ y[l] <= t.stock[l]
  BY <1>1, <1>2, <1>3, <1>4
<1>6. y \in [1 .. t.n -> Nat]
  <2>1. y = [l \in 1 .. t.n |-> y[l]]
    BY DEF WithUnitOf
  <2> QED
    BY <1>5, <2>1
<1>7. Part(t, y)
  BY <1>5, <1>6 DEF Part
<1>8. OneMore(s, x, t, y, j)
  <2>1. x \in [1 .. s.n -> Nat]
    BY DEF Part
  <2> QED
    BY <1>1, <1>3, <1>6, <2>1 DEF OneMore
<1>9. j \notin 1 .. s.n => j = t.n /\ ~(j <= s.n)
  BY <1>1
<1>10. t.stock[t.n] \in Nat /\ (j \notin 1 .. s.n => y[j] = t.stock[j])
  BY <1>1, <1>3, <1>9
<1>11. \A l \in 1 .. s.n : x[l] = s.stock[l] => y[l] = t.stock[l]
  BY <1>1, <1>2, <1>3
<1>12. \A l \in 1 .. t.n : l # j => l \in 1 .. s.n /\ y[l] = x[l]
  <2> SUFFICES ASSUME NEW l \in 1 .. t.n, l # j
               PROVE  l \in 1 .. s.n /\ y[l] = x[l]
    OBVIOUS
  <2>1. l \in 1 .. s.n
    BY <1>1
  <2>2. x[l] \in Nat /\ y[l] = (IF l <= s.n THEN x[l] ELSE 0) + (IF l = j THEN 1 ELSE 0) /\ l <= s.n
    BY <1>1, <1>2, <1>3, <2>1
  <2> HIDE DEF WithUnitOf
  <2> QED
    BY <2>1, <2>2
<1> QED
  BY <1>7, <1>8, <1>9, <1>10, <1>11, <1>12

(* Counts of the same units are the same.                                  *)
LEMMA SameCounts ==
  ASSUME NEW n, NEW f \in [1 .. n -> Nat], NEW g \in [1 .. n -> Nat],
         \A l \in 1 .. n : f[l] = g[l]
  PROVE  f = g
<1>1. f = [l \in 1 .. n |-> f[l]] /\ g = [l \in 1 .. n |-> g[l]]
  OBVIOUS
<1>2. [l \in 1 .. n |-> f[l]] = [l \in 1 .. n |-> g[l]]
  OBVIOUS
<1> QED
  BY <1>1, <1>2

(* A promise holds with a unit more, if that is one it waits for.          *)
LEMMA PromiseWithUnit ==
  ASSUME NEW s, NEW t, NEW j, HasUnitMore(s, t, j), NEW b, IsOffer(b),
         NEW lo, NEW hi, Bounded(t, lo, hi),
         NEW x, NEW k, NEW m, m > 0, NEW d, NEW models, Promise(s, b, x, k, m, d, models, lo, hi),
         b.differentModels => t.key[j] \notin models
  PROVE  \E y : Promise(t, b, y, k, m - 1, d, models \cup {t.key[j]}, lo, hi)
<1> DEFINE y == WithUnitOf(s, x, t, j)
           more == models \cup {t.key[j]}
<1>1. /\ IsShelf(s) /\ IsShelf(t) /\ HasLines(s, t) /\ OneMore(s, s.stock, t, t.stock, j)
      /\ t.n \in Nat /\ s.n \in Nat /\ j \in 1 .. t.n
      /\ Part(s, x) /\ TopClosed(s, x) /\ k \in Nat /\ k >= 1 /\ m \in Nat /\ m <= b.size
      /\ (k = 1 \/ b.repeatable) /\ Count(s, x) + m = b.size * k
  BY DEF HasUnitMore, HasLines, IsShelf, OneMore, Promise, Promised
<1>2. /\ Part(t, y) /\ OneMore(s, x, t, y, j)
      /\ \A l \in 1 .. s.n : x[l] = s.stock[l] => y[l] = t.stock[l]
      /\ y[j] = t.stock[j] \/ j \in 1 .. s.n
      /\ \A l \in 1 .. t.n : l # j => l \in 1 .. s.n /\ y[l] = x[l]
  BY <1>1, WithUnitTyped
<1>3. /\ t.key[j] \in Nat /\ t.price[j] \in Nat /\ t.net[j] \in Int /\ lo \in Nat /\ hi \in Nat
      /\ t.price[j] >= lo /\ t.net[j] >= t.price[j] - hi
  <2>1. t.stock[j] > 0
    <3>1. t.stock[j] = (IF j <= s.n THEN s.stock[j] ELSE 0) + 1 /\ (j <= s.n => s.stock[j] \in Nat)
      BY <1>1 DEF OneMore, IsShelf
    <3> QED
      BY <3>1
  <2> QED
    BY <1>1, <2>1 DEF IsShelf, Bounded
<1>4. \A l \in 1 .. s.n : /\ t.key[l] = s.key[l] /\ t.price[l] = s.price[l]
                          /\ x[l] \in Nat /\ l \in 1 .. t.n
  BY <1>1 DEF HasLines, Part
<1> HIDE DEF y, more
<1>5. /\ Count(t, y) = Count(s, x) + 1
      /\ \A a : KeyCount(t, a, y) = KeyCount(s, a, x) + (IF t.key[j] = a THEN 1 ELSE 0)
      /\ Value(t, t.net, y) = Value(s, s.net, x) + t.net[j]
  BY <1>1, <1>2, OneMoreCounts
<1>6. \A a : KeyCount(t, a, t.stock) = KeyCount(s, a, s.stock) + (IF t.key[j] = a THEN 1 ELSE 0)
  BY <1>1, OneMoreCounts
<1>7. /\ Count(s, x) \in Nat /\ Value(s, s.net, x) \in Int
      /\ \A a : KeyCount(s, a, x) \in Nat /\ KeyCount(s, a, s.stock) \in Nat
  <2>1. Part(s, s.stock)
    BY <1>1 DEF Part, IsShelf
  <2> QED
    BY <1>1, <2>1, PartCounts
<1>8. b.differentModels => TopClosed(t, y) /\ OfEachKey(t, y, k, more)
  <2> SUFFICES ASSUME b.differentModels
               PROVE  TopClosed(t, y) /\ OfEachKey(t, y, k, more)
    OBVIOUS
  <2>1. /\ \A a \in Nat : /\ KeyCount(s, a, x) <= k
                          /\ KeyCount(s, a, x) = k \/ KeyCount(s, a, x) = KeyCount(s, a, s.stock)
        /\ \A a \in Nat \ models :
             KeyCount(s, a, x) < k /\ \A l \in 1 .. s.n : s.key[l] = a => x[l] = s.stock[l]
    BY DEF Promise, OfEachKey
  <2>6. ASSUME NEW a \in Nat
        PROVE  /\ KeyCount(s, a, x) \in Nat /\ KeyCount(s, a, s.stock) \in Nat
               /\ KeyCount(s, a, x) <= k
               /\ KeyCount(s, a, x) = k \/ KeyCount(s, a, x) = KeyCount(s, a, s.stock)
    BY <1>7, <2>1
  <2>2. t.key[j] \in Nat \ models
    BY <1>3
  <2>3. \A l \in 1 .. t.n : t.key[l] = t.key[j] => y[l] = t.stock[l]
    <3> SUFFICES ASSUME NEW l \in 1 .. t.n, t.key[l] = t.key[j]
                 PROVE  y[l] = t.stock[l]
      OBVIOUS
    <3>1. l \in 1 .. s.n => y[l] = t.stock[l]
      BY <1>2, <1>4, <2>1, <2>2
    <3> QED
      BY <1>2, <3>1
  <2>4. TopClosed(t, y)
    <3> SUFFICES ASSUME NEW l \in 1 .. t.n, NEW q \in 1 .. t.n, t.key[l] = t.key[q],
                        Before(t, l, q), y[q] > 0
                 PROVE  y[l] = t.stock[l]
      BY DEF TopClosed
    <3>1. CASE t.key[l] # t.key[j]
      <4>1. l # j /\ q # j
        BY <3>1
      <4>2. l \in 1 .. s.n /\ q \in 1 .. s.n /\ x[q] > 0
        BY <1>2, <4>1
      <4>3. s.key[l] = s.key[q] /\ Before(s, l, q)
        BY <1>4, <4>2 DEF Before
      <4>4. x[l] = s.stock[l]
        BY <1>1, <4>2, <4>3 DEF TopClosed
      <4> QED
        BY <1>2, <4>2, <4>4
    <3> QED
      BY <2>3, <3>1
  <2>5. OfEachKey(t, y, k, more)
    <3>1. ASSUME NEW a \in Nat
          PROVE  /\ KeyCount(t, a, y) <= k
                 /\ KeyCount(t, a, y) = k \/ KeyCount(t, a, y) = KeyCount(t, a, t.stock)
      <4>1. CASE a = t.key[j]
        <5>1. KeyCount(s, a, x) < k /\ KeyCount(s, a, x) = KeyCount(s, a, s.stock)
          <6>1. /\ KeyCount(s, a, x) < k /\ KeyCount(s, a, x) \in Nat
                /\ KeyCount(s, a, x) = k \/ KeyCount(s, a, x) = KeyCount(s, a, s.stock)
            BY <1>7, <2>1, <2>2, <4>1
          <6> QED
            BY <1>1, <6>1
        <5> QED
          BY <1>1, <1>5, <1>6, <1>7, <4>1, <5>1
      <4>2. CASE a # t.key[j]
        <5>1. /\ KeyCount(t, a, y) = KeyCount(s, a, x) + 0
              /\ KeyCount(t, a, t.stock) = KeyCount(s, a, s.stock) + 0
          BY <1>5, <1>6, <4>2
        <5>3. /\ KeyCount(t, a, y) = KeyCount(s, a, x)
              /\ KeyCount(t, a, t.stock) = KeyCount(s, a, s.stock)
          BY <2>6, <5>1
        <5> QED
          BY <2>6, <5>3
      <4> QED
        BY <4>1, <4>2
    <3>2. ASSUME NEW a \in Nat \ more
          PROVE  KeyCount(t, a, y) < k /\ \A l \in 1 .. t.n : t.key[l] = a => y[l] = t.stock[l]
      <4>1. a # t.key[j] /\ a \in Nat \ models
        BY DEF more
      <4>2. KeyCount(t, a, y) = KeyCount(s, a, x) + 0
        BY <1>5, <4>1
      <4>3. \A l \in 1 .. t.n : t.key[l] = a => y[l] = t.stock[l]
        BY <1>2, <1>4, <2>1, <4>1
      <4> QED
        BY <1>7, <2>1, <4>1, <4>2, <4>3
    <3> QED
      BY <3>1, <3>2 DEF OfEachKey
  <2> QED
    BY <2>4, <2>5
<1>9. ~b.differentModels => TopClosed(t, y) /\ OfAnyKeys(t, b, y, m - 1, lo, hi)
  <2> SUFFICES ASSUME ~b.differentModels
               PROVE  TopClosed(t, y) /\ OfAnyKeys(t, b, y, m - 1, lo, hi)
    OBVIOUS
  <2>1. /\ x = s.stock
        /\ \A z : Part(s, z) /\ Count(s, z) + m = b.size =>
                    Value(s, s.price, z) + m * lo > b.fixedTotal + b.size * hi
    BY DEF Promise, OfAnyKeys
  <2>2. \A l \in 1 .. t.n : y[l] = t.stock[l]
    BY <1>1, <1>2, <2>1 DEF OneMore
  <2>3. y = t.stock
    <3> DEFINE st == t.stock
               n == t.n
    <3>1. y \in [1 .. n -> Nat] /\ st \in [1 .. n -> Nat] /\ \A l \in 1 .. n : y[l] = st[l]
      BY <1>1, <1>2, <2>2 DEF OneMore
    <3> HIDE DEF st, n
    <3>2. y = st
      BY <3>1, SameCounts
    <3> QED
      BY <3>2 DEF st
  <2>4. TopClosed(t, y)
    BY <2>2 DEF TopClosed
  <2>5. ASSUME NEW z, Part(t, z), Count(t, z) + (m - 1) = b.size
        PROVE  Value(t, t.price, z) + (m - 1) * lo > b.fixedTotal + b.size * hi
    <3>1. /\ \A l \in 1 .. t.n : z[l] \in Nat /\ z[l] <= t.stock[l]
          /\ z \in [1 .. t.n -> Nat]
      BY <2>5 DEF Part
    <3>2. \E q \in 1 .. t.n : z[q] > 0 /\ (z[j] > 0 => q = j)
      <4>1. CASE z[j] > 0
        BY <1>1, <4>1
      <4>2. CASE ~(z[j] > 0)
        <5>1. Count(t, z) > 0
          <6>1. Count(t, z) \in Nat /\ m \in Nat /\ m <= b.size /\ b.size \in Nat
            BY <1>1, <2>5, PartCounts DEF IsOffer
          <6> QED
            BY <2>5, <6>1
        <5>2. ASSUME \A q \in 1 .. t.n : ~(z[q] > 0)
              PROVE  FALSE
          <6>1. \A q \in 1 .. t.n : z[q] = 0
            BY <3>1, <5>2
          <6>2. SumTo(z, t.n) = 0
            BY <1>1, <6>1, SumToNothing
          <6> QED
            BY <5>1, <6>2 DEF Count
        <5> QED
          BY <4>2, <5>2
      <4> QED
        BY <4>1, <4>2
    <3>3. PICK q \in 1 .. t.n : z[q] > 0 /\ (z[j] > 0 => q = j)
      BY <3>2
    <3> DEFINE v == [l \in 1 .. s.n |-> z[l] - (IF l = q THEN 1 ELSE 0)]
    <3>4. \A l \in 1 .. t.n : t.stock[l] = (IF l <= s.n THEN s.stock[l] ELSE 0) + (IF l = j THEN 1 ELSE 0)
      BY <1>1 DEF OneMore
    <3>5. /\ \A l \in 1 .. t.n : l # j => l \in 1 .. s.n
          /\ \A l \in 1 .. s.n : l \in 1 .. t.n /\ l <= s.n /\ s.stock[l] \in Nat
      <4>1. \A l \in 1 .. t.n : l # j => l \in 1 .. s.n
        BY <1>2
      <4>2. \A l \in 1 .. s.n : l \in 1 .. t.n /\ l <= s.n
        BY <1>1, <1>4
      <4> QED
        BY <1>1, <4>1, <4>2 DEF IsShelf
    <3>6. ASSUME NEW l \in 1 .. s.n
          PROVE  v[l] \in Nat /\ v[l] <= s.stock[l] /\ z[l] = v[l] + (IF l = q THEN 1 ELSE 0)
      <4>1. /\ z[l] \in Nat /\ s.stock[l] \in Nat /\ z[l] <= s.stock[l] + (IF l = j THEN 1 ELSE 0)
            /\ v[l] = z[l] - (IF l = q THEN 1 ELSE 0)
        <5>1. t.stock[l] = s.stock[l] + (IF l = j THEN 1 ELSE 0)
          BY <3>4, <3>5
        <5> QED
          BY <3>1, <3>5, <5>1
      <4> HIDE DEF v
      <4>2. CASE l = q
        BY <3>3, <4>1, <4>2
      <4>3. CASE l # q
        <5>1. v[l] = z[l]
          BY <4>1, <4>3
        <5>2. CASE l = j
          <6>1. z[l] = 0
            BY <3>3, <4>1, <4>3, <5>2
          <6> QED
            BY <4>1, <4>3, <5>1, <6>1
        <5>3. CASE l # j
          BY <4>1, <4>3, <5>1, <5>3
        <5> QED
          BY <5>2, <5>3
      <4> QED
        BY <4>2, <4>3
    <3>7. v \in [1 .. s.n -> Nat]
      BY <3>6
    <3> HIDE DEF v
    <3>8. Part(s, v)
      BY <3>6, <3>7 DEF Part
    <3>9. OneMore(s, v, t, z, q)
      <4>1. ASSUME NEW l \in 1 .. t.n
            PROVE  z[l] = (IF l <= s.n THEN v[l] ELSE 0) + (IF l = q THEN 1 ELSE 0)
        <5>1. CASE l \in 1 .. s.n
          BY <3>5, <3>6, <5>1
        <5>2. CASE l \notin 1 .. s.n
          <6>1. l = j /\ ~(l <= s.n)
            BY <1>1, <3>5, <5>2
          <6>2. t.stock[l] = 1
            BY <3>4, <6>1
          <6>3. z[l] \in Nat /\ z[l] <= 1
            BY <3>1, <6>2
          <6>4. IF l = q THEN z[l] = 1 ELSE z[l] = 0
            BY <3>3, <6>1, <6>3
          <6> QED
            BY <6>1, <6>4
        <5> QED
          BY <5>1, <5>2
      <4> QED
        BY <3>1, <3>7, <4>1 DEF OneMore
    <3>10. Count(t, z) = Count(s, v) + 1 /\ Value(t, t.price, z) = Value(s, s.price, v) + t.price[q]
      BY <1>1, <3>9, OneMoreCounts
    <3>11. Count(s, v) \in Nat /\ Value(s, s.price, v) \in Int
      BY <1>1, <3>8, PartCounts
    <3>12. b.size \in Nat /\ m \in Nat /\ b.fixedTotal \in Nat
      BY <1>1 DEF IsOffer
    <3>13. Count(s, v) + m = b.size
      BY <2>5, <3>10, <3>11, <3>12
    <3>14. Value(s, s.price, v) + m * lo > b.fixedTotal + b.size * hi
      BY <2>1, <3>8, <3>13
    <3>15. t.price[q] \in Nat /\ t.price[q] >= lo
      <4>1. t.stock[q] > 0
        <5>1. z[q] \in Nat /\ z[q] <= t.stock[q] /\ t.stock[q] \in Nat
          BY <1>1, <3>1 DEF IsShelf
        <5> QED
          BY <3>3, <5>1
      <4> QED
        BY <1>1, <4>1 DEF Bounded, IsShelf
    <3> DEFINE ml == m * lo
               m1 == (m - 1) * lo
               c == b.fixedTotal + b.size * hi
               vv == Value(s, s.price, v)
               pq == t.price[q]
    <3>16. ml \in Int /\ c \in Int /\ m1 = ml - lo /\ m1 \in Int
      <4>1. \A i, j1 \in Nat : i * j1 \in Int /\ (i - 1) * j1 = i * j1 - j1
        OBVIOUS
      <4>2. ml \in Int /\ b.size * hi \in Int /\ m1 = ml - lo
        BY <1>3, <3>12, <4>1
      <4> QED
        BY <1>3, <3>12, <4>2
    <3>17. vv + ml > c /\ vv \in Int /\ pq \in Int /\ pq >= lo /\ lo \in Int
      BY <1>3, <3>11, <3>14, <3>15
    <3> HIDE DEF ml, m1, c, vv, pq
    <3>18. vv + pq + m1 > c
      BY <3>16, <3>17
    <3> QED
      BY <3>10, <3>18 DEF m1, c, vv, pq
  <2> QED
    BY <2>3, <2>4, <2>5 DEF OfAnyKeys
<1>10. Promised(t, b, y, k, m - 1)
  <2> DEFINE bk == b.size * k
  <2>1. Count(t, y) + (m - 1) = bk
    <3>1. Count(s, x) + m = bk /\ Count(s, x) \in Nat /\ m \in Nat /\ Count(t, y) = Count(s, x) + 1
      BY <1>1, <1>5, <1>7
    <3> HIDE DEF bk
    <3> QED
      BY <3>1
  <2> QED
    <3>1. m - 1 \in Nat /\ m - 1 <= b.size
      <4>1. b.size \in Nat /\ m \in Nat /\ m > 0 /\ m <= b.size
        BY <1>1 DEF IsOffer
      <4> QED
        BY <4>1
    <3>2. TopClosed(t, y)
      BY <1>8, <1>9
    <3> QED
      BY <1>1, <1>2, <2>1, <3>1, <3>2 DEF Promised
<1>11. d \in Int /\ d <= Value(t, t.net, y) + (m - 1) * (lo - hi) - b.fixedTotal * k
  <2> DEFINE dl == lo - hi
             fk == b.fixedTotal * k
             vx == Value(s, s.net, x)
  <2>1. d \in Int /\ d <= vx + m * dl - fk
    BY DEF Promise
  <2>2. m * dl \in Int /\ dl \in Int /\ (m - 1) * dl = m * dl - dl
    <3>1. \A i \in Nat, a \in Int : i * a \in Int /\ (i - 1) * a = i * a - a
      OBVIOUS
    <3>2. dl \in Int
      BY <1>3
    <3> QED
      BY <1>1, <3>1, <3>2
  <2>3. fk \in Int /\ vx \in Int
    <3>1. \A i, a \in Nat : i * a \in Int
      OBVIOUS
    <3> QED
      BY <1>1, <1>7, <3>1 DEF IsOffer
  <2>4. t.net[j] >= dl /\ t.net[j] \in Int
    <3> HIDE DEF OneMore
    <3> QED
      BY <1>3
  <2>5. Value(t, t.net, y) = vx + t.net[j]
    BY <1>5
  <2> DEFINE md == m * dl
             nj == t.net[j]
             m1 == (m - 1) * dl
  <2>6. /\ d \in Int /\ md \in Int /\ dl \in Int /\ fk \in Int /\ vx \in Int /\ nj \in Int
        /\ d <= vx + md - fk /\ nj >= dl /\ m1 = md - dl
    BY <2>1, <2>2, <2>3, <2>4
  <2> HIDE DEF md, dl, fk, vx, nj, m1
  <2>7. d <= vx + nj + m1 - fk
    BY <2>6
  <2> QED
    BY <2>5, <2>6, <2>7 DEF nj, m1, dl, fk
<1> QED
  BY <1>8, <1>9, <1>10, <1>11 DEF Promise, more

-----------------------------------------------------------------------------
(* A group takes its units.                                                *)

(* No units.                                                               *)
LEMMA NoUnits ==
  ASSUME NEW s, IsShelf(s), NEW x \in [1 .. s.n -> Int], \A l \in 1 .. s.n : x[l] = 0
  PROVE  Count(s, x) = 0 /\ Value(s, s.net, x) = 0 /\ \A a : KeyCount(s, a, x) = 0
<1>1. s.n \in Nat /\ \A l \in 1 .. s.n : s.net[l] \in Int
  BY DEF IsShelf
<1>2. Count(s, x) = 0
  BY <1>1, SumToNothing DEF Count
<1>3. Value(s, s.net, x) = 0
  <2> DEFINE v == Times(s, s.net, x)
  <2>1. \A i \in Int : i * 0 = 0
    OBVIOUS
  <2>2. \A l \in 1 .. s.n : v[l] = 0
    BY <1>1, <2>1 DEF Times
  <2> HIDE DEF v
  <2>3. SumTo(v, s.n) = 0
    BY <1>1, <2>2, SumToNothing
  <2> QED
    BY <2>3 DEF Value, v
<1>4. ASSUME NEW a PROVE KeyCount(s, a, x) = 0
  <2> DEFINE v == AtKey(s, a, x)
  <2>1. \A l \in 1 .. s.n : v[l] = 0
    BY DEF AtKey
  <2> HIDE DEF v
  <2>2. SumTo(v, s.n) = 0
    BY <1>1, <2>1, SumToNothing
  <2> QED
    BY <2>2 DEF KeyCount, v
<1> QED
  BY <1>2, <1>3, <1>4

(* Where an offer stands at first.                                         *)
LEMMA StandsAtFirst ==
  ASSUME NEW s, IsShelf(s), NEW b, IsOffer(b)
  PROVE  Stands(s, b, s.stock, 0, 0)
<1> DEFINE u == Others(s, s.stock)
<1>1. /\ Part(s, s.stock) /\ \A l \in 1 .. s.n : u[l] = 0
      /\ u \in [1 .. s.n -> Int]
  BY DEF IsShelf, Part, Others
<1> HIDE DEF u
<1>2. Count(s, u) = 0 /\ Value(s, s.net, u) = 0 /\ \A a : KeyCount(s, a, u) = 0
  BY <1>1, NoUnits
<1>3. TopClosed(s, u)
  <2>1. \A l \in 1 .. s.n : ~(u[l] > 0)
    BY <1>1
  <2> QED
    BY <2>1 DEF TopClosed
<1>4. b.size * 0 = 0 /\ b.fixedTotal * 0 = 0
  BY DEF IsOffer
<1>5. 0 = Value(s, s.net, u) - b.fixedTotal * 0
  BY <1>2, <1>4
<1>6. Balanced(s, b, s.stock, 0)
  BY <1>2 DEF Balanced, u
<1>7. \A a \in Nat : KeyCount(s, a, u) <= 0
  BY <1>2
<1> QED
  BY <1>1, <1>2, <1>3, <1>4, <1>5, <1>6, <1>7 DEF Stands, u

(* t is taken from the tops of what is left, r, by a group of b; one of    *)
(* different models takes a unit of each of the largest buckets, f.        *)
OfLargest(s, b, r, t, f) ==
  /\ \A i, j \in 1 .. b.size : f[i] = f[j] => i = j
  /\ \A i \in 1 .. b.size : KeyCount(s, f[i], t) = 1
  /\ \A a \in Nat : (\A i \in 1 .. b.size : f[i] # a) =>
       /\ KeyCount(s, a, t) = 0
       /\ \A i \in 1 .. b.size : KeyCount(s, a, r) <= KeyCount(s, f[i], r)

(* A group takes the first units of buckets, and the largest buckets if it *)
(* wants different models.                                                 *)
IsTaken(s, b, r, t) ==
  /\ t \in [1 .. s.n -> Nat] /\ \A l \in 1 .. s.n : t[l] <= r[l]
  /\ Count(s, t) = b.size
  /\ \A l, m \in 1 .. s.n : s.key[l] = s.key[m] /\ Before(s, l, m) /\ t[m] > 0 => t[l] = r[l]
  /\ b.differentModels => \E f \in [1 .. b.size -> Nat] : OfLargest(s, b, r, t, f)

(* What is left without it.                                                *)
Without(s, r, t) == [l \in 1 .. s.n |-> r[l] - t[l]]

(* Where the offer stands with the group.                                  *)
LEMMA StandsAfter ==
  ASSUME NEW s, IsShelf(s), NEW b, IsOffer(b), NEW r, NEW g, NEW d, Stands(s, b, r, g, d),
         g = 0 \/ b.repeatable, NEW t, IsTaken(s, b, r, t), NEW q, q = Without(s, r, t)
  PROVE  Stands(s, b, q, g + 1, d + (Value(s, s.net, t) - b.fixedTotal))
<1> DEFINE u == Others(s, r)
           w == Others(s, q)
<1>1. /\ Part(s, r) /\ g \in Nat /\ TopClosed(s, u) /\ Count(s, u) = b.size * g
      /\ d = Value(s, s.net, u) - b.fixedTotal * g
      /\ Part(s, u) /\ Together(s, u, r, s.stock)
  BY OthersTyped DEF Stands
<1>2. /\ t \in [1 .. s.n -> Nat] /\ \A l \in 1 .. s.n : t[l] <= r[l]
      /\ Count(s, t) = b.size
      /\ \A l, m \in 1 .. s.n : s.key[l] = s.key[m] /\ Before(s, l, m) /\ t[m] > 0 => t[l] = r[l]
  BY DEF IsTaken
<1>3. \A l \in 1 .. s.n : /\ r[l] \in Nat /\ t[l] \in Nat /\ t[l] <= r[l] /\ r[l] <= s.stock[l]
                          /\ s.stock[l] \in Nat /\ q[l] = r[l] - t[l] /\ u[l] = s.stock[l] - r[l]
  BY <1>1, <1>2 DEF Part, IsShelf, Without, Others
<1>4. \A l \in 1 .. s.n : w[l] = s.stock[l] - q[l]
  BY DEF Others
<1>5. q \in [1 .. s.n -> Nat] /\ w \in [1 .. s.n -> Nat]
  <2>1. q = [l \in 1 .. s.n |-> q[l]] /\ w = [l \in 1 .. s.n |-> w[l]]
    BY DEF Without, Others
  <2>2. \A l \in 1 .. s.n : q[l] \in Nat /\ q[l] <= s.stock[l]
    BY <1>3
  <2>3. \A l \in 1 .. s.n : w[l] \in Nat
    BY <1>3, <1>4, <2>2
  <2> HIDE DEF w
  <2> QED
    BY <2>1, <2>2, <2>3
<1> HIDE DEF u, w
<1>6. Part(s, q) /\ Part(s, t) /\ Together(s, q, t, r) /\ Together(s, u, t, w)
  <2>1. \A l \in 1 .. s.n : /\ q[l] <= s.stock[l] /\ t[l] <= s.stock[l]
                            /\ r[l] = q[l] + t[l] /\ w[l] = u[l] + t[l]
    BY <1>3, <1>4
  <2>2. /\ q \in [1 .. s.n -> Int] /\ t \in [1 .. s.n -> Int] /\ r \in [1 .. s.n -> Int]
        /\ u \in [1 .. s.n -> Int] /\ w \in [1 .. s.n -> Int]
    BY <1>1, <1>2, <1>5 DEF Part
  <2> QED
    BY <1>2, <1>5, <2>1, <2>2 DEF Part, Together
<1>7. /\ Count(s, w) = Count(s, u) + b.size
      /\ \A a : KeyCount(s, a, w) = KeyCount(s, a, u) + KeyCount(s, a, t)
      /\ \A a : KeyCount(s, a, r) = KeyCount(s, a, q) + KeyCount(s, a, t)
      /\ Value(s, s.net, w) = Value(s, s.net, u) + Value(s, s.net, t)
  <2>1. s.net \in [1 .. s.n -> Int]
    BY DEF IsShelf
  <2> QED
    BY <1>2, <1>6, <2>1, CountsAddUp
<1>8. /\ \A a : /\ KeyCount(s, a, u) \in Nat /\ KeyCount(s, a, t) \in Nat
                /\ KeyCount(s, a, q) \in Nat /\ KeyCount(s, a, r) \in Nat
      /\ Value(s, s.net, u) \in Int /\ Value(s, s.net, t) \in Int
  BY <1>1, <1>6, PartCounts
<1>9. b.size \in Nat /\ b.size > 1 /\ b.fixedTotal \in Nat
  BY DEF IsOffer
<1>10. /\ b.size * (g + 1) = b.size * g + b.size /\ b.size * g \in Int
       /\ b.fixedTotal * (g + 1) = b.fixedTotal * g + b.fixedTotal /\ b.fixedTotal * g \in Int
  <2>1. \A i, j \in Nat : i * (j + 1) = i * j + i /\ i * j \in Int
    OBVIOUS
  <2> QED
    BY <1>1, <1>9, <2>1
<1>11. TopClosed(s, w)
  <2> SUFFICES ASSUME NEW l \in 1 .. s.n, NEW m \in 1 .. s.n, s.key[l] = s.key[m],
                      Before(s, l, m), w[m] > 0
               PROVE  w[l] = s.stock[l]
    BY DEF TopClosed
  <2>1. CASE u[m] > 0
    <3>1. u[l] = s.stock[l]
      BY <1>1, <2>1 DEF TopClosed
    <3> QED
      BY <1>3, <1>4, <3>1
  <2>2. CASE t[m] > 0
    <3>1. t[l] = r[l]
      BY <1>2, <2>2
    <3> QED
      BY <1>3, <1>4, <3>1
  <2> QED
    BY <1>3, <1>4, <2>1, <2>2
<1>12. Count(s, w) = b.size * (g + 1)
  BY <1>1, <1>7, <1>10
<1>13. d + (Value(s, s.net, t) - b.fixedTotal) = Value(s, s.net, w) - b.fixedTotal * (g + 1)
  <2> DEFINE fg == b.fixedTotal * g
             vu == Value(s, s.net, u)
             vt == Value(s, s.net, t)
  <2>1. d = vu - fg /\ fg \in Int /\ vu \in Int /\ vt \in Int
        /\ Value(s, s.net, w) = vu + vt /\ b.fixedTotal * (g + 1) = fg + b.fixedTotal
    BY <1>1, <1>7, <1>8, <1>10
  <2> HIDE DEF fg, vu, vt
  <2>2. d + (vt - b.fixedTotal) = (vu + vt) - (fg + b.fixedTotal)
    BY <1>9, <2>1
  <2> QED
    BY <2>1, <2>2 DEF vt
<1>14. ASSUME b.differentModels
       PROVE  Balanced(s, b, q, g + 1) /\ \A a \in Nat : KeyCount(s, a, w) <= g + 1
  <2>1. PICK f \in [1 .. b.size -> Nat] : OfLargest(s, b, r, t, f)
    BY <1>14 DEF IsTaken
  <2>2. Balanced(s, b, r, g) /\ \A a \in Nat : KeyCount(s, a, u) <= g
    BY <1>14 DEF Stands, u
  <2>3. \A a \in Nat : KeyCount(s, a, t) <= 1
    <3>1. \A a \in Nat : (\A i \in 1 .. b.size : f[i] # a) => KeyCount(s, a, t) = 0
      BY <2>1 DEF OfLargest
    <3>2. \A i \in 1 .. b.size : KeyCount(s, f[i], t) = 1
      BY <2>1 DEF OfLargest
    <3> QED
      BY <3>1, <3>2
  <2>4. \A a \in Nat : KeyCount(s, a, w) <= g + 1
    <3> SUFFICES ASSUME NEW a \in Nat PROVE KeyCount(s, a, w) <= g + 1
      OBVIOUS
    <3>1. KeyCount(s, a, u) <= g /\ KeyCount(s, a, t) <= 1
      BY <2>2, <2>3
    <3> QED
      BY <1>1, <1>7, <1>8, <3>1
  <2>5. ASSUME NEW a \in Nat
        PROVE  \/ KeyCount(s, a, w) = g + 1
               \/ KeyCount(s, a, q) <= 1
               \/ \E h \in [1 .. b.size -> Nat] :
                    /\ \A i, j \in 1 .. b.size : h[i] = h[j] => i = j
                    /\ \A i \in 1 .. b.size : KeyCount(s, h[i], q) >= KeyCount(s, a, q) - 1
    <3>1. CASE \E i \in 1 .. b.size : f[i] = a
      <4>1. KeyCount(s, a, t) = 1
        BY <2>1, <3>1 DEF OfLargest
      <4>2. /\ KeyCount(s, a, w) = KeyCount(s, a, u) + 1
            /\ KeyCount(s, a, r) = KeyCount(s, a, q) + 1
        BY <1>7, <4>1
      <4>3. CASE KeyCount(s, a, u) = g
        BY <4>2, <4>3
      <4>4. CASE KeyCount(s, a, r) <= 1
        BY <1>8, <4>2, <4>4
      <4>5. CASE \E h \in [1 .. b.size -> Nat] :
                   /\ \A i, j \in 1 .. b.size : h[i] = h[j] => i = j
                   /\ \A i \in 1 .. b.size : KeyCount(s, h[i], r) >= KeyCount(s, a, r) - 1
        <5>1. PICK h \in [1 .. b.size -> Nat] :
                   /\ \A i, j \in 1 .. b.size : h[i] = h[j] => i = j
                   /\ \A i \in 1 .. b.size : KeyCount(s, h[i], r) >= KeyCount(s, a, r) - 1
          BY <4>5
        <5>2. ASSUME NEW i \in 1 .. b.size
              PROVE  KeyCount(s, h[i], q) >= KeyCount(s, a, q) - 1
          <6>1. /\ KeyCount(s, h[i], r) >= KeyCount(s, a, r) - 1
                /\ KeyCount(s, h[i], t) <= 1
                /\ KeyCount(s, h[i], r) = KeyCount(s, h[i], q) + KeyCount(s, h[i], t)
            BY <1>7, <2>3, <5>1
          <6>2. /\ KeyCount(s, h[i], q) \in Nat /\ KeyCount(s, h[i], t) \in Nat
                /\ KeyCount(s, a, q) \in Nat
            BY <1>8
          <6> QED
            BY <4>2, <6>1, <6>2
        <5> QED
          BY <5>1, <5>2
      <4> QED
        BY <2>2, <4>3, <4>4, <4>5 DEF Balanced, u
    <3>2. CASE \A i \in 1 .. b.size : f[i] # a
      <4>1. /\ KeyCount(s, a, t) = 0
            /\ \A i \in 1 .. b.size : KeyCount(s, a, r) <= KeyCount(s, f[i], r)
            /\ \A i \in 1 .. b.size : KeyCount(s, f[i], t) = 1
            /\ \A i, j \in 1 .. b.size : f[i] = f[j] => i = j
        BY <2>1, <3>2 DEF OfLargest
      <4>2. ASSUME NEW i \in 1 .. b.size
            PROVE  KeyCount(s, f[i], q) >= KeyCount(s, a, q) - 1
        <5>1. /\ KeyCount(s, a, r) <= KeyCount(s, f[i], r)
              /\ KeyCount(s, a, r) = KeyCount(s, a, q) + 0
              /\ KeyCount(s, f[i], r) = KeyCount(s, f[i], q) + 1
          BY <1>7, <4>1
        <5>2. KeyCount(s, a, q) \in Nat /\ KeyCount(s, f[i], q) \in Nat
          BY <1>8
        <5> QED
          BY <5>1, <5>2
      <4> QED
        BY <4>1, <4>2
    <3> QED
      BY <3>1, <3>2
  <2> QED
    BY <2>4, <2>5 DEF Balanced, w
<1>15. g + 1 \in Nat /\ (~b.repeatable => g + 1 <= 1)
  BY <1>1
<1> QED
  BY <1>6, <1>11, <1>12, <1>13, <1>14, <1>15 DEF Stands, w

-----------------------------------------------------------------------------
(* Units in sequences.                                                     *)

(* A sequence of m lines.                                                  *)
AreUnits(s, m, units) ==
  m \in Nat /\ DOMAIN units = 1 .. m /\ \A i \in 1 .. m : units[i] \in 1 .. s.n

(* A weight f of the lines: by lines it comes to g, one by one to h.       *)
AreWeighed(s, m, units, f, g, h) ==
  /\ AreUnits(s, m, units)
  /\ \A l \in 1 .. s.n : f[l] \in Int /\ g[l] = f[l] * UnitsOf(l, units)
  /\ \A i \in 1 .. m : h[i] = f[units[i]]

(* Weighed by lines or one by one, units weigh the same.                   *)
LEMMA UnitsWeighed ==
  ASSUME NEW s, s.n \in Nat, NEW m, NEW units, NEW f, NEW g, NEW h,
         AreWeighed(s, m, units, f, g, h)
  PROVE  SumTo(g, s.n) = SumTo(h, m)
<1> DEFINE n == s.n
           one == [l \in 1 .. n |-> [i \in 1 .. m |-> IF units[i] = l THEN 1 ELSE 0]]
           row == [l \in 1 .. n |-> [i \in 1 .. m |-> f[l] * one[l][i]]]
           column == [i \in 1 .. m |-> [l \in 1 .. n |-> row[l][i]]]
<1>1. /\ m \in Nat /\ DOMAIN units = 1 .. m /\ \A i \in 1 .. m : units[i] \in 1 .. n
      /\ n \in Nat /\ \A i \in 1 .. m : h[i] = f[units[i]]
  BY DEF AreWeighed, AreUnits
<1>2. \A l \in 1 .. n : f[l] \in Int /\ g[l] = f[l] * UnitsOf(l, units)
  BY DEF AreWeighed
<1>3. ASSUME NEW l \in 1 .. n, NEW i \in 1 .. m
      PROVE  /\ one[l][i] = IF units[i] = l THEN 1 ELSE 0
             /\ one[l][i] \in Int
             /\ row[l][i] = f[l] * one[l][i] /\ column[i][l] = row[l][i]
             /\ row[l][i] = IF l = units[i] THEN f[l] ELSE 0
             /\ row[l][i] \in Int
  <2>1. \A j \in Int : j * 1 = j /\ j * 0 = 0
    OBVIOUS
  <2>2. one[l][i] = IF units[i] = l THEN 1 ELSE 0
    OBVIOUS
  <2>3. row[l][i] = f[l] * one[l][i] /\ column[i][l] = row[l][i]
    OBVIOUS
  <2> HIDE DEF one, row, column
  <2> QED
    BY <1>2, <2>1, <2>2, <2>3
<1>4. ASSUME NEW l \in 1 .. n PROVE g[l] = SumTo(row[l], m)
  <2>1. UnitsOf(l, units) = SumTo(one[l], m)
    <3> DEFINE e == [i \in 1 .. m |-> IF units[i] = l THEN 1 ELSE 0]
    <3>1. UnitsOf(l, units) = Sum(e) /\ one[l] = e
      BY <1>1 DEF UnitsOf
    <3>2. e \in [1 .. m -> Nat]
      OBVIOUS
    <3> HIDE DEF e, one
    <3>3. Len(e) = m
      BY <1>1, <3>2, SequenceOf
    <3> QED
      BY <3>1, <3>3 DEF Sum
  <2> DEFINE c == f[l]
             o == one[l]
             t == row[l]
  <2>2. c \in Int /\ \A i \in 1 .. m : o[i] \in Int /\ t[i] = c * o[i]
    BY <1>2, <1>3
  <2> HIDE DEF c, o, t, one, row
  <2>3. SumTo(t, m) = c * SumTo(o, m)
    BY <1>1, <2>2, SumToTimes
  <2>4. SumTo(row[l], m) = f[l] * UnitsOf(l, units)
    BY <2>1, <2>3 DEF c, o, t
  <2>5. g[l] = f[l] * UnitsOf(l, units)
    BY <1>2
  <2> QED
    BY <2>4, <2>5
<1>5. ASSUME NEW i \in 1 .. m PROVE h[i] = SumTo(column[i], n)
  <2> DEFINE k == units[i]
             d == f[units[i]]
             t == column[i]
  <2>1. k \in 1 .. n /\ d \in Int
    BY <1>1, <1>2
  <2>2. \A l \in 1 .. n : t[l] = IF l = k THEN d ELSE 0
    <3>1. \A l \in 1 .. n : column[i][l] = IF l = units[i] THEN f[l] ELSE 0
      <4> HIDE DEF column, row, one
      <4> QED
        BY <1>3
    <3> HIDE DEF column
    <3> QED
      BY <3>1
  <2> HIDE DEF k, d, t, column, n
  <2>3. SumTo(t, n) = IF k \in 1 .. n THEN d ELSE 0
    <3>1. n \in Nat /\ d \in Int /\ \A l \in 1 .. n : t[l] = IF l = k THEN d ELSE 0
      BY <1>1, <2>1, <2>2
    <3> QED
      BY <3>1, SumToSingle
  <2> QED
    BY <1>1, <2>1, <2>3 DEF d, t
<1> HIDE DEF row, column, n
<1>6. Table(row, g, n, column, h, m)
  BY <1>3, <1>4, <1>5 DEF Table
<1> QED
  BY <1>1, <1>6, SumsExchange DEF n

(* How many units a sequence has of each line.                             *)
OfLines(s, units) == [l \in 1 .. s.n |-> UnitsOf(l, units)]

(* One by one: whether they are of key a, and what they are worth.         *)
OnesOfKey(s, a, m, units) == [i \in 1 .. m |-> IF s.key[units[i]] = a THEN 1 ELSE 0]
NetOf(s, m, units) == [i \in 1 .. m |-> s.net[units[i]]]

(* Counts and sums over a list of units are those over the lines.          *)
LEMMA UnitsCounted ==
  ASSUME NEW s, IsShelf(s), NEW m, NEW units, AreUnits(s, m, units), NEW x, x = OfLines(s, units)
  PROVE  /\ x \in [1 .. s.n -> Nat] /\ Count(s, x) = m
         /\ \A a : KeyCount(s, a, x) = SumTo(OnesOfKey(s, a, m, units), m)
         /\ Value(s, s.net, x) = SumTo(NetOf(s, m, units), m)
         /\ \A l \in 1 .. s.n : x[l] > 0 <=> \E i \in 1 .. m : units[i] = l
<1> DEFINE n == s.n
<1>1. /\ m \in Nat /\ DOMAIN units = 1 .. m /\ \A i \in 1 .. m : units[i] \in 1 .. n
      /\ s.n \in Nat /\ \A l \in 1 .. n : s.net[l] \in Int
  BY DEF AreUnits, IsShelf
<1>2. \A l \in 1 .. n : x[l] = UnitsOf(l, units)
  BY DEF OfLines
<1>3. ASSUME NEW l
      PROVE  /\ IsFiniteSet({i \in 1 .. m : units[i] = l})
             /\ UnitsOf(l, units) = Cardinality({i \in 1 .. m : units[i] = l})
             /\ UnitsOf(l, units) \in Nat
  BY <1>1, Counted
<1>4. x \in [1 .. n -> Nat]
  BY <1>3 DEF OfLines
<1>5. ASSUME NEW l \in 1 .. n PROVE x[l] > 0 <=> \E i \in 1 .. m : units[i] = l
  <2> DEFINE S == {i \in 1 .. m : units[i] = l}
  <2>1. IsFiniteSet(S) /\ x[l] = Cardinality(S) /\ x[l] \in Nat
    BY <1>2, <1>3
  <2>2. S # {} <=> \E i \in 1 .. m : units[i] = l
    OBVIOUS
  <2> HIDE DEF S
  <2>3. Cardinality(S) = 0 <=> S = {}
    BY <2>1, FS_EmptySet
  <2> QED
    BY <2>1, <2>2, <2>3
<1>6. Count(s, x) = m
  <2> DEFINE f == [l \in 1 .. n |-> 1]
             h == [i \in 1 .. m |-> 1]
             c == 1
  <2>1. \A l \in 1 .. n : f[l] \in Int /\ x[l] = f[l] * UnitsOf(l, units)
    <3>1. \A j \in Nat : j = 1 * j
      OBVIOUS
    <3> SUFFICES ASSUME NEW l \in 1 .. n
                 PROVE  f[l] \in Int /\ x[l] = f[l] * UnitsOf(l, units)
      OBVIOUS
    <3> DEFINE o == UnitsOf(l, units)
    <3>2. f[l] = 1 /\ x[l] = o /\ o \in Nat
      BY <1>2, <1>3
    <3> HIDE DEF f, o
    <3>3. x[l] = f[l] * o /\ f[l] \in Int
      BY <3>1, <3>2
    <3> QED
      BY <3>3 DEF o
  <2>2. \A i \in 1 .. m : h[i] = f[units[i]] /\ h[i] = c
    BY <1>1
  <2>3. c \in Int /\ m * c = m
    BY <1>1
  <2> HIDE DEF f, h, c
  <2>4. AreWeighed(s, m, units, f, x, h)
    BY <2>1, <2>2 DEF AreWeighed
  <2>5. SumTo(x, s.n) = SumTo(h, m)
    BY <1>1, <2>4, UnitsWeighed
  <2>6. SumTo(h, m) = m * c
    BY <1>1, <2>2, <2>3, SumToEqual
  <2> QED
    BY <2>3, <2>5, <2>6 DEF Count
<1>7. ASSUME NEW a
      PROVE  KeyCount(s, a, x) = SumTo(OnesOfKey(s, a, m, units), m)
  <2> DEFINE f == [l \in 1 .. n |-> IF s.key[l] = a THEN 1 ELSE 0]
             h == OnesOfKey(s, a, m, units)
             g == AtKey(s, a, x)
  <2>1. \A l \in 1 .. n : f[l] \in Int /\ g[l] = f[l] * UnitsOf(l, units)
    <3>1. \A j \in Nat : j = 1 * j /\ 0 = 0 * j
      OBVIOUS
    <3>2. \A l \in 1 .. n : g[l] = IF s.key[l] = a THEN UnitsOf(l, units) ELSE 0
      BY <1>2 DEF AtKey
    <3>3. \A l \in 1 .. n : f[l] = IF s.key[l] = a THEN 1 ELSE 0
      OBVIOUS
    <3> SUFFICES ASSUME NEW l \in 1 .. n
                 PROVE  f[l] \in Int /\ g[l] = f[l] * UnitsOf(l, units)
      OBVIOUS
    <3> DEFINE o == UnitsOf(l, units)
    <3>4. /\ f[l] = IF s.key[l] = a THEN 1 ELSE 0
          /\ g[l] = IF s.key[l] = a THEN o ELSE 0
          /\ o \in Nat
      BY <1>3, <3>2, <3>3
    <3> HIDE DEF f, g, o
    <3>5. g[l] = f[l] * o /\ f[l] \in Int
      BY <3>1, <3>4
    <3> QED
      BY <3>5 DEF o
  <2>2. \A i \in 1 .. m : h[i] = f[units[i]]
    BY <1>1 DEF OnesOfKey
  <2> HIDE DEF f, h, g
  <2>4. AreWeighed(s, m, units, f, g, h)
    BY <2>1, <2>2 DEF AreWeighed
  <2>5. SumTo(g, s.n) = SumTo(h, m)
    BY <1>1, <2>4, UnitsWeighed
  <2> QED
    BY <2>5 DEF KeyCount, g, h
<1>8. Value(s, s.net, x) = SumTo(NetOf(s, m, units), m)
  <2> DEFINE f == s.net
             h == NetOf(s, m, units)
             g == Times(s, s.net, x)
  <2>1. \A l \in 1 .. n : f[l] \in Int /\ g[l] = f[l] * UnitsOf(l, units)
    BY <1>1, <1>2 DEF Times
  <2>2. \A i \in 1 .. m : h[i] = f[units[i]]
    BY DEF NetOf
  <2> HIDE DEF f, h, g
  <2>4. AreWeighed(s, m, units, f, g, h)
    BY <2>1, <2>2 DEF AreWeighed
  <2>5. SumTo(g, s.n) = SumTo(h, m)
    BY <1>1, <2>4, UnitsWeighed
  <2> QED
    BY <2>5 DEF Value, g, h
<1> QED
  BY <1>4, <1>5, <1>6, <1>7, <1>8

(* The sum of the first m amounts and of those that follow.                *)
LEMMA SumToSplit ==
  ASSUME NEW f, NEW m \in Nat, NEW n \in Nat, \A i \in 1 .. m + n : f[i] \in Int,
         NEW h, \A i \in 1 .. n : h[i] = f[m + i]
  PROVE  SumTo(f, m + n) = SumTo(f, m) + SumTo(h, n)
<1> DEFINE T == {k \in Nat : k <= n => SumTo(f, m + k) = SumTo(f, m) + SumTo(h, k)}
<1>1. SumTo(f, m) \in Int
  <2>1. \A i \in 1 .. m : f[i] \in Int
    OBVIOUS
  <2> QED
    BY <2>1, SumToInt
<1>2. 0 \in T
  <2>1. m + 0 = m /\ SumTo(h, 0) = 0
    BY SumToStep
  <2> QED
    BY <1>1, <2>1
<1>3. ASSUME NEW k \in Nat, k \in T PROVE k + 1 \in T
  <2> SUFFICES ASSUME k + 1 <= n
               PROVE  SumTo(f, m + (k + 1)) = SumTo(f, m) + SumTo(h, k + 1)
    OBVIOUS
  <2>1. SumTo(f, m + k) = SumTo(f, m) + SumTo(h, k)
    BY <1>3
  <2> HIDE DEF T
  <2>2. SumTo(f, (m + k) + 1) = SumTo(f, m + k) + f[(m + k) + 1]
    BY SumToStep
  <2>3. SumTo(h, k + 1) = SumTo(h, k) + h[k + 1]
    BY SumToStep
  <2>4. (m + k) + 1 = m + (k + 1) /\ k + 1 \in 1 .. n /\ m + (k + 1) \in 1 .. m + n
    OBVIOUS
  <2>5. h[k + 1] = f[m + (k + 1)] /\ f[m + (k + 1)] \in Int
    BY <2>4
  <2>6. SumTo(h, k) \in Int
    <3>1. \A i \in 1 .. k : h[i] \in Int
      <4> SUFFICES ASSUME NEW i \in 1 .. k PROVE h[i] \in Int
        OBVIOUS
      <4>1. i \in 1 .. n /\ m + i \in 1 .. m + n
        OBVIOUS
      <4> QED
        BY <4>1
    <3> QED
      BY <3>1, SumToInt
  <2> DEFINE a == SumTo(f, m)
             c == SumTo(h, k)
             e == f[m + (k + 1)]
  <2>7. /\ a \in Int /\ c \in Int /\ e \in Int
        /\ SumTo(f, m + (k + 1)) = (a + c) + e /\ SumTo(h, k + 1) = c + e
    BY <1>1, <2>1, <2>2, <2>3, <2>4, <2>5, <2>6
  <2> HIDE DEF a, c, e
  <2>8. SumTo(f, m + (k + 1)) = a + SumTo(h, k + 1)
    BY <2>7
  <2> QED
    BY <2>8 DEF a
<1> HIDE DEF T
<1>4. n \in T
  BY <1>2, <1>3, Induction
<1> QED
  BY <1>4 DEF T

(* The bucket q has the units of key k that are left, r, the dearest first.*)
IsBucket(s, k, q, r) ==
  /\ Len(q) \in Nat /\ DOMAIN q = 1 .. Len(q) /\ \A i \in 1 .. Len(q) : q[i][1] \in 1 .. s.n
  /\ \A l \in 1 .. s.n : UnitsOf(l, LinesOf(q)) = IF s.key[l] = k THEN r[l] ELSE 0
  /\ \A i, j \in 1 .. Len(q) : i < j => ~Before(s, q[j][1], q[i][1])

(* What a bucket says of the units that are left.                          *)
LEMMA BucketHolds ==
  ASSUME NEW s, IsShelf(s), NEW r \in [1 .. s.n -> Nat], NEW k, NEW q, IsBucket(s, k, q, r)
  PROVE  /\ KeyCount(s, k, r) = Len(q) /\ AreUnits(s, Len(q), LinesOf(q))
         /\ \A i \in 1 .. Len(q) : s.key[q[i][1]] = k /\ r[q[i][1]] > 0
         /\ \A l \in 1 .. s.n : s.key[l] = k /\ r[l] > 0 => \E i \in 1 .. Len(q) : q[i][1] = l
<1> DEFINE m == Len(q)
           units == LinesOf(q)
           x == OfLines(s, units)
<1>1. /\ m \in Nat /\ DOMAIN q = 1 .. m /\ \A i \in 1 .. m : q[i][1] \in 1 .. s.n
      /\ \A l \in 1 .. s.n : UnitsOf(l, units) = IF s.key[l] = k THEN r[l] ELSE 0
  BY DEF IsBucket
<1>2. units = [i \in 1 .. m |-> q[i][1]]
  BY <1>1 DEF LinesOf
<1>3. AreUnits(s, m, units)
  <2>1. DOMAIN units = 1 .. m /\ \A i \in 1 .. m : units[i] = q[i][1]
    BY <1>2
  <2> HIDE DEF m, units
  <2> QED
    BY <1>1, <2>1 DEF AreUnits
<1>4. \A l \in 1 .. s.n : x[l] = IF s.key[l] = k THEN r[l] ELSE 0
  BY <1>1 DEF OfLines
<1>5. x = AtKey(s, k, r)
  BY <1>1 DEF AtKey, OfLines
<1> HIDE DEF m, units, x
<1>6. Count(s, x) = m /\ \A l \in 1 .. s.n : x[l] > 0 <=> \E i \in 1 .. m : units[i] = l
  <2>1. x = OfLines(s, units)
    BY DEF x
  <2> QED
    BY <1>3, <2>1, UnitsCounted
<1>7. KeyCount(s, k, r) = m
  BY <1>5, <1>6 DEF KeyCount, Count
<1>8. ASSUME NEW i \in 1 .. m PROVE s.key[q[i][1]] = k /\ r[q[i][1]] > 0
  <2> DEFINE l == q[i][1]
  <2>1. units[i] = l /\ l \in 1 .. s.n
    BY <1>1, <1>2
  <2>2. x[l] > 0
    BY <1>6, <2>1
  <2>3. x[l] = IF s.key[l] = k THEN r[l] ELSE 0
    BY <1>4, <2>1
  <2> HIDE DEF l
  <2>4. s.key[l] = k /\ r[l] > 0
    BY <2>2, <2>3
  <2> QED
    BY <2>4 DEF l
<1>9. ASSUME NEW l \in 1 .. s.n, s.key[l] = k, r[l] > 0 PROVE \E i \in 1 .. m : q[i][1] = l
  <2>1. x[l] > 0
    BY <1>4, <1>9
  <2>2. PICK i \in 1 .. m : units[i] = l
    BY <1>6, <2>1
  <2> QED
    BY <1>2, <2>2
<1> QED
  BY <1>3, <1>7, <1>8, <1>9 DEF m, units

(* Units of a line, one by one.                                            *)
OnesOf(l, m, units) == [i \in 1 .. m |-> IF units[i] = l THEN 1 ELSE 0]

(* Counting units is adding ones.                                          *)
LEMMA UnitsOfSum ==
  ASSUME NEW l, NEW m \in Nat, NEW units, DOMAIN units = 1 .. m
  PROVE  UnitsOf(l, units) = SumTo(OnesOf(l, m, units), m)
<1> DEFINE e == [i \in 1 .. m |-> IF units[i] = l THEN 1 ELSE 0]
<1>1. UnitsOf(l, units) = Sum(e) /\ OnesOf(l, m, units) = e
  BY DEF UnitsOf, OnesOf
<1>2. e \in [1 .. m -> Nat]
  OBVIOUS
<1> HIDE DEF e
<1>3. Len(e) = m
  BY <1>2, SequenceOf
<1> QED
  BY <1>1, <1>3 DEF Sum

(* p is q without its first c units.                                       *)
IsRest(p, q, c) ==
  /\ c \in Nat /\ Len(q) \in Nat /\ c <= Len(q) /\ Len(p) = Len(q) - c
  /\ DOMAIN p = 1 .. Len(p) /\ \A i \in 1 .. Len(p) : p[i] = q[c + i]

(* The lines of the first c units of a bucket.                             *)
FirstOnes(q, c) == [i \in 1 .. c |-> q[i][1]]

(* The units t are, of key k, the first c of the bucket q.                 *)
AreFirst(s, k, q, c, t) ==
  t \in [1 .. s.n -> Nat] /\ \A l \in 1 .. s.n : s.key[l] = k => t[l] = UnitsOf(l, FirstOnes(q, c))

(* They leave p of the bucket, and what is left is not dearer.             *)
IsCut(s, k, p, r, t, z) ==
  /\ IsBucket(s, k, p, z)
  /\ \A l \in 1 .. s.n : s.key[l] = k => t[l] <= r[l]
  /\ \A l, m \in 1 .. s.n :
       s.key[l] = k /\ s.key[m] = k /\ Before(s, l, m) /\ t[m] > 0 => t[l] = r[l]

(* A bucket whose first units are taken.                                   *)
LEMMA BucketCut ==
  ASSUME NEW s, IsShelf(s), NEW r \in [1 .. s.n -> Nat], NEW k, NEW q, IsBucket(s, k, q, r),
         NEW c, NEW p, IsRest(p, q, c), NEW t, AreFirst(s, k, q, c, t),
         NEW z, z = Without(s, r, t)
  PROVE  IsCut(s, k, p, r, t, z)
<1> DEFINE n == Len(q)
           o == Len(p)
           lines == LinesOf(q)
           first == FirstOnes(q, c)
           rest == LinesOf(p)
<1>1. /\ n \in Nat /\ o \in Nat /\ c \in Nat /\ n = c + o
      /\ DOMAIN q = 1 .. n /\ DOMAIN p = 1 .. o
      /\ \A i \in 1 .. o : p[i] = q[c + i] /\ c + i \in 1 .. n
      /\ \A i \in 1 .. c : i \in 1 .. n
      /\ \A i \in 1 .. n : q[i][1] \in 1 .. s.n
  BY DEF IsBucket, IsRest
<1>2. lines = [i \in 1 .. n |-> q[i][1]] /\ rest = [i \in 1 .. o |-> p[i][1]]
      /\ first = [i \in 1 .. c |-> q[i][1]]
  BY <1>1 DEF LinesOf, FirstOnes
<1>3. /\ DOMAIN lines = 1 .. n /\ DOMAIN rest = 1 .. o /\ DOMAIN first = 1 .. c
      /\ \A i \in 1 .. n : lines[i] = q[i][1]
      /\ \A i \in 1 .. o : rest[i] = q[c + i][1]
      /\ \A i \in 1 .. c : first[i] = q[i][1]
  BY <1>1, <1>2
<1>4. /\ \A l \in 1 .. s.n : UnitsOf(l, lines) = IF s.key[l] = k THEN r[l] ELSE 0
      /\ \A i, j \in 1 .. n : i < j => ~Before(s, q[j][1], q[i][1])
  BY DEF IsBucket
<1>5. t \in [1 .. s.n -> Nat] /\ \A l \in 1 .. s.n : s.key[l] = k => t[l] = UnitsOf(l, first)
  BY DEF AreFirst
<1> HIDE DEF n, o, lines, first, rest
<1>6. ASSUME NEW l
      PROVE  /\ UnitsOf(l, lines) = UnitsOf(l, first) + UnitsOf(l, rest)
             /\ UnitsOf(l, first) \in Nat /\ UnitsOf(l, rest) \in Nat
  <2> DEFINE f == OnesOf(l, n, lines)
             g == OnesOf(l, c, first)
             h == OnesOf(l, o, rest)
  <2>1. /\ UnitsOf(l, lines) = SumTo(f, n) /\ UnitsOf(l, first) = SumTo(g, c)
        /\ UnitsOf(l, rest) = SumTo(h, o)
    BY <1>1, <1>3, UnitsOfSum
  <2>2. /\ \A i \in 1 .. n : f[i] = IF lines[i] = l THEN 1 ELSE 0
        /\ \A i \in 1 .. c : g[i] = IF first[i] = l THEN 1 ELSE 0
        /\ \A i \in 1 .. o : h[i] = IF rest[i] = l THEN 1 ELSE 0
    BY DEF OnesOf
  <2>3. /\ \A i \in 1 .. n : f[i] \in Int
        /\ \A i \in 1 .. c : g[i] = f[i] /\ g[i] \in Nat
        /\ \A i \in 1 .. o : h[i] = f[c + i] /\ h[i] \in Nat
    <3>1. \A i \in 1 .. c : first[i] = lines[i] /\ i \in 1 .. n
      BY <1>1, <1>3
    <3>2. \A i \in 1 .. o : rest[i] = lines[c + i] /\ c + i \in 1 .. n
      BY <1>1, <1>3
    <3> HIDE DEF f, g, h
    <3> QED
      BY <2>2, <3>1, <3>2
  <2> HIDE DEF f, g, h
  <2>4. SumTo(g, c) = SumTo(f, c)
    BY <1>1, <2>3, SumToSame
  <2>5. SumTo(f, n) = SumTo(f, c) + SumTo(h, o)
    <3>1. \A i \in 1 .. c + o : f[i] \in Int
      BY <1>1, <2>3
    <3>2. \A i \in 1 .. o : h[i] = f[c + i]
      BY <2>3
    <3>3. SumTo(f, c + o) = SumTo(f, c) + SumTo(h, o)
      BY <1>1, <3>1, <3>2, SumToSplit
    <3> QED
      BY <1>1, <3>3
  <2>6. SumTo(g, c) \in Nat /\ SumTo(h, o) \in Nat
    BY <1>1, <2>3, SumToNat
  <2> QED
    BY <2>1, <2>4, <2>5, <2>6
<1>7. \A l \in 1 .. s.n : z[l] = r[l] - t[l] /\ r[l] \in Nat /\ t[l] \in Nat
  BY <1>5 DEF Without
<1>8. ASSUME NEW l \in 1 .. s.n
      PROVE  UnitsOf(l, rest) = IF s.key[l] = k THEN z[l] ELSE 0
  <2>1. CASE s.key[l] = k
    <3>1. r[l] = t[l] + UnitsOf(l, rest) /\ UnitsOf(l, rest) \in Nat
      BY <1>4, <1>5, <1>6, <2>1
    <3>2. UnitsOf(l, rest) = z[l]
      BY <1>7, <3>1
    <3> QED
      BY <2>1, <3>2
  <2>2. CASE s.key[l] # k
    <3>1. 0 = UnitsOf(l, first) + UnitsOf(l, rest)
      BY <1>4, <1>6, <2>2
    <3>2. UnitsOf(l, rest) = 0
      BY <1>6, <3>1
    <3> QED
      BY <2>2, <3>2
  <2> QED
    BY <2>1, <2>2
<1>9. IsBucket(s, k, p, z)
  <2>1. \A i \in 1 .. o : p[i][1] \in 1 .. s.n
    BY <1>1
  <2>2. \A i, j \in 1 .. o : i < j => ~Before(s, p[j][1], p[i][1])
    <3> SUFFICES ASSUME NEW i \in 1 .. o, NEW j \in 1 .. o, i < j
                 PROVE  ~Before(s, p[j][1], p[i][1])
      OBVIOUS
    <3>1. /\ p[i] = q[c + i] /\ p[j] = q[c + j] /\ c + i \in 1 .. n /\ c + j \in 1 .. n
          /\ c + i < c + j
      BY <1>1
    <3> QED
      BY <1>4, <3>1
  <2> QED
    BY <1>1, <1>8, <2>1, <2>2 DEF IsBucket, o, rest
<1>10. \A l \in 1 .. s.n : s.key[l] = k => t[l] <= r[l]
  <2> SUFFICES ASSUME NEW l \in 1 .. s.n, s.key[l] = k PROVE t[l] <= r[l]
    OBVIOUS
  <2>1. r[l] = t[l] + UnitsOf(l, rest) /\ UnitsOf(l, rest) \in Nat
    BY <1>4, <1>5, <1>6
  <2> QED
    BY <1>7, <2>1
<1>11. ASSUME NEW l \in 1 .. s.n, NEW m \in 1 .. s.n,
              s.key[l] = k, s.key[m] = k, Before(s, l, m), t[m] > 0
       PROVE  t[l] = r[l]
  <2>1. AreUnits(s, c, first) /\ AreUnits(s, o, rest)
    <3>1. /\ \A i \in 1 .. c : first[i] \in 1 .. s.n
          /\ \A i \in 1 .. o : rest[i] \in 1 .. s.n
      BY <1>1, <1>3
    <3> QED
      BY <1>1, <1>3, <3>1 DEF AreUnits
  <2>2. OfLines(s, first)[m] > 0
    BY <1>5, <1>11 DEF OfLines
  <2>3. PICK i \in 1 .. c : first[i] = m
    BY <2>1, <2>2, UnitsCounted
  <2>4. ASSUME t[l] # r[l] PROVE FALSE
    <3>1. OfLines(s, rest)[l] > 0
      <4>1. r[l] = t[l] + UnitsOf(l, rest) /\ UnitsOf(l, rest) \in Nat
        BY <1>4, <1>5, <1>6, <1>11
      <4>2. UnitsOf(l, rest) > 0
        BY <1>7, <2>4, <4>1
      <4> QED
        BY <4>2 DEF OfLines
    <3>2. PICK j \in 1 .. o : rest[j] = l
      BY <2>1, <3>1, UnitsCounted
    <3>3. i \in 1 .. n /\ c + j \in 1 .. n /\ i < c + j
      BY <1>1
    <3>4. q[i][1] = m /\ q[c + j][1] = l
      BY <1>3, <2>3, <3>2
    <3> QED
      BY <1>4, <1>11, <3>3, <3>4
  <2> QED
    BY <2>4
<1> QED
  BY <1>9, <1>10, <1>11 DEF IsCut

(* A bucket none of whose units is taken.                                  *)
LEMMA BucketLeft ==
  ASSUME NEW s, NEW r, NEW k, NEW q, IsBucket(s, k, q, r),
         NEW z, \A l \in 1 .. s.n : s.key[l] = k => z[l] = r[l]
  PROVE  IsBucket(s, k, q, z)
BY DEF IsBucket

-----------------------------------------------------------------------------
(* A cart, as an offer sees it.                                            *)

(* All that the offer may use.                                             *)
Shelf(b) ==
  [n |-> Len(cart),
   stock |-> [l \in 1 .. Len(cart) |-> IF l \in EligibleLines(b) THEN cart[l].quantity ELSE 0],
   key |-> [l \in 1 .. Len(cart) |-> BucketKey(l, b)],
   price |-> [l \in 1 .. Len(cart) |-> Price(l)],
   net |-> [l \in 1 .. Len(cart) |->
              Price(l) - (IF l \in EligibleLines(b) THEN Surcharge(cart[l].variant, b) ELSE 0)]]

(* What it may still use.                                                  *)
Rest(b) == [l \in 1 .. Len(cart) |-> IF l \in EligibleLines(b) THEN remaining[l] ELSE 0]

(* Those of the first offer.                                               *)
FirstShelf == Shelf(offers[1])
FirstRest == Rest(offers[1])

(* They are what their names say.                                          *)
LEMMA ShelfTyped ==
  ASSUME PricingTypeOK, NEW m \in DOMAIN offers, NEW b, b = offers[m], NEW s, s = Shelf(b)
  PROVE  /\ IsShelf(s) /\ IsOffer(b) /\ s.n = Len(cart) /\ DOMAIN cart = 1 .. s.n
         /\ \A l \in 1 .. s.n :
              /\ s.stock[l] = IF l \in EligibleLines(b) THEN cart[l].quantity ELSE 0
              /\ s.key[l] = BucketKey(l, b) /\ s.price[l] = Price(l)
              /\ s.net[l] = Price(l) -
                   (IF l \in EligibleLines(b) THEN Surcharge(cart[l].variant, b) ELSE 0)
         /\ \A l \in EligibleLines(b) : l \in 1 .. s.n
<1> DEFINE n == Len(cart)
<1>1. /\ n \in Nat /\ DOMAIN cart = 1 .. n
      /\ \A l \in 1 .. n : cart[l].quantity \in Nat /\ Price(l) \in Nat /\ Model(l) \in Nat
  BY CartTyped
<1>2. /\ b.size \in Nat /\ b.size > 1 /\ b.fixedTotal \in Nat
      /\ b.differentModels \in BOOLEAN /\ b.repeatable \in BOOLEAN
      /\ \A l \in EligibleLines(b) : Surcharge(cart[l].variant, b) \in Nat
  BY OfferTyped
<1>3. /\ s.n = n
      /\ s.stock = [l \in 1 .. n |-> IF l \in EligibleLines(b) THEN cart[l].quantity ELSE 0]
      /\ s.key = [l \in 1 .. n |-> BucketKey(l, b)]
      /\ s.price = [l \in 1 .. n |-> Price(l)]
      /\ s.net = [l \in 1 .. n |->
              Price(l) - (IF l \in EligibleLines(b) THEN Surcharge(cart[l].variant, b) ELSE 0)]
  BY DEF Shelf
<1> HIDE DEF n
<1>4. \A l \in 1 .. n : BucketKey(l, b) \in Nat
  BY <1>1 DEF BucketKey
<1>5. s.stock \in [1 .. n -> Nat] /\ s.key \in [1 .. n -> Nat] /\ s.price \in [1 .. n -> Nat]
  BY <1>1, <1>3, <1>4
<1>6. s.net \in [1 .. n -> Int]
  <2>1. \A l \in 1 .. n :
          Price(l) - (IF l \in EligibleLines(b) THEN Surcharge(cart[l].variant, b) ELSE 0) \in Int
    BY <1>1, <1>2
  <2> QED
    BY <1>3, <2>1
<1>7. IsShelf(s)
  BY <1>1, <1>3, <1>5, <1>6 DEF IsShelf
<1>8. IsOffer(b)
  BY <1>2 DEF IsOffer
<1>9. \A l \in EligibleLines(b) : l \in 1 .. n
  BY <1>1 DEF EligibleLines
<1> QED
  BY <1>1, <1>3, <1>7, <1>8, <1>9 DEF n

(* So is what is left.                                                     *)
LEMMA RestTyped ==
  ASSUME PricingTypeOK, UnitsGroupedOnce, NEW m \in DOMAIN offers, NEW b, b = offers[m],
         NEW s, s = Shelf(b), NEW r, r = Rest(b)
  PROVE  /\ Part(s, r)
         /\ \A l \in 1 .. s.n : r[l] = IF l \in EligibleLines(b) THEN remaining[l] ELSE 0
         /\ \A l \in 1 .. s.n : Left(l) = remaining[l] /\ remaining[l] \in Nat
<1>1. /\ IsShelf(s) /\ s.n = Len(cart) /\ DOMAIN cart = 1 .. s.n
      /\ \A l \in 1 .. s.n :
           s.stock[l] = IF l \in EligibleLines(b) THEN cart[l].quantity ELSE 0
  BY ShelfTyped
<1>2. r = [l \in 1 .. s.n |-> IF l \in EligibleLines(b) THEN remaining[l] ELSE 0]
  BY <1>1 DEF Rest
<1>3. ASSUME NEW l \in 1 .. s.n
      PROVE  /\ Left(l) = remaining[l] /\ remaining[l] \in Nat /\ remaining[l] <= cart[l].quantity
  <2>1. remaining[l] >= 0 /\ Consumed(l) + remaining[l] = cart[l].quantity
    BY <1>1 DEF UnitsGroupedOnce
  <2>2. remaining[l] \in Int /\ cart[l].quantity \in Nat
    BY <1>1, CartTyped DEF PricingTypeOK
  <2>3. Consumed(l) \in Nat
    BY ConsumedTyped
  <2> QED
    BY <2>1, <2>2, <2>3 DEF Left
<1>4. \A l \in 1 .. s.n : r[l] = IF l \in EligibleLines(b) THEN remaining[l] ELSE 0
  BY <1>2
<1>5. r \in [1 .. s.n -> Nat]
  BY <1>2, <1>3
<1>6. \A l \in 1 .. s.n : r[l] <= s.stock[l]
  <2> SUFFICES ASSUME NEW l \in 1 .. s.n PROVE r[l] <= s.stock[l]
    OBVIOUS
  <2> QED
    BY <1>1, <1>3, <1>4
<1> QED
  BY <1>3, <1>4, <1>5, <1>6 DEF Part

(* Every finite set of natural numbers that is not empty has a greatest.   *)
LEMMA Greatest ==
  ASSUME NEW T, T \subseteq Nat, IsFiniteSet(T), T # {}
  PROVE  Max(T) \in T /\ \A y \in T : y <= Max(T)
<1> DEFINE R == {p \in Nat \X Nat : p[1] > p[2]}
<1>1. Orders(R, T)
  BY DEF Orders
<1> HIDE DEF R
<1>2. PICK x \in T : \A y \in T \ {x} : <<x, y>> \in R
  BY <1>1, FirstOf
<1>3. \A y \in T : x >= y
  <2> SUFFICES ASSUME NEW y \in T PROVE x >= y
    OBVIOUS
  <2>1. x \in Nat /\ y \in Nat
    OBVIOUS
  <2>2. CASE y = x
    BY <2>1, <2>2
  <2>3. CASE y # x
    <3>1. <<x, y>> \in R
      BY <1>2, <2>3
    <3> QED
      BY <2>1, <3>1 DEF R
  <2> QED
    BY <2>2, <2>3
<1>4. \E z \in T : \A y \in T : z >= y
  BY <1>3
<1>5. Max(T) \in T /\ \A y \in T : Max(T) >= y
  BY <1>4 DEF Max
<1> QED
  BY <1>5

(* The lowest price and the highest surcharge.                             *)
LEMMA VariantBounds ==
  ASSUME PricingTypeOK, NEW m \in DOMAIN offers, NEW b, b = offers[m],
         NEW v \in DOMAIN Catalog, IsEligible(v, b)
  PROVE  /\ MinUnitPrice(b) \in Nat /\ MaxSurcharge(b) \in Nat
         /\ EffectiveUnitPrice(v) \in Nat /\ EffectiveUnitPrice(v) >= MinUnitPrice(b)
         /\ Surcharge(v, b) \in Nat /\ Surcharge(v, b) <= MaxSurcharge(b)
<1> DEFINE T == {Catalog[w].price : w \in {u \in DOMAIN Catalog : IsEligible(u, b)}}
<1>1. \A w \in DOMAIN Catalog : Catalog[w].price \in Nat /\ Catalog[w].fee \in Nat
  BY PricingAssumption DEF PricingAssumption
<1>2. /\ MinUnitPrice(b) \in Nat /\ EffectiveUnitPrice(v) \in Nat
      /\ EffectiveUnitPrice(v) >= MinUnitPrice(b)
  <2>1. T \subseteq Nat /\ Catalog[v].price \in T
    BY <1>1
  <2>2. MinUnitPrice(b) = Min(T)
    BY DEF MinUnitPrice
  <2> HIDE DEF T
  <2>3. \E x \in T : \A y \in T : x <= y
    BY <2>1, Least
  <2>4. Min(T) \in T /\ \A y \in T : Min(T) <= y
    BY <2>3 DEF Min
  <2>5. Min(T) \in Nat /\ Catalog[v].price >= Min(T)
    BY <2>1, <2>4
  <2>6. EffectiveUnitPrice(v) = Catalog[v].price + (IF Catalog[v].personalizable THEN Catalog[v].fee ELSE 0)
    BY DEF EffectiveUnitPrice
  <2> QED
    BY <1>1, <2>2, <2>5, <2>6
<1>3. /\ MaxSurcharge(b) \in Nat /\ Surcharge(v, b) \in Nat /\ Surcharge(v, b) <= MaxSurcharge(b)
  <2>1. CASE b.scope # "SPECIFIC_VARIANTS"
    BY <2>1 DEF MaxSurcharge, Surcharge
  <2>2. CASE b.scope = "SPECIFIC_VARIANTS"
    <3> DEFINE D == DOMAIN b.surcharges
               S == {b.surcharges[w] : w \in D}
               f == [w \in D |-> b.surcharges[w]]
    <3>1. IsFiniteSet(D) /\ \A w \in D : b.surcharges[w] \in Nat
      <4>1. offers \in Offers
        BY DEF PricingTypeOK
      <4> QED
        BY <4>1, PricingAssumption DEF PricingAssumption
    <3>2. f \in Surjection(D, S)
      BY DEF Surjection
    <3>3. S \subseteq Nat
      BY <3>1
    <3>4. Surcharge(v, b) \in S
      BY <2>2 DEF Surcharge, IsEligible
    <3>5. MaxSurcharge(b) = Max(S)
      BY <2>2 DEF MaxSurcharge
    <3> HIDE DEF f, S, D
    <3>6. IsFiniteSet(S)
      BY <3>1, <3>2, FS_Surjection
    <3>7. Max(S) \in S /\ \A y \in S : y <= Max(S)
      BY <3>3, <3>4, <3>6, Greatest
    <3> QED
      BY <3>3, <3>4, <3>5, <3>7
  <2> QED
    BY <2>1, <2>2
<1> QED
  BY <1>2, <1>3

(* No unit is cheaper, and no surcharge higher, than the code assumes.     *)
LEMMA Bounds ==
  ASSUME PricingTypeOK, NEW m \in DOMAIN offers, NEW b, b = offers[m], EligibleLines(b) # {}
  PROVE  Bounded(Shelf(b), MinUnitPrice(b), MaxSurcharge(b))
<1> DEFINE s == Shelf(b)
           lo == MinUnitPrice(b)
           hi == MaxSurcharge(b)
<1>1. /\ DOMAIN cart = 1 .. s.n
      /\ \A l \in 1 .. s.n :
           /\ s.stock[l] = IF l \in EligibleLines(b) THEN cart[l].quantity ELSE 0
           /\ s.price[l] = Price(l)
           /\ s.net[l] = Price(l) -
                (IF l \in EligibleLines(b) THEN Surcharge(cart[l].variant, b) ELSE 0)
  BY ShelfTyped
<1> HIDE DEF s
<1>2. ASSUME NEW l \in EligibleLines(b)
      PROVE  /\ lo \in Nat /\ hi \in Nat /\ Price(l) \in Nat /\ Price(l) >= lo
             /\ Surcharge(cart[l].variant, b) \in Nat /\ Surcharge(cart[l].variant, b) <= hi
  <2> DEFINE v == cart[l].variant
  <2>1. v \in DOMAIN Catalog /\ IsEligible(v, b) /\ Price(l) = EffectiveUnitPrice(v)
    BY CartTyped DEF EligibleLines, Price
  <2> HIDE DEF v
  <2> QED
    BY <2>1, VariantBounds DEF v
<1> HIDE DEF lo, hi
<1>3. ASSUME NEW l \in 1 .. s.n, s.stock[l] > 0
      PROVE  s.price[l] >= lo /\ s.net[l] >= s.price[l] - hi
  <2> DEFINE e == Surcharge(cart[l].variant, b)
  <2>1. l \in EligibleLines(b)
    BY <1>1, <1>3
  <2>2. /\ lo \in Nat /\ hi \in Nat /\ Price(l) \in Nat /\ Price(l) >= lo /\ e \in Nat /\ e <= hi
        /\ s.price[l] = Price(l) /\ s.net[l] = Price(l) - e
    BY <1>1, <1>2, <2>1
  <2> HIDE DEF e
  <2> QED
    BY <2>2
<1>4. lo \in Nat /\ hi \in Nat
  BY <1>2
<1> QED
  BY <1>3, <1>4 DEF Bounded, s, lo, hi

-----------------------------------------------------------------------------
(* The buckets of an offer.                                                *)

(* Each has the units of its key that are left, and no key has no bucket.  *)
AreBuckets(s, bs, r) ==
  /\ \A k \in DOMAIN bs : k \in Nat /\ IsBucket(s, k, bs[k], r)
  /\ \A l \in 1 .. s.n : r[l] > 0 => s.key[l] \in DOMAIN bs

(* A new bucket has the units of its key that no group has.                *)
LEMMA BucketBuilt ==
  ASSUME PricingTypeOK, UnitsGroupedOnce, NEW m \in DOMAIN offers, NEW b, b = offers[m],
         NEW s, s = Shelf(b), NEW r, r = Rest(b), NEW k \in Nat,
         NEW q, q = Bucket(k, UnitsOfLines(b, remaining), b)
  PROVE  IsBucket(s, k, q, r)
<1> DEFINE units == UnitsOfLines(b, remaining)
           S == OfKey(k, units, b)
           n == Len(q)
<1>1. /\ s.n = Len(cart) /\ DOMAIN cart = 1 .. s.n
      /\ \A l \in 1 .. s.n : s.key[l] = BucketKey(l, b) /\ s.price[l] = Price(l)
      /\ \A l \in 1 .. s.n : r[l] = IF l \in EligibleLines(b) THEN remaining[l] ELSE 0
      /\ \A l \in 1 .. s.n : remaining[l] \in Nat /\ Price(l) \in Nat
      /\ s.n \in Nat
  BY ShelfTyped, RestTyped, CartTyped
<1>2. /\ units \subseteq (DOMAIN cart) \X (Nat \ {0}) /\ IsFiniteSet(units)
  <2>1. remaining \in [DOMAIN cart -> Int]
    BY DEF PricingTypeOK
  <2> QED
    BY <2>1, UnitsTyped, UnitsFiniteToo
<1>3. /\ q \in Seq(S) /\ Range(q) = S /\ IsInjective(q)
      /\ \A i, j \in 1 .. n : i < j => DearerFirst(q[i], q[j])
  BY <1>2, BucketUnits
<1>4. \A x : x \in S <=> /\ x \in (DOMAIN cart) \X (Nat \ {0}) /\ BucketKey(x[1], b) = k
                         /\ x[1] \in EligibleLines(b) /\ x[2] \in 1 .. remaining[x[1]]
  <2>1. \A x : x \in units <=> /\ x \in (DOMAIN cart) \X (Nat \ {0})
                               /\ x[1] \in EligibleLines(b) /\ x[2] \in 1 .. remaining[x[1]]
    <3>1. \A x : x \in units <=> \E l \in EligibleLines(b) : x \in {l} \X (1 .. remaining[l])
      BY DEF UnitsOfLines
    <3>2. \A x : x \in units => x \in (DOMAIN cart) \X (Nat \ {0})
      BY <1>2
    <3>3. \A l, x : x \in {l} \X (1 .. remaining[l]) => x[1] = l /\ x[2] \in 1 .. remaining[l]
      OBVIOUS
    <3>4. \A x \in (DOMAIN cart) \X (Nat \ {0}) :
            x[2] \in 1 .. remaining[x[1]] => x \in {x[1]} \X (1 .. remaining[x[1]])
      OBVIOUS
    <3> HIDE DEF units
    <3> QED
      BY <3>1, <3>2, <3>3, <3>4
  <2>2. \A x : x \in S <=> x \in units /\ BucketKey(x[1], b) = k
    BY DEF OfKey
  <2> HIDE DEF S, units
  <2> QED
    BY <2>1, <2>2
<1> HIDE DEF S, units
<1>5. n \in Nat /\ DOMAIN q = 1 .. n /\ \A i \in 1 .. n : q[i] \in S
  BY <1>3
<1> HIDE DEF n
<1>6. \A i \in 1 .. n : q[i] \in (DOMAIN cart) \X (Nat \ {0}) /\ q[i][1] \in 1 .. s.n
  BY <1>1, <1>4, <1>5
<1>7. ASSUME NEW l \in 1 .. s.n
      PROVE  UnitsOf(l, LinesOf(q)) = IF s.key[l] = k THEN r[l] ELSE 0
  <2> DEFINE I == {i \in 1 .. n : q[i][1] = l}
             X == {x \in S : x[1] = l}
             f == [i \in I |-> q[i]]
             lines == LinesOf(q)
  <2>1. DOMAIN lines = 1 .. n /\ \A i \in 1 .. n : lines[i] = q[i][1]
    BY <1>5 DEF LinesOf
  <2>2. UnitsOf(l, lines) = Cardinality(I) /\ IsFiniteSet(I)
    <3> DEFINE J == {i \in 1 .. n : lines[i] = l}
    <3>1. I = J
      BY <2>1
    <3> HIDE DEF I, lines
    <3>2. UnitsOf(l, lines) = Cardinality(J) /\ IsFiniteSet(J)
      <4>1. n \in Nat /\ DOMAIN lines = 1 .. n
        BY <1>5, <2>1
      <4>2. /\ IsFiniteSet({i \in 1 .. n : lines[i] = l})
            /\ UnitsOf(l, lines) = Cardinality({i \in 1 .. n : lines[i] = l})
            /\ UnitsOf(l, lines) \in Nat
        BY <4>1, Counted
      <4> QED
        BY <4>2
    <3> QED
      BY <3>1, <3>2
  <2>3. f \in Bijection(I, X)
    <3>1. \A i \in I : q[i] \in X
      BY <1>5
    <3>2. \A i, j \in I : q[i] = q[j] => i = j
      BY <1>3, <1>5 DEF IsInjective
    <3>3. \A x \in X : \E i \in I : q[i] = x
      <4> SUFFICES ASSUME NEW x \in X PROVE \E i \in I : q[i] = x
        OBVIOUS
      <4>1. x \in S /\ x[1] = l
        OBVIOUS
      <4>2. PICK i \in 1 .. n : q[i] = x
        BY <1>3, <1>5, <4>1 DEF Range
      <4> QED
        BY <4>1, <4>2
    <3> HIDE DEF I, X
    <3> QED
      BY <3>1, <3>2, <3>3 DEF Bijection, Injection, Surjection, IsInjective
  <2>4. Cardinality(X) = Cardinality(I)
    <3> HIDE DEF I, X, f
    <3> QED
      BY <2>2, <2>3, FS_Bijection DEF ExistsBijection
  <2>5. CASE s.key[l] = k /\ l \in EligibleLines(b)
    <3> DEFINE c == remaining[l]
    <3>1. X = {l} \X (1 .. c)
      <4>1. \A x \in X : x \in {l} \X (1 .. c)
        BY <1>4
      <4>2. \A x \in {l} \X (1 .. c) : x \in X
        <5> SUFFICES ASSUME NEW x \in {l} \X (1 .. c) PROVE x \in X
          OBVIOUS
        <5>1. x[1] = l /\ x[2] \in 1 .. c /\ x = <<x[1], x[2]>> /\ c \in Nat
          BY <1>1
        <5>2. x \in (DOMAIN cart) \X (Nat \ {0})
          BY <1>1, <5>1
        <5>3. BucketKey(x[1], b) = k
          BY <1>1, <2>5, <5>1
        <5>4. x \in S
          BY <1>4, <2>5, <5>1, <5>2, <5>3
        <5> QED
          BY <5>1, <5>4
      <4> HIDE DEF X
      <4> QED
        BY <4>1, <4>2
    <3>2. c \in Nat
      BY <1>1
    <3> HIDE DEF c, X, I
    <3>3. Cardinality(X) = c
      BY <3>1, <3>2, OwnUnits
    <3>4. r[l] = c
      BY <1>1, <2>5 DEF c
    <3> QED
      BY <2>2, <2>4, <2>5, <3>3, <3>4
  <2>6. CASE ~(s.key[l] = k /\ l \in EligibleLines(b))
    <3>1. X = {}
      BY <1>1, <1>4, <2>6
    <3>2. Cardinality(I) = 0
      BY <2>4, <3>1, FS_EmptySet
    <3>3. (IF s.key[l] = k THEN r[l] ELSE 0) = 0
      BY <1>1, <2>6
    <3> QED
      BY <2>2, <3>2, <3>3
  <2> QED
    BY <2>5, <2>6
<1>8. ASSUME NEW i \in 1 .. n, NEW j \in 1 .. n, i < j
      PROVE  ~Before(s, q[j][1], q[i][1])
  <2> DEFINE x == q[i][1]
             y == q[j][1]
  <2>1. DearerFirst(q[i], q[j])
    BY <1>3, <1>8 DEF n
  <2>2. /\ x \in 1 .. s.n /\ y \in 1 .. s.n
        /\ s.price[x] = Price(x) /\ s.price[y] = Price(y) /\ Price(x) \in Nat /\ Price(y) \in Nat
    BY <1>1, <1>6
  <2>3. Price(x) > Price(y) \/ (Price(x) = Price(y) /\ (x < y \/ x = y))
    BY <2>1 DEF DearerFirst
  <2> HIDE DEF x, y
  <2>4. ~Before(s, y, x)
    BY <1>1, <2>2, <2>3 DEF Before
  <2> QED
    BY <2>4 DEF x, y
<1> QED
  BY <1>5, <1>6, <1>7, <1>8 DEF IsBucket, n

(* A group of different models takes the first unit of the largest buckets.*)
TakesHeads(b, bs, key, units, cs) ==
  /\ \A i, j \in 1 .. b.size : key[i] = key[j] => i = j
  /\ \A i \in 1 .. b.size : key[i] \in DOMAIN bs /\ Len(bs[key[i]]) > 0
  /\ \A k \in DOMAIN bs, i \in 1 .. b.size :
       (\A j \in 1 .. b.size : key[j] # k) => Len(bs[k]) <= Len(bs[key[i]])
  /\ DOMAIN units = 1 .. b.size /\ \A i \in 1 .. b.size : units[i] = bs[key[i]][1][1]
  /\ DOMAIN cs = DOMAIN bs
  /\ \A i \in 1 .. b.size : IsRest(cs[key[i]], bs[key[i]], 1)
  /\ \A k \in DOMAIN bs : (\A i \in 1 .. b.size : key[i] # k) => cs[k] = bs[k]

(* A group of different models takes the dearest unit of the largest buckets.*)
LEMMA HeadsTaken ==
  ASSUME NEW s, IsShelf(s), NEW b, IsOffer(b), NEW r \in [1 .. s.n -> Nat], Part(s, r),
         NEW bs, AreBuckets(s, bs, r), NEW key \in [1 .. b.size -> Nat], NEW units, NEW cs,
         TakesHeads(b, bs, key, units, cs), NEW t, t = OfLines(s, units),
         NEW z, z = Without(s, r, t)
  PROVE  IsTaken(s, b, r, t) /\ AreBuckets(s, cs, z) /\ AreUnits(s, b.size, units)
<1> DEFINE m == b.size
<1>1. /\ \A i, j \in 1 .. m : key[i] = key[j] => i = j
      /\ \A i \in 1 .. m : key[i] \in DOMAIN bs /\ Len(bs[key[i]]) > 0
      /\ \A k \in DOMAIN bs, i \in 1 .. m :
           (\A j \in 1 .. m : key[j] # k) => Len(bs[k]) <= Len(bs[key[i]])
      /\ DOMAIN units = 1 .. m /\ \A i \in 1 .. m : units[i] = bs[key[i]][1][1]
      /\ DOMAIN cs = DOMAIN bs
      /\ \A i \in 1 .. m : IsRest(cs[key[i]], bs[key[i]], 1)
      /\ \A k \in DOMAIN bs : (\A i \in 1 .. m : key[i] # k) => cs[k] = bs[k]
  BY DEF TakesHeads
<1>2. m \in Nat /\ m > 1 /\ \A i \in 1 .. m : key[i] \in Nat
  BY DEF IsOffer
<1>3. /\ \A k \in DOMAIN bs : k \in Nat /\ IsBucket(s, k, bs[k], r)
      /\ \A l \in 1 .. s.n : r[l] > 0 => s.key[l] \in DOMAIN bs
  BY DEF AreBuckets
<1> HIDE DEF m
<1>4. ASSUME NEW k \in DOMAIN bs
      PROVE  /\ KeyCount(s, k, r) = Len(bs[k])
             /\ \A i \in 1 .. Len(bs[k]) : s.key[bs[k][i][1]] = k /\ bs[k][i][1] \in 1 .. s.n
             /\ Len(bs[k]) \in Nat
  <2> DEFINE q == bs[k]
  <2>1. IsBucket(s, k, q, r)
    BY <1>3
  <2> HIDE DEF q
  <2>2. /\ KeyCount(s, k, r) = Len(q) /\ \A i \in 1 .. Len(q) : s.key[q[i][1]] = k
    BY <2>1, BucketHolds
  <2>3. Len(q) \in Nat /\ \A i \in 1 .. Len(q) : q[i][1] \in 1 .. s.n
    BY <2>1 DEF IsBucket
  <2> QED
    BY <2>2, <2>3 DEF q
<1>5. ASSUME NEW i \in 1 .. m
      PROVE  units[i] \in 1 .. s.n /\ s.key[units[i]] = key[i]
  <2>1. /\ key[i] \in DOMAIN bs /\ 1 \in 1 .. Len(bs[key[i]])
    BY <1>1, <1>4
  <2> QED
    BY <1>1, <1>4, <2>1
<1>6. AreUnits(s, m, units)
  BY <1>1, <1>2, <1>5 DEF AreUnits
<1>7. /\ t \in [1 .. s.n -> Nat] /\ Count(s, t) = m
      /\ \A a : KeyCount(s, a, t) = SumTo(OnesOfKey(s, a, m, units), m)
      /\ \A l \in 1 .. s.n : t[l] > 0 <=> \E i \in 1 .. m : units[i] = l
  BY <1>6, UnitsCounted
<1>8. \A l \in 1 .. s.n : t[l] \in Nat /\ t[l] = UnitsOf(l, units) /\ r[l] \in Nat /\ z[l] = r[l] - t[l]
  BY <1>7 DEF OfLines, Without
<1>9. ASSUME NEW i \in 1 .. m
      PROVE  /\ IsBucket(s, key[i], cs[key[i]], z)
             /\ \A l \in 1 .. s.n : s.key[l] = key[i] => t[l] <= r[l]
             /\ \A l, o \in 1 .. s.n :
                  s.key[l] = key[i] /\ s.key[o] = key[i] /\ Before(s, l, o) /\ t[o] > 0 => t[l] = r[l]
  <2> DEFINE k == key[i]
             q == bs[k]
             p == cs[k]
             h == FirstOnes(q, 1)
  <2>1. IsBucket(s, k, q, r) /\ IsRest(p, q, 1)
    BY <1>1, <1>3
  <2>2. \A l \in 1 .. s.n : s.key[l] = k => t[l] = UnitsOf(l, h)
    <3> SUFFICES ASSUME NEW l \in 1 .. s.n, s.key[l] = k PROVE t[l] = UnitsOf(l, h)
      OBVIOUS
    <3> DEFINE d == IF units[i] = l THEN 1 ELSE 0
               f == OnesOf(l, m, units)
               e == OnesOf(l, 1, h)
               c == 1
    <3>1. /\ UnitsOf(l, units) = SumTo(f, m)
      BY <1>1, <1>2, UnitsOfSum
    <3>2. DOMAIN h = 1 .. 1 /\ h[1] = units[i]
      BY <1>1 DEF FirstOnes
    <3>3. UnitsOf(l, h) = SumTo(e, 1)
      <4> HIDE DEF h
      <4> QED
        BY <3>2, UnitsOfSum
    <3>4. \A j \in 1 .. m : f[j] = IF j = i THEN d ELSE 0
      <4>1. \A j \in 1 .. m : f[j] = IF units[j] = l THEN 1 ELSE 0
        BY DEF OnesOf
      <4>2. \A j \in 1 .. m : j # i => units[j] # l
        BY <1>1, <1>5
      <4> HIDE DEF f
      <4> QED
        BY <4>1, <4>2
    <3>5. \A j \in 1 .. c : e[j] = IF j = c THEN d ELSE 0
      BY <3>2 DEF OnesOf
    <3>6. d \in Int /\ c \in Nat
      OBVIOUS
    <3>7. c = 1 /\ c \in 1 .. c
      OBVIOUS
    <3> HIDE DEF d, f, e, c, h
    <3>8. SumTo(f, m) = IF i \in 1 .. m THEN d ELSE 0
      <4>1. m \in Nat /\ d \in Int /\ \A j \in 1 .. m : f[j] = IF j = i THEN d ELSE 0
        BY <1>2, <3>4, <3>6
      <4> QED
        BY <4>1, SumToSingle
    <3>9. SumTo(e, c) = IF c \in 1 .. c THEN d ELSE 0
      <4>1. e[1] = d
        BY <3>5, <3>7
      <4>2. SumTo(e, 0) = 0
        BY SumToStep
      <4>3. SumTo(e, 0 + 1) = SumTo(e, 0) + e[0 + 1]
        <5>1. 0 \in Nat
          OBVIOUS
        <5> QED
          BY <5>1, SumToStep
      <4>4. 0 + 1 = 1
        OBVIOUS
      <4>5. SumTo(e, 1) = 0 + d
        BY <4>1, <4>2, <4>3, <4>4
      <4> QED
        BY <3>6, <3>7, <4>5
    <3> QED
      BY <1>8, <3>1, <3>3, <3>7, <3>8, <3>9
  <2> HIDE DEF k, q, p, h
  <2>3. IsCut(s, k, p, r, t, z)
    <3>1. AreFirst(s, k, q, 1, t)
      BY <1>7, <2>2 DEF AreFirst, h
    <3> QED
      BY <2>1, <3>1, BucketCut
  <2> QED
    BY <2>3 DEF IsCut, k, p
<1>10. \A l \in 1 .. s.n : t[l] # 0 => \E i \in 1 .. m : key[i] = s.key[l]
  <2> SUFFICES ASSUME NEW l \in 1 .. s.n, t[l] # 0 PROVE \E i \in 1 .. m : key[i] = s.key[l]
    OBVIOUS
  <2>1. t[l] > 0
    BY <1>8
  <2> QED
    BY <1>5, <1>7, <2>1
<1>11. \A l \in 1 .. s.n : t[l] <= r[l]
  <2> SUFFICES ASSUME NEW l \in 1 .. s.n PROVE t[l] <= r[l]
    OBVIOUS
  <2>1. CASE \E i \in 1 .. m : key[i] = s.key[l]
    BY <1>9, <2>1
  <2>2. CASE \A i \in 1 .. m : key[i] # s.key[l]
    <3>1. t[l] = 0 /\ r[l] \in Nat
      BY <1>8, <1>10, <2>2
    <3> QED
      BY <3>1
  <2> QED
    BY <2>1, <2>2
<1>12. \A l, o \in 1 .. s.n : s.key[l] = s.key[o] /\ Before(s, l, o) /\ t[o] > 0 => t[l] = r[l]
  <2> SUFFICES ASSUME NEW l \in 1 .. s.n, NEW o \in 1 .. s.n, s.key[l] = s.key[o],
                      Before(s, l, o), t[o] > 0
               PROVE  t[l] = r[l]
    OBVIOUS
  <2>1. PICK i \in 1 .. m : units[i] = o
    BY <1>7
  <2> QED
    BY <1>5, <1>9, <2>1
<1>13. OfLargest(s, b, r, t, key)
  <2>1. ASSUME NEW i \in 1 .. m PROVE KeyCount(s, key[i], t) = 1
    <3> DEFINE f == OnesOfKey(s, key[i], m, units)
               d == 1
    <3>1. \A j \in 1 .. m : f[j] = IF j = i THEN d ELSE 0
      BY <1>1, <1>5 DEF OnesOfKey
    <3>2. d \in Int
      OBVIOUS
    <3> HIDE DEF f, d
    <3>3. SumTo(f, m) = IF i \in 1 .. m THEN d ELSE 0
      <4>1. m \in Nat /\ d \in Int /\ \A j \in 1 .. m : f[j] = IF j = i THEN d ELSE 0
        BY <1>2, <3>1, <3>2
      <4> QED
        BY <4>1, SumToSingle
    <3> QED
      BY <1>7, <3>3 DEF f, d
  <2>2. ASSUME NEW a \in Nat, \A i \in 1 .. m : key[i] # a
        PROVE  /\ KeyCount(s, a, t) = 0
               /\ \A i \in 1 .. m : KeyCount(s, a, r) <= KeyCount(s, key[i], r)
    <3>1. KeyCount(s, a, t) = 0
      <4> DEFINE f == OnesOfKey(s, a, m, units)
      <4>1. \A j \in 1 .. m : f[j] = 0
        BY <1>5, <2>2 DEF OnesOfKey
      <4> HIDE DEF f
      <4>2. SumTo(f, m) = 0
        BY <1>2, <4>1, SumToNothing
      <4> QED
        BY <1>7, <4>2 DEF f
    <3>2. CASE a \in DOMAIN bs
      BY <1>1, <1>4, <2>2, <3>1, <3>2
    <3>3. CASE a \notin DOMAIN bs
      <4>1. a \notin KeysLeft(s, r)
        BY <1>3, <3>3 DEF KeysLeft
      <4>2. /\ KeyCount(s, a, r) \in Nat /\ ~(KeyCount(s, a, r) > 0)
            /\ \A i \in 1 .. m : KeyCount(s, key[i], r) \in Nat
        BY <4>1, KeyLeft, PartCounts
      <4> QED
        BY <3>1, <4>2
    <3> QED
      BY <3>2, <3>3
  <2> QED
    BY <1>1, <2>1, <2>2 DEF OfLargest, m
<1>14. IsTaken(s, b, r, t)
  BY <1>7, <1>11, <1>12, <1>13 DEF IsTaken, m
<1>15. AreBuckets(s, cs, z)
  <2>1. ASSUME NEW k \in DOMAIN cs PROVE k \in Nat /\ IsBucket(s, k, cs[k], z)
    <3>1. k \in DOMAIN bs
      BY <1>1
    <3>2. CASE \E i \in 1 .. m : key[i] = k
      BY <1>3, <1>9, <3>1, <3>2
    <3>3. CASE \A i \in 1 .. m : key[i] # k
      <4>1. cs[k] = bs[k] /\ IsBucket(s, k, bs[k], r) /\ k \in Nat
        BY <1>1, <1>3, <3>1, <3>3
      <4>2. \A l \in 1 .. s.n : s.key[l] = k => z[l] = r[l]
        <5> SUFFICES ASSUME NEW l \in 1 .. s.n, s.key[l] = k PROVE z[l] = r[l]
          OBVIOUS
        <5>1. t[l] = 0
          BY <1>10, <3>3
        <5>2. z[l] = r[l] - t[l] /\ r[l] \in Nat
          BY <1>8
        <5> QED
          BY <5>1, <5>2
      <4> QED
        BY <4>1, <4>2, BucketLeft
    <3> QED
      BY <3>2, <3>3
  <2>2. \A l \in 1 .. s.n : z[l] > 0 => s.key[l] \in DOMAIN cs
    BY <1>1, <1>3, <1>8
  <2> QED
    BY <2>1, <2>2 DEF AreBuckets
<1> QED
  BY <1>6, <1>14, <1>15 DEF m

(* A group of any models takes the first units of the only bucket.         *)
TakesTop(b, bs, units, cs) ==
  /\ DOMAIN bs = {0} /\ DOMAIN cs = {0} /\ IsRest(cs[0], bs[0], b.size)
  /\ units = FirstOnes(bs[0], b.size)

(* A group of any models takes the dearest units there are.                *)
LEMMA TopTaken ==
  ASSUME NEW s, IsShelf(s), \A l \in 1 .. s.n : s.key[l] = 0,
         NEW b, IsOffer(b), ~b.differentModels, NEW r \in [1 .. s.n -> Nat],
         NEW bs, AreBuckets(s, bs, r), NEW units, NEW cs, TakesTop(b, bs, units, cs),
         NEW t, t = OfLines(s, units), NEW z, z = Without(s, r, t)
  PROVE  IsTaken(s, b, r, t) /\ AreBuckets(s, cs, z) /\ AreUnits(s, b.size, units)
<1> DEFINE q == bs[0]
           p == cs[0]
           m == b.size
<1>1. /\ DOMAIN cs = {0} /\ IsRest(p, q, m) /\ units = FirstOnes(q, m) /\ IsBucket(s, 0, q, r)
      /\ m \in Nat
  BY DEF TakesTop, AreBuckets, IsOffer
<1> HIDE DEF q, p, m
<1>2. AreUnits(s, m, units)
  <2>1. \A i \in 1 .. m : i \in 1 .. Len(q)
    BY <1>1 DEF IsRest
  <2>2. \A i \in 1 .. m : q[i][1] \in 1 .. s.n
    BY <1>1, <2>1 DEF IsBucket
  <2>3. DOMAIN units = 1 .. m /\ \A i \in 1 .. m : units[i] = q[i][1]
    BY <1>1 DEF FirstOnes
  <2> QED
    BY <1>1, <2>2, <2>3 DEF AreUnits
<1>3. t \in [1 .. s.n -> Nat] /\ Count(s, t) = m
  BY <1>2, UnitsCounted
<1>4. AreFirst(s, 0, q, m, t)
  <2>1. \A l \in 1 .. s.n : t[l] = UnitsOf(l, units)
    BY DEF OfLines
  <2> QED
    BY <1>1, <1>3, <2>1 DEF AreFirst
<1>5. IsCut(s, 0, p, r, t, z)
  BY <1>1, <1>4, BucketCut
<1>6. /\ IsBucket(s, 0, p, z) /\ \A l \in 1 .. s.n : t[l] <= r[l]
      /\ \A l, o \in 1 .. s.n : Before(s, l, o) /\ t[o] > 0 => t[l] = r[l]
  BY <1>5 DEF IsCut
<1>7. IsTaken(s, b, r, t)
  BY <1>3, <1>6 DEF IsTaken, m
<1>8. AreBuckets(s, cs, z)
  BY <1>1, <1>6 DEF AreBuckets, p
<1> QED
  BY <1>2, <1>7, <1>8 DEF m

-----------------------------------------------------------------------------
(* The group that is formed takes units of the shelf.                      *)

(* What sequences have without their first units.                          *)
LEMMA RestOfSequence ==
  ASSUME NEW S, NEW q \in Seq(S), NEW c \in Nat, c <= Len(q)
  PROVE  IsRest(SubSeq(q, c + 1, Len(q)), q, c) /\ (c = 1 => IsRest(Tail(q), q, c))
<1> DEFINE n == Len(q)
           p == SubSeq(q, c + 1, n)
<1>1. n \in Nat /\ c \in Nat /\ c <= n /\ n - c \in Nat
  OBVIOUS
<1>2. Len(p) = n - c /\ DOMAIN p = 1 .. n - c /\ \A i \in 1 .. n - c : p[i] = q[c + i]
  BY <1>1
<1>3. IsRest(p, q, c)
  BY <1>1, <1>2 DEF IsRest
<1>4. ASSUME c = 1 PROVE IsRest(Tail(q), q, c)
  <2>1. /\ Len(Tail(q)) = n - 1 /\ DOMAIN Tail(q) = 1 .. n - 1
        /\ \A i \in 1 .. n - 1 : Tail(q)[i] = q[i + 1]
    BY <1>1, <1>4
  <2>2. \A i \in 1 .. n - 1 : i + 1 = c + i
    BY <1>4
  <2> QED
    BY <1>1, <1>4, <2>1, <2>2 DEF IsRest
<1> QED
  BY <1>3, <1>4

(* So do the groups that the code chooses.                                 *)
LEMMA GroupOfShelf ==
  ASSUME PricingTypeOK, UnitsGroupedOnce, BucketsKept, Building, NEW b, b = offers[turn],
         Fillable(b), NEW s, s = Shelf(b), NEW r, r = Rest(b), AreBuckets(s, buckets, r),
         NEW units, units = LinesOf(Chosen(b)), NEW t, t = OfLines(s, units)
  PROVE  /\ IsTaken(s, b, r, t) /\ AreBuckets(s, Taken(b), Without(s, r, t))
         /\ AreUnits(s, b.size, units)
<1> DEFINE m == b.size
           cs == Taken(b)
           z == Without(s, r, t)
<1>1. /\ turn \in DOMAIN offers /\ DOMAIN buckets = Keys(b) /\ 0 \in Keys(b) /\ Keys(b) \subseteq Nat
      /\ \A k \in Keys(b) : buckets[k] \in Seq(Unit) /\ Len(buckets[k]) \in Nat
      /\ \A k \in NonEmpty : k \in Keys(b) /\ Len(buckets[k]) > 0
  BY BucketsTyped DEF Unit
<1>2. /\ IsShelf(s) /\ IsOffer(b) /\ r \in [1 .. s.n -> Nat] /\ Part(s, r)
      /\ \A l \in 1 .. s.n : s.key[l] = BucketKey(l, b)
  BY <1>1, ShelfTyped, RestTyped DEF Part
<1>3. m \in Nat /\ m > 1 /\ b.differentModels \in BOOLEAN
  BY <1>2 DEF IsOffer
<1>4. units = [i \in 1 .. m |-> Chosen(b)[i][1]]
  BY GroupUnits
<1>5. ASSUME b.differentModels
      PROVE  IsTaken(s, b, r, t) /\ AreBuckets(s, cs, z) /\ AreUnits(s, m, units)
  <2>1. PICK key \in [1 .. m -> NonEmpty] : TakesFirst(key, b)
    BY <1>5, OfDifferentModels
  <2>2. /\ \A i, j \in 1 .. m : key[i] = key[j] => i = j
        /\ Chosen(b) = [i \in 1 .. m |-> buckets[key[i]][1]]
        /\ cs = [k \in Keys(b) |-> IF \E i \in 1 .. m : key[i] = k
                                     THEN Tail(buckets[k]) ELSE buckets[k]]
        /\ \A k \in Keys(b), i \in 1 .. m :
             (\A j \in 1 .. m : key[j] # k) => Len(buckets[k]) <= Len(buckets[key[i]])
    BY <2>1 DEF TakesFirst
  <2>3. \A i \in 1 .. m : key[i] \in Keys(b) /\ Len(buckets[key[i]]) > 0
    BY <1>1
  <2>4. key \in [1 .. m -> Nat]
    BY <1>1, <2>3
  <2>5. DOMAIN units = 1 .. m /\ \A i \in 1 .. m : units[i] = buckets[key[i]][1][1]
    <3>1. \A i \in 1 .. m : Chosen(b)[i] = buckets[key[i]][1]
      BY <2>2
    <3>2. DOMAIN units = 1 .. m /\ \A i \in 1 .. m : units[i] = Chosen(b)[i][1]
      BY <1>4
    <3> HIDE DEF m
    <3> QED
      BY <3>1, <3>2
  <2>6. ASSUME NEW i \in 1 .. m PROVE IsRest(cs[key[i]], buckets[key[i]], 1)
    <3> DEFINE q == buckets[key[i]]
    <3>1. q \in Seq(Unit) /\ Len(q) >= 1 /\ cs[key[i]] = Tail(q)
      BY <1>1, <2>2, <2>3
    <3> HIDE DEF q, cs
    <3>2. IsRest(Tail(q), q, 1)
      BY <3>1, RestOfSequence
    <3> QED
      BY <3>1, <3>2 DEF q
  <2>7. /\ DOMAIN cs = DOMAIN buckets
        /\ \A k \in DOMAIN buckets : (\A i \in 1 .. m : key[i] # k) => cs[k] = buckets[k]
    BY <1>1, <2>2
  <2>8. TakesHeads(b, buckets, key, units, cs)
    BY <1>1, <2>2, <2>3, <2>5, <2>6, <2>7 DEF TakesHeads
  <2> HIDE DEF cs
  <2> QED
    BY <1>2, <2>4, <2>8, HeadsTaken
<1>6. ASSUME ~b.differentModels
      PROVE  IsTaken(s, b, r, t) /\ AreBuckets(s, cs, z) /\ AreUnits(s, m, units)
  <2> DEFINE q == buckets[0]
             p == SubSeq(q, m + 1, Len(q))
  <2>1. Keys(b) = {0} /\ \A l \in 1 .. s.n : s.key[l] = 0
    BY <1>2, <1>6 DEF Keys, BucketKey
  <2>2. q \in Seq(Unit) /\ m <= Len(q) /\ Len(q) \in Nat
    BY <1>1, <1>6 DEF Fillable
  <2>3. cs = [buckets EXCEPT ![0] = p] /\ Chosen(b) = SubSeq(q, 1, m)
    BY <1>6 DEF Taken, Chosen
  <2> HIDE DEF q, cs
  <2>4. IsRest(p, q, m)
    BY <1>3, <2>2, RestOfSequence
  <2>5. \A i \in 1 .. m : SubSeq(q, 1, m)[i] = q[i]
    BY <1>3, <2>2
  <2>6. units = FirstOnes(q, m)
    <3>1. \A i \in 1 .. m : Chosen(b)[i][1] = q[i][1]
      BY <2>3, <2>5
    <3> HIDE DEF m
    <3>2. units = [i \in 1 .. m |-> q[i][1]]
      BY <1>4, <3>1
    <3> QED
      BY <3>2 DEF FirstOnes
  <2> HIDE DEF p
  <2>7. DOMAIN cs = {0} /\ cs[0] = p
    BY <1>1, <2>1, <2>3
  <2>8. TakesTop(b, buckets, units, cs)
    BY <1>1, <2>1, <2>4, <2>6, <2>7 DEF TakesTop, q
  <2> QED
    BY <1>2, <1>6, <2>1, <2>8, TopTaken
<1> QED
  BY <1>3, <1>5, <1>6

(* It is worth what it saves.                                              *)
LEMMA SavingOfShelf ==
  ASSUME PricingTypeOK, NEW m \in DOMAIN offers, NEW b, b = offers[m], NEW s, s = Shelf(b),
         NEW units \in Seq(EligibleLines(b)), NEW c, c = Len(units),
         NEW t, t = OfLines(s, units)
  PROVE  Saving(units, b) = Value(s, s.net, t) - b.fixedTotal
<1> DEFINE p == PricesOf(units)
           extra == [i \in 1 .. c |-> Surcharge(cart[units[i]].variant, b)]
           net == NetOf(s, c, units)
<1>1. c \in Nat /\ DOMAIN units = 1 .. c /\ \A i \in 1 .. c : units[i] \in EligibleLines(b)
  OBVIOUS
<1>2. b.fixedTotal \in Nat /\ \A l \in EligibleLines(b) : Surcharge(cart[l].variant, b) \in Nat
  BY OfferTyped
<1>3. /\ IsShelf(s) /\ \A l \in EligibleLines(b) : l \in 1 .. s.n
      /\ \A l \in 1 .. s.n : s.net[l] = Price(l) -
           (IF l \in EligibleLines(b) THEN Surcharge(cart[l].variant, b) ELSE 0)
      /\ DOMAIN cart = 1 .. s.n
  BY ShelfTyped
<1>4. /\ \A i \in 1 .. c : p[i] = Price(units[i])
      /\ Sum(p) = SumTo(p, c)
  <2>1. Len(p) = c /\ \A i \in 1 .. c : p[i] = Price(units[i])
    BY GroupAmounts
  <2> HIDE DEF p
  <2> QED
    BY <2>1 DEF Sum
<1>5. Saving(units, b) = Sum(p) - (b.fixedTotal + Sum(extra))
  <2>1. GroupTotal(units, b) = b.fixedTotal + Sum(extra)
    BY <1>1 DEF GroupTotal
  <2> QED
    BY <2>1 DEF Saving
<1>6. ASSUME NEW i \in 1 .. c
      PROVE  /\ net[i] \in Int /\ extra[i] \in Nat /\ p[i] \in Nat /\ p[i] = net[i] + extra[i]
  <2> DEFINE l == units[i]
  <2>1. /\ l \in EligibleLines(b) /\ l \in 1 .. s.n /\ Surcharge(cart[l].variant, b) \in Nat
        /\ Price(l) \in Nat
    BY <1>1, <1>2, <1>3, CartTyped
  <2>2. s.net[l] = Price(l) - Surcharge(cart[l].variant, b)
    BY <1>3, <2>1
  <2>3. p[i] = Price(l) /\ extra[i] = Surcharge(cart[l].variant, b) /\ net[i] = s.net[l]
    BY <1>4 DEF NetOf
  <2> HIDE DEF l, p, extra, net
  <2> QED
    BY <2>1, <2>2, <2>3
<1>7. extra \in [1 .. c -> Nat]
  BY <1>6
<1> HIDE DEF p, extra, net
<1>8. Sum(extra) = SumTo(extra, c) /\ SumTo(extra, c) \in Nat /\ SumTo(net, c) \in Int
  <2>1. Len(extra) = c
    BY <1>1, <1>7, SequenceOf
  <2> QED
    BY <1>1, <1>6, <2>1, SumToNat, SumToInt DEF Sum
<1>9. SumTo(p, c) = SumTo(net, c) + SumTo(extra, c)
  <2>1. \A i \in 1 .. c : net[i] \in Int /\ extra[i] \in Int /\ p[i] = net[i] + extra[i]
    BY <1>6
  <2> QED
    BY <1>1, <2>1, SumToPlus
<1>10. Value(s, s.net, t) = SumTo(net, c)
  <2>1. AreUnits(s, c, units)
    BY <1>1, <1>3 DEF AreUnits
  <2> QED
    BY <1>3, <2>1, UnitsCounted DEF net
<1> DEFINE x == SumTo(net, c)
           y == SumTo(extra, c)
           f == b.fixedTotal
<1>11. x \in Int /\ y \in Int /\ f \in Int /\ Saving(units, b) = (x + y) - (f + y)
  BY <1>2, <1>4, <1>5, <1>8, <1>9
<1> HIDE DEF x, y, f
<1>12. Saving(units, b) = x - f
  BY <1>11
<1> QED
  BY <1>10, <1>12 DEF x, f

(* What is left then.                                                      *)
LEMMA RestAfterGroup ==
  ASSUME PricingTypeOK, UnitsGroupedOnce, 1 \in DOMAIN offers, NEW b, b = offers[1],
         NEW units, NEW s, s = FirstShelf, NEW r, r = FirstRest, NEW t, t = OfLines(s, units),
         IsTaken(s, b, r, t), UNCHANGED inputVars,
         remaining' = [l \in DOMAIN remaining |-> remaining[l] - UnitsOf(l, units)]
  PROVE  FirstRest' = Without(s, r, t) /\ FirstShelf' = s
<1>1. /\ s.n = Len(cart) /\ DOMAIN cart = 1 .. s.n
      /\ \A l \in 1 .. s.n : r[l] = IF l \in EligibleLines(b) THEN remaining[l] ELSE 0
      /\ \A l \in 1 .. s.n : remaining[l] \in Nat
  BY ShelfTyped, RestTyped DEF FirstShelf, FirstRest
<1>2. /\ cart' = cart /\ offers'[1] = b /\ EligibleLines(b)' = EligibleLines(b)
      /\ \A l : Price(l)' = Price(l) /\ BucketKey(l, b)' = BucketKey(l, b)
  BY SameInput
<1>3. DOMAIN remaining = 1 .. s.n
  BY <1>1 DEF PricingTypeOK
<1>4. \A l \in 1 .. s.n : t[l] = UnitsOf(l, units) /\ t[l] \in Nat /\ t[l] <= r[l]
  BY DEF IsTaken, OfLines
<1>5. \A l \in 1 .. s.n : (IF l \in EligibleLines(b) THEN remaining'[l] ELSE 0) = r[l] - t[l]
  <2> SUFFICES ASSUME NEW l \in 1 .. s.n
               PROVE  (IF l \in EligibleLines(b) THEN remaining'[l] ELSE 0) = r[l] - t[l]
    OBVIOUS
  <2>1. remaining'[l] = remaining[l] - t[l]
    BY <1>3, <1>4
  <2>2. /\ r[l] = IF l \in EligibleLines(b) THEN remaining[l] ELSE 0
        /\ t[l] \in Nat /\ t[l] <= r[l]
    BY <1>1, <1>4
  <2> QED
    BY <2>1, <2>2
<1>6. FirstRest' = [l \in 1 .. s.n |-> IF l \in EligibleLines(b) THEN remaining'[l] ELSE 0]
  BY <1>1, <1>2 DEF FirstRest, Rest
<1>7. FirstRest' = Without(s, r, t)
  BY <1>5, <1>6 DEF Without
<1>8. FirstShelf' = s
  BY <1>2 DEF FirstShelf, Shelf
<1> QED
  BY <1>7, <1>8

(* The bundles' discount with a group more.                                *)
LEMMA DiscountGrows ==
  ASSUME PricingTypeOK, NEW g, g.discount \in Int, groups' = Append(groups, g)
  PROVE  /\ BundleDiscountTotal' = BundleDiscountTotal + g.discount
         /\ BundleDiscountTotal \in Int
<1> DEFINE n == Len(groups)
           f == [i \in 1 .. n |-> groups[i].discount]
           h == [i \in 1 .. n + 1 |-> groups'[i].discount]
<1>1. n \in Nat /\ DOMAIN groups = 1 .. n /\ \A i \in 1 .. n : groups[i].discount \in Int
  BY ConsumedTyped
<1>2. DOMAIN groups' = 1 .. n + 1 /\ groups'[n + 1] = g /\ \A i \in 1 .. n : groups'[i] = groups[i]
  BY <1>1, AppendProperties DEF PricingTypeOK
<1>3. BundleDiscountTotal = Sum(f) /\ BundleDiscountTotal' = Sum(h)
  BY <1>1, <1>2 DEF BundleDiscountTotal
<1>4. /\ \A i \in 1 .. n + 1 : h[i] = groups'[i].discount
      /\ \A i \in 1 .. n + 1 : groups'[i].discount \in Int
  <2>1. \A i \in 1 .. n + 1 : i \in 1 .. n \/ i = n + 1
    BY <1>1
  <2> QED
    BY <1>1, <1>2, <2>1
<1>5. h \in [1 .. n + 1 -> Int] /\ f \in [1 .. n -> Int]
  BY <1>1, <1>4
<1>6. h[n + 1] = g.discount /\ \A i \in 1 .. n : h[i] = f[i]
  BY <1>1, <1>2, <1>4
<1> HIDE DEF f, h, n
<1>7. Sum(h) = Sum(f) + h[n + 1] /\ Sum(f) \in Int
  BY <1>1, <1>5, <1>6, SumGrows
<1> QED
  BY <1>3, <1>6, <1>7

-----------------------------------------------------------------------------
(* A unit more on the shelf.                                               *)

(* The shelf of a cart c.                                                  *)
ShelfOf(c, b) ==
  [n |-> Len(c),
   stock |-> [l \in 1 .. Len(c) |-> IF IsEligible(c[l].variant, b) THEN c[l].quantity ELSE 0],
   key |-> [l \in 1 .. Len(c) |-> IF b.differentModels THEN Catalog[c[l].variant].model ELSE 0],
   price |-> [l \in 1 .. Len(c) |-> EffectiveUnitPrice(c[l].variant)],
   net |-> [l \in 1 .. Len(c) |-> EffectiveUnitPrice(c[l].variant) -
              (IF IsEligible(c[l].variant, b) THEN Surcharge(c[l].variant, b) ELSE 0)]]

(* It is the same shelf, before and after a step.                          *)
LEMMA ShelfNow ==
  ASSUME NEW b
  PROVE  /\ DOMAIN cart = 1 .. Len(cart) => Shelf(b) = ShelfOf(cart, b)
         /\ DOMAIN cart' = 1 .. Len(cart') => Shelf(b)' = ShelfOf(cart', b)
<1>1. ASSUME DOMAIN cart = 1 .. Len(cart) PROVE Shelf(b) = ShelfOf(cart, b)
  <2>1. \A l \in 1 .. Len(cart) : /\ l \in EligibleLines(b) <=> IsEligible(cart[l].variant, b)
                                  /\ Price(l) = EffectiveUnitPrice(cart[l].variant)
                                  /\ BucketKey(l, b) = IF b.differentModels
                                       THEN Catalog[cart[l].variant].model ELSE 0
    BY <1>1 DEF EligibleLines, Price, BucketKey, Model
  <2> QED
    BY <2>1 DEF Shelf, ShelfOf
<1>2. ASSUME DOMAIN cart' = 1 .. Len(cart') PROVE Shelf(b)' = ShelfOf(cart', b)
  <2>1. \A l \in 1 .. Len(cart') : /\ l \in EligibleLines(b)' <=> IsEligible(cart'[l].variant, b)
                                   /\ Price(l)' = EffectiveUnitPrice(cart'[l].variant)
                                   /\ BucketKey(l, b)' = IF b.differentModels
                                        THEN Catalog[cart'[l].variant].model ELSE 0
    BY <1>2 DEF EligibleLines, Price, BucketKey, Model
  <2> QED
    BY <2>1 DEF Shelf, ShelfOf
<1> QED
  BY <1>1, <1>2

(* A cart.                                                                 *)
IsCart(c) ==
  /\ Len(c) \in Nat
  /\ \A l \in 1 .. Len(c) : c[l].variant \in DOMAIN Catalog /\ c[l].quantity \in Nat \ {0}

(* Its shelf, line by line.                                                *)
LEMMA ShelfOfCart ==
  ASSUME PricingTypeOK, NEW m \in DOMAIN offers, NEW b, b = offers[m],
         NEW c, IsCart(c), NEW s, s = ShelfOf(c, b)
  PROVE  /\ IsShelf(s) /\ s.n = Len(c)
         /\ \A l \in 1 .. s.n :
              /\ s.stock[l] = IF IsEligible(c[l].variant, b) THEN c[l].quantity ELSE 0
              /\ s.key[l] = IF b.differentModels THEN Catalog[c[l].variant].model ELSE 0
              /\ s.price[l] = EffectiveUnitPrice(c[l].variant)
              /\ s.net[l] = EffectiveUnitPrice(c[l].variant) -
                   (IF IsEligible(c[l].variant, b) THEN Surcharge(c[l].variant, b) ELSE 0)
<1> DEFINE n == Len(c)
<1>1. n \in Nat /\ \A l \in 1 .. n : c[l].variant \in DOMAIN Catalog /\ c[l].quantity \in Nat
  BY DEF IsCart
<1>2. \A v \in DOMAIN Catalog :
        /\ EffectiveUnitPrice(v) \in Nat /\ Catalog[v].model \in Nat
        /\ IsEligible(v, b) => Surcharge(v, b) \in Nat
  <2>1. \A v \in DOMAIN Catalog :
          Catalog[v].price \in Nat /\ Catalog[v].fee \in Nat /\ Catalog[v].model \in Nat
    BY PricingAssumption DEF PricingAssumption
  <2>2. \A v \in DOMAIN Catalog : EffectiveUnitPrice(v) \in Nat
    BY <2>1 DEF EffectiveUnitPrice
  <2>3. \A v \in DOMAIN Catalog : IsEligible(v, b) => Surcharge(v, b) \in Nat
    BY VariantBounds
  <2> QED
    BY <2>1, <2>2, <2>3
<1>3. /\ s.n = n
      /\ s.stock = [l \in 1 .. n |-> IF IsEligible(c[l].variant, b) THEN c[l].quantity ELSE 0]
      /\ s.key = [l \in 1 .. n |-> IF b.differentModels THEN Catalog[c[l].variant].model ELSE 0]
      /\ s.price = [l \in 1 .. n |-> EffectiveUnitPrice(c[l].variant)]
      /\ s.net = [l \in 1 .. n |-> EffectiveUnitPrice(c[l].variant) -
                    (IF IsEligible(c[l].variant, b) THEN Surcharge(c[l].variant, b) ELSE 0)]
  BY DEF ShelfOf
<1> HIDE DEF n
<1>4. s.stock \in [1 .. n -> Nat]
  BY <1>1, <1>3
<1>5. s.key \in [1 .. n -> Nat]
  BY <1>1, <1>2, <1>3
<1>6. s.price \in [1 .. n -> Nat]
  BY <1>1, <1>2, <1>3
<1>7. s.net \in [1 .. n -> Int]
  <2>1. \A l \in 1 .. n : EffectiveUnitPrice(c[l].variant) -
          (IF IsEligible(c[l].variant, b) THEN Surcharge(c[l].variant, b) ELSE 0) \in Int
    BY <1>1, <1>2
  <2> QED
    BY <1>3, <2>1
<1>8. IsShelf(s)
  BY <1>1, <1>3, <1>4, <1>5, <1>6, <1>7 DEF IsShelf
<1> QED
  BY <1>3, <1>8 DEF n

(* A unit that the offer can use comes to it.                              *)
LEMMA ShelfWithUnit ==
  ASSUME PricingTypeOK, NEW m \in DOMAIN offers, NEW b, b = offers[m],
         NEW c, IsCart(c), NEW d, IsCart(d), NEW v \in DOMAIN Catalog, IsEligible(v, b),
         NEW j, IsWith(c, d, v, j), NEW s, s = ShelfOf(c, b), NEW t, t = ShelfOf(d, b)
  PROVE  /\ HasUnitMore(s, t, j)
         /\ t.key[j] = IF b.differentModels THEN Catalog[v].model ELSE 0
         /\ Bounded(t, MinUnitPrice(b), MaxSurcharge(b))
<1>1. /\ IsShelf(s) /\ s.n = Len(c)
      /\ \A l \in 1 .. s.n :
           /\ s.stock[l] = IF IsEligible(c[l].variant, b) THEN c[l].quantity ELSE 0
           /\ s.key[l] = IF b.differentModels THEN Catalog[c[l].variant].model ELSE 0
           /\ s.price[l] = EffectiveUnitPrice(c[l].variant)
           /\ s.net[l] = EffectiveUnitPrice(c[l].variant) -
                (IF IsEligible(c[l].variant, b) THEN Surcharge(c[l].variant, b) ELSE 0)
  BY ShelfOfCart
<1>2. /\ IsShelf(t) /\ t.n = Len(d)
      /\ \A l \in 1 .. t.n :
           /\ t.stock[l] = IF IsEligible(d[l].variant, b) THEN d[l].quantity ELSE 0
           /\ t.key[l] = IF b.differentModels THEN Catalog[d[l].variant].model ELSE 0
           /\ t.price[l] = EffectiveUnitPrice(d[l].variant)
           /\ t.net[l] = EffectiveUnitPrice(d[l].variant) -
                (IF IsEligible(d[l].variant, b) THEN Surcharge(d[l].variant, b) ELSE 0)
  BY ShelfOfCart
<1>3. /\ s.n \in Nat /\ t.n \in Nat /\ j \in 1 .. t.n /\ d[j].variant = v
      /\ t.n = s.n \/ (t.n = s.n + 1 /\ j = t.n)
      /\ \A l \in 1 .. s.n : d[l].variant = c[l].variant /\ l \in 1 .. t.n
      /\ \A l \in 1 .. t.n :
           d[l].quantity = (IF l <= s.n THEN c[l].quantity ELSE 0) + (IF l = j THEN 1 ELSE 0)
      /\ \A l \in 1 .. s.n : c[l].quantity \in Nat
  <2>1. /\ Len(c) \in Nat /\ \A l \in 1 .. Len(c) : c[l].quantity \in Nat
    BY DEF IsCart
  <2>2. /\ Len(d) \in Nat /\ j \in 1 .. Len(d) /\ d[j].variant = v
        /\ Len(d) = Len(c) \/ (Len(d) = Len(c) + 1 /\ j = Len(d))
        /\ \A l \in 1 .. Len(c) : d[l].variant = c[l].variant
        /\ \A l \in 1 .. Len(d) :
             d[l].quantity = (IF l <= Len(c) THEN c[l].quantity ELSE 0) + (IF l = j THEN 1 ELSE 0)
    BY DEF IsWith
  <2> DEFINE x == Len(c)
             y == Len(d)
  <2>3. s.n = x /\ t.n = y
    BY <1>1, <1>2
  <2>4. \A l \in 1 .. x : l \in 1 .. y
    <3>1. x \in Nat /\ y \in Nat /\ (y = x \/ y = x + 1)
      BY <2>1, <2>2
    <3> HIDE DEF x, y
    <3> QED
      BY <3>1
  <2> QED
    BY <2>1, <2>2, <2>3, <2>4
<1>4. \A l \in 1 .. s.n : t.key[l] = s.key[l] /\ t.price[l] = s.price[l] /\ t.net[l] = s.net[l]
  BY <1>1, <1>2, <1>3
<1>5. HasLines(s, t)
  BY <1>1, <1>2, <1>3, <1>4 DEF HasLines
<1>6. ASSUME NEW l \in 1 .. t.n
      PROVE  t.stock[l] = (IF l <= s.n THEN s.stock[l] ELSE 0) + (IF l = j THEN 1 ELSE 0)
  <2>1. CASE l \in 1 .. s.n
    <3>1. /\ t.stock[l] = IF IsEligible(c[l].variant, b) THEN d[l].quantity ELSE 0
          /\ s.stock[l] = IF IsEligible(c[l].variant, b) THEN c[l].quantity ELSE 0
          /\ d[l].quantity = c[l].quantity + (IF l = j THEN 1 ELSE 0) /\ c[l].quantity \in Nat
          /\ l <= s.n
      BY <1>1, <1>2, <1>3, <2>1
    <3>2. l = j => IsEligible(c[l].variant, b)
      BY <1>3, <2>1
    <3> QED
      BY <3>1, <3>2
  <2>2. CASE l \notin 1 .. s.n
    <3>1. ~(l <= s.n) /\ l = j
      BY <1>3, <2>2
    <3>2. d[l].quantity = 0 + 1 /\ IsEligible(d[l].variant, b)
      BY <1>3, <3>1
    <3> QED
      BY <1>2, <3>1, <3>2
  <2> QED
    BY <2>1, <2>2
<1>7. OneMore(s, s.stock, t, t.stock, j)
  BY <1>1, <1>2, <1>3, <1>6 DEF OneMore, IsShelf
<1>8. HasUnitMore(s, t, j)
  BY <1>3, <1>5, <1>7 DEF HasUnitMore
<1>9. t.key[j] = IF b.differentModels THEN Catalog[v].model ELSE 0
  BY <1>2, <1>3
<1> DEFINE lo == MinUnitPrice(b)
           hi == MaxSurcharge(b)
<1>10. lo \in Nat /\ hi \in Nat
  BY VariantBounds
<1>11. ASSUME NEW l \in 1 .. t.n, t.stock[l] > 0
       PROVE  t.price[l] >= lo /\ t.net[l] >= t.price[l] - hi
  <2> DEFINE w == d[l].variant
             e == Surcharge(w, b)
             p == EffectiveUnitPrice(w)
  <2>1. IsEligible(w, b) /\ w \in DOMAIN Catalog
    BY <1>2, <1>11 DEF IsCart
  <2>2. t.price[l] = p /\ t.net[l] = p - e
    BY <1>2, <2>1
  <2>3. p \in Nat /\ p >= lo /\ e \in Nat /\ e <= hi
    BY <2>1, VariantBounds
  <2> HIDE DEF w, e, p, lo, hi
  <2> QED
    BY <1>10, <2>2, <2>3
<1>12. Bounded(t, lo, hi)
  BY <1>10, <1>11 DEF Bounded
<1> QED
  BY <1>8, <1>9, <1>12

(* The subtotal does not fall.                                             *)
LEMMA SubtotalGrows ==
  ASSUME PricingTypeOK, NEW v, NEW j, IsWith(cart, cart', v, j), IsCart(cart')
  PROVE  Subtotal' >= Subtotal /\ Subtotal \in Int /\ Subtotal' \in Int
<1> DEFINE n == Len(cart)
           d == cart'
           m == Len(d)
           f == [l \in 1 .. n |-> Price(l) * cart[l].quantity]
           h == [l \in 1 .. m |-> EffectiveUnitPrice(d[l].variant) * d[l].quantity]
           e == [l \in 1 .. n |-> h[l]]
<1>1. /\ n \in Nat /\ DOMAIN cart = 1 .. n
      /\ \A l \in 1 .. n : Price(l) \in Nat /\ cart[l].quantity \in Nat
  BY CartTyped
<1>2. /\ m \in Nat /\ DOMAIN d = 1 .. m /\ j \in 1 .. m /\ (m = n \/ m = n + 1)
      /\ \A l \in 1 .. n : d[l].variant = cart[l].variant /\ l \in 1 .. m
      /\ \A l \in 1 .. m :
           d[l].quantity = (IF l <= n THEN cart[l].quantity ELSE 0) + (IF l = j THEN 1 ELSE 0)
  <2>1. /\ m \in Nat /\ DOMAIN d = 1 .. m /\ j \in 1 .. m /\ (m = n \/ m = n + 1)
        /\ \A l \in 1 .. n : d[l].variant = cart[l].variant
        /\ \A l \in 1 .. m :
             d[l].quantity = (IF l <= n THEN cart[l].quantity ELSE 0) + (IF l = j THEN 1 ELSE 0)
    BY DEF IsWith
  <2> HIDE DEF n, m, d
  <2>2. \A l \in 1 .. n : l \in 1 .. m
    BY <1>1, <2>1
  <2> QED
    BY <2>1, <2>2
<1>3. Subtotal = Sum(f) /\ Subtotal' = Sum(h)
  BY <1>1, <1>2 DEF Subtotal, Price
<1>4. \A l \in 1 .. m : EffectiveUnitPrice(d[l].variant) \in Nat /\ d[l].quantity \in Nat
  <2>1. \A w \in DOMAIN Catalog : Catalog[w].price \in Nat /\ Catalog[w].fee \in Nat
    BY PricingAssumption DEF PricingAssumption
  <2>2. \A w \in DOMAIN Catalog : EffectiveUnitPrice(w) \in Nat
    BY <2>1 DEF EffectiveUnitPrice
  <2> QED
    BY <2>2 DEF IsCart
<1>5. \A i, k \in Nat : i * k \in Nat
  OBVIOUS
<1>6. \A l \in 1 .. n : f[l] \in Nat
  BY <1>1, <1>5
<1>7. \A l \in 1 .. m : h[l] \in Nat
  BY <1>4, <1>5
<1>8. \A l \in 1 .. n : f[l] <= h[l]
  <2> SUFFICES ASSUME NEW l \in 1 .. n PROVE f[l] <= h[l]
    OBVIOUS
  <2> DEFINE p == Price(l)
             a == cart[l].quantity
             c == IF l = j THEN 1 ELSE 0
  <2>1. h[l] = p * (a + c) /\ f[l] = p * a
    <3>0. l \in 1 .. m /\ l <= n /\ d[l].variant = cart[l].variant
      <4> HIDE DEF n, m, d
      <4> QED
        BY <1>1, <1>2
    <3>1. EffectiveUnitPrice(d[l].variant) = p /\ l \in 1 .. m /\ l <= n
      <4> HIDE DEF n, m, d
      <4> QED
        BY <3>0 DEF Price
    <3>2. d[l].quantity = a + c
      BY <1>2, <3>1
    <3> QED
      BY <3>1, <3>2
  <2>2. p \in Nat /\ a \in Nat /\ c \in Nat
    BY <1>1
  <2> HIDE DEF p, a, c, f, h
  <2>3. p * (a + c) = p * a + p * c /\ p * a \in Nat /\ p * c \in Nat
    BY <2>2
  <2> QED
    BY <2>1, <2>3
<1>9. f \in [1 .. n -> Int] /\ h \in [1 .. m -> Int]
  BY <1>6, <1>7
<1> HIDE DEF n, m, d, f, h
<1>10. e \in [1 .. n -> Int] /\ \A l \in 1 .. n : e[l] = h[l] /\ e[l] \in Int /\ f[l] \in Int /\ f[l] <= e[l]
  BY <1>2, <1>6, <1>7, <1>8
<1> HIDE DEF e
<1>11. /\ Len(e) = n /\ Len(f) = n /\ Len(h) = m
  BY <1>1, <1>2, <1>9, <1>10, SequenceOf
<1>12. SumTo(f, n) <= SumTo(e, n) /\ SumTo(f, n) \in Int /\ SumTo(e, n) \in Int
  BY <1>1, <1>10, SumToAtMost, SumToInt
<1>13. SumTo(h, m) \in Int
  <2>1. \A l \in 1 .. m : h[l] \in Int
    BY <1>7
  <2> QED
    BY <1>2, <2>1, SumToInt
<1>14. SumTo(e, n) <= SumTo(h, m)
  <2>0. SumTo(e, n) = SumTo(h, n)
    BY <1>1, <1>10, SumToSame
  <2>1. CASE m = n
    BY <1>12, <2>0, <2>1
  <2>2. CASE m = n + 1
    <3>1. SumTo(h, n + 1) = SumTo(h, n) + h[n + 1]
      BY <1>1, SumToStep
    <3>2. h[n + 1] \in Nat
      BY <1>1, <1>7, <2>2
    <3> QED
      BY <1>12, <2>0, <2>2, <3>1, <3>2
  <2> QED
    BY <1>2, <2>1, <2>2
<1> QED
  BY <1>3, <1>11, <1>12, <1>13, <1>14 DEF Sum

-----------------------------------------------------------------------------
(* What is shown of an offer that may have a group more.                   *)

(* The free lines are those of which units are left.                       *)
LEMMA FreeOfShelf ==
  ASSUME PricingTypeOK, UnitsGroupedOnce, NEW m \in DOMAIN offers, NEW b, b = offers[m],
         NEW s, s = Shelf(b), NEW r, r = Rest(b)
  PROVE  /\ Free(b) = {l \in 1 .. s.n : r[l] > 0}
         /\ \A l \in 1 .. s.n : r[l] = (IF l \in Free(b) THEN Left(l) ELSE 0)
         /\ \A l \in Free(b) : l \in 1 .. s.n /\ r[l] = Left(l)
<1>1. /\ \A l \in EligibleLines(b) : l \in 1 .. s.n
      /\ \A l \in 1 .. s.n : r[l] = IF l \in EligibleLines(b) THEN remaining[l] ELSE 0
      /\ \A l \in 1 .. s.n : Left(l) = remaining[l] /\ remaining[l] \in Nat
  BY ShelfTyped, RestTyped
<1>2. \A l : l \in Free(b) <=> l \in EligibleLines(b) /\ Left(l) > 0
  BY DEF Free
<1>3. \A l \in 1 .. s.n : l \in Free(b) <=> r[l] > 0
  BY <1>1, <1>2
<1>4. \A l \in Free(b) : l \in 1 .. s.n
  BY <1>1, <1>2
<1>5. Free(b) = {l \in 1 .. s.n : r[l] > 0}
  BY <1>3, <1>4
<1>6. \A l \in 1 .. s.n : r[l] = (IF l \in Free(b) THEN Left(l) ELSE 0)
  <2> SUFFICES ASSUME NEW l \in 1 .. s.n PROVE r[l] = (IF l \in Free(b) THEN Left(l) ELSE 0)
    OBVIOUS
  <2>1. CASE l \in Free(b)
    BY <1>1, <1>2, <2>1
  <2>2. CASE l \notin Free(b)
    BY <1>1, <1>2, <2>2
  <2> QED
    BY <2>1, <2>2
<1> QED
  BY <1>4, <1>5, <1>6

(* What they come to.                                                      *)
LEMMA LeftoverOfShelf ==
  ASSUME PricingTypeOK, UnitsGroupedOnce, NEW m \in DOMAIN offers, NEW b, b = offers[m],
         NEW s, s = Shelf(b), NEW r, r = Rest(b)
  PROVE  /\ b.differentModels =>
              /\ FreeModels(b) = KeysLeft(s, r)
              /\ LeftoverPrice(b) = Value(s, s.price, Ones(s, CheapestLines(s, r)))
         /\ ~b.differentModels =>
              /\ FreeUnits(b) = Count(s, r) /\ LeftoverPrice(b) = Value(s, s.price, r)
<1> DEFINE n == s.n
<1>1. /\ IsShelf(s) /\ DOMAIN cart = 1 .. n /\ n \in Nat
      /\ \A l \in 1 .. n : s.key[l] = BucketKey(l, b) /\ s.price[l] = Price(l) /\ Price(l) \in Nat
  BY ShelfTyped, CartTyped DEF IsShelf
<1>2. /\ Free(b) = {l \in 1 .. n : r[l] > 0}
      /\ \A l \in 1 .. n : r[l] = (IF l \in Free(b) THEN Left(l) ELSE 0)
      /\ \A l \in Free(b) : r[l] = Left(l)
  BY FreeOfShelf
<1>3. r \in [1 .. n -> Nat]
  BY RestTyped DEF Part
<1>4. ASSUME b.differentModels
      PROVE  /\ FreeModels(b) = KeysLeft(s, r)
             /\ LeftoverPrice(b) = Value(s, s.price, Ones(s, CheapestLines(s, r)))
  <2> DEFINE R == CheapestLines(s, r)
             f == [l \in 1 .. n |-> IF l \in Cheapest(b) THEN Price(l) ELSE 0]
             h == Times(s, s.price, Ones(s, R))
  <2>1. \A l \in 1 .. n : s.key[l] = Model(l)
    BY <1>1, <1>4 DEF BucketKey
  <2>2. FreeModels(b) = KeysLeft(s, r)
    <3>1. KeysLeft(s, r) = {s.key[l] : l \in Free(b)}
      BY <1>2 DEF KeysLeft
    <3> QED
      BY <1>2, <2>1, <3>1 DEF FreeModels
  <2>3. Cheapest(b) = R
    <3>1. \A l : l \in R <=>
            /\ l \in Free(b)
            /\ \A o \in Free(b) : s.key[o] = s.key[l] =>
                 s.price[l] < s.price[o] \/ (s.price[l] = s.price[o] /\ l <= o)
      BY <1>2 DEF CheapestLines
    <3>2. \A l : l \in Cheapest(b) <=>
            /\ l \in Free(b)
            /\ \A o \in Free(b) : Model(o) = Model(l) =>
                 Price(l) < Price(o) \/ (Price(l) = Price(o) /\ l <= o)
      BY DEF Cheapest
    <3>3. \A l \in Free(b) : s.key[l] = Model(l) /\ s.price[l] = Price(l)
      BY <1>1, <1>2, <2>1
    <3> HIDE DEF R
    <3>4. \A l : l \in R <=> l \in Cheapest(b)
      BY <3>1, <3>2, <3>3
    <3> QED
      BY <3>4
  <2>4. LeftoverPrice(b) = Sum(f)
    BY <1>1, <1>4 DEF LeftoverPrice
  <2>5. \A l \in 1 .. n : f[l] = h[l]
    <3> SUFFICES ASSUME NEW l \in 1 .. n PROVE f[l] = h[l]
      OBVIOUS
    <3> DEFINE c == Ones(s, R)[l]
    <3>1. h[l] = s.price[l] * c /\ c = IF l \in R THEN 1 ELSE 0
      BY DEF Times, Ones
    <3>2. f[l] = IF l \in R THEN s.price[l] ELSE 0
      BY <1>1, <2>3
    <3>3. s.price[l] \in Nat
      BY <1>1
    <3> HIDE DEF c, f, h
    <3> QED
      BY <3>1, <3>2, <3>3
  <2>6. \A l \in 1 .. n : f[l] \in Nat
    BY <1>1
  <2>7. f \in [1 .. n -> Nat]
    BY <2>6
  <2> HIDE DEF f, h
  <2>8. Sum(f) = SumTo(f, n)
    <3>1. Len(f) = n
      BY <1>1, <2>7, SequenceOf
    <3> QED
      BY <3>1 DEF Sum
  <2>9. SumTo(f, n) = SumTo(h, n)
    BY <1>1, <2>5, SumToSame
  <2> QED
    BY <2>2, <2>4, <2>8, <2>9 DEF Value, h
<1>5. ASSUME ~b.differentModels
      PROVE  FreeUnits(b) = Count(s, r) /\ LeftoverPrice(b) = Value(s, s.price, r)
  <2> DEFINE e == [l \in 1 .. n |-> IF l \in Free(b) THEN Left(l) ELSE 0]
             f == [l \in 1 .. n |-> IF l \in Free(b) THEN Left(l) * Price(l) ELSE 0]
             h == Times(s, s.price, r)
  <2>1. FreeUnits(b) = Sum(e) /\ LeftoverPrice(b) = Sum(f)
    BY <1>1, <1>5 DEF FreeUnits, LeftoverPrice
  <2>2. \A l \in 1 .. n : e[l] = r[l]
    BY <1>2
  <2>3. \A l \in 1 .. n : f[l] = h[l] /\ f[l] \in Int
    <3> SUFFICES ASSUME NEW l \in 1 .. n PROVE f[l] = h[l] /\ f[l] \in Int
      OBVIOUS
    <3>1. h[l] = s.price[l] * r[l] /\ s.price[l] = Price(l) /\ Price(l) \in Nat /\ r[l] \in Nat
      BY <1>1, <1>3 DEF Times
    <3>2. f[l] = IF l \in Free(b) THEN r[l] * Price(l) ELSE 0
      BY <1>2
    <3>3. l \notin Free(b) => r[l] = 0
      BY <1>2
    <3> HIDE DEF f, h
    <3> DEFINE p == Price(l)
               c == r[l]
    <3>4. p * c = c * p /\ c * p \in Int /\ (c = 0 => p * c = 0)
      <4>1. p \in Nat /\ c \in Nat
        BY <3>1
      <4> HIDE DEF p, c
      <4> QED
        BY <4>1
    <3> QED
      BY <3>1, <3>2, <3>3, <3>4
  <2>4. e \in [1 .. n -> Int]
    <3>1. \A l \in 1 .. n : e[l] \in Int
      BY <1>3, <2>2
    <3> QED
      BY <3>1
  <2>5. f \in [1 .. n -> Int]
    BY <2>3
  <2> HIDE DEF e, f, h
  <2>6. Sum(e) = SumTo(e, n) /\ Sum(f) = SumTo(f, n)
    <3>1. Len(e) = n /\ Len(f) = n
      BY <1>1, <2>4, <2>5, SequenceOf
    <3> QED
      BY <3>1 DEF Sum
  <2>7. SumTo(e, n) = SumTo(r, n)
    BY <1>1, <2>2, SumToSame
  <2>8. SumTo(f, n) = SumTo(h, n)
    BY <1>1, <2>3, SumToSame
  <2> QED
    BY <2>1, <2>6, <2>7, <2>8 DEF Value, Count, h
<1> QED
  BY <1>4, <1>5

(* What the view of the cart shows is a promise.                           *)
LEMMA WhatIsShown ==
  ASSUME PricingTypeOK, UnitsGroupedOnce, 1 \in DOMAIN offers, NEW b, b = offers[1],
         NEW s, s = Shelf(b), NEW r, r = Rest(b), NEW g, NEW d, Stands(s, b, r, g, d),
         Formed(1) = {} => g = 0, EligibleLines(b) # {}, SavingsIfCompleted(1) > 0
  PROVE  /\ UnitsNeeded(1) > 0 /\ Bounded(s, MinUnitPrice(b), MaxSurcharge(b))
         /\ \E x : Promise(s, b, x, g + 1, UnitsNeeded(1), d + SavingsIfCompleted(1), FreeModels(b),
                           MinUnitPrice(b), MaxSurcharge(b))
<1> DEFINE lo == MinUnitPrice(b)
           hi == MaxSurcharge(b)
           m == UnitsNeeded(1)
           gain == SavingsIfCompleted(1)
           cost == LeftoverPrice(b)
           have == IF b.differentModels THEN Cardinality(FreeModels(b)) ELSE FreeUnits(b)
<1>1. /\ IsShelf(s) /\ IsOffer(b) /\ Part(s, r)
      /\ \A l \in 1 .. s.n : s.key[l] = BucketKey(l, b)
  BY ShelfTyped, RestTyped
<1>2. Bounded(s, lo, hi)
  BY Bounds
<1>3. lo \in Nat /\ hi \in Nat /\ b.size \in Nat /\ b.fixedTotal \in Nat
  BY <1>1, <1>2 DEF Bounded, IsOffer
<1>4. m # 0 /\ gain = Max({0, cost + m * lo - (b.fixedTotal + b.size * hi)})
  BY DEF SavingsIfCompleted
<1>5. (b.repeatable \/ Formed(1) = {}) /\ m = Max({0, b.size - have})
  BY <1>4 DEF UnitsNeeded
<1>6. g = 0 \/ b.repeatable
  BY <1>5
<1> HIDE DEF m, gain
<1>7. ASSUME NEW p \in Nat, NEW q \in Int, have = p, cost = q
      PROVE  m \in Nat /\ m > 0 /\ m = b.size - p /\ gain = GainOf(b, q, m, lo, hi) /\ gain \in Int
  <2>1. m = Max({0, b.size - p})
    BY <1>5, <1>7
  <2>2. m = IF 0 >= b.size - p THEN 0 ELSE b.size - p
    BY <1>3, <2>1, MaxOfTwo
  <2>3. m \in Nat /\ m > 0 /\ m = b.size - p
    BY <1>3, <1>4, <2>2
  <2> DEFINE x == GainOf(b, q, m, lo, hi)
  <2>4. gain = Max({0, x})
    BY <1>4, <1>7 DEF GainOf
  <2>5. x \in Int
    BY <1>3, <2>3 DEF GainOf
  <2> HIDE DEF x
  <2>6. gain = IF 0 >= x THEN 0 ELSE x
    BY <2>4, <2>5, MaxOfTwo
  <2>7. gain = x
    BY <2>5, <2>6 DEF gain
  <2> QED
    BY <2>3, <2>5, <2>7 DEF x
<1>8. CASE b.differentModels
  <2> DEFINE R == CheapestLines(s, r)
             p == Cardinality(KeysLeft(s, r))
             q == Value(s, s.price, Ones(s, R))
  <2>1. /\ FreeModels(b) = KeysLeft(s, r) /\ cost = q
    BY <1>8, LeftoverOfShelf
  <2>2. IsChoice(s, r, R)
    BY <1>1, CheapestChosen
  <2>3. Part(s, Ones(s, R)) /\ p \in Nat
    BY <1>1, <2>2, ChoiceCount
  <2>4. q \in Int
    BY <1>1, <2>3, PartCounts
  <2>5. have = p
    BY <1>8, <2>1
  <2> HIDE DEF have, p, q, cost, R
  <2>6. m \in Nat /\ m > 0 /\ m = b.size - p /\ gain = GainOf(b, q, m, lo, hi)
    BY <1>7, <2>1, <2>3, <2>4, <2>5
  <2>7. \E x : Promise(s, b, x, g + 1, m, d + gain, KeysLeft(s, r), lo, hi)
    <3>1. m = b.size - Cardinality(KeysLeft(s, r))
      BY <2>6 DEF p
    <3>2. gain = GainOf(b, Value(s, s.price, Ones(s, CheapestLines(s, r))), m, lo, hi)
      BY <2>6 DEF q, R
    <3> HIDE DEF lo, hi
    <3> QED
      BY <1>1, <1>2, <1>6, <1>8, <2>6, <3>1, <3>2, ShownOfDifferent
  <2> QED
    BY <1>2, <2>1, <2>6, <2>7 DEF m, gain
<1>9. CASE ~b.differentModels
  <2> DEFINE p == Count(s, r)
             q == Value(s, s.price, r)
  <2>1. FreeUnits(b) = p /\ cost = q
    BY <1>9, LeftoverOfShelf
  <2>2. p \in Nat /\ q \in Int
    BY <1>1, PartCounts
  <2>3. have = p
    BY <1>9, <2>1
  <2>4. \A l \in 1 .. s.n : s.key[l] = 0
    BY <1>1, <1>9 DEF BucketKey
  <2> HIDE DEF have, p, q, cost
  <2>5. m \in Nat /\ m > 0 /\ m = b.size - p /\ gain = GainOf(b, q, m, lo, hi) /\ gain \in Int
    BY <1>7, <2>1, <2>2, <2>3
  <2>6. \A models : Promise(s, b, s.stock, g + 1, m, d + gain, models, lo, hi)
    <3>1. m = b.size - Count(s, r)
      BY <2>5 DEF p
    <3>2. gain = GainOf(b, Value(s, s.price, r), m, lo, hi)
      BY <2>5 DEF q
    <3>3. gain > 0
      BY DEF gain
    <3> HIDE DEF lo, hi
    <3> QED
      BY <1>1, <1>2, <1>6, <1>9, <2>4, <2>5, <3>1, <3>2, <3>3, ShownOfAny
  <2> QED
    BY <1>2, <2>5, <2>6 DEF m, gain
<1> QED
  BY <1>1, <1>8, <1>9 DEF IsOffer

-----------------------------------------------------------------------------
(* The only offer saves what was shown.                                    *)

(* The premise of SavingsAsShown.                                          *)
OnlyOffer ==
  /\ Len(offers) = 1 /\ ~Blocked(offers[1])
  /\ offers[1].differentModels => Pays(offers[1])

(* What was shown, w, is a promise; once it has come true the groups that  *)
(* it speaks of save as much.                                              *)
ShownHolds(b, s, g, d, w) ==
  w # Nothing =>
    /\ w = [offer |-> 1, needed |-> w.needed, savings |-> w.savings,
            discount |-> w.discount, models |-> w.models]
    /\ Bounded(s, MinUnitPrice(b), MaxSurcharge(b))
    /\ \E x, k :
         /\ Promise(s, b, x, k, w.needed, w.discount + w.savings, w.models,
                    MinUnitPrice(b), MaxSurcharge(b))
         /\ w.needed = 0 /\ g >= k => d >= w.discount + w.savings

(* The inductive invariant: where the offer stands, in its buckets too     *)
(* while it is at work, and that it has ended afterwards.                  *)
OfferKept(b, s, r, formed, d, waiting, n, w) ==
  /\ \A i \in DOMAIN formed : formed[i].offer = 1
  /\ Stands(s, b, r, Len(formed), d)
  /\ n = 1 /\ waiting # NotBuilt => AreBuckets(s, waiting, r)
  /\ n # 1 => Ended(s, b, r, Len(formed))
  /\ ShownHolds(b, s, Len(formed), d, w)

(* That is the invariant for a cart with one offer.                        *)
SavedKept ==
  OnlyOffer =>
    OfferKept(offers[1], FirstShelf, FirstRest, groups, BundleDiscountTotal, buckets, turn, shown)

(* None of it depends on more than the input and what has been formed.     *)
LEMMA SameOnly ==
  ASSUME UNCHANGED inputVars
  PROVE  /\ OnlyOffer' <=> OnlyOffer
         /\ offers'[1] = offers[1] /\ FirstShelf' = FirstShelf
         /\ remaining' = remaining => FirstRest' = FirstRest
         /\ groups' = groups => BundleDiscountTotal' = BundleDiscountTotal
<1>1. /\ cart' = cart /\ offers' = offers
      /\ \A l : Price(l)' = Price(l)
      /\ \A b : EligibleLines(b)' = EligibleLines(b) /\ Blocked(b)' = Blocked(b)
      /\ \A l, b : BucketKey(l, b)' = BucketKey(l, b)
  BY SameInput
<1>2. OnlyOffer' <=> OnlyOffer
  <2>1. Pays(offers[1])' <=> Pays(offers[1])
    BY <1>1 DEF Pays
  <2>2. Blocked(offers[1])' <=> Blocked(offers[1])
    BY <1>1, SameInput DEF Blocked
  <2> QED
    BY <1>1, <2>1, <2>2 DEF OnlyOffer
<1>3. FirstShelf' = FirstShelf
  BY <1>1 DEF FirstShelf, Shelf
<1>4. remaining' = remaining => FirstRest' = FirstRest
  BY <1>1 DEF FirstRest, Rest
<1>5. groups' = groups => BundleDiscountTotal' = BundleDiscountTotal
  BY DEF BundleDiscountTotal
<1> QED
  BY <1>1, <1>2, <1>3, <1>4, <1>5

(* The only offer, and what it sees of the cart.                           *)
LEMMA OnlyTyped ==
  ASSUME PricingTypeOK, OnlyOffer
  PROVE  /\ 1 \in DOMAIN offers /\ turn \in {1, 2} /\ (Priced <=> turn = 2)
         /\ Len(groups) \in Nat /\ IsShelf(FirstShelf) /\ IsOffer(offers[1])
         /\ UnitsGroupedOnce => Part(FirstShelf, FirstRest)
         /\ DOMAIN cart = 1 .. Len(cart) /\ DOMAIN offers = {1}
<1>1. Len(offers) = 1 /\ offers \in Offers
  BY DEF OnlyOffer, PricingTypeOK
<1>2. DOMAIN offers = 1 .. 1
  BY <1>1, PricingAssumption DEF PricingAssumption
<1>3. 1 \in DOMAIN offers /\ DOMAIN offers = {1}
  BY <1>2
<1>4. turn \in {1, 2} /\ (Priced <=> turn = 2)
  <2>1. turn \in 1 .. 2
    BY <1>1 DEF PricingTypeOK
  <2> QED
    BY <1>1, <2>1 DEF Priced
<1>5. IsShelf(FirstShelf) /\ IsOffer(offers[1]) /\ (UnitsGroupedOnce => Part(FirstShelf, FirstRest))
  BY <1>3, ShelfTyped, RestTyped DEF FirstShelf, FirstRest
<1>6. Len(groups) \in Nat
  BY DEF PricingTypeOK
<1> QED
  BY <1>3, <1>4, <1>5, <1>6, CartTyped

(* A step that changes nothing of it.                                      *)
LEMMA SavedStays ==
  ASSUME SavedKept, UNCHANGED <<inputVars, remaining, buckets, groups, turn, shown>>
  PROVE  SavedKept'
<1>1. /\ UNCHANGED inputVars /\ remaining' = remaining /\ groups' = groups /\ buckets' = buckets
      /\ turn' = turn /\ shown' = shown
  OBVIOUS
<1>2. /\ OnlyOffer' <=> OnlyOffer /\ offers'[1] = offers[1] /\ FirstShelf' = FirstShelf
      /\ FirstRest' = FirstRest /\ BundleDiscountTotal' = BundleDiscountTotal
  BY <1>1, SameOnly
<1> QED
  BY <1>1, <1>2 DEF SavedKept

(* The only offer is not left out.                                         *)
LEMMA SavedSkip ==
  ASSUME PricingInv, SkipOffer
  PROVE  SavedKept'
<1>1. UNCHANGED inputVars /\ ~Priced /\ Blocked(offers[turn])
  BY DEF SkipOffer
<1>2. ASSUME OnlyOffer PROVE FALSE
  <2>1. turn = 1
    BY <1>1, <1>2, OnlyTyped DEF PricingInv
  <2> QED
    BY <1>1, <1>2, <2>1 DEF OnlyOffer
<1> QED
  BY <1>1, <1>2, SameOnly DEF SavedKept

(* Its buckets have what is left.                                          *)
LEMMA SavedBuild ==
  ASSUME PricingInv, SavedKept, BuildBuckets
  PROVE  SavedKept'
<1> DEFINE b == offers[1]
           s == FirstShelf
           r == FirstRest
           bs == [k \in Keys(b) |-> Bucket(k, UnitsOfLines(b, remaining), b)]
<1>1. /\ UNCHANGED inputVars /\ remaining' = remaining /\ groups' = groups /\ turn' = turn
      /\ shown' = shown /\ ~Priced
      /\ buckets' = [k \in Keys(offers[turn]) |->
                       Bucket(k, UnitsOfLines(offers[turn], remaining), offers[turn])]
  BY DEF BuildBuckets
<1>2. /\ OnlyOffer' <=> OnlyOffer /\ offers'[1] = b /\ FirstShelf' = s
      /\ FirstRest' = r /\ BundleDiscountTotal' = BundleDiscountTotal
  BY <1>1, SameOnly
<1> SUFFICES ASSUME OnlyOffer
             PROVE  OfferKept(b, s, r, groups, BundleDiscountTotal, bs, turn, shown)
  <2>1. OnlyOffer => turn = 1
    BY <1>1, OnlyTyped DEF PricingInv
  <2> QED
    BY <1>1, <1>2, <2>1 DEF SavedKept
<1>3. 1 \in DOMAIN offers /\ PricingTypeOK /\ UnitsGroupedOnce
  BY OnlyTyped DEF PricingInv
<1>4. AreBuckets(s, bs, r)
  <2>1. s = Shelf(b) /\ r = Rest(b)
    BY DEF FirstShelf, FirstRest
  <2>2. Keys(b) \subseteq Nat
    BY <1>3, KeysTyped
  <2>3. ASSUME NEW k \in Keys(b) PROVE IsBucket(s, k, bs[k], r)
    <3> DEFINE q == Bucket(k, UnitsOfLines(b, remaining), b)
    <3>1. k \in Nat /\ bs[k] = q
      BY <2>2
    <3>2. IsBucket(s, k, q, r)
      BY <1>3, <2>1, <3>1, BucketBuilt
    <3> QED
      BY <3>1, <3>2
  <2>4. ASSUME NEW l \in 1 .. s.n, r[l] > 0 PROVE s.key[l] \in Keys(b)
    <3>1. s.key[l] = BucketKey(l, b) /\ r[l] = IF l \in EligibleLines(b) THEN remaining[l] ELSE 0
      BY <1>3, <2>1, ShelfTyped, RestTyped
    <3>2. l \in EligibleLines(b)
      BY <2>4, <3>1
    <3> QED
      BY <3>1, <3>2 DEF Keys
  <2>5. DOMAIN bs = Keys(b)
    OBVIOUS
  <2> HIDE DEF bs
  <2> QED
    BY <2>2, <2>3, <2>4, <2>5 DEF AreBuckets
<1> HIDE DEF bs
<1>5. OfferKept(b, s, r, groups, BundleDiscountTotal, buckets, turn, shown)
  BY DEF SavedKept
<1>6. turn = 1
  BY <1>1, OnlyTyped DEF PricingInv
<1> QED
  BY <1>4, <1>5, <1>6 DEF OfferKept

(* A group more keeps what was promised.                                   *)
LEMMA ShownAfterGroup ==
  ASSUME NEW s, IsShelf(s), NEW b, IsOffer(b), NEW g \in Nat, NEW d \in Int, NEW c \in Nat,
         NEW z, Stands(s, b, z, g + 1, d + c), NEW w, ShownHolds(b, s, g, d, w)
  PROVE  ShownHolds(b, s, g + 1, d + c, w)
<1> DEFINE lo == MinUnitPrice(b)
           hi == MaxSurcharge(b)
           v == w.discount + w.savings
<1> SUFFICES ASSUME w # Nothing
             PROVE  \E x, k : /\ Promise(s, b, x, k, w.needed, v, w.models, lo, hi)
                              /\ w.needed = 0 /\ g + 1 >= k => d + c >= v
  BY DEF ShownHolds
<1>1. Bounded(s, lo, hi)
  BY DEF ShownHolds
<1>2. PICK x, k : /\ Promise(s, b, x, k, w.needed, v, w.models, lo, hi)
                  /\ w.needed = 0 /\ g >= k => d >= v
  BY DEF ShownHolds
<1> HIDE DEF lo, hi, v
<1>3. k \in Nat /\ v \in Int
  BY <1>2 DEF Promise, Promised
<1>4. ASSUME w.needed = 0, g + 1 >= k PROVE d + c >= v
  <2>1. CASE g >= k
    <3>1. d >= v
      BY <1>2, <1>4, <2>1
    <3> QED
      BY <1>3, <3>1
  <2>2. CASE ~(g >= k)
    <3>1. k = g + 1
      BY <1>3, <1>4, <2>2
    <3>2. lo \in Int /\ hi \in Int
      BY <1>1 DEF Bounded
    <3>3. Promise(s, b, x, k, 0, v, w.models, lo, hi)
      BY <1>2, <1>4
    <3>4. Stands(s, b, z, k, d + c)
      BY <3>1
    <3> DEFINE e == d + c
    <3>5. Stands(s, b, z, k, e)
      BY <3>4
    <3> HIDE DEF e
    <3>6. e >= v
      BY <3>2, <3>3, <3>5, PromiseKept
    <3> QED
      BY <3>6 DEF e
  <2> QED
    BY <2>1, <2>2
<1> QED
  BY <1>2, <1>4

(* A group takes its units from the shelf, and saves what they are worth.  *)
LEMMA SavedForm ==
  ASSUME PricingInv, SavedKept, FormGroup
  PROVE  SavedKept'
<1> USE DEF PricingInv
<1> DEFINE b == offers[1]
           s == FirstShelf
           r == FirstRest
           units == LinesOf(Chosen(b))
           saving == Saving(units, b)
           g == [offer |-> turn, units |-> units, discount |-> saving,
                 shares |-> AllocateDiscount(PricesOf(units), saving)]
           t == OfLines(s, units)
           z == Without(s, r, t)
           n == Len(groups)
           d == BundleDiscountTotal
<1>1. UNCHANGED inputVars /\ turn' = turn /\ shown' = shown /\ Building /\ AnotherFits(offers[turn])
  BY DEF FormGroup
<1>2. /\ OnlyOffer' <=> OnlyOffer /\ offers'[1] = b /\ FirstShelf' = s
  BY <1>1, SameOnly
<1> SUFFICES ASSUME OnlyOffer
             PROVE  OfferKept(b, s, FirstRest', groups', BundleDiscountTotal', buckets', turn, shown)
  BY <1>1, <1>2 DEF SavedKept
<1>3. /\ 1 \in DOMAIN offers /\ turn = 1 /\ n \in Nat /\ IsShelf(s) /\ IsOffer(b) /\ Part(s, r)
  <2>1. turn <= Len(offers) /\ Len(offers) = 1
    BY <1>1 DEF PricingTypeOK, OnlyOffer
  <2> QED
    BY <2>1, OnlyTyped
<1>4. /\ groups' = Append(groups, g) /\ buckets' = Taken(b)
      /\ remaining' = [l \in DOMAIN remaining |-> remaining[l] - UnitsOf(l, units)]
      /\ Fillable(b) /\ (b.repeatable \/ Formed(1) = {})
  BY <1>1, <1>3 DEF FormGroup, AnotherFits
<1>5. OfferKept(b, s, r, groups, d, buckets, turn, shown)
  BY DEF SavedKept
<1>6. /\ \A i \in DOMAIN groups : groups[i].offer = 1
      /\ Stands(s, b, r, n, d) /\ AreBuckets(s, buckets, r) /\ ShownHolds(b, s, n, d, shown)
  BY <1>1, <1>3, <1>5 DEF OfferKept, Building
<1>7. s = Shelf(b) /\ r = Rest(b)
  BY DEF FirstShelf, FirstRest
<1>8. IsTaken(s, b, r, t) /\ AreBuckets(s, Taken(b), z)
  BY <1>1, <1>3, <1>4, <1>6, <1>7, GroupOfShelf
<1>9. FirstRest' = z
  <2> HIDE DEF t, units, z, s, r
  <2>1. s = FirstShelf /\ r = FirstRest /\ t = OfLines(s, units)
    BY DEF s, r, t
  <2> QED
    BY <1>1, <1>3, <1>4, <1>8, <2>1, RestAfterGroup DEF z
<1>10. saving = Value(s, s.net, t) - b.fixedTotal /\ saving \in Nat
  <2>1. FormsGroup(units, b)
    BY <1>1, <1>3, GroupFormed
  <2>2. units \in Seq(EligibleLines(b)) /\ saving \in Nat
    BY <2>1 DEF FormsGroup
  <2> QED
    BY <1>3, <1>7, <2>2, SavingOfShelf
<1>11. BundleDiscountTotal' = d + saving /\ d \in Int
  <2>1. g.discount = saving /\ saving \in Int
    BY <1>10
  <2> HIDE DEF g, saving, d
  <2> QED
    BY <1>4, <2>1, DiscountGrows DEF d
<1>12. /\ Len(groups') = n + 1 /\ \A i \in DOMAIN groups' : groups'[i].offer = 1
  <2>1. g.offer = 1
    BY <1>3
  <2> HIDE DEF g
  <2>2. /\ DOMAIN groups = 1 .. n /\ Len(groups') = n + 1 /\ DOMAIN groups' = 1 .. n + 1
        /\ groups'[n + 1] = g /\ \A i \in 1 .. n : groups'[i] = groups[i]
    BY <1>3, <1>4, AppendProperties DEF PricingTypeOK
  <2>3. \A i \in 1 .. n + 1 : i \in 1 .. n \/ i = n + 1
    BY <1>3
  <2> QED
    BY <1>6, <2>1, <2>2, <2>3
<1>13. n = 0 \/ b.repeatable
  <2>1. CASE Formed(1) = {}
    <3>1. DOMAIN groups = {}
      BY <1>6, <2>1 DEF Formed
    <3>2. DOMAIN groups = 1 .. n
      BY DEF PricingTypeOK
    <3> QED
      BY <1>3, <3>1, <3>2
  <2> QED
    BY <1>4, <2>1
<1> HIDE DEF b, s, r, t, n, d, saving, g, units
<1>14. Stands(s, b, z, n + 1, d + saving)
  BY <1>3, <1>6, <1>8, <1>10, <1>13, StandsAfter
<1>15. ShownHolds(b, s, n + 1, d + saving, shown)
  BY <1>3, <1>6, <1>10, <1>11, <1>14, ShownAfterGroup
<1> QED
  BY <1>3, <1>4, <1>8, <1>9, <1>11, <1>12, <1>14, <1>15 DEF OfferKept

(* A bucket has units if there are any of its key.                         *)
LEMMA BucketReaches ==
  ASSUME NEW s, IsShelf(s), NEW r \in [1 .. s.n -> Nat], NEW k, NEW q, IsBucket(s, k, q, r),
         NEW l \in 1 .. s.n, s.key[l] = k, r[l] > 0
  PROVE  Len(q) > 0
<1>1. /\ Len(q) \in Nat /\ DOMAIN q = 1 .. Len(q)
      /\ UnitsOf(l, LinesOf(q)) = r[l]
  BY DEF IsBucket
<1>2. ASSUME Len(q) = 0 PROVE FALSE
  <2> DEFINE f == [i \in DOMAIN LinesOf(q) |-> IF LinesOf(q)[i] = l THEN 1 ELSE 0]
  <2>1. DOMAIN LinesOf(q) = 1 .. 0
    BY <1>1, <1>2 DEF LinesOf
  <2>2. f = <<>>
    BY <2>1
  <2>3. Sum(<<>>) = 0
    <3>1. Len(<<>>) = 0
      OBVIOUS
    <3> QED
      BY <3>1, SumToStep DEF Sum
  <2> QED
    BY <1>1, <2>2, <2>3 DEF UnitsOf
<1> QED
  BY <1>1, <1>2

(* The keys that units are left of are those of the buckets with units.    *)
LEMMA KeysOfBuckets ==
  ASSUME NEW s, IsShelf(s), NEW r \in [1 .. s.n -> Nat], NEW bs, AreBuckets(s, bs, r)
  PROVE  KeysLeft(s, r) = {k \in DOMAIN bs : Len(bs[k]) > 0}
<1>1. /\ \A k \in DOMAIN bs : IsBucket(s, k, bs[k], r)
      /\ \A l \in 1 .. s.n : r[l] > 0 => s.key[l] \in DOMAIN bs
  BY DEF AreBuckets
<1>2. ASSUME NEW k \in DOMAIN bs, NEW q, q = bs[k], Len(q) > 0 PROVE k \in KeysLeft(s, r)
  <2>1. IsBucket(s, k, q, r)
    BY <1>1, <1>2
  <2>2. \A i \in 1 .. Len(q) : s.key[q[i][1]] = k /\ r[q[i][1]] > 0
    BY <2>1, BucketHolds
  <2>3. /\ \A i \in 1 .. Len(q) : q[i][1] \in 1 .. s.n
        /\ Len(q) \in Nat
    BY <2>1 DEF IsBucket
  <2>4. 1 \in 1 .. Len(q)
    BY <1>2, <2>3
  <2>5. q[1][1] \in 1 .. s.n /\ s.key[q[1][1]] = k /\ r[q[1][1]] > 0
    BY <2>2, <2>3, <2>4
  <2> QED
    BY <2>5 DEF KeysLeft
<1>3. ASSUME NEW l \in 1 .. s.n, r[l] > 0, NEW k, k = s.key[l]
      PROVE  k \in DOMAIN bs /\ Len(bs[k]) > 0
  <2>1. k \in DOMAIN bs
    BY <1>1, <1>3
  <2> QED
    BY <1>1, <1>3, <2>1, BucketReaches
<1> DEFINE E == {k \in DOMAIN bs : Len(bs[k]) > 0}
<1>4. \A k : k \in KeysLeft(s, r) <=> \E l \in 1 .. s.n : r[l] > 0 /\ s.key[l] = k
  BY DEF KeysLeft
<1>5. \A k : k \in E <=> k \in DOMAIN bs /\ Len(bs[k]) > 0
  OBVIOUS
<1>6. \A k : k \in KeysLeft(s, r) => k \in E
  BY <1>3, <1>4, <1>5
<1>7. \A k : k \in E => k \in KeysLeft(s, r)
  BY <1>2, <1>5
<1> HIDE DEF E
<1> QED
  BY <1>6, <1>7 DEF E

(* The offer ends when nothing more can be formed of it.                   *)
LEMMA OfferEnds ==
  ASSUME PricingInv, OnlyOffer, Building, turn = 1, NEW b, b = offers[1], ~AnotherFits(b),
         NEW s, s = FirstShelf, NEW r, r = FirstRest, AreBuckets(s, buckets, r),
         \A i \in DOMAIN groups : groups[i].offer = 1
  PROVE  Ended(s, b, r, Len(groups))
<1> USE DEF PricingInv
<1>1. /\ 1 \in DOMAIN offers /\ Len(groups) \in Nat /\ IsShelf(s) /\ IsOffer(b) /\ Part(s, r)
      /\ r \in [1 .. s.n -> Nat]
  BY OnlyTyped DEF Part
<1>2. s = Shelf(b) /\ r = Rest(b)
  BY DEF FirstShelf, FirstRest
<1>3. /\ DOMAIN buckets = Keys(b) /\ 0 \in Keys(b) /\ Keys(b) \subseteq Nat
      /\ \A k \in Keys(b) : Len(buckets[k]) \in Nat /\ buckets[k] \in Seq(Unit)
      /\ \A k \in NonEmpty : Len(buckets[k]) > 0
      /\ \A k \in Keys(b) : IsBucket(s, k, buckets[k], r)
      /\ \A l \in 1 .. s.n : r[l] > 0 => s.key[l] \in Keys(b)
      /\ b.size \in Nat
  BY <1>1, BucketsTyped DEF AreBuckets, Unit, IsOffer
<1>4. ASSUME ~b.repeatable, Formed(1) # {} PROVE ~b.repeatable /\ Len(groups) >= 1
  <2>1. DOMAIN groups = 1 .. Len(groups)
    BY DEF PricingTypeOK
  <2>2. PICK i \in DOMAIN groups : TRUE
    BY <1>4 DEF Formed
  <2> QED
    BY <1>1, <1>4, <2>1, <2>2
<1>5. ASSUME b.differentModels, ~Fillable(b) PROVE Cardinality(KeysLeft(s, r)) < b.size
  <2>1. KeysLeft(s, r) = {k \in Keys(b) : Len(buckets[k]) > 0}
    BY <1>1, <1>3, KeysOfBuckets
  <2>2. \A k \in Keys(b) : buckets[k] # <<>> <=> Len(buckets[k]) > 0
    BY <1>3, EmptySeq
  <2>3. KeysLeft(s, r) = NonEmpty
    BY <1>3, <2>1, <2>2 DEF NonEmpty
  <2>4. IsFiniteSet(NonEmpty) /\ Cardinality(NonEmpty) \in Nat
    BY BucketsTyped, FS_CardinalityType
  <2> QED
    BY <1>3, <1>5, <2>3, <2>4 DEF Fillable
<1>6. ASSUME ~b.differentModels PROVE \A l \in 1 .. s.n : s.key[l] = 0
  BY <1>1, <1>2, <1>6, ShelfTyped DEF BucketKey
<1>7. ASSUME ~b.differentModels, ~Fillable(b) PROVE Count(s, r) < b.size
  <2> DEFINE q == buckets[0]
  <2>1. IsBucket(s, 0, q, r) /\ Len(q) \in Nat /\ Len(q) < b.size
    BY <1>3, <1>7 DEF Fillable
  <2> HIDE DEF q
  <2>2. KeyCount(s, 0, r) = Len(q)
    BY <1>1, <2>1, BucketHolds
  <2>3. KeyCount(s, 0, r) = Count(s, r)
    <3> DEFINE a == AtKey(s, 0, r)
    <3>1. s.n \in Nat /\ \A l \in 1 .. s.n : a[l] = r[l]
      BY <1>1, <1>6, <1>7 DEF AtKey, IsShelf
    <3> HIDE DEF a
    <3>2. SumTo(a, s.n) = SumTo(r, s.n)
      BY <3>1, SumToSame
    <3> QED
      BY <3>2 DEF KeyCount, Count, a
  <2> QED
    BY <2>1, <2>2, <2>3
<1>8. ASSUME Fillable(b), Saving(LinesOf(Chosen(b)), b) < 0
      PROVE  /\ ~b.differentModels
             /\ \E y : Part(s, y) /\ Count(s, y) = b.size /\ Value(s, s.net, y) < b.fixedTotal
  <2> DEFINE units == LinesOf(Chosen(b))
             t == OfLines(s, units)
  <2>1. units \in Seq(EligibleLines(b)) /\ Len(units) = b.size
    BY <1>8, GroupUnits
  <2>2. IsTaken(s, b, r, t)
    BY <1>2, <1>8, GroupOfShelf
  <2>3. Saving(units, b) = Value(s, s.net, t) - b.fixedTotal
    BY <1>1, <1>2, <2>1, SavingOfShelf
  <2>4. ASSUME b.differentModels PROVE FALSE
    <3>1. Pays(b)
      BY <2>4 DEF OnlyOffer
    <3>2. Saving(units, b) >= 0 /\ Saving(units, b) \in Int
      BY <1>1, <2>1, <3>1, PaysForGroups, GroupAmounts
    <3> QED
      BY <1>8, <3>2
  <2>5. Saving(units, b) < 0
    BY <1>8
  <2> HIDE DEF t, units
  <2>6. Part(s, t) /\ Count(s, t) = b.size
    <3>1. /\ t \in [1 .. s.n -> Nat] /\ \A l \in 1 .. s.n : t[l] <= r[l]
          /\ Count(s, t) = b.size
      BY <2>2 DEF IsTaken
    <3>2. \A l \in 1 .. s.n : r[l] \in Nat /\ s.stock[l] \in Nat /\ r[l] <= s.stock[l]
      BY <1>1 DEF Part, IsShelf
    <3>3. \A l \in 1 .. s.n : t[l] <= s.stock[l]
      BY <3>1, <3>2
    <3> QED
      BY <3>1, <3>3 DEF Part
  <2>7. Value(s, s.net, t) < b.fixedTotal
    <3>1. Value(s, s.net, t) \in Int /\ b.fixedTotal \in Int
      BY <1>1, <2>6, PartCounts DEF IsOffer
    <3> QED
      BY <2>3, <2>5, <3>1
  <2> QED
    BY <2>4, <2>6, <2>7
<1>9. \/ ~b.repeatable /\ Formed(1) # {}
      \/ ~Fillable(b)
      \/ Fillable(b) /\ Saving(LinesOf(Chosen(b)), b) < 0
  <2>1. ASSUME Fillable(b) PROVE Saving(LinesOf(Chosen(b)), b) \in Int
    <3>1. LinesOf(Chosen(b)) \in Seq(EligibleLines(b))
      BY <2>1, GroupUnits
    <3> QED
      BY <1>1, <3>1, GroupAmounts
  <2> QED
    BY <2>1 DEF AnotherFits
<1>10. CASE ~b.repeatable /\ Formed(1) # {}
  BY <1>4, <1>10 DEF Ended
<1>11. CASE ~Fillable(b)
  BY <1>5, <1>7, <1>11 DEF Ended
<1>12. CASE Fillable(b) /\ Saving(LinesOf(Chosen(b)), b) < 0
  BY <1>8, <1>12 DEF Ended
<1> QED
  BY <1>9, <1>10, <1>11, <1>12

(* The offer ends when no group fits that pays.                            *)
LEMMA SavedEnd ==
  ASSUME PricingInv, SavedKept, EndOffer
  PROVE  SavedKept'
<1> USE DEF PricingInv
<1> DEFINE b == offers[1]
           s == FirstShelf
           r == FirstRest
           d == BundleDiscountTotal
<1>1. /\ UNCHANGED inputVars /\ remaining' = remaining /\ groups' = groups /\ turn' = turn + 1
      /\ shown' = shown /\ Building /\ ~AnotherFits(offers[turn]) /\ buckets' = NotBuilt
  BY DEF EndOffer
<1>2. /\ OnlyOffer' <=> OnlyOffer /\ offers'[1] = b /\ FirstShelf' = s
      /\ FirstRest' = r /\ BundleDiscountTotal' = d
  BY <1>1, SameOnly
<1> SUFFICES ASSUME OnlyOffer
             PROVE  OfferKept(b, s, r, groups, d, buckets', turn', shown)
  BY <1>1, <1>2 DEF SavedKept
<1>3. turn = 1
  <2>1. turn <= Len(offers) /\ Len(offers) = 1
    BY <1>1 DEF PricingTypeOK, OnlyOffer
  <2> QED
    BY <2>1, OnlyTyped
<1>4. OfferKept(b, s, r, groups, d, buckets, turn, shown)
  BY DEF SavedKept
<1>5. /\ \A i \in DOMAIN groups : groups[i].offer = 1
      /\ Stands(s, b, r, Len(groups), d) /\ AreBuckets(s, buckets, r)
      /\ ShownHolds(b, s, Len(groups), d, shown)
  BY <1>1, <1>3, <1>4 DEF OfferKept, Building
<1>6. Ended(s, b, r, Len(groups))
  BY <1>1, <1>3, <1>5, OfferEnds
<1>7. turn' # 1
  BY <1>1, <1>3
<1> QED
  BY <1>1, <1>5, <1>6, <1>7 DEF OfferKept

(* What is shown is a promise.                                             *)
LEMMA SavedShow ==
  ASSUME PricingInv, SavedKept, Show
  PROVE  SavedKept'
<1> DEFINE b == offers[1]
           s == FirstShelf
           r == FirstRest
           g == Len(groups)
           d == BundleDiscountTotal
           w == [offer |-> 1, needed |-> UnitsNeeded(1), savings |-> SavingsIfCompleted(1),
                 discount |-> d, models |-> FreeModels(b)]
<1>0. PricingTypeOK /\ UnitsGroupedOnce
  BY DEF PricingInv
<1>1. /\ UNCHANGED inputVars /\ remaining' = remaining /\ groups' = groups /\ turn' = turn
      /\ buckets' = buckets /\ Priced
  BY DEF Show
<1>2. /\ OnlyOffer' <=> OnlyOffer /\ offers'[1] = b /\ FirstShelf' = s
      /\ FirstRest' = r /\ BundleDiscountTotal' = d
  BY <1>1, SameOnly
<1> SUFFICES ASSUME OnlyOffer
             PROVE  OfferKept(b, s, r, groups, d, buckets, turn, shown')
  BY <1>1, <1>2 DEF SavedKept
<1>3. /\ 1 \in DOMAIN offers /\ DOMAIN offers = {1} /\ turn = 2 /\ IsShelf(s) /\ g \in Nat
  BY <1>0, <1>1, OnlyTyped
<1>4. OfferKept(b, s, r, groups, d, buckets, turn, shown)
  BY DEF SavedKept
<1>5. IsBundleProgress(1) /\ SavingsIfCompleted(1) > 0 /\ shown' = w
  BY <1>3 DEF Show
<1>6. EligibleLines(b) # {}
  BY <1>5 DEF IsBundleProgress
<1>7. Stands(s, b, r, g, d) /\ \A i \in DOMAIN groups : groups[i].offer = 1
  BY <1>4 DEF OfferKept
<1>8. Formed(1) = {} => g = 0
  <2>1. DOMAIN groups = 1 .. g
    BY <1>0 DEF PricingTypeOK
  <2> HIDE DEF g
  <2>2. ASSUME Formed(1) = {} PROVE g = 0
    <3>1. \A i \in DOMAIN groups : FALSE
      BY <1>7, <2>2 DEF Formed
    <3> QED
      BY <1>3, <2>1, <3>1
  <2> QED
    BY <2>2
<1>9. s = Shelf(b) /\ r = Rest(b)
  BY DEF FirstShelf, FirstRest
<1> DEFINE lo == MinUnitPrice(b)
           hi == MaxSurcharge(b)
           m == UnitsNeeded(1)
           e == SavingsIfCompleted(1)
<1>10. /\ m > 0 /\ Bounded(s, lo, hi)
       /\ \E x : Promise(s, b, x, g + 1, m, d + e, FreeModels(b), lo, hi)
  BY <1>0, <1>3, <1>5, <1>6, <1>7, <1>8, <1>9, WhatIsShown
<1>11. /\ w.offer = 1 /\ w.needed = m /\ w.savings = e /\ w.discount = d /\ w.models = FreeModels(b)
       /\ w = [offer |-> 1, needed |-> w.needed, savings |-> w.savings,
               discount |-> w.discount, models |-> w.models]
  OBVIOUS
<1> HIDE DEF b, s, r, g, d, m, e, lo, hi, w
<1>12. ShownHolds(b, s, g, d, w)
  <2>1. PICK x : Promise(s, b, x, g + 1, m, d + e, FreeModels(b), lo, hi)
    BY <1>10
  <2>2. Promise(s, b, x, g + 1, w.needed, w.discount + w.savings, w.models, lo, hi)
    BY <1>11, <2>1
  <2>3. w.needed # 0
    BY <1>10, <1>11
  <2> QED
    BY <1>10, <1>11, <2>2, <2>3 DEF ShownHolds, lo, hi
<1> QED
  BY <1>4, <1>5, <1>12 DEF OfferKept, g

(* A unit more does not make the offer the only one, or one that pays.     *)
LEMMA OnlyBefore ==
  ASSUME PricingTypeOK, NEW v, NEW j, IsWith(cart, cart', v, j), IsCart(cart'), OnlyOffer',
         offers' = offers, coupon' = coupon
  PROVE  OnlyOffer
<1> DEFINE b == offers[1]
<1>1. Len(offers) = 1 /\ ~Blocked(b)' /\ (b.differentModels => Pays(b)')
  BY DEF OnlyOffer
<1>2. Subtotal' >= Subtotal /\ Subtotal \in Int /\ Subtotal' \in Int
  BY SubtotalGrows
<1>3. coupon.minSpend \in Int
  BY PricingAssumption DEF PricingTypeOK, PricingAssumption
<1>4. CouponIsApplied => CouponIsApplied'
  BY <1>2, <1>3 DEF CouponIsApplied
<1>5. ~Blocked(b)
  BY <1>1, <1>4 DEF Blocked
<1>6. ASSUME Pays(b)' PROVE Pays(b)
  <2> DEFINE d == cart'
             n == Len(cart)
             m == Len(d)
  <2>1. /\ DOMAIN cart = 1 .. n /\ DOMAIN d = 1 .. m /\ n \in Nat /\ (m = n \/ m = n + 1)
        /\ \A l \in 1 .. n : d[l].variant = cart[l].variant
    <3>1. DOMAIN cart = 1 .. n /\ n \in Nat
      BY CartTyped
    <3>2. /\ DOMAIN d = 1 .. m /\ (m = n \/ m = n + 1)
          /\ \A l \in 1 .. n : d[l].variant = cart[l].variant
      BY DEF IsWith
    <3> QED
      BY <3>1, <3>2
  <2>2. \A l \in 1 .. n : l \in 1 .. m
    <3> HIDE DEF n, m, d
    <3> QED
      BY <2>1
  <2>3. ASSUME NEW l \in EligibleLines(b)
        PROVE  b.size * (Price(l) - Surcharge(cart[l].variant, b)) >= b.fixedTotal
    <3>1. l \in DOMAIN cart /\ IsEligible(cart[l].variant, b)
      BY DEF EligibleLines
    <3>2. l \in DOMAIN d /\ d[l].variant = cart[l].variant
      BY <2>1, <2>2, <3>1
    <3>3. \A i \in DOMAIN d : IsEligible(d[i].variant, b) =>
            b.size * (EffectiveUnitPrice(d[i].variant) - Surcharge(d[i].variant, b)) >= b.fixedTotal
      BY <1>6 DEF Pays, EligibleLines, Price
    <3> QED
      BY <3>1, <3>2, <3>3 DEF Price
  <2> QED
    BY <2>3 DEF Pays
<1> QED
  BY <1>1, <1>5, <1>6 DEF OnlyOffer

(* What is shown of the first offer.                                       *)
ShownAs(needed, savings, discount, models) ==
  [offer |-> 1, needed |-> needed, savings |-> savings, discount |-> discount, models |-> models]

(* Its fields.                                                             *)
LEMMA ShownAsTyped ==
  ASSUME NEW a, NEW c, NEW e, NEW h, NEW w, w = ShownAs(a, c, e, h)
  PROVE  w.offer = 1 /\ w.needed = a /\ w.savings = c /\ w.discount = e /\ w.models = h
BY DEF ShownAs

(* What is shown once unit q has come.                                     *)
ShownThen(w, q, z) == z = [w EXCEPT !.needed = @ - 1, !.models = @ \cup {q}]

(* It is shown with one unit less to come.                                 *)
LEMMA ShownAsWith ==
  ASSUME NEW a, NEW c, NEW e, NEW h, NEW w, w = ShownAs(a, c, e, h), NEW q,
         NEW z, ShownThen(w, q, z), NEW n, n = a - 1, NEW more, more = h \cup {q}
  PROVE  z = ShownAs(n, c, e, more)
<1> DEFINE y == [w EXCEPT !.needed = @ - 1]
<1>1. y = ShownAs(n, c, e, h) /\ y.models = h
  BY DEF ShownAs
<1>2. z = [y EXCEPT !.models = @ \cup {q}]
  BY DEF ShownThen
<1> HIDE DEF y
<1>3. [y EXCEPT !.models = @ \cup {q}] = [y EXCEPT !.models = more]
  BY <1>1
<1>4. [y EXCEPT !.models = more] = ShownAs(n, c, e, more)
  BY <1>1 DEF ShownAs
<1> QED
  BY <1>2, <1>3, <1>4

(* What is shown is that.                                                  *)
IsShown(w) == w = [offer |-> 1, needed |-> w.needed, savings |-> w.savings,
                   discount |-> w.discount, models |-> w.models]

(* Its fields then.                                                        *)
LEMMA ShownThenTyped ==
  ASSUME NEW w, IsShown(w), NEW q, NEW z, ShownThen(w, q, z)
  PROVE  /\ IsShown(z) /\ z.needed = w.needed - 1 /\ z.models = w.models \cup {q}
         /\ z.savings = w.savings /\ z.discount = w.discount
<1> DEFINE m == w.needed
           c == w.savings
           e == w.discount
           h == w.models
           n == m - 1
           more == h \cup {q}
<1>1. w = ShownAs(m, c, e, h)
  BY DEF IsShown, ShownAs
<1>2. n = m - 1 /\ more = h \cup {q}
  OBVIOUS
<1> HIDE DEF m, c, e, h, n, more
<1>3. z = ShownAs(n, c, e, more)
  BY <1>1, <1>2, ShownAsWith
<1>4. z.offer = 1 /\ z.needed = n /\ z.savings = c /\ z.discount = e /\ z.models = more
  BY <1>3, ShownAsTyped
<1>5. z = ShownAs(z.needed, z.savings, z.discount, z.models)
  BY <1>3, <1>4
<1>6. IsShown(z)
  BY <1>5 DEF IsShown, ShownAs
<1> QED
  BY <1>4, <1>6 DEF n, more, m, c, e, h

(* A unit more that the promise waits for leaves it one; no group is formed*)
(* then.                                                                   *)
LEMMA ShownWithUnit ==
  ASSUME NEW s, NEW t, NEW j, HasUnitMore(s, t, j), NEW b, IsOffer(b),
         Bounded(t, MinUnitPrice(b), MaxSurcharge(b)),
         NEW w, NEW g, NEW d, ShownHolds(b, s, g, d, w), w # Nothing, w.needed > 0,
         NEW q, b.differentModels => t.key[j] = q /\ q \notin w.models,
         NEW z, ShownThen(w, q, z)
  PROVE  ShownHolds(b, t, 0, 0, z)
<1> DEFINE lo == MinUnitPrice(b)
           hi == MaxSurcharge(b)
           v == w.discount + w.savings
           m == w.needed
           models == w.models
           more == models \cup {q}
<1>1. IsShown(w) /\ \E x, k : Promise(s, b, x, k, m, v, models, lo, hi)
  BY DEF ShownHolds, IsShown
<1>2. PICK x, k : Promise(s, b, x, k, m, v, models, lo, hi)
  BY <1>1
<1>3. z.needed = m - 1 /\ z.discount + z.savings = v /\ z.models = more
  BY <1>1, ShownThenTyped
<1>4. z = [offer |-> 1, needed |-> z.needed, savings |-> z.savings,
           discount |-> z.discount, models |-> z.models]
  BY <1>1, ShownThenTyped DEF IsShown
<1>5. m > 0 /\ Bounded(t, lo, hi)
  OBVIOUS
<1> HIDE DEF lo, hi, v, m, models
<1>6. k \in Nat /\ k >= 1
  BY <1>2 DEF Promise, Promised
<1>7. \E y : Promise(t, b, y, k, m - 1, v, more, lo, hi)
  <2>1. b.differentModels => t.key[j] = q /\ t.key[j] \notin models
    BY DEF models
  <2>2. PICK y : Promise(t, b, y, k, m - 1, v, models \cup {t.key[j]}, lo, hi)
    BY <1>2, <1>5, <2>1, PromiseWithUnit
  <2>3. CASE b.differentModels
    BY <2>1, <2>2, <2>3
  <2>4. CASE ~b.differentModels
    <3>1. Promise(t, b, y, k, m - 1, v, more, lo, hi)
      BY <2>2, <2>4 DEF Promise
    <3> QED
      BY <3>1
  <2> QED
    BY <2>3, <2>4
<1>8. PICK y : Promise(t, b, y, k, m - 1, v, more, lo, hi)
  BY <1>7
<1>9. Promise(t, b, y, k, z.needed, z.discount + z.savings, z.models, lo, hi)
  BY <1>3, <1>8
<1>10. ~(0 >= k)
  BY <1>6
<1> QED
  BY <1>4, <1>5, <1>9, <1>10 DEF ShownHolds, lo, hi

(* The units that the offer waits for keep what was promised.              *)
LEMMA SavedAdd ==
  ASSUME PricingInv, SavedKept, NEW v \in DOMAIN Catalog, AddUnit(v)
  PROVE  SavedKept'
<1> DEFINE b == offers[1]
           s == FirstShelf
           t == ShelfOf(cart', b)
           q == Catalog[v].model
<1>0. PricingTypeOK /\ (Building => turn <= Len(offers))
  BY DEF PricingInv, PricingTypeOK
<1>1. /\ offers' = offers /\ coupon' = coupon /\ cart' = With(cart, v) /\ Priced
      /\ turn' = 1 /\ remaining' = Quantities(cart') /\ groups' = <<>> /\ buckets' = buckets
      /\ shown.needed > 0 /\ IsEligible(v, offers[shown.offer])
      /\ offers[shown.offer].differentModels => q \notin shown.models
      /\ shown' = [shown EXCEPT !.needed = @ - 1, !.models = @ \cup {q}]
  BY DEF AddUnit
<1>2. PICK j \in Nat : IsWith(cart, cart', v, j)
  BY <1>0, <1>1, WithOne
<1>3. IsCart(cart) /\ IsCart(cart') /\ DOMAIN cart = 1 .. Len(cart) /\ DOMAIN cart' = 1 .. Len(cart')
  <2> DEFINE Line == [variant : DOMAIN Catalog, quantity : Nat \ {0}]
  <2>1. \A x \in Line : x.variant \in DOMAIN Catalog /\ x.quantity \in Nat \ {0}
    OBVIOUS
  <2>2. cart \in Seq(Line) /\ cart' \in Seq(Line)
    BY <1>0, <1>1, WithOne DEF PricingTypeOK
  <2> HIDE DEF Line
  <2>3. \A c \in Seq(Line) : IsCart(c) /\ DOMAIN c = 1 .. Len(c)
    BY <2>1 DEF IsCart
  <2> QED
    BY <2>2, <2>3
<1>4. SUFFICES ASSUME OnlyOffer'
               PROVE  OfferKept(b, FirstShelf', FirstRest', groups', BundleDiscountTotal',
                                buckets', turn', shown')
  BY <1>1 DEF SavedKept
<1>5. OnlyOffer
  BY <1>0, <1>1, <1>2, <1>3, <1>4, OnlyBefore
<1>6. 1 \in DOMAIN offers /\ IsOffer(b) /\ IsShelf(s) /\ turn = 2 /\ Len(offers) = 1
  BY <1>0, <1>1, <1>5, OnlyTyped DEF OnlyOffer
<1>7. OfferKept(b, s, FirstRest, groups, BundleDiscountTotal, buckets, turn, shown)
  BY <1>5 DEF SavedKept
<1>8. ShownHolds(b, s, Len(groups), BundleDiscountTotal, shown)
  BY <1>7 DEF OfferKept
<1>9. shown # Nothing
  <2>1. Nothing.needed = 0
    BY DEF Nothing
  <2> QED
    BY <1>1, <2>1
<1>10. shown.offer = 1
  <2> DEFINE w == shown
  <2>1. w = [offer |-> 1, needed |-> w.needed, savings |-> w.savings,
             discount |-> w.discount, models |-> w.models]
    BY <1>8, <1>9 DEF ShownHolds
  <2> QED
    BY <2>1
<1>11. s = ShelfOf(cart, b) /\ FirstShelf' = t
  BY <1>1, <1>3, ShelfNow DEF FirstShelf
<1>12. IsShelf(t) /\ t.n = Len(cart')
       /\ \A l \in 1 .. t.n : t.stock[l] = IF IsEligible(cart'[l].variant, b) THEN cart'[l].quantity ELSE 0
  BY <1>0, <1>3, <1>6, ShelfOfCart
<1>13. /\ HasUnitMore(s, t, j) /\ t.key[j] = (IF b.differentModels THEN q ELSE 0)
       /\ Bounded(t, MinUnitPrice(b), MaxSurcharge(b))
  BY <1>0, <1>1, <1>2, <1>3, <1>6, <1>10, <1>11, ShelfWithUnit
<1>14. ShownHolds(b, t, 0, 0, shown')
  <2>1. b.differentModels => t.key[j] = q /\ q \notin shown.models
    BY <1>1, <1>10, <1>13
  <2> DEFINE z == shown'
             n == Len(groups)
             d == BundleDiscountTotal
  <2>2. /\ HasUnitMore(s, t, j) /\ IsOffer(b) /\ Bounded(t, MinUnitPrice(b), MaxSurcharge(b))
        /\ ShownHolds(b, s, n, d, shown) /\ shown # Nothing /\ shown.needed > 0
        /\ ShownThen(shown, q, z)
    BY <1>1, <1>6, <1>8, <1>9, <1>13 DEF ShownThen
  <2> HIDE DEF b, s, t, q, z, n, d
  <2>3. ShownHolds(b, t, 0, 0, z)
    BY <2>1, <2>2, ShownWithUnit
  <2> QED
    BY <2>3 DEF z
<1>15. FirstRest' = t.stock
  <2> DEFINE d == cart'
             n == Len(d)
             f == [l \in 1 .. n |-> IF IsEligible(d[l].variant, b) THEN d[l].quantity ELSE 0]
  <2>1. \A l \in 1 .. n : /\ l \in EligibleLines(b)' <=> IsEligible(d[l].variant, b)
                          /\ remaining'[l] = d[l].quantity
    BY <1>1, <1>3 DEF EligibleLines, Quantities
  <2>2. FirstRest' = [l \in 1 .. n |-> IF l \in EligibleLines(b)' THEN remaining'[l] ELSE 0]
    BY <1>1 DEF FirstRest, Rest
  <2>3. FirstRest' = f
    BY <2>1, <2>2
  <2>4. t.stock = f
    BY DEF ShelfOf
  <2> QED
    BY <2>3, <2>4
<1>16. Stands(t, b, t.stock, 0, 0)
  BY <1>6, <1>12, StandsAtFirst
<1>17. BundleDiscountTotal' = 0 /\ Len(groups') = 0 /\ DOMAIN groups' = {}
  <2>1. groups' = <<>>
    BY <1>1
  <2>2. Len(<<>>) = 0 /\ DOMAIN <<>> = {}
    OBVIOUS
  <2>3. BundleDiscountTotal' = Sum(<<>>)
    BY <2>1, <2>2 DEF BundleDiscountTotal
  <2> QED
    BY <2>1, <2>2, <2>3, SumToStep DEF Sum
<1>18. buckets' = NotBuilt /\ turn' = 1
  BY <1>0, <1>1, <1>6 DEF Building
<1> HIDE DEF b, s, t, q
<1> QED
  BY <1>11, <1>14, <1>15, <1>16, <1>17, <1>18 DEF OfferKept

(* At first nothing is grouped or shown.                                   *)
LEMMA SavedInit ==
  ASSUME PricingInv, PricingInit
  PROVE  SavedKept
<1> DEFINE b == offers[1]
           s == FirstShelf
           r == FirstRest
<1> SUFFICES ASSUME OnlyOffer
             PROVE  OfferKept(b, s, r, groups, BundleDiscountTotal, buckets, turn, shown)
  BY DEF SavedKept
<1>1. /\ remaining = Quantities(cart) /\ buckets = NotBuilt /\ groups = <<>> /\ turn = 1
      /\ shown = Nothing /\ PricingTypeOK
  BY DEF PricingInit, PricingInv
<1>2. 1 \in DOMAIN offers /\ IsOffer(b) /\ IsShelf(s)
  BY <1>1, OnlyTyped
<1>3. r = s.stock
  <2> DEFINE n == Len(cart)
             f == [l \in 1 .. n |-> IF l \in EligibleLines(b) THEN cart[l].quantity ELSE 0]
  <2>1. \A l \in 1 .. n : remaining[l] = cart[l].quantity
    BY <1>1, CartTyped DEF Quantities
  <2>2. r = [l \in 1 .. n |-> IF l \in EligibleLines(b) THEN remaining[l] ELSE 0]
    BY DEF FirstRest, Rest
  <2>3. r = f
    BY <2>1, <2>2
  <2>4. s.stock = f
    BY DEF FirstShelf, Shelf
  <2> QED
    BY <2>3, <2>4
<1>4. Stands(s, b, r, 0, 0)
  BY <1>2, <1>3, StandsAtFirst
<1>5. BundleDiscountTotal = 0 /\ Len(groups) = 0 /\ DOMAIN groups = {}
  <2>1. Len(<<>>) = 0 /\ DOMAIN <<>> = {}
    OBVIOUS
  <2>2. BundleDiscountTotal = Sum(<<>>)
    BY <1>1, <2>1 DEF BundleDiscountTotal
  <2> QED
    BY <1>1, <2>1, <2>2, SumToStep DEF Sum
<1> QED
  BY <1>1, <1>4, <1>5 DEF OfferKept, ShownHolds

(* Every step keeps it.                                                    *)
LEMMA SavedNext == PricingInv /\ SavedKept /\ [PricingNext]_pricingVars => SavedKept'
<1> SUFFICES ASSUME PricingInv, SavedKept, [PricingNext]_pricingVars PROVE SavedKept'
  OBVIOUS
<1>1. CASE SkipOffer
  BY <1>1, SavedSkip
<1>2. CASE BuildBuckets
  BY <1>2, SavedBuild
<1>3. CASE FormGroup
  BY <1>3, SavedForm
<1>4. CASE EndOffer
  BY <1>4, SavedEnd
<1>5. CASE Show
  BY <1>5, SavedShow
<1>6. ASSUME NEW v \in DOMAIN Catalog, AddUnit(v) PROVE SavedKept'
  BY <1>6, SavedAdd
<1>7. CASE DraftGroup \/ DraftRest
  <2>1. UNCHANGED <<inputVars, remaining, buckets, groups, turn, shown>>
    BY <1>7 DEF DraftGroup, DraftRest
  <2> QED
    BY <2>1, SavedStays
<1>8. CASE UNCHANGED pricingVars
  <2>1. UNCHANGED <<inputVars, remaining, buckets, groups, turn, shown>>
    BY <1>8 DEF pricingVars
  <2> QED
    BY <2>1, SavedStays
<1> QED
  BY <1>1, <1>2, <1>3, <1>4, <1>5, <1>6, <1>7, <1>8 DEF PricingNext

(* Once the offer has ended, the groups that were promised are formed.     *)
LEMMA KeptMeansSaved ==
  ASSUME PricingInv, SavedKept
  PROVE  SavingsAsShown
<1> DEFINE b == offers[1]
           s == FirstShelf
           r == FirstRest
           g == Len(groups)
           d == BundleDiscountTotal
           lo == MinUnitPrice(b)
           hi == MaxSurcharge(b)
           v == shown.discount + shown.savings
<1> SUFFICES ASSUME Completed, b.differentModels => Pays(b)
             PROVE  d >= v
  BY DEF SavingsAsShown, SavesAsShown
<1>1. OnlyOffer /\ Priced /\ shown # Nothing /\ shown.needed = 0
  BY DEF Completed, OnlyOffer
<1>2. turn # 1 /\ IsShelf(s) /\ IsOffer(b) /\ g \in Nat
  BY <1>1, OnlyTyped DEF PricingInv
<1>3. OfferKept(b, s, r, groups, d, buckets, turn, shown)
  BY <1>1 DEF SavedKept
<1> HIDE DEF b, s, r, d, lo, hi, v, g
<1>4. Stands(s, b, r, g, d) /\ Ended(s, b, r, g) /\ ShownHolds(b, s, g, d, shown)
  BY <1>2, <1>3 DEF OfferKept, g
<1>5. /\ Bounded(s, lo, hi)
      /\ \E x, k : /\ Promise(s, b, x, k, 0, v, shown.models, lo, hi)
                   /\ shown.needed = 0 /\ g >= k => d >= v
  BY <1>1, <1>4 DEF ShownHolds, lo, hi, v
<1>6. PICK x, k : /\ Promise(s, b, x, k, 0, v, shown.models, lo, hi)
                  /\ shown.needed = 0 /\ g >= k => d >= v
  BY <1>5
<1> DEFINE models == shown.models
<1>7. Promise(s, b, x, k, 0, v, models, lo, hi)
  BY <1>6
<1> HIDE DEF models
<1>8. g >= k
  BY <1>2, <1>4, <1>5, <1>7, PromiseReached
<1> QED
  BY <1>1, <1>6, <1>8

(* The "guaranteed minimum saving" of computeBundleProgress is one: whoever*)
(* adds the units an only offer still needs, whichever they are, saves what*)
(* was shown on top of what was saved before, if the offer is one of any   *)
(* models or pays for any units.                                           *)
THEOREM SavedAsShown == PricingSpec => []SavingsAsShown
<1>1. PricingInit => PricingInv
  BY PricingInvInit
<1>2. PricingInit => SavedKept
  BY <1>1, SavedInit
<1>3. PricingSpec => []SavedKept
  BY <1>2, PricingInvariant, SavedNext, PTL DEF PricingSpec
<1> QED
  BY <1>3, PricingInvariant, KeptMeansSaved, PTL

=============================================================================

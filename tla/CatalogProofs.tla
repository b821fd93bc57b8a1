---------------------------- MODULE CatalogProofs ----------------------------
(***************************************************************************)
(* What edits of one row, the images of one product and the imports of     *)
(* designs keep, for any number of requests, images, designs, runs and     *)
(* failures.  A behaviour is about one of the three and leaves the others  *)
(* alone, so each has an invariant of its own.                             *)
(***************************************************************************)
EXTENDS Catalog, FiniteSetTheorems, SequenceTheorems, TLAPS

-----------------------------------------------------------------------------
(* Sets of numbers, and what putting a set in order returns.               *)

(* The order of the natural numbers, as a relation.                        *)
Less == {p \in Nat \X Nat : p[1] < p[2]}

(* Every set of natural numbers that is not empty has a least one.         *)
LEMMA Least ==
  ASSUME NEW T, T \subseteq Nat, T # {}
  PROVE  \E x \in T : \A y \in T : x <= y
<1>1. OpToRel(<, Nat) = Less
  BY DEF OpToRel, Less
<1>2. IsWellFoundedOn(Less, Nat)
  BY <1>1, NatLessThanWellFounded
<1>3. PICK x \in T : \A y \in T : <<y, x>> \notin Less
  BY <1>2, WFMin
<1>4. ASSUME NEW y \in T PROVE x <= y
  <2>1. x \in Nat /\ y \in Nat /\ <<y, x>> \notin Less
    BY <1>3
  <2>2. ~(y < x)
    BY <2>1 DEF Less
  <2> QED
    BY <2>1, <2>2
<1> QED
  BY <1>4

(* A set with 0 and the successor of each of its numbers has them all.     *)
LEMMA Induction ==
  ASSUME NEW T, 0 \in T, \A n \in Nat : n \in T => n + 1 \in T
  PROVE  \A n \in Nat : n \in T
<1> DEFINE U == {n \in Nat : n \notin T}
<1>1. SUFFICES ASSUME U # {} PROVE FALSE
  OBVIOUS
<1>2. PICK x \in U : \A y \in U : x <= y
  <2>1. U \subseteq Nat
    OBVIOUS
  <2> HIDE DEF U
  <2> QED
    BY <1>1, <2>1, Least
<1>3. x \in Nat /\ x # 0
  OBVIOUS
<1>4. x - 1 \in Nat /\ x - 1 \notin U
  BY <1>2, <1>3
<1>5. (x - 1) + 1 \in T
  BY <1>4
<1> QED
  BY <1>3, <1>5

(* There are n numbers from 1 to n.                                        *)
LEMMA IntervalCardinality ==
  ASSUME NEW n \in Nat
  PROVE  IsFiniteSet(1 .. n) /\ Cardinality(1 .. n) = n
<1>1. CASE n = 0
  <2>1. 1 .. n = {}
    BY <1>1
  <2> QED
    BY <1>1, <2>1, FS_EmptySet
<1>2. CASE n > 0
  BY <1>2, FS_Interval
<1> QED
  BY <1>1, <1>2

(* R puts the elements of S in one order.                                  *)
Orders(R, S) ==
  /\ \A x \in S : <<x, x>> \notin R
  /\ \A x, y, z \in S : <<x, y>> \in R /\ <<y, z>> \in R => <<x, z>> \in R
  /\ \A x, y \in S : x # y => <<x, y>> \in R \/ <<y, x>> \in R

(* Position i of q is for an element of S that i - 1 others come before.   *)
Ranking(q, R, S) ==
  /\ q = [i \in 1 .. Cardinality(S) |-> q[i]]
  /\ \A i \in 1 .. Cardinality(S), x \in S :
       Cardinality({y \in S : <<y, x>> \in R}) = i - 1 =>
         q[i] \in S /\ Cardinality({y \in S : <<y, q[i]>> \in R}) = i - 1

(* A finite set in order is a sequence that has each of its elements once. *)
LEMMA Ranks ==
  ASSUME NEW S, IsFiniteSet(S), NEW R, Orders(R, S),
         NEW q, Ranking(q, R, S)
  PROVE  /\ Cardinality(S) \in Nat
         /\ q \in [1 .. Cardinality(S) -> S]
         /\ \A i, j \in 1 .. Cardinality(S) :
              i < j => <<q[i], q[j]>> \in R
         /\ \A x \in S : \E i \in 1 .. Cardinality(S) : q[i] = x
<1> DEFINE n == Cardinality(S)
           below(x) == {y \in S : <<y, x>> \in R}
           rank == [x \in S |-> Cardinality(below(x)) + 1]
<1>1. n \in Nat
  BY FS_CardinalityType
<1>2. ASSUME NEW x \in S
      PROVE  IsFiniteSet(below(x)) /\ Cardinality(below(x)) \in 0 .. n - 1
  <2>1. below(x) \in SUBSET S /\ below(x) # S
    BY DEF Orders
  <2> HIDE DEF below
  <2>2. /\ IsFiniteSet(below(x)) /\ Cardinality(below(x)) <= n
        /\ Cardinality(below(x)) # n
    BY <2>1, FS_Subset
  <2>3. Cardinality(below(x)) \in Nat
    BY <2>2, FS_CardinalityType
  <2> QED
    BY <1>1, <2>2, <2>3
<1>3. ASSUME NEW x \in S, NEW y \in S, <<x, y>> \in R
      PROVE  Cardinality(below(x)) < Cardinality(below(y))
  <2>1. below(x) \in SUBSET below(y)
    BY <1>3 DEF Orders
  <2>2. below(x) # below(y)
    BY <1>3 DEF Orders
  <2> HIDE DEF below
  <2>3. Cardinality(below(x)) <= Cardinality(below(y)) /\ Cardinality(below(x)) # Cardinality(below(y))
    BY <1>2, <2>1, <2>2, FS_Subset
  <2> QED
    BY <1>1, <1>2, <2>3
<1>4. \A x \in S : rank[x] \in 1 .. n
  <2> HIDE DEF below
  <2> QED
    BY <1>1, <1>2
<1>5. ASSUME NEW x \in S, NEW y \in S, <<x, y>> \in R PROVE rank[x] < rank[y]
  <2>1. Cardinality(below(x)) < Cardinality(below(y))
    BY <1>3, <1>5
  <2> HIDE DEF below
  <2> QED
    BY <1>1, <1>2, <2>1
<1> HIDE DEF rank
<1>6. ASSUME NEW i \in 1 .. n PROVE \E x \in S : rank[x] = i
  <2> DEFINE image == {rank[x] : x \in S}
             onto == [x \in S |-> rank[x]]
  <2>1. onto \in Bijection(S, image)
    <3>1. onto \in [S -> image] /\ \A t \in image : \E x \in S : onto[x] = t
      OBVIOUS
    <3>2. \A x, y \in S : onto[x] = onto[y] => x = y
      <4> SUFFICES ASSUME NEW x \in S, NEW y \in S, rank[x] = rank[y], x # y PROVE FALSE
        OBVIOUS
      <4>1. rank[x] < rank[y] \/ rank[y] < rank[x]
        BY <1>5 DEF Orders
      <4>2. rank[x] \in Int /\ rank[y] \in Int
        BY <1>1, <1>4
      <4> QED
        BY <4>1, <4>2
    <3> HIDE DEF image, onto
    <3>3. DOMAIN onto = S
      BY <3>1
    <3> QED
      BY <3>1, <3>2, <3>3 DEF Bijection, Injection, Surjection, IsInjective
  <2>2. image \in SUBSET (1 .. n)
    BY <1>4
  <2> HIDE DEF image, onto
  <2>3. Cardinality(image) = n
    BY <2>1, FS_Bijection DEF ExistsBijection
  <2>4. image = 1 .. n
    BY <1>1, <2>2, <2>3, IntervalCardinality, FS_Subset
  <2> QED
    BY <2>4 DEF image
<1>7. ASSUME NEW i \in 1 .. n PROVE q[i] \in S /\ rank[q[i]] = i
  <2>1. PICK x \in S : rank[x] = i
    BY <1>6
  <2>2. \A y \in S : rank[y] = i <=> Cardinality(below(y)) = i - 1
    <3>1. SUFFICES ASSUME NEW y \in S PROVE rank[y] = i <=> Cardinality(below(y)) = i - 1
      OBVIOUS
    <3>2. rank[y] = Cardinality(below(y)) + 1
      BY DEF rank
    <3> HIDE DEF below, n
    <3>3. Cardinality(below(y)) \in Int
      BY <1>1, <1>2
    <3> QED
      BY <1>1, <3>2, <3>3
  <2>3. Cardinality(below(x)) = i - 1
    BY <2>1, <2>2
  <2>4. q[i] \in S /\ Cardinality(below(q[i])) = i - 1
    BY <2>3 DEF Ranking
  <2> HIDE DEF below
  <2> QED
    BY <2>2, <2>4
<1>8. q \in [1 .. n -> S]
  BY <1>7 DEF Ranking
<1>9. ASSUME NEW i \in 1 .. n, NEW j \in 1 .. n, i < j PROVE <<q[i], q[j]>> \in R
  <2>1. rank[q[i]] = i /\ rank[q[j]] = j /\ i \in Int /\ j \in Int
    BY <1>1, <1>7
  <2>2. q[i] \in S /\ q[j] \in S /\ q[i] # q[j] /\ ~(rank[q[j]] < rank[q[i]])
    BY <1>7, <1>9, <2>1
  <2>3. <<q[j], q[i]>> \notin R
    BY <1>5, <2>2
  <2> HIDE DEF n
  <2> QED
    BY <2>2, <2>3 DEF Orders
<1>10. ASSUME NEW x \in S PROVE \E i \in 1 .. n : q[i] = x
  <2>1. rank[x] \in 1 .. n /\ rank[q[rank[x]]] = rank[x] /\ q[rank[x]] \in S
    BY <1>4, <1>7
  <2>2. q[rank[x]] = x
    <3>1. SUFFICES ASSUME q[rank[x]] # x PROVE FALSE
      OBVIOUS
    <3>2. rank[q[rank[x]]] < rank[x] \/ rank[x] < rank[q[rank[x]]]
      BY <1>5, <2>1, <3>1 DEF Orders
    <3> QED
      BY <1>1, <2>1, <3>2
  <2> QED
    BY <2>1, <2>2
<1> HIDE DEF n
<1> QED
  BY <1>1, <1>8, <1>9, <1>10 DEF n

(* A finite set that is not empty has a first element.                     *)
LEMMA FirstOf ==
  ASSUME NEW S, IsFiniteSet(S), S # {}, NEW R, Orders(R, S)
  PROVE  \E x \in S : \A y \in S \ {x} : <<x, y>> \in R
<1> DEFINE n == Cardinality(S)
           pick(i) == CHOOSE x \in S : Cardinality({y \in S : <<y, x>> \in R}) = i - 1
           q == [i \in 1 .. n |-> pick(i)]
<1>1. \A i \in 1 .. n, x \in S :
        Cardinality({y \in S : <<y, x>> \in R}) = i - 1 =>
          pick(i) \in S /\ Cardinality({y \in S : <<y, pick(i)>> \in R}) = i - 1
  OBVIOUS
<1> HIDE DEF pick
<1>2. Ranking(q, R, S)
  BY <1>1 DEF Ranking
<1> HIDE DEF q
<1>3. /\ n \in Nat /\ q \in [1 .. n -> S]
      /\ \A i, j \in 1 .. n : i < j => <<q[i], q[j]>> \in R
      /\ \A x \in S : \E i \in 1 .. n : q[i] = x
  BY <1>2, Ranks
<1>4. n # 0
  BY FS_EmptySet
<1>5. 1 \in 1 .. n
  BY <1>3, <1>4
<1>6. ASSUME NEW y \in S \ {q[1]} PROVE <<q[1], y>> \in R
  <2>1. PICK i \in 1 .. n : q[i] = y
    BY <1>3
  <2>2. i # 1
    BY <2>1
  <2>3. 1 < i
    BY <1>3, <2>1, <2>2
  <2> QED
    BY <1>3, <1>5, <2>1, <2>3
<1> QED
  BY <1>3, <1>5, <1>6

(* What InOrder makes of a finite set, if its order is one.                *)
Enumerates(q, S) ==
  /\ q \in [1 .. Cardinality(S) -> S] /\ Cardinality(S) \in Nat
  /\ \A x \in S : \E i \in 1 .. Cardinality(S) : q[i] = x

(* The numbers of a finite set from the least on are all of them.          *)
LEMMA AscendingEnumerates ==
  ASSUME NEW S, S \subseteq Nat, IsFiniteSet(S)
  PROVE  Enumerates(Ascending(S), S)
<1> DEFINE n == Cardinality(S)
           R == {p \in S \X S : p[1] < p[2]}
           pick(i) == CHOOSE x \in S : Cardinality({y \in S : y < x}) = i - 1
           q == Ascending(S)
<1>1. q = [i \in 1 .. n |-> pick(i)]
  BY DEF Ascending, InOrder
<1>2. \A i \in 1 .. n, x \in S :
        Cardinality({y \in S : y < x}) = i - 1 =>
          pick(i) \in S /\ Cardinality({y \in S : y < pick(i)}) = i - 1
  OBVIOUS
<1>3. \A x \in S : {y \in S : y < x} = {y \in S : <<y, x>> \in R}
  OBVIOUS
<1>4. Orders(R, S)
  BY DEF Orders
<1> HIDE DEF pick, q, R
<1>5. \A i \in 1 .. n, x \in S :
        Cardinality({y \in S : <<y, x>> \in R}) = i - 1 =>
          pick(i) \in S /\ Cardinality({y \in S : <<y, pick(i)>> \in R}) = i - 1
  BY <1>2, <1>3
<1>6. Ranking(q, R, S)
  BY <1>1, <1>5 DEF Ranking
<1>7. /\ n \in Nat /\ q \in [1 .. n -> S] /\ \A x \in S : \E i \in 1 .. n : q[i] = x
  BY <1>4, <1>6, Ranks
<1> QED
  BY <1>7 DEF Enumerates, q

(* And all pairs are compared.                                             *)
LEMMA PairsEnumerate ==
  ASSUME NEW n \in Nat
  PROVE  Enumerates(Pairs(n), {p \in (1 .. n) \X (1 .. n) : p[1] < p[2]})
<1> DEFINE S == {p \in (1 .. n) \X (1 .. n) : p[1] < p[2]}
           m == Cardinality(S)
           R == {pq \in S \X S : RowByRow(pq[1], pq[2])}
           pick(i) == CHOOSE x \in S : Cardinality({y \in S : RowByRow(y, x)}) = i - 1
           q == Pairs(n)
<1>0. IsFiniteSet(S)
  <2>1. IsFiniteSet((1 .. n) \X (1 .. n))
    BY IntervalCardinality, FS_Product
  <2> QED
    BY <2>1, FS_Subset
<1>1. q = [i \in 1 .. m |-> pick(i)]
  BY DEF Pairs, InOrder
<1>4. Orders(R, S)
  <2>1. \A x \in S : x \in (1 .. n) \X (1 .. n) /\ x[1] \in Nat /\ x[2] \in Nat /\ x = <<x[1], x[2]>>
    OBVIOUS
  <2> HIDE DEF S
  <2>2. \A x, y \in S : <<x, y>> \in R <=> RowByRow(x, y)
    OBVIOUS
  <2> HIDE DEF R
  <2>3. \A x \in S : <<x, x>> \notin R
    BY <2>1, <2>2 DEF RowByRow
  <2>4. ASSUME NEW x \in S, NEW y \in S, NEW z \in S, <<x, y>> \in R, <<y, z>> \in R
        PROVE  <<x, z>> \in R
    <3>1. /\ x[1] \in Nat /\ x[2] \in Nat /\ y[1] \in Nat /\ y[2] \in Nat
          /\ z[1] \in Nat /\ z[2] \in Nat
      BY <2>1
    <3>2. RowByRow(x, y) /\ RowByRow(y, z)
      BY <2>2, <2>4
    <3>3. RowByRow(x, z)
      BY <3>1, <3>2 DEF RowByRow
    <3> QED
      BY <2>2, <3>3
  <2>5. ASSUME NEW x \in S, NEW y \in S, x # y PROVE <<x, y>> \in R \/ <<y, x>> \in R
    <3>1. x[1] \in Nat /\ x[2] \in Nat /\ y[1] \in Nat /\ y[2] \in Nat
      BY <2>1
    <3>2. x[1] # y[1] \/ x[2] # y[2]
      BY <2>1, <2>5
    <3>3. RowByRow(x, y) \/ RowByRow(y, x)
      BY <3>1, <3>2 DEF RowByRow
    <3> QED
      BY <2>2, <3>3
  <2> QED
    BY <2>3, <2>4, <2>5 DEF Orders
<1> HIDE DEF S
<1>2. \A i \in 1 .. m, x \in S :
        Cardinality({y \in S : RowByRow(y, x)}) = i - 1 =>
          pick(i) \in S /\ Cardinality({y \in S : RowByRow(y, pick(i))}) = i - 1
  OBVIOUS
<1>3. \A x \in S : {y \in S : RowByRow(y, x)} = {y \in S : <<y, x>> \in R}
  OBVIOUS
<1> HIDE DEF pick, q, R
<1>5. \A i \in 1 .. m, x \in S :
        Cardinality({y \in S : <<y, x>> \in R}) = i - 1 =>
          pick(i) \in S /\ Cardinality({y \in S : <<y, pick(i)>> \in R}) = i - 1
  BY <1>2, <1>3
<1>6. Ranking(q, R, S)
  BY <1>1, <1>5 DEF Ranking
<1>7. /\ m \in Nat /\ q \in [1 .. m -> S] /\ \A x \in S : \E i \in 1 .. m : q[i] = x
  BY <1>0, <1>4, <1>6, Ranks
<1> QED
  BY <1>7 DEF Enumerates, q, S

-----------------------------------------------------------------------------
(* Groups of photos: what dedupeCandidates computes, for any photos.       *)

(* What find makes of the links, level by level.                           *)
IsRoot(parent, root) ==
  root = [k \in DOMAIN parent |-> IF parent[k] = k THEN k ELSE root[parent[k]]]

(* Links that lead each member of D down to the root of its tree.          *)
Forest(parent, D, depth, root) ==
  /\ parent \in [D -> D] /\ depth \in [D -> Nat] /\ root \in [D -> D]
  /\ \A k \in D : parent[k] = k => root[k] = k
  /\ \A k \in D : parent[k] # k => root[k] = root[parent[k]] /\ depth[parent[k]] < depth[k]
  /\ \A k \in D : parent[root[k]] = root[k]

(* find returns the root.                                                  *)
LEMMA FindRoot ==
  ASSUME NEW parent, NEW D, NEW depth, NEW root, Forest(parent, D, depth, root)
  PROVE  \A i \in D : Find(parent, i) = root[i]
<1> DEFINE r == CHOOSE f : IsRoot(parent, f)
           Wrong == {k \in D : r[k] # root[k]}
           Depths == {depth[k] : k \in Wrong}
<1>1. \A i \in D : Find(parent, i) = r[i]
  BY DEF Find, IsRoot
<1>2. IsRoot(parent, root)
  <2>1. /\ root = [k \in D |-> root[k]] /\ DOMAIN parent = D
        /\ \A k \in D : root[k] = IF parent[k] = k THEN k ELSE root[parent[k]]
    BY DEF Forest
  <2> QED
    BY <2>1 DEF IsRoot
<1>3. IsRoot(parent, r)
  BY <1>2
<1> HIDE DEF r
<1>4. \A k \in D : r[k] = IF parent[k] = k THEN k ELSE r[parent[k]]
  BY <1>3 DEF IsRoot, Forest
<1>5. ASSUME Wrong # {} PROVE FALSE
  <2>1. Depths \subseteq Nat /\ Depths # {}
    BY <1>5 DEF Forest
  <2> HIDE DEF Depths
  <2>2. PICK x \in Depths : \A y \in Depths : x <= y
    BY <2>1, Least
  <2>3. PICK k \in Wrong : x = depth[k]
    BY DEF Depths
  <2>4. parent[k] # k
    BY <1>4, <2>3 DEF Forest
  <2>5. parent[k] \in Wrong
    BY <1>4, <2>3, <2>4 DEF Forest
  <2>6. depth[parent[k]] \in Depths
    BY <2>5 DEF Depths
  <2>7. depth[parent[k]] < depth[k] /\ depth[k] \in Nat /\ depth[parent[k]] \in Nat
    BY <2>3, <2>4 DEF Forest
  <2>8. depth[k] <= depth[parent[k]]
    BY <2>2, <2>3, <2>6
  <2> QED
    BY <2>7, <2>8
<1> QED
  BY <1>1, <1>5

(* union makes one tree of two.                                            *)
MergedTrees(D, root, i, j) == [k \in D |-> IF root[k] = root[i] THEN root[j] ELSE root[k]]

LEMMA UnionForest ==
  ASSUME NEW parent, NEW D, NEW depth, NEW root, Forest(parent, D, depth, root),
         NEW i \in D, NEW j \in D
  PROVE  \E deep : Forest(Union(parent, i, j), D, deep, MergedTrees(D, root, i, j))
<1> DEFINE p == Union(parent, i, j)
           top == MergedTrees(D, root, i, j)
           deep == [k \in D |-> IF root[k] = root[i] THEN depth[k] + depth[root[j]] + 1
                                ELSE depth[k]]
<1>0. /\ parent \in [D -> D] /\ depth \in [D -> Nat] /\ root \in [D -> D]
      /\ \A k \in D : parent[k] = k => root[k] = k
      /\ \A k \in D : parent[k] # k => root[k] = root[parent[k]] /\ depth[parent[k]] < depth[k]
      /\ \A k \in D : parent[root[k]] = root[k]
  BY DEF Forest
<1>1. p = [parent EXCEPT ![root[i]] = root[j]]
  <2>1. Find(parent, i) = root[i] /\ Find(parent, j) = root[j]
    BY FindRoot
  <2> QED
    BY <2>1 DEF Union
<1>2. CASE root[i] = root[j]
  <2>1. p = parent
    BY <1>0, <1>1, <1>2
  <2>2. top = root
    BY <1>0, <1>2 DEF MergedTrees
  <2> QED
    BY <2>1, <2>2
<1>3. CASE root[i] # root[j]
  <2>1. root[root[i]] = root[i] /\ root[root[j]] = root[j] /\ root[i] \in D /\ root[j] \in D
    BY <1>0
  <2>2. \A k \in D : p[k] = IF k = root[i] THEN root[j] ELSE parent[k]
    BY <1>0, <1>1, <2>1
  <2>3. /\ \A k \in D : top[k] = IF root[k] = root[i] THEN root[j] ELSE root[k]
        /\ \A k \in D : deep[k] = IF root[k] = root[i] THEN depth[k] + depth[root[j]] + 1
                                  ELSE depth[k]
    BY DEF MergedTrees
  <2>4. p \in [D -> D] /\ top \in [D -> D]
    BY <1>0, <1>1, <2>1 DEF MergedTrees
  <2>4a. deep \in [D -> Nat]
    BY <1>0, <2>1
  <2> HIDE DEF p, top, deep
  <2>5. ASSUME NEW k \in D, p[k] = k PROVE top[k] = k
    BY <1>0, <1>3, <2>1, <2>2, <2>3, <2>5
  <2>6. ASSUME NEW k \in D, p[k] # k PROVE top[k] = top[p[k]] /\ deep[p[k]] < deep[k]
    <3>0. depth[k] \in Nat /\ depth[root[j]] \in Nat
      BY <1>0, <2>1
    <3>1. CASE k = root[i]
      <4>1. p[k] = root[j] /\ root[k] = root[i]
        BY <2>1, <2>2, <3>1
      <4>2. top[k] = root[j] /\ top[root[j]] = root[j]
        BY <1>3, <2>1, <2>3, <4>1
      <4>3. deep[k] = depth[k] + depth[root[j]] + 1 /\ deep[root[j]] = depth[root[j]]
        BY <1>3, <2>1, <2>3, <4>1
      <4> QED
        BY <3>0, <4>1, <4>2, <4>3
    <3>2. CASE k # root[i]
      <4>1. p[k] = parent[k] /\ parent[k] \in D
        BY <1>0, <2>2, <3>2
      <4>2. root[k] = root[parent[k]] /\ depth[parent[k]] < depth[k] /\ depth[parent[k]] \in Nat
        BY <1>0, <2>6, <4>1
      <4>3. top[k] = top[parent[k]]
        BY <2>3, <4>1, <4>2
      <4>4. CASE root[k] = root[i]
        <5>1. /\ deep[k] = depth[k] + depth[root[j]] + 1
              /\ deep[parent[k]] = depth[parent[k]] + depth[root[j]] + 1
          BY <2>3, <4>1, <4>2, <4>4
        <5> QED
          BY <3>0, <4>1, <4>2, <4>3, <5>1
      <4>5. CASE root[k] # root[i]
        <5>1. deep[k] = depth[k] /\ deep[parent[k]] = depth[parent[k]]
          BY <2>3, <4>1, <4>2, <4>5
        <5> QED
          BY <4>1, <4>2, <4>3, <5>1
      <4> QED
        BY <4>4, <4>5
    <3> QED
      BY <3>1, <3>2
  <2>7. ASSUME NEW k \in D PROVE p[top[k]] = top[k]
    BY <1>0, <1>3, <2>1, <2>2, <2>3
  <2>8. Forest(p, D, deep, top)
    BY <2>4, <2>4a, <2>5, <2>6, <2>7 DEF Forest
  <2> QED
    BY <2>8 DEF p, top
<1> QED
  BY <1>2, <1>3

(* The comparisons, one after the other.                                   *)
IsLinked(ps, pairs, after) ==
  after = [m \in Nat |-> IF m = 0 THEN [i \in DOMAIN ps |-> i]
                         ELSE Compare(ps, after[m - 1], pairs[m])]

LEMMA LinkedExists ==
  ASSUME NEW ps, NEW pairs
  PROVE  \E after : IsLinked(ps, pairs, after)
<1> DEFINE Start == [i \in DOMAIN ps |-> i]
           Step(parent, m) == Compare(ps, parent, pairs[m])
           Part(n, f) == f = [m \in 0 .. n |-> IF m = 0 THEN Start ELSE Step(f[m - 1], m)]
           T == {n \in Nat : \E f : Part(n, f)}
<1> HIDE DEF Start, Step
<1>1. \A n \in Nat : n \in T
  <2>1. 0 \in T
    <3> DEFINE f == [i \in 0 .. 0 |-> Start]
    <3>1. Part(0, f)
      OBVIOUS
    <3> QED
      BY <3>1
  <2>2. ASSUME NEW n \in Nat, n \in T PROVE n + 1 \in T
    <3>1. PICK f : Part(n, f)
      BY <2>2
    <3> DEFINE g == [i \in 0 .. n + 1 |-> IF i = n + 1 THEN Step(f[n], n + 1) ELSE f[i]]
    <3>2. ASSUME NEW i \in 0 .. n + 1
          PROVE  g[i] = IF i = 0 THEN Start ELSE Step(g[i - 1], i)
      <4>1. CASE i = n + 1
        <5>1. g[i] = Step(f[n], n + 1) /\ g[i - 1] = f[n]
          BY <4>1
        <5> QED
          BY <4>1, <5>1
      <4>2. CASE i # n + 1
        <5>1. i \in 0 .. n
          BY <4>2
        <5>2. f[i] = IF i = 0 THEN Start ELSE Step(f[i - 1], i)
          BY <3>1, <5>1
        <5>3. i # 0 => g[i - 1] = f[i - 1]
          BY <5>1
        <5> QED
          BY <4>2, <5>2, <5>3
      <4> QED
        BY <4>1, <4>2
    <3>3. Part(n + 1, g)
      BY <3>2
    <3> HIDE DEF Part, g
    <3> QED
      BY <3>3
  <2> HIDE DEF T
  <2> QED
    BY <2>1, <2>2, Induction
<1>2. ASSUME NEW m \in Nat, NEW n \in Nat, NEW f, NEW g, Part(m, f), Part(n, g)
      PROVE  \A i \in Nat : i <= m /\ i <= n => f[i] = g[i]
  <2> DEFINE Same == {i \in Nat : i <= m /\ i <= n => f[i] = g[i]}
  <2>1. 0 \in Same
    BY <1>2
  <2>2. ASSUME NEW i \in Nat, i \in Same PROVE i + 1 \in Same
    <3>1. SUFFICES ASSUME i + 1 <= m, i + 1 <= n PROVE f[i + 1] = g[i + 1]
      OBVIOUS
    <3>2. f[i + 1] = Step(f[i], i + 1)
      <4>1. i + 1 \in 0 .. m /\ i + 1 # 0 /\ (i + 1) - 1 = i
        BY <3>1
      <4> QED
        BY <1>2, <4>1
    <3>3. g[i + 1] = Step(g[i], i + 1)
      <4>1. i + 1 \in 0 .. n /\ i + 1 # 0 /\ (i + 1) - 1 = i
        BY <3>1
      <4> QED
        BY <1>2, <4>1
    <3> QED
      BY <2>2, <3>1, <3>2, <3>3
  <2> HIDE DEF Same
  <2>3. \A i \in Nat : i \in Same
    BY <2>1, <2>2, Induction
  <2> QED
    BY <2>3 DEF Same
<1> DEFINE part == [n \in Nat |-> CHOOSE f : Part(n, f)]
           all == [n \in Nat |-> part[n][n]]
<1>3. \A n \in Nat : Part(n, part[n])
  BY <1>1
<1>4. ASSUME NEW n \in Nat PROVE all[n] = IF n = 0 THEN Start ELSE Step(all[n - 1], n)
  <2>1. part[n][n] = IF n = 0 THEN Start ELSE Step(part[n][n - 1], n)
    <3>1. n \in 0 .. n
      OBVIOUS
    <3> HIDE DEF part
    <3> QED
      BY <1>3, <3>1
  <2>2. CASE n # 0
    <3>1. n - 1 \in Nat /\ n - 1 <= n
      BY <2>2
    <3> HIDE DEF part, Part
    <3>2. part[n][n - 1] = part[n - 1][n - 1]
      BY <1>2, <1>3, <3>1
    <3> QED
      BY <2>1, <2>2, <3>1, <3>2
  <2> QED
    BY <2>1, <2>2
<1>5. all = [n \in Nat |-> IF n = 0 THEN Start ELSE Step(all[n - 1], n)]
  BY <1>4
<1> HIDE DEF all
<1>6. IsLinked(ps, pairs, all)
  BY <1>5 DEF IsLinked, Start, Step
<1> QED
  BY <1>6

(* Linked to themselves at first, photos are linked pair by pair.          *)
LEMMA LinkedPairByPair ==
  ASSUME NEW ps
  PROVE  \E after :
           /\ after[0] = [i \in DOMAIN ps |-> i]
           /\ \A m \in Nat : after[m + 1] = Compare(ps, after[m], Pairs(Len(ps))[m + 1])
           /\ Parents(ps) = after[Len(Pairs(Len(ps)))]
<1> DEFINE pairs == Pairs(Len(ps))
           after == CHOOSE f : IsLinked(ps, pairs, f)
<1>1. IsLinked(ps, pairs, after)
  BY LinkedExists
<1>2. Parents(ps) = after[Len(pairs)]
  BY DEF Parents, IsLinked
<1> HIDE DEF after, pairs
<1>3. after[0] = [i \in DOMAIN ps |-> i]
  BY <1>1 DEF IsLinked
<1>4. ASSUME NEW m \in Nat PROVE after[m + 1] = Compare(ps, after[m], pairs[m + 1])
  <2>1. m + 1 \in Nat /\ m + 1 # 0 /\ (m + 1) - 1 = m
    OBVIOUS
  <2> HIDE DEF Compare
  <2> QED
    BY <1>1, <2>1 DEF IsLinked
<1> QED
  BY <1>2, <1>3, <1>4 DEF pairs

(* A set of photos that no photo outside is like.                          *)
Apart(ps, S) ==
  /\ S \subseteq DOMAIN ps
  /\ \A k \in S, l \in DOMAIN ps \ S : ~Similar(ps[k], ps[l])

(* The trees after the first m comparisons: no tree reaches out of a set   *)
(* that is apart, and what was found alike is in one tree.                 *)
Grouped(ps, m, parent, depth, root) ==
  /\ Forest(parent, DOMAIN ps, depth, root)
  /\ \A S : Apart(ps, S) => \A k \in DOMAIN ps : k \in S <=> root[k] \in S
  /\ \A n \in 1 .. m, i, j \in DOMAIN ps :
       Pairs(Len(ps))[n] = <<i, j>> /\ Similar(ps[i], ps[j]) => root[i] = root[j]

LEMMA CompareGroups ==
  ASSUME NEW ps, NEW m \in Nat, NEW parent, NEW depth, NEW root,
         Grouped(ps, m, parent, depth, root),
         NEW i \in DOMAIN ps, NEW j \in DOMAIN ps, Pairs(Len(ps))[m + 1] = <<i, j>>
  PROVE  \E deep, top : Grouped(ps, m + 1, Compare(ps, parent, <<i, j>>), deep, top)
<1> DEFINE pairs == Pairs(Len(ps))
           top == MergedTrees(DOMAIN ps, root, i, j)
<1>0. /\ Forest(parent, DOMAIN ps, depth, root)
      /\ \A S : Apart(ps, S) => \A k \in DOMAIN ps : k \in S <=> root[k] \in S
      /\ \A n \in 1 .. m, k, l \in DOMAIN ps :
           pairs[n] = <<k, l>> /\ Similar(ps[k], ps[l]) => root[k] = root[l]
  BY DEF Grouped
<1>1. pairs[m + 1] = <<i, j>>
  OBVIOUS
<1> HIDE DEF pairs
<1>2. ASSUME NEW n \in 1 .. m + 1, NEW k, NEW l, pairs[n] = <<k, l>>
      PROVE  n \in 1 .. m \/ (k = i /\ l = j)
  <2>1. CASE n = m + 1
    BY <1>1, <1>2, <2>1
  <2> QED
    BY <2>1
<1>4. CASE ~Similar(ps[i], ps[j])
  <2>1. Compare(ps, parent, <<i, j>>) = parent
    BY <1>4 DEF Compare
  <2>2. \A n \in 1 .. m + 1, k, l \in DOMAIN ps :
           pairs[n] = <<k, l>> /\ Similar(ps[k], ps[l]) => root[k] = root[l]
    BY <1>0, <1>2, <1>4
  <2>3. Grouped(ps, m + 1, parent, depth, root)
    BY <1>0, <2>2 DEF Grouped, pairs
  <2> QED
    BY <2>1, <2>3
<1>5. CASE Similar(ps[i], ps[j])
  <2>1. Compare(ps, parent, <<i, j>>) = Union(parent, i, j)
    BY <1>5 DEF Compare
  <2>2. PICK deep : Forest(Union(parent, i, j), DOMAIN ps, deep, top)
    BY <1>0, UnionForest
  <2>3. \A k \in DOMAIN ps : top[k] = IF root[k] = root[i] THEN root[j] ELSE root[k]
    BY DEF MergedTrees
  <2> HIDE DEF top
  <2>4. ASSUME NEW S, Apart(ps, S), NEW k \in DOMAIN ps PROVE k \in S <=> top[k] \in S
    <3>1. \A l \in DOMAIN ps : l \in S <=> root[l] \in S
      BY <1>0, <2>4
    <3>2. Similar(ps[j], ps[i])
      BY <1>5 DEF Similar
    <3>3. i \in S <=> j \in S
      BY <1>5, <2>4, <3>2 DEF Apart
    <3> QED
      BY <2>3, <3>1, <3>3
  <2>5. ASSUME NEW n \in 1 .. m + 1, NEW k \in DOMAIN ps, NEW l \in DOMAIN ps,
               pairs[n] = <<k, l>>, Similar(ps[k], ps[l])
        PROVE  top[k] = top[l]
    <3>1. n \in 1 .. m \/ (k = i /\ l = j)
      BY <1>2, <2>5
    <3>2. CASE n \in 1 .. m
      <4>1. root[k] = root[l]
        BY <1>0, <2>5, <3>2
      <4> QED
        BY <2>3, <4>1
    <3>3. CASE k = i /\ l = j
      BY <2>3, <3>3
    <3> QED
      BY <3>1, <3>2, <3>3
  <2>6. Grouped(ps, m + 1, Union(parent, i, j), deep, top)
    BY <2>2, <2>4, <2>5 DEF Grouped, pairs
  <2> QED
    BY <2>1, <2>6
<1> QED
  BY <1>4, <1>5

(* After all comparisons the photos of one tree are those that chains join.*)
LEMMA FindGroups ==
  ASSUME IsScan(photos)
  PROVE  \A i, j \in DOMAIN photos :
           Find(Parents(photos), i) = Find(Parents(photos), j) <=> Joined(i, j)
<1> DEFINE ps == photos
           D == DOMAIN photos
           n == Len(photos)
           all == {p \in (1 .. n) \X (1 .. n) : p[1] < p[2]}
           c == Cardinality(all)
<1>1. n \in Nat /\ D = 1 .. n
  BY DEF IsScan
<1>2. PICK after :
        /\ after[0] = [i \in D |-> i]
        /\ \A m \in Nat : after[m + 1] = Compare(ps, after[m], Pairs(n)[m + 1])
        /\ Parents(ps) = after[Len(Pairs(n))]
  BY LinkedPairByPair
<1>3. /\ c \in Nat /\ Pairs(n) \in [1 .. c -> all]
      /\ \A p \in all : \E m \in 1 .. c : Pairs(n)[m] = p
  BY <1>1, PairsEnumerate DEF Enumerates
<1>4. Len(Pairs(n)) = c
  BY <1>3
<1>5. \A p \in all : p[1] \in D /\ p[2] \in D /\ p = <<p[1], p[2]>>
  BY <1>1
<1>6. \A i, j \in D : i < j => <<i, j>> \in all
  BY <1>1
<1> DEFINE T == {m \in Nat : m <= c => \E depth, root : Grouped(ps, m, after[m], depth, root)}
<1> HIDE DEF all, n, c
<1>7. 0 \in T
  <2> DEFINE self == [i \in D |-> i]
             zero == [i \in D |-> 0]
  <2>1. Forest(self, D, zero, self)
    BY DEF Forest
  <2>2. \A S : Apart(ps, S) => \A k \in D : k \in S <=> self[k] \in S
    OBVIOUS
  <2>3. 1 .. 0 = {}
    OBVIOUS
  <2>4. Grouped(ps, 0, self, zero, self)
    BY <2>1, <2>2, <2>3 DEF Grouped
  <2> HIDE DEF self, zero
  <2>5. after[0] = self
    BY <1>2 DEF self
  <2> QED
    BY <2>4, <2>5
<1>8. ASSUME NEW m \in Nat, m \in T PROVE m + 1 \in T
  <2>1. SUFFICES ASSUME m + 1 <= c
                 PROVE  \E deep, top : Grouped(ps, m + 1, after[m + 1], deep, top)
    OBVIOUS
  <2>2. PICK depth, root : Grouped(ps, m, after[m], depth, root)
    BY <1>3, <1>8, <2>1
  <2>3. m + 1 \in 1 .. c
    BY <1>3, <2>1
  <2>4. Pairs(n)[m + 1] \in all
    BY <1>3, <2>3
  <2>5. PICK i \in D, j \in D : Pairs(n)[m + 1] = <<i, j>>
    BY <1>5, <2>4
  <2>6. \E deep, top : Grouped(ps, m + 1, Compare(ps, after[m], <<i, j>>), deep, top)
    BY <2>2, <2>5, CompareGroups DEF n
  <2>7. after[m + 1] = Compare(ps, after[m], <<i, j>>)
    BY <1>2, <2>5
  <2> QED
    BY <2>6, <2>7
<1> HIDE DEF T
<1>9. c \in T
  BY <1>3, <1>7, <1>8, Induction
<1>10. PICK depth, root : Grouped(ps, c, Parents(ps), depth, root)
  BY <1>2, <1>3, <1>4, <1>9 DEF T
<1>11. \A i \in D : Find(Parents(ps), i) = root[i]
  BY <1>10, FindRoot DEF Grouped
<1>12. root \in [D -> D]
  BY <1>10 DEF Grouped, Forest
<1>13. ASSUME NEW i \in D, NEW j \in D, root[i] = root[j] PROVE Joined(i, j)
  <2>1. SUFFICES ASSUME NEW S \in SUBSET D, i \in S,
                        \A k \in S, l \in D \ S : ~Similar(photos[k], photos[l])
                 PROVE  j \in S
    BY DEF Joined
  <2>2. Apart(ps, S)
    BY <2>1 DEF Apart
  <2>3. \A k \in D : k \in S <=> root[k] \in S
    BY <1>10, <2>2 DEF Grouped
  <2> QED
    BY <1>13, <2>1, <2>3
<1>14. ASSUME NEW i \in D, NEW j \in D, Joined(i, j) PROVE root[i] = root[j]
  <2> DEFINE S == {k \in D : root[k] = root[i]}
  <2>1. ASSUME NEW k \in D, NEW l \in D, k < l, Similar(ps[k], ps[l]) PROVE root[k] = root[l]
    <3>1. PICK m \in 1 .. c : Pairs(n)[m] = <<k, l>>
      BY <1>3, <1>6, <2>1
    <3> QED
      BY <1>10, <2>1, <3>1 DEF Grouped, n
  <2>2. ASSUME NEW k \in S, NEW l \in D \ S PROVE ~Similar(photos[k], photos[l])
    <3>1. k < l \/ l < k
      BY <1>1, <2>2
    <3>2. Similar(photos[k], photos[l]) => Similar(photos[l], photos[k])
      BY DEF Similar
    <3>3. root[k] # root[l]
      BY <2>2
    <3> QED
      BY <2>1, <3>1, <3>2, <3>3
  <2>3. S \in SUBSET D /\ i \in S
    OBVIOUS
  <2>4. j \in S
    <3> HIDE DEF S
    <3> QED
      BY <1>14, <2>2, <2>3 DEF Joined
  <2> QED
    BY <2>4
<1> QED
  BY <1>11, <1>13, <1>14

(* Of any photos one is the best.                                          *)
LEMMA PickBestIs ==
  ASSUME IsScan(photos), NEW M, M \subseteq DOMAIN photos, M # {}
  PROVE  /\ PickBest(photos, M) \in M
         /\ \A j \in M \ {PickBest(photos, M)} : Better(photos, PickBest(photos, M), j)
<1> DEFINE R == {p \in M \X M : Better(photos, p[1], p[2])}
<1>1. /\ DOMAIN photos = 1 .. Len(photos) /\ Len(photos) \in Nat
      /\ \A i \in DOMAIN photos : photos[i].quality \in Nat
  BY DEF IsScan
<1>2. IsFiniteSet(M)
  BY <1>1, IntervalCardinality, FS_Subset
<1>3. \A x, y \in M : <<x, y>> \in R <=> Better(photos, x, y)
  OBVIOUS
<1> HIDE DEF R
<1>4. \A x \in M : x \in Nat /\ photos[x].quality \in Nat
  BY <1>1
<1>5. \A x \in M : <<x, x>> \notin R
  BY <1>3, <1>4 DEF Better
<1>6. ASSUME NEW x \in M, NEW y \in M, NEW z \in M, <<x, y>> \in R, <<y, z>> \in R
      PROVE  <<x, z>> \in R
  BY <1>3, <1>4, <1>6 DEF Better
<1>7. ASSUME NEW x \in M, NEW y \in M, x # y PROVE <<x, y>> \in R \/ <<y, x>> \in R
  BY <1>3, <1>4, <1>7 DEF Better
<1>8. Orders(R, M)
  BY <1>5, <1>6, <1>7 DEF Orders
<1>9. \E x \in M : \A y \in M \ {x} : <<x, y>> \in R
  BY <1>2, <1>8, FirstOf
<1>10. \E x \in M : \A y \in M \ {x} : Better(photos, x, y)
  BY <1>3, <1>9
<1> QED
  BY <1>10 DEF PickBest

(* What the scan chooses is the best photo of each group.                  *)
LEMMA SurvivorsAreBest ==
  ASSUME IsScan(photos)
  PROVE  {Survivors(photos)[n] : n \in DOMAIN Survivors(photos)} = Best
<1> DEFINE D == DOMAIN photos
           find(i) == Find(Parents(photos), i)
           members(i) == {j \in D : find(j) = find(i)}
           F == {i \in D : \A j \in members(i) : i <= j}
           firsts == Ascending(F)
<1>1. /\ D = 1 .. Len(photos) /\ Len(photos) \in Nat
      /\ \A i \in D : photos[i].quality \in Nat
  BY DEF IsScan
<1>2. \A i, j \in D : find(i) = find(j) <=> Joined(i, j)
  BY FindGroups
<1>3. Survivors(photos) = [n \in DOMAIN firsts |-> PickBest(photos, members(firsts[n]))]
  BY DEF Survivors
<1> HIDE DEF find
<1>4. F \subseteq D /\ F \subseteq Nat /\ IsFiniteSet(F)
  <2>1. F \subseteq D /\ F \subseteq Nat
    BY <1>1
  <2>2. IsFiniteSet(D)
    BY <1>1, IntervalCardinality
  <2> HIDE DEF F
  <2> QED
    BY <2>1, <2>2, FS_Subset
<1>5. \A i \in F : i \in D /\ \A j \in members(i) : i <= j
  OBVIOUS
<1>5a. \A i \in D : (\A j \in members(i) : i <= j) => i \in F
  OBVIOUS
<1> HIDE DEF F
<1>6. /\ Cardinality(F) \in Nat /\ firsts \in [1 .. Cardinality(F) -> F]
      /\ \A x \in F : \E n \in 1 .. Cardinality(F) : firsts[n] = x
  BY <1>4, AscendingEnumerates DEF Enumerates
<1> HIDE DEF firsts
<1>7. \A i, j \in D : j \in members(i) <=> Joined(i, j)
  BY <1>2
<1>8. \A i \in D : members(i) \subseteq D /\ i \in members(i)
  OBVIOUS
<1>9. \A i, j \in D : j \in members(i) => members(j) = members(i)
  OBVIOUS
<1> HIDE DEF members
<1>10. ASSUME NEW i \in D
       PROVE  /\ PickBest(photos, members(i)) \in members(i)
              /\ \A j \in members(i) \ {PickBest(photos, members(i))} :
                   Better(photos, PickBest(photos, members(i)), j)
  BY <1>8, PickBestIs
<1>11. ASSUME NEW i \in D PROVE PickBest(photos, members(i)) \in Best
  <2> DEFINE x == PickBest(photos, members(i))
  <2>1. x \in D /\ members(x) = members(i)
    BY <1>8, <1>9, <1>10
  <2>2. \A j \in members(i) \ {x} : Better(photos, x, j)
    BY <1>10
  <2> HIDE DEF x
  <2>3. ASSUME NEW j \in D \ {x}, Joined(x, j) PROVE Better(photos, x, j)
    BY <1>7, <2>1, <2>2, <2>3
  <2>4. x \in Best
    BY <2>1, <2>3 DEF Best
  <2> QED
    BY <2>4 DEF x
<1>12. ASSUME NEW x \in Best
       PROVE  \E n \in 1 .. Cardinality(F) : x = PickBest(photos, members(firsts[n]))
  <2>1. x \in D /\ \A j \in D \ {x} : Joined(x, j) => Better(photos, x, j)
    BY DEF Best
  <2>2. members(x) \subseteq Nat /\ members(x) # {}
    BY <1>1, <1>8, <2>1
  <2>3. PICK f \in members(x) : \A j \in members(x) : f <= j
    BY <2>2, Least
  <2>4. f \in D /\ members(f) = members(x)
    BY <1>8, <1>9, <2>1, <2>3
  <2>5. f \in F
    BY <1>5a, <2>3, <2>4
  <2>6. PICK n \in 1 .. Cardinality(F) : firsts[n] = f
    BY <1>6, <2>5
  <2> DEFINE y == PickBest(photos, members(x))
  <2>7. y \in members(x) /\ \A j \in members(x) \ {y} : Better(photos, y, j)
    BY <1>10, <2>1
  <2> HIDE DEF y
  <2>8. y \in D /\ Joined(x, y)
    BY <1>7, <1>8, <2>1, <2>7
  <2>9. ASSUME x # y PROVE FALSE
    <3>1. Better(photos, y, x) /\ Better(photos, x, y)
      BY <1>8, <2>1, <2>7, <2>8, <2>9
    <3>2. /\ x \in Nat /\ y \in Nat
          /\ photos[x].quality \in Nat /\ photos[y].quality \in Nat
      BY <1>1, <2>1, <2>8
    <3> QED
      BY <3>1, <3>2 DEF Better
  <2> QED
    BY <2>4, <2>6, <2>9 DEF y
<1>13. DOMAIN Survivors(photos) = 1 .. Cardinality(F)
  BY <1>3, <1>6
<1>14. \A n \in 1 .. Cardinality(F) : Survivors(photos)[n] = PickBest(photos, members(firsts[n]))
  BY <1>3, <1>6
<1>15. \A n \in 1 .. Cardinality(F) : firsts[n] \in D
  BY <1>4, <1>6
<1> QED
  BY <1>11, <1>12, <1>13, <1>14, <1>15

USE GalleryAssumption, ImportAssumption, CatalogAssumption
    DEF GalleryAssumption, ImportAssumption, CatalogAssumption

-----------------------------------------------------------------------------
(* Edits                                                                   *)

(* What the check of a handler established of the row as it had read it.   *)
Passed(old, dto) ==
  /\ kind \in {"coupon", "price", "stock", "print"} => Agrees(kind, Merged(old, dto))
  /\ kind \in {"window", "schedule", "rate"} =>
       \/ dto.first = Absent /\ dto.second = Absent
       \/ Agrees(kind, Merged(old, dto))
  /\ kind \in Scopes => Agrees(kind, Effective(old, dto))
  /\ kind = "product" => dto.first \in ALLOWED_TRANSITIONS[old.first]
  /\ kind \in Lifecycles => dto.first \in First(kind)

CheckedBeforeWrite ==
  \A r \in Request : pc[r] = "write" =>
    /\ saw[r] \in EditedRows
    /\ body[r] \in Bodies(kind)
    /\ Passed(saw[r], body[r])

AllOffers == [t \in Nat |-> OffersAt(t)]
Emptying == \E r \in Request : pc[r] = "invalidate"

(* A reading follows the edits: it is what applies at its time, or an edit *)
(* is about to empty the cache, or did so since.                           *)
Follows(reading, offers, emptying) ==
  reading # Null /\ reading.offers # offers[reading.read] => reading.late \/ emptying

ReadingsFollowEdits ==
  /\ Follows(cache, AllOffers, Emptying)
  /\ \A l \in Shopper : Follows(filling[l], AllOffers, Emptying)

EditsInv ==
  IF kind \in Others THEN cache = Null
  ELSE EditsTypeOK /\ CheckedBeforeWrite /\ ReadingsFollowEdits

(* A request that passes a check keeps what it read and what it asks for.  *)
LEMMA CheckPasses ==
  ASSUME EditsTypeOK, NEW r \in Request, Check(r)
  PROVE  /\ row \in EditedRows
         /\ \E dto \in Bodies(kind) : Passed(row, dto) /\ Accept(r, dto)
<1>1. row \in EditedRows
  BY DEF Check, EditsTypeOK
<1>2. PICK dto \in Bodies(kind) :
        \/ UpdateCoupon(r, dto) \/ UpdateWindow(r, dto)
        \/ UpdateRate(r, dto) \/ UpdateVariant(r, dto)
        \/ UpdateBundle(r, dto) \/ UpdateScope(r, dto)
        \/ TransitionStatus(r, dto) \/ UpdatePageStatus(r, dto)
  BY DEF Check
<1>3. Accept(r, dto)
  BY <1>2 DEF UpdateCoupon, UpdateWindow, UpdateRate, UpdateVariant, UpdateBundle,
              UpdateScope, TransitionStatus, UpdatePageStatus
<1>4. Passed(row, dto)
  <2>1. CASE UpdateCoupon(r, dto)
    BY <2>1 DEF UpdateCoupon, Passed, Agrees, Lifecycles, Scopes
  <2>2. CASE UpdateWindow(r, dto)
    BY <2>2 DEF UpdateWindow, Passed, Agrees, Lifecycles, Scopes
  <2>3. CASE UpdateRate(r, dto)
    BY <2>3 DEF UpdateRate, Passed, Agrees, Lifecycles, Scopes
  <2>4. CASE UpdateVariant(r, dto)
    BY <2>4 DEF UpdateVariant, Passed, Lifecycles, Scopes
  <2>5. CASE UpdateBundle(r, dto)
    BY <2>5 DEF UpdateBundle, Passed, Lifecycles, Scopes
  <2>6. CASE UpdateScope(r, dto)
    BY <2>6 DEF UpdateScope, Passed, Lifecycles, Scopes
  <2>7. CASE TransitionStatus(r, dto)
    <3>1. /\ kind = "product" /\ dto.first \in ALLOWED_TRANSITIONS[row.first]
          /\ row.first \in First(kind)
      BY <1>1, <2>7 DEF TransitionStatus, EditedRows
    <3>2. dto.first \in First(kind)
      BY <3>1 DEF First, ALLOWED_TRANSITIONS
    <3> QED
      BY <3>1, <3>2 DEF Passed, Scopes
  <2>8. CASE UpdatePageStatus(r, dto)
    <3>1. kind = "page" /\ dto.first # Absent
      BY <2>8 DEF UpdatePageStatus
    <3>2. dto.first \in First(kind)
      BY <3>1 DEF Bodies
    <3> QED
      BY <3>1, <3>2 DEF Passed, Scopes
  <2> QED
    BY <1>2, <2>1, <2>2, <2>3, <2>4, <2>5, <2>6, <2>7, <2>8
<1> QED
  BY <1>1, <1>3, <1>4

LEMMA ListsAre ==
  /\ Lists = {"variants", "targets"}
  /\ \A l \in Lists : Floor[l] \in 1 .. 2
<1>1. Lists = {"variants", "targets"}
  BY DEF Lists
<1>2. \A l \in Lists : Floor[l] = IF l = "variants" THEN 2 ELSE 1
  BY DEF Floor
<1> QED
  BY <1>1, <1>2

LEMMA WriteKeepsType ==
  ASSUME EditsTypeOK, CheckedBeforeWrite, NEW r \in Request, WriteEdit(r)
  PROVE  row' \in EditedRows /\ EndWrite(r)
<1> DEFINE dto == body[r]
<1>1. /\ row \in EditedRows /\ saw[r] \in EditedRows /\ dto \in Bodies(kind)
      /\ Passed(saw[r], dto)
  BY DEF WriteEdit, EditsTypeOK, CheckedBeforeWrite
<1>2. CASE WriteStatus(r)
  <2>1. dto.first \in First(kind)
    BY <1>1, <1>2 DEF Passed, WriteStatus, Bodies
  <2> QED
    BY <1>1, <1>2, <2>1 DEF WriteStatus, EditedRows
<1>3. CASE WriteScope(r)
  <2>1. dto.first \in First(kind) \cup {Absent}
    BY <1>1 DEF Bodies
  <2>2. kind \in Scopes /\ kind \notin Lifecycles
    BY <1>3 DEF WriteScope, Lifecycles, Scopes
  <2>3. Second(kind) = Lengths(Lists)
    BY <2>2 DEF Second, Scopes
  <2>4. row.second \in Lengths(Lists) /\ saw[r].second \in Lengths(Lists)
    BY <1>1, <2>2, <2>3 DEF EditedRows
  <2>5. PICK lists \in SUBSET Lists : dto.second \in Lengths(lists)
    <3>1. dto.second \in UNION {Lengths(lists) : lists \in SUBSET Lists}
      BY <1>1, <2>2 DEF Bodies
    <3> QED
      BY <3>1
  <2>6. /\ \A l \in Lists : row.second[l] \in 0 .. 2 /\ row.second[l] <= Floor[l]
        /\ \A l \in Lists : saw[r].second[l] \in 0 .. 2 /\ saw[r].second[l] <= Floor[l]
        /\ DOMAIN dto.second = lists
        /\ \A l \in lists : dto.second[l] \in 0 .. 2 /\ dto.second[l] <= Floor[l]
    BY <2>4, <2>5 DEF Lengths
  <2> DEFINE new == Effective(saw[r], dto)
             written == row'.second
  <2>7. \A l \in Lists : \/ new.second[l] = dto.second[l] /\ l \in lists
                         \/ new.second[l] = saw[r].second[l]
                         \/ new.second[l] = 0
    BY <2>6 DEF Effective
  <2>8. \A l \in Lists : written[l] = new.second[l] \/ written[l] = row.second[l]
    BY <1>3 DEF WriteScope
  <2>9. \E f : written = [l \in Lists |-> f[l]]
    <3> DEFINE dropped == IF dto.first \notin {Absent, saw[r].first} THEN Lists
                                                                    ELSE DOMAIN dto.second
               g == [l \in Lists |-> IF l \in dropped THEN new.second[l] ELSE row.second[l]]
    <3>1. written = g
      BY <1>3 DEF WriteScope
    <3>2. g = [l \in Lists |-> g[l]]
      OBVIOUS
    <3> QED
      BY <3>1, <3>2
  <2> HIDE DEF new, written
  <2>10. \A l \in Lists : written[l] \in 0 .. 2 /\ written[l] <= Floor[l]
    BY <2>6, <2>7, <2>8, ListsAre
  <2>11. written \in Lengths(Lists)
    BY <2>9, <2>10 DEF Lengths
  <2>12. row' = [first |-> row'.first, second |-> written]
         /\ row'.first \in First(kind)
    BY <1>1, <1>3, <2>1 DEF WriteScope, EditedRows, written
  <2> QED
    BY <1>3, <2>2, <2>3, <2>11, <2>12 DEF WriteScope, EditedRows
<1>4. CASE WriteFields(r)
  <2>1. /\ dto.first \in First(kind) \cup {Absent}
        /\ dto.second \in Second(kind) \cup {Absent}
    BY <1>1, <1>4 DEF Bodies, WriteFields
  <2>2. kind \notin Lifecycles
    BY <1>4 DEF WriteFields
  <2>3. row' = Merged(row, dto)
    BY <1>4 DEF WriteFields
  <2> QED
    BY <1>1, <1>4, <2>1, <2>2, <2>3 DEF WriteFields, Merged, EditedRows
<1> QED
  BY <1>2, <1>3, <1>4 DEF WriteEdit, WriteStatus, WriteScope, WriteFields

LEMMA CreateKeepsType ==
  ASSUME NEW r \in Request, Create(r)
  PROVE  row' \in EditedRows /\ EndWrite(r)
<1>1. PICK new \in RowsOf(kind) : Insert(r, new)
  BY DEF Create, CreateCoupon, CreateRate, CreateVariant, CreateBundle, CreateDraft
<1>2. RowsOf(kind) \subseteq EditedRows
  <2>1. kind \in Lifecycles => Second(kind) \subseteq Nat
    BY DEF Lifecycles, Second, Scopes
  <2> QED
    BY <2>1 DEF RowsOf, EditedRows
<1> QED
  BY <1>1, <1>2 DEF Insert

(* Every step either checks, or changes the row, or has to do with the     *)
(* cache.                                                                  *)
LEMMA EditsStepCases ==
  ASSUME EditsTypeOK, CheckedBeforeWrite, EditsNext
  PROVE  \/ \E r \in Request, dto \in Bodies(kind) :
              /\ pc[r] = "start"
              /\ row \in EditedRows
              /\ Passed(row, dto)
              /\ Accept(r, dto)
         \/ \E r \in Request :
              /\ pc[r] \in {"start", "write"}
              /\ row' \in {NoRow} \cup EditedRows
              /\ EndWrite(r)
         \/ \E r \in Request : WriteFails(r) \/ Invalidate(r)
         \/ \E l \in Shopper : ReadOffers(l) \/ StoreOffers(l)
         \/ OffersExpire \/ Tick
<1>1. ASSUME NEW r \in Request, Check(r)
      PROVE  \E dto \in Bodies(kind) :
               pc[r] = "start" /\ row \in EditedRows /\ Passed(row, dto) /\ Accept(r, dto)
  BY <1>1, CheckPasses DEF Check
<1>2. ASSUME NEW r \in Request, WriteEdit(r) \/ Create(r) \/ DeleteBundle(r)
      PROVE  /\ pc[r] \in {"start", "write"}
             /\ row' \in {NoRow} \cup EditedRows
             /\ EndWrite(r)
  <2>1. CASE WriteEdit(r)
    BY <2>1, WriteKeepsType DEF WriteEdit
  <2>2. CASE Create(r)
    BY <2>2, CreateKeepsType DEF Create
  <2>3. CASE DeleteBundle(r)
    BY <2>3 DEF DeleteBundle
  <2> QED
    BY <1>2, <2>1, <2>2, <2>3
<1> QED
  BY <1>1, <1>2 DEF EditsNext

(* What an offer shows is of the shape of a row.                           *)
LEMMA OffersType ==
  ASSUME row \in {NoRow} \cup EditedRows, NEW t
  PROVE  OffersAt(t) \in SUBSET EditedRows
<1>1. kind = "schedule" => [first |-> Null, second |-> Null] \in EditedRows
  BY DEF EditedRows, First, Second, Lifecycles, Scopes
<1> QED
  BY <1>1 DEF OffersAt, Terms

LEMMA OvertakenReadings ==
  ASSUME filling \in [Shopper -> {Null} \cup Readings], NEW l \in Shopper
  PROVE  LET fill == Overtaken(filling) IN
         /\ fill \in [Shopper -> {Null} \cup Readings]
         /\ fill[l] # Null => fill[l].late
<1> DEFINE fill == Overtaken(filling)
<1>1. ASSUME NEW k \in Shopper
      PROVE  fill[k] \in {Null} \cup Readings /\ (fill[k] # Null => fill[k].late)
  <2>1. CASE filling[k] = Null
    BY <2>1 DEF Overtaken
  <2>2. CASE filling[k] # Null
    <3>1. filling[k] \in Readings
      BY <2>2
    <3>2. fill[k] = [filling[k] EXCEPT !.late = TRUE]
      BY <2>2 DEF Overtaken
    <3> QED
      BY <3>1, <3>2 DEF Readings
  <2> QED
    BY <2>1, <2>2
<1>2. fill = [k \in Shopper |-> fill[k]]
  BY DEF Overtaken
<1> HIDE DEF fill
<1>3. fill \in [Shopper -> {Null} \cup Readings]
  BY <1>1, <1>2
<1> QED
  BY <1>1, <1>3 DEF fill

LEMMA EditsTypeStep ==
  ASSUME EditsTypeOK, CheckedBeforeWrite, EditsNext
  PROVE  EditsTypeOK'
<1> USE DEF EditsTypeOK, EditedRows, cacheVars, requestVars
<1>1. ASSUME NEW r \in Request, NEW dto \in Bodies(kind), row \in EditedRows, Accept(r, dto)
      PROVE  EditsTypeOK'
  BY <1>1 DEF Accept, Readings
<1>2. ASSUME NEW r \in Request, row' \in {NoRow} \cup EditedRows, EndWrite(r)
      PROVE  EditsTypeOK'
  BY <1>2 DEF EndWrite, Return, Readings
<1>3. ASSUME NEW r \in Request, WriteFails(r)
      PROVE  EditsTypeOK'
  BY <1>3 DEF WriteFails, Return, Readings
<1>4. ASSUME NEW r \in Request, Invalidate(r)
      PROVE  EditsTypeOK'
  <2>1. filling' \in [Shopper -> {Null} \cup Readings]
    BY <1>4, OvertakenReadings DEF Invalidate, Overtaken
  <2> QED
    BY <1>4, <2>1 DEF Invalidate, Readings
<1>5. ASSUME NEW l \in Shopper, ReadOffers(l) \/ StoreOffers(l)
      PROVE  EditsTypeOK'
  <2>1. CASE ReadOffers(l)
    BY <2>1, OffersType DEF ReadOffers, Readings
  <2>2. CASE StoreOffers(l)
    BY <2>2 DEF StoreOffers, Readings
  <2> QED
    BY <1>5, <2>1, <2>2
<1>6. ASSUME OffersExpire \/ Tick
      PROVE  EditsTypeOK'
  BY <1>6 DEF OffersExpire, Tick, Readings
<1> HIDE DEF EditsTypeOK, EditedRows
<1> QED
  BY <1>1, <1>2, <1>3, <1>4, <1>5, <1>6, EditsStepCases

LEMMA EditsCheckStep ==
  ASSUME EditsTypeOK, CheckedBeforeWrite, EditsNext
  PROVE  CheckedBeforeWrite'
<1> USE DEF EditsTypeOK, CheckedBeforeWrite, cacheVars, requestVars
<1>1. kind' = kind
  BY EditsStepCases DEF Accept, EndWrite, WriteFails, Invalidate, ReadOffers, StoreOffers,
                        OffersExpire, Tick
<1>2. ASSUME NEW r \in Request, pc'[r] = "write",
             UNCHANGED <<pc[r], saw[r], body[r]>>
      PROVE  (saw[r] \in EditedRows /\ body[r] \in Bodies(kind) /\ Passed(saw[r], body[r]))'
  BY <1>1, <1>2 DEF EditedRows, Passed
<1>3. ASSUME NEW r \in Request, NEW dto \in Bodies(kind), row \in EditedRows,
             Passed(row, dto), Accept(r, dto)
      PROVE  CheckedBeforeWrite'
  <2>1. ASSUME NEW q \in Request, q # r
        PROVE  UNCHANGED <<pc[q], saw[q], body[q]>>
    BY <1>3, <2>1 DEF Accept
  <2>2. (saw[r] \in EditedRows /\ body[r] \in Bodies(kind) /\ Passed(saw[r], body[r]))'
    BY <1>1, <1>3 DEF Accept, EditedRows, Passed
  <2> QED
    BY <1>2, <2>1, <2>2
<1>4. ASSUME NEW r \in Request, pc'[r] # "write",
             \A q \in Request : q # r => UNCHANGED <<pc[q], saw[q], body[q]>>
      PROVE  CheckedBeforeWrite'
  BY <1>2, <1>4
<1>5. ASSUME UNCHANGED <<pc, saw, body>>
      PROVE  CheckedBeforeWrite'
  BY <1>2, <1>5
<1>6. ASSUME NEW r \in Request, EndWrite(r)
      PROVE  CheckedBeforeWrite'
  BY <1>4, <1>6 DEF EndWrite, Return
<1>7. ASSUME NEW r \in Request, WriteFails(r)
      PROVE  CheckedBeforeWrite'
  BY <1>4, <1>7 DEF WriteFails, Return
<1>8. ASSUME NEW r \in Request, Invalidate(r)
      PROVE  CheckedBeforeWrite'
  BY <1>4, <1>8 DEF Invalidate
<1> HIDE DEF EditsTypeOK, CheckedBeforeWrite
<1>9. ASSUME NEW l \in Shopper, ReadOffers(l) \/ StoreOffers(l)
      PROVE  CheckedBeforeWrite'
  BY <1>5, <1>9 DEF ReadOffers, StoreOffers
<1>10. ASSUME OffersExpire \/ Tick
       PROVE  CheckedBeforeWrite'
  BY <1>5, <1>10 DEF OffersExpire, Tick
<1> QED
  BY <1>3, <1>6, <1>7, <1>8, <1>9, <1>10, EditsStepCases

(* An edit that changes what applies at some time is about to empty the    *)
(* cache.                                                                  *)
LEMMA EditedOffers ==
  ASSUME EditsTypeOK, NEW r \in Request, EndWrite(r), AllOffers' # AllOffers
  PROVE  Emptying'
<1>1. kind' = kind
  BY DEF EndWrite
<1>2. kind \in {"bundle", "schedule", "offer"}
  BY <1>1 DEF AllOffers, OffersAt, AppliesAt
<1> QED
  BY <1>2 DEF EndWrite, EditsTypeOK, Bundles, Scopes, Emptying

(* A reading goes on following the edits while those about to empty the    *)
(* cache still are, and so is one that changes the offers.                 *)
LEMMA FollowsOn ==
  ASSUME Emptying => Emptying', AllOffers' = AllOffers \/ Emptying',
         NEW reading, Follows(reading, AllOffers, Emptying)
  PROVE  Follows(reading, AllOffers', Emptying')
BY DEF Follows

LEMMA EditsOffersStep ==
  ASSUME EditsTypeOK, CheckedBeforeWrite, EditsNext, ReadingsFollowEdits
  PROVE  ReadingsFollowEdits'
<1> USE DEF cacheVars, requestVars
<1> DEFINE Kept == /\ Follows(cache', AllOffers', Emptying')
                   /\ \A l \in Shopper : Follows(filling'[l], AllOffers', Emptying')
           Lasting == (Emptying => Emptying') /\ (AllOffers' = AllOffers \/ Emptying')
<1>1. /\ Follows(cache, AllOffers, Emptying)
      /\ \A l \in Shopper : Follows(filling[l], AllOffers, Emptying)
      /\ \A offers, emptying : Follows(Null, offers, emptying)
  BY DEF ReadingsFollowEdits, Follows
<1>2. ASSUME Lasting, NEW reading, Follows(reading, AllOffers, Emptying)
      PROVE  Follows(reading, AllOffers', Emptying')
  BY <1>2, FollowsOn
<1>3. ASSUME UNCHANGED <<kind, row>>
      PROVE  AllOffers' = AllOffers
  BY <1>3 DEF AllOffers, OffersAt, AppliesAt, Terms
<1>4. ASSUME UNCHANGED pc
      PROVE  Emptying' = Emptying
  BY <1>4 DEF Emptying
<1>5. ASSUME Lasting, UNCHANGED cacheVars
      PROVE  Kept
  BY <1>1, <1>2, <1>5
<1>6. ASSUME NEW r \in Request, NEW dto, pc[r] = "start", Accept(r, dto)
      PROVE  Kept
  <2>1. Emptying => Emptying'
    BY <1>6 DEF Accept, EditsTypeOK, Emptying
  <2> QED
    BY <1>3, <1>5, <1>6, <2>1 DEF Accept
<1>7. ASSUME NEW r \in Request, pc[r] \in {"start", "write"}, EndWrite(r)
      PROVE  Kept
  <2>1. Emptying => Emptying'
    BY <1>7 DEF EndWrite, EditsTypeOK, Emptying
  <2> QED
    BY <1>5, <1>7, <2>1, EditedOffers DEF EndWrite
<1>8. ASSUME NEW r \in Request, WriteFails(r)
      PROVE  Kept
  <2>1. Emptying => Emptying'
    BY <1>8 DEF WriteFails, EditsTypeOK, Emptying
  <2> QED
    BY <1>3, <1>5, <1>8, <2>1 DEF WriteFails
<1>9. ASSUME NEW r \in Request, Invalidate(r)
      PROVE  Kept
  <2>1. \A l \in Shopper : filling'[l] # Null => filling'[l].late
    BY <1>9, OvertakenReadings DEF Invalidate, EditsTypeOK
  <2>2. cache' = Null
    BY <1>9 DEF Invalidate
  <2> QED
    BY <2>1, <2>2 DEF Follows
<1>10. ASSUME NEW l \in Shopper, ReadOffers(l)
       PROVE  Kept
  <2> DEFINE reading == [offers |-> OffersAt(now), read |-> now, late |-> FALSE]
  <2>1. /\ UNCHANGED <<kind, row, pc, cache>>
        /\ filling' = [filling EXCEPT ![l] = reading]
    BY <1>10 DEF ReadOffers
  <2>2. Lasting
    BY <1>3, <1>4, <2>1
  <2>3. Follows(reading, AllOffers, Emptying)
    BY DEF Follows, AllOffers, EditsTypeOK
  <2> HIDE DEF reading, Lasting
  <2>4. \A k \in Shopper : Follows(filling'[k], AllOffers, Emptying)
    BY <1>1, <2>1, <2>3 DEF EditsTypeOK
  <2> QED
    BY <1>1, <1>2, <2>1, <2>2, <2>4
<1>11. ASSUME NEW l \in Shopper, StoreOffers(l)
       PROVE  Kept
  <2>1. Lasting
    BY <1>3, <1>4, <1>11 DEF StoreOffers
  <2>2. cache' = filling[l] /\ filling' = [filling EXCEPT ![l] = Null]
    BY <1>11 DEF StoreOffers
  <2> HIDE DEF Lasting
  <2>3. /\ Follows(cache', AllOffers, Emptying)
        /\ \A k \in Shopper : Follows(filling'[k], AllOffers, Emptying)
    BY <1>1, <2>2 DEF EditsTypeOK
  <2> QED
    BY <1>2, <2>1, <2>3
<1>12. ASSUME OffersExpire
       PROVE  Kept
  <2>1. Lasting
    BY <1>3, <1>4, <1>12 DEF OffersExpire
  <2>2. cache' = Null /\ filling' = filling
    BY <1>12 DEF OffersExpire
  <2> QED
    BY <1>1, <1>2, <2>1, <2>2
<1>13. ASSUME Tick
       PROVE  Kept
  BY <1>3, <1>4, <1>5, <1>13 DEF Tick
<1>14. Kept
  BY <1>6, <1>7, <1>8, <1>9, <1>10, <1>11, <1>12, <1>13, EditsStepCases
<1> QED
  BY <1>14 DEF ReadingsFollowEdits

LEMMA EditsStart ==
  ASSUME Init
  PROVE  EditsInv
<1>1. CASE kind \in Others
  BY <1>1 DEF Init, EditsInit, NoEdits, EditsIdle, EditsInv
<1>2. CASE kind \notin Others
  <2>1. EditsInit(Kinds \ Others)
    BY <1>2 DEF Init, NoEdits, Others
  <2>2. row \in {NoRow} \cup EditedRows
    <3>1. kind \in Lifecycles => Second(kind) \subseteq Nat
      BY DEF Lifecycles, Second, Scopes
    <3> QED
      BY <2>1, <3>1 DEF EditsInit, RowsOf, EditedRows
  <2>3. EditsTypeOK
    BY <2>1, <2>2 DEF EditsInit, EditsIdle, EditsTypeOK
  <2> QED
    BY <1>2, <2>1, <2>3 DEF EditsInit, EditsIdle, EditsInv, CheckedBeforeWrite,
                            ReadingsFollowEdits, Follows
<1> QED
  BY <1>1, <1>2

LEMMA EditsStep ==
  ASSUME EditsInv, [Next]_vars
  PROVE  EditsInv'
<1>1. CASE UNCHANGED editVars
  <2>1. UNCHANGED <<kind, row, pc, saw, body, now, cache, filling>>
    BY <1>1 DEF editVars, requestVars, cacheVars
  <2>2. EditsTypeOK' = EditsTypeOK
    BY <2>1 DEF EditsTypeOK, EditedRows, Readings
  <2>3. CheckedBeforeWrite' = CheckedBeforeWrite
    BY <2>1 DEF CheckedBeforeWrite, EditedRows, Passed
  <2>4. AllOffers' = AllOffers /\ Emptying' = Emptying
    BY <2>1 DEF AllOffers, OffersAt, AppliesAt, Terms, Emptying
  <2> QED
    BY <2>1, <2>2, <2>3, <2>4 DEF EditsInv, ReadingsFollowEdits
<1>2. CASE kind \notin Others /\ EditsNext
  <2>1. EditsTypeOK /\ CheckedBeforeWrite /\ ReadingsFollowEdits
    BY <1>2 DEF EditsInv
  <2>2. kind' = kind
    BY <1>2, <2>1, EditsStepCases
       DEF Accept, EndWrite, WriteFails, Invalidate, ReadOffers, StoreOffers, OffersExpire,
           Tick
  <2> QED
    BY <1>2, <2>1, <2>2, EditsTypeStep, EditsCheckStep, EditsOffersStep DEF EditsInv
<1> QED
  BY <1>1, <1>2 DEF Next, vars

LEMMA EditsInvariant == Spec => []EditsInv
BY EditsStart, EditsStep, PTL DEF Spec

(* However many edits and requests cross, what the storefront shows of the *)
(* bundles is what checkout applied, on the bundles as they are now, when  *)
(* it was read: only the clock, which opens and closes windows unnoticed,  *)
(* and a request that read before invalidateDisplayCache and stored after  *)
(* it leave something else shown.                                          *)
THEOREM ShownOffersAlwaysFollowEdits == Spec => []OffersFollowEdits
<1>1. ASSUME EditsInv, cache # Null
      PROVE  OffersFollowEdits
  <2>1. Follows(cache, AllOffers, Emptying) /\ cache.read \in Nat
    BY <1>1 DEF EditsInv, EditsTypeOK, Readings, ReadingsFollowEdits
  <2> QED
    BY <2>1 DEF Follows, AllOffers, Emptying, OffersFollowEdits
<1>2. EditsInv => OffersFollowEdits
  BY <1>1 DEF OffersFollowEdits
<1> QED
  BY <1>2, EditsInvariant, PTL

(* The row that a write leaves agrees if it was not edited since it was    *)
(* read, or only in fields that the request brings itself.                 *)
LEMMA UncrossedWrite ==
  ASSUME EditsTypeOK, CheckedBeforeWrite, NEW r \in Request, WriteEdit(r), kind # "bundle",
         \A f \in {"first", "second"} :
           row[f] = saw[r][f] \/ (body[r][f] # Absent /\ kind \notin Lifecycles \cup Scopes)
  PROVE  Lawful(kind, row, row')
<1> DEFINE dto == body[r]
<1>1. /\ row \in EditedRows /\ saw[r] \in EditedRows /\ dto \in Bodies(kind)
      /\ Passed(saw[r], dto)
  BY DEF WriteEdit, EditsTypeOK, CheckedBeforeWrite
<1>2. ASSUME kind \in Lifecycles \cup Scopes
      PROVE  saw[r] = row
  BY <1>1, <1>2 DEF EditedRows
<1>3. CASE WriteStatus(r)
  <2>1. kind \in Lifecycles /\ saw[r] = row
    BY <1>2, <1>3 DEF WriteStatus
  <2>2. row.second \in Nat
    BY <1>1, <2>1 DEF EditedRows
  <2>3. row'.second >= row.second /\ row'.first = dto.first
    BY <1>3, <2>1, <2>2 DEF WriteStatus
  <2>4. kind = "product" => row'.first \in ALLOWED_TRANSITIONS[row.first]
    BY <1>1, <2>1, <2>3 DEF Passed
  <2> QED
    BY <2>1, <2>3, <2>4 DEF Lawful
<1>4. CASE WriteScope(r)
  <2>1. kind \in Scopes /\ kind \notin Lifecycles /\ saw[r] = row
    BY <1>2, <1>4 DEF WriteScope, Lifecycles, Scopes
  <2> DEFINE new == Effective(row, dto)
  <2>2. Agrees(kind, new)
    BY <1>1, <2>1 DEF Passed
  <2>3. row'.first = new.first
    BY <1>4, <2>1 DEF WriteScope, Effective
  <2>4. ASSUME NEW l \in Lists, Agrees(kind, row)
        PROVE  row'.second[l] = new.second[l]
    <3>1. CASE l \in DOMAIN dto.second \/ dto.first \notin {Absent, row.first}
      BY <1>4, <2>1, <3>1 DEF WriteScope
    <3>2. CASE l \notin DOMAIN dto.second /\ dto.first \in {Absent, row.first}
      <4>1. /\ row'.second[l] = row.second[l]
            /\ new.second[l] = IF l \in ListsOf(row.first) THEN row.second[l] ELSE 0
        BY <1>4, <2>1, <3>2 DEF WriteScope, Effective
      <4>2. l \notin ListsOf(row.first) => row.second[l] = 0
        BY <2>1, <2>4 DEF Agrees, ScopeInputsAreValid, Scopes
      <4> QED
        BY <4>1, <4>2
    <3> QED
      BY <3>1, <3>2
  <2>5. Agrees(kind, row) => Agrees(kind, row')
    <3>1. ListsOf(new.first) \subseteq Lists
      <4>1. new.first \in First(kind)
        BY <1>1, <2>1 DEF Effective, EditedRows, Bodies
      <4> QED
        BY <2>1, <4>1, ListsAre DEF First, Scopes, ListsOf
    <3> HIDE DEF new
    <3> QED
      BY <2>1, <2>2, <2>3, <2>4, <3>1 DEF Agrees, ScopeInputsAreValid, Complete, Scopes
  <2> QED
    BY <2>1, <2>5 DEF Lawful
<1>5. CASE WriteFields(r)
  <2>1. kind \notin Lifecycles \cup Scopes /\ row' = Merged(row, dto)
    BY <1>5 DEF WriteFields
  <2>2. Merged(row, dto) = Merged(saw[r], dto)
    BY <2>1 DEF Merged
  <2>3. ASSUME dto.first = Absent, dto.second = Absent
        PROVE  row' = row
    BY <1>1, <2>1, <2>3 DEF Merged, EditedRows
  <2>4. \/ Agrees(kind, row') \/ row' = row
        \/ kind \notin {"coupon", "price", "stock", "print", "window", "schedule", "rate"}
    BY <1>1, <2>1, <2>2, <2>3 DEF Passed
  <2>5. kind \notin {"coupon", "price", "stock", "print", "window", "schedule", "rate", "bundle",
                 "scope", "offer"}
        => Agrees(kind, row')
    BY DEF Agrees
  <2> QED
    BY <2>1, <2>4, <2>5 DEF Lawful, Scopes
<1> QED
  BY <1>3, <1>4, <1>5 DEF WriteEdit

(* A write of a handler that checked its row breaks the rule of the row    *)
(* only when another request changed, between the check and the write, a   *)
(* field that this one relied on.                                          *)
THEOREM UnlawfulAlwaysByCrossedEdits == Spec => UnlawfulOnlyByCrossedEdits
<1> DEFINE Crossed(r) == \E f \in {"first", "second"} :
             /\ row[f] # saw[r][f]
             /\ body[r][f] = Absent \/ kind \in Lifecycles \cup Scopes
           Only(r) == /\ pc[r] = "write" /\ pc'[r] # "write"
                      /\ row # NoRow /\ kind # "bundle"
                      /\ ~Lawful(kind, row, row')
                      => Crossed(r)
<1>1. ASSUME EditsInv, [Next]_vars, NEW r \in Request
      PROVE  Only(r) \/ UNCHANGED editVars
  <2>1. CASE UNCHANGED editVars
    BY <2>1
  <2>2. CASE kind \notin Others /\ EditsNext
    <3>1. EditsTypeOK /\ CheckedBeforeWrite
      BY <1>1, <2>2 DEF EditsInv
    <3> SUFFICES ASSUME pc[r] = "write", pc'[r] # "write", row # NoRow, kind # "bundle",
                        ~Lawful(kind, row, row')
                 PROVE  Crossed(r)
      OBVIOUS
    <3>2. WriteEdit(r)
      <4>1. ASSUME NEW q \in Request, q # r \/ ~WriteEdit(q),
                   \/ Check(q) \/ WriteEdit(q) \/ WriteFails(q)
                   \/ Create(q) \/ DeleteBundle(q) \/ Invalidate(q)
            PROVE  FALSE
        <5>1. \E p \in {"done", "invalidate", "write"} : pc' = [pc EXCEPT ![q] = p]
          BY <3>1, <4>1, CheckPasses, WriteKeepsType, CreateKeepsType
             DEF Accept, EndWrite, WriteFails, DeleteBundle, Invalidate
        <5>2. q = r
          BY <3>1, <5>1 DEF EditsTypeOK
        <5> QED
          BY <4>1, <5>2 DEF Check, WriteFails, Create, DeleteBundle, Invalidate
      <4> QED
        BY <2>2, <4>1 DEF EditsNext, ReadOffers, StoreOffers, OffersExpire, Tick,
                               requestVars
    <3> QED
      BY <3>1, <3>2, UncrossedWrite
  <2> QED
    BY <1>1, <2>1, <2>2 DEF Next, vars
<1>2. EditsInv /\ [Next]_vars => [\A r \in Request : Only(r)]_editVars
  BY <1>1
<1>3. [][\A r \in Request : Only(r)]_editVars => UnlawfulOnlyByCrossedEdits
  BY DEF UnlawfulOnlyByCrossedEdits
<1> QED
  BY <1>2, <1>3, EditsInvariant, PTL DEF Spec

-----------------------------------------------------------------------------
(* Imports                                                                 *)

Working == {"find", "count", "save", "commit", "discard"}

(* A run works on one design after the other and never on one twice: the   *)
(* preflight refuses a plan with a slug twice.                             *)
OneTurnPerDesign(r) ==
  /\ stage[r] \in {"start", "preflight"} => at[r] = 1
  /\ stage[r] \in Working =>
       /\ at[r] \in DOMAIN Planned(r)
       /\ \A m, n \in DOMAIN Planned(r) : Planned(r)[m] = Planned(r)[n] => m = n

(* What it has not come to has neither file nor row.                       *)
NotYetImported(r) ==
  /\ stage[r] \in {"start", "preflight"} => \A f \in files \cup assets : f[1] # r
  /\ stage[r] \in Working =>
       \A n \in DOMAIN Planned(r) : n > at[r] => <<r, Planned(r)[n]>> \notin files \cup assets

(* Where each step of a turn leaves the file of its design.                *)
FileOfTurn(r) ==
  /\ stage[r] \in {"find", "count", "save"} => FileOf(r) \notin files \cup assets
  /\ stage[r] = "save" => ~pictured[r]
  /\ stage[r] = "commit" =>
       /\ FileOf(r) \notin assets
       /\ FileOf(r) \in files <=> ~pictured[r]
  /\ stage[r] = "discard" /\ FileOf(r) \in assets => FileOf(r) \in lost

TurnOf(r) == OneTurnPerDesign(r) /\ NotYetImported(r) /\ FileOfTurn(r)

ImportInv ==
  ImportTypeOK /\ ImportedFilesMatchAssets /\ \A r \in Run : TurnOf(r)

(* A plan is a sequence.                                                   *)
LEMMA PlannedType ==
  ASSUME ImportTypeOK, NEW r \in Run
  PROVE  /\ Len(Planned(r)) \in Nat
         /\ DOMAIN Planned(r) = 1 .. Len(Planned(r))
<1> DEFINE k == Cardinality(Categorized(r))
           P == Planned(r)
           S == {P[n] : n \in 1 .. k}
<1>1. k \in Nat
  BY SMTT(30), FS_Subset, FS_CardinalityType DEF ImportTypeOK, Categorized
<1>2. P \in [1 .. k -> S]
  BY DEF Planned
<1> HIDE DEF k, P, S
<1>3. P \in Seq(S)
  BY <1>1, <1>2, SeqDef
<1> QED
  BY <1>3, LenProperties DEF P

(* As many slugs as designs: no slug twice.                                *)
LEMMA PlannedOnce ==
  ASSUME ImportTypeOK, NEW r \in Run, Cardinality(PlannedSlugs(r)) = Len(Planned(r)),
         NEW m \in DOMAIN Planned(r), NEW n \in DOMAIN Planned(r),
         Planned(r)[m] = Planned(r)[n]
  PROVE  m = n
<1> DEFINE P == Planned(r)
           T == PlannedSlugs(r)
           k == Len(P)
<1>1. k \in Nat /\ DOMAIN P = 1 .. k
  BY PlannedType
<1>2. T = {P[j] : j \in DOMAIN P}
  BY DEF PlannedSlugs
<1>3. P = [j \in DOMAIN P |-> P[j]]
  BY DEF Planned
<1>4. Cardinality(T) = k /\ m \in DOMAIN P /\ n \in DOMAIN P /\ P[m] = P[n]
  OBVIOUS
<1> HIDE DEF P, T, k
<1>5. P \in Surjection(1 .. k, T)
  BY <1>1, <1>2, <1>3 DEF Surjection
<1>6. IsFiniteSet(1 .. k) /\ Cardinality(1 .. k) = k
  BY <1>1, FS_Interval
<1>7. P \in Injection(1 .. k, T)
  BY <1>4, <1>5, <1>6, FS_Surjection
<1> QED
  BY <1>1, <1>4, <1>7 DEF Injection, IsInjective

LEMMA SurvivorsFinite ==
  ASSUME NEW ps, IsScan(ps)
  PROVE  IsFiniteSet(DOMAIN Survivors(ps))
<1>1. PICK firsts \in SUBSET DOMAIN ps : DOMAIN Survivors(ps) = 1 .. Cardinality(firsts)
  BY DEF Survivors, Ascending, InOrder
<1>2. DOMAIN ps = 1 .. Len(ps) /\ Len(ps) \in Nat
  BY DEF IsScan
<1>3. IsFiniteSet(DOMAIN ps)
  BY <1>2, IntervalCardinality
<1>4. Cardinality(firsts) \in Nat
  BY <1>1, <1>3, FS_Subset, FS_CardinalityType
<1> QED
  BY <1>1, <1>4, IntervalCardinality

-----------------------------------------------------------------------------
(* A run writes and removes no file and no row but those of its design.    *)
Touches(r) ==
  /\ UNCHANGED photos
  /\ \A f : f # FileOf(r) => (f \in files' <=> f \in files) /\ (f \in assets' <=> f \in assets)
  /\ lost \subseteq lost'
  /\ \A q \in Run : q # r =>
       UNCHANGED <<survivors[q], at[q], stage[q], pictured[q]>>

LEMMA RunTouches ==
  ASSUME ImportTypeOK, NEW r \in Run, ImportStep(r) \/ ImportTrouble(r)
  PROVE  Touches(r)
<1> USE DEF ImportTypeOK, Touches, tableVars, readVars
<1>1. ASSUME Apply(r)
      PROVE  \A f : f # FileOf(r) => (f \in assets' <=> f \in assets)
  BY <1>1 DEF Apply
<1>2. CASE Scan(r)
  BY <1>2 DEF Scan, GoOn
<1>3. CASE Preflight(r)
  BY <1>3 DEF Preflight, GoOn
<1>4. CASE FindProduct(r)
  BY <1>4 DEF FindProduct, GoOn, NextDesign
<1>5. CASE CountExisting(r)
  BY <1>5 DEF CountExisting, GoOn
<1>6. CASE SavePhoto(r)
  BY <1>6 DEF SavePhoto, GoOn
<1>7. CASE Commit(r)
  BY <1>1, <1>7 DEF Commit, GoOn, NextDesign
<1>8. CASE Discard(r)
  BY <1>8 DEF Discard, GoOn, NextDesign
<1>9. CASE SavePhotoFails(r)
  BY <1>9 DEF SavePhotoFails, GoOn, NextDesign
<1>10. CASE CommitFails(r)
  BY <1>10 DEF CommitFails, GoOn, NextDesign
<1>11. CASE CommitUnanswered(r)
  BY <1>1, <1>11 DEF CommitUnanswered, GoOn, NextDesign
<1>12. CASE RunDies(r)
  BY <1>12 DEF RunDies, GoOn
<1> QED
  BY <1>2, <1>3, <1>4, <1>5, <1>6, <1>7, <1>8, <1>9, <1>10, <1>11, <1>12
     DEF ImportStep, ImportTrouble

LEMMA OthersKeepTurn ==
  ASSUME NEW r \in Run, NEW q \in Run, q # r, Touches(r), TurnOf(q)
  PROVE  TurnOf(q)'
<1>1. UNCHANGED <<photos, survivors[q], at[q], stage[q], pictured[q]>>
  BY DEF Touches
<1>2. Planned(q)' = Planned(q) /\ FileOf(q)' = FileOf(q)
  BY <1>1 DEF Planned, Categorized, IsCategorized, FileOf, Current
<1>3. ASSUME NEW f, f[1] = q
      PROVE  (f \in files' <=> f \in files) /\ (f \in assets' <=> f \in assets)
  BY <1>3 DEF Touches, FileOf
<1>4. FileOf(q)[1] = q /\ \A x : <<q, x>>[1] = q
  BY DEF FileOf
<1>5. lost \subseteq lost'
  BY DEF Touches
<1> QED
  BY <1>1, <1>2, <1>3, <1>4, <1>5 DEF TurnOf, OneTurnPerDesign, NotYetImported, FileOfTurn

LEMMA ImportTypeStep ==
  ASSUME ImportTypeOK, NEW r \in Run, ImportStep(r) \/ ImportTrouble(r)
  PROVE  ImportTypeOK'
<1> USE DEF ImportTypeOK, readVars
<1>1. ASSUME NextDesign(r)
      PROVE  /\ stage' \in [Run -> {"start", "preflight", "refused", "find", "count", "save",
                                    "commit", "discard", "done", "dead"}]
             /\ at' \in [Run -> Nat]
  BY <1>1 DEF NextDesign, GoOn
<1>2. CASE Scan(r)
  <2>1. IsFiniteSet(DOMAIN Survivors(photos))
    BY SurvivorsFinite
  <2> QED
    BY <1>2, <2>1 DEF Scan, GoOn
<1>3. CASE Preflight(r)
  BY <1>3 DEF Preflight, GoOn
<1>4. CASE FindProduct(r)
  BY <1>1, <1>4 DEF FindProduct, GoOn
<1>5. CASE CountExisting(r)
  <2>1. stage' \in [Run -> {"start", "preflight", "refused", "find", "count", "save",
                            "commit", "discard", "done", "dead"}]
    BY <1>5 DEF CountExisting, GoOn
  <2>2. pictured' \in [Run -> BOOLEAN]
    BY <1>5 DEF CountExisting
  <2> QED
    BY <1>5, <2>1, <2>2 DEF CountExisting
<1>6. CASE SavePhoto(r)
  BY <1>6 DEF SavePhoto, GoOn
<1>7. CASE Commit(r)
  BY <1>1, <1>7 DEF Commit
<1>8. CASE Discard(r)
  BY <1>1, <1>8 DEF Discard
<1>9. CASE SavePhotoFails(r)
  BY <1>1, <1>9 DEF SavePhotoFails
<1>10. CASE CommitFails(r)
  BY <1>1, <1>10 DEF CommitFails, GoOn
<1>11. CASE CommitUnanswered(r)
  BY <1>1, <1>11 DEF CommitUnanswered, GoOn
<1>12. CASE RunDies(r)
  BY <1>12 DEF RunDies, GoOn
<1> QED
  BY <1>2, <1>3, <1>4, <1>5, <1>6, <1>7, <1>8, <1>9, <1>10, <1>11, <1>12
     DEF ImportStep, ImportTrouble

(* The next design, of which nothing is there yet, or the end.             *)
LEMMA NextTurn ==
  ASSUME ImportTypeOK, NEW r \in Run, TurnOf(r), Touches(r), stage[r] \in Working,
         NextDesign(r), UNCHANGED survivors
  PROVE  TurnOf(r)'
<1> DEFINE P == Planned(r)
           k == Len(P)
<1>1. k \in Nat /\ DOMAIN P = 1 .. k /\ at[r] \in 1 .. k
  BY PlannedType DEF TurnOf, OneTurnPerDesign
<1>2. at'[r] = at[r] + 1 /\ stage'[r] = IF at[r] < k THEN "find" ELSE "done"
  BY DEF NextDesign, GoOn, ImportTypeOK
<1>3. Planned(r)' = P
  BY DEF Planned, Categorized, IsCategorized, Touches
<1>4. FileOf(r) = <<r, P[at[r]]>> /\ FileOf(r)' = <<r, P[at'[r]]>>
  BY <1>3 DEF FileOf, Current
<1>5. /\ \A m, n \in 1 .. k : P[m] = P[n] => m = n
      /\ \A n \in 1 .. k : n > at[r] => <<r, P[n]>> \notin files \cup assets
  BY <1>1 DEF TurnOf, OneTurnPerDesign, NotYetImported
<1> HIDE DEF P, k
<1>6. \A n \in 1 .. k : n > at[r] => <<r, P[n]>> \notin files' \cup assets'
  BY <1>1, <1>4, <1>5 DEF Touches
<1>7. CASE at[r] = k
  BY <1>1, <1>2, <1>7 DEF TurnOf, OneTurnPerDesign, NotYetImported, FileOfTurn, Working
<1>8. CASE at[r] < k
  <2>1. stage'[r] = "find" /\ at'[r] \in 1 .. k /\ \A n \in 1 .. k : n > at'[r] => n > at[r]
    BY <1>1, <1>2, <1>8
  <2>2. OneTurnPerDesign(r)'
    BY <1>1, <1>3, <1>5, <2>1 DEF OneTurnPerDesign
  <2>3. NotYetImported(r)'
    BY <1>1, <1>3, <1>6, <2>1 DEF NotYetImported
  <2>4. FileOf(r)' \notin files' \cup assets'
    BY <1>1, <1>2, <1>4, <1>6, <2>1
  <2> QED
    BY <2>1, <2>2, <2>3, <2>4 DEF TurnOf, FileOfTurn
<1> QED
  BY <1>1, <1>7, <1>8

(* A step within the turn of a design.                                     *)
LEMMA SameTurn ==
  ASSUME ImportTypeOK, NEW r \in Run, TurnOf(r), Touches(r), stage[r] \in Working,
         stage'[r] \in Working, UNCHANGED <<survivors, at>>, FileOfTurn(r)'
  PROVE  TurnOf(r)'
<1> DEFINE P == Planned(r)
           k == Len(P)
<1>1. k \in Nat /\ DOMAIN P = 1 .. k /\ at[r] \in 1 .. k
  BY PlannedType DEF TurnOf, OneTurnPerDesign
<1>2. Planned(r)' = P
  BY DEF Planned, Categorized, IsCategorized, Touches
<1>3. FileOf(r) = <<r, P[at[r]]>>
  BY DEF FileOf, Current
<1>4. /\ \A m, n \in 1 .. k : P[m] = P[n] => m = n
      /\ \A n \in 1 .. k : n > at[r] => <<r, P[n]>> \notin files \cup assets
  BY <1>1 DEF TurnOf, OneTurnPerDesign, NotYetImported
<1>5. OneTurnPerDesign(r)'
  BY <1>1, <1>2, <1>4 DEF OneTurnPerDesign, Working
<1> HIDE DEF P, k
<1>6. \A n \in 1 .. k : n > at[r] => <<r, P[n]>> \notin files' \cup assets'
  BY <1>1, <1>3, <1>4 DEF Touches
<1>7. NotYetImported(r)'
  BY <1>1, <1>2, <1>6 DEF NotYetImported, Working
<1> QED
  BY <1>5, <1>7 DEF TurnOf

LEMMA RunKeepsTurn ==
  ASSUME ImportTypeOK, NEW r \in Run, TurnOf(r), ImportStep(r) \/ ImportTrouble(r)
  PROVE  TurnOf(r)'
<1> USE DEF readVars, tableVars
<1>1. Touches(r)
  BY RunTouches
<1>2. ASSUME NextDesign(r), stage[r] \in Working, UNCHANGED survivors
      PROVE  TurnOf(r)'
  BY <1>1, <1>2, NextTurn
<1>3. ASSUME stage[r] \in Working, stage'[r] \in Working,
             UNCHANGED <<survivors, at>>, FileOfTurn(r)'
      PROVE  TurnOf(r)'
  BY SMTT(30), <1>1, <1>3, SameTurn
<1>4. ASSUME UNCHANGED <<survivors, at>>
      PROVE  FileOf(r)' = FileOf(r)
  BY <1>1, <1>4 DEF Touches, FileOf, Current, Planned, Categorized, IsCategorized
<1>5. ASSUME NEW next, GoOn(r, next)
      PROVE  stage'[r] = next
  BY <1>5 DEF GoOn, ImportTypeOK
<1>6. CASE Scan(r)
  <2>1. stage[r] = "start" /\ stage'[r] = "preflight" /\ UNCHANGED <<at, files, assets>>
    BY <1>5, <1>6 DEF Scan
  <2> QED
    BY <2>1 DEF TurnOf, OneTurnPerDesign, NotYetImported, FileOfTurn, Working
<1>7. CASE Preflight(r)
  <2>1. UNCHANGED <<survivors, at, files, assets>> /\ stage[r] = "preflight" /\ at[r] = 1
    BY <1>7 DEF Preflight, TurnOf, OneTurnPerDesign
  <2>2. \/ stage'[r] \in {"refused", "done"}
        \/ /\ stage'[r] = "find"
           /\ Cardinality(PlannedSlugs(r)) = Len(Planned(r)) /\ Planned(r) # <<>>
    BY <1>5, <1>7 DEF Preflight, PreflightPasses
  <2>3. CASE stage'[r] \in {"refused", "done"}
    BY <2>3 DEF TurnOf, OneTurnPerDesign, NotYetImported, FileOfTurn, Working
  <2>4. CASE stage'[r] = "find" /\ Cardinality(PlannedSlugs(r)) = Len(Planned(r))
             /\ Planned(r) # <<>>
    <3>1. /\ Len(Planned(r)) \in Nat /\ DOMAIN Planned(r) = 1 .. Len(Planned(r))
          /\ \A m, n \in DOMAIN Planned(r) : Planned(r)[m] = Planned(r)[n] => m = n
      BY <2>4, PlannedType, PlannedOnce
    <3>2. 1 \in DOMAIN Planned(r)
      <4>1. DOMAIN Planned(r) # {}
        BY <2>4 DEF Planned
      <4> QED
        BY <3>1, <4>1
    <3>3. Planned(r)' = Planned(r) /\ FileOf(r)' = FileOf(r)
      BY <1>1, <1>4, <2>1 DEF Touches, Planned, Categorized, IsCategorized
    <3>4. \A x : <<r, x>> \notin files \cup assets
      BY <2>1 DEF TurnOf, NotYetImported
    <3>5. FileOf(r) \notin files \cup assets
      BY <3>4 DEF FileOf
    <3> QED
      BY <2>1, <2>4, <3>1, <3>2, <3>3, <3>4, <3>5
         DEF TurnOf, OneTurnPerDesign, NotYetImported, FileOfTurn, Working
  <2> QED
    BY <2>2, <2>3, <2>4
<1>8. CASE FindProduct(r)
  <2>1. stage[r] = "find" /\ UNCHANGED <<survivors, files, assets>>
    BY <1>8 DEF FindProduct
  <2>2. NextDesign(r) \/ (stage'[r] \in {"count", "save"} /\ UNCHANGED at)
    BY <1>5, <1>8 DEF FindProduct
  <2>3. pictured'[r] = FALSE
    BY <1>8 DEF FindProduct, ImportTypeOK
  <2>4. CASE stage'[r] \in {"count", "save"} /\ UNCHANGED at
    <3>1. FileOfTurn(r)'
      BY <1>4, <2>1, <2>3, <2>4 DEF TurnOf, FileOfTurn
    <3> QED
      BY <1>3, <2>1, <2>4, <3>1 DEF Working
  <2> QED
    BY <1>2, <2>1, <2>2, <2>4 DEF Working
<1>9. CASE CountExisting(r)
  <2>1. stage[r] = "count" /\ UNCHANGED <<survivors, at, files, assets>>
    BY <1>9 DEF CountExisting
  <2>2. stage'[r] = IF pictured'[r] THEN "commit" ELSE "save"
    BY <1>5, <1>9 DEF CountExisting
  <2>3. FileOfTurn(r)'
    BY <1>4, <2>1, <2>2 DEF TurnOf, FileOfTurn
  <2> QED
    BY <1>3, <2>1, <2>2, <2>3 DEF Working
<1>10. CASE SavePhoto(r)
  <2>1. /\ stage[r] = "save" /\ stage'[r] = "commit" /\ files' = files \cup {FileOf(r)}
        /\ UNCHANGED <<survivors, at, assets, pictured>>
    BY <1>5, <1>10 DEF SavePhoto
  <2>2. FileOfTurn(r)'
    BY <1>4, <2>1 DEF TurnOf, FileOfTurn
  <2> QED
    BY <1>3, <2>1, <2>2 DEF Working
<1>11. CASE Commit(r)
  BY <1>2, <1>11 DEF Commit, Working
<1>12. CASE Discard(r)
  BY <1>2, <1>12 DEF Discard, Working
<1>13. CASE SavePhotoFails(r)
  BY <1>2, <1>13 DEF SavePhotoFails, Working
<1>14. CASE CommitFails(r)
  <2>1. stage[r] = "commit" /\ UNCHANGED <<survivors, files, assets>>
    BY <1>14 DEF CommitFails
  <2>2. NextDesign(r) \/ (stage'[r] = "discard" /\ UNCHANGED at)
    BY <1>5, <1>14 DEF CommitFails
  <2>3. CASE stage'[r] = "discard" /\ UNCHANGED at
    <3>1. FileOfTurn(r)'
      BY <1>4, <2>1, <2>3 DEF TurnOf, FileOfTurn
    <3> QED
      BY <1>3, <2>1, <2>3, <3>1 DEF Working
  <2> QED
    BY <1>2, <2>1, <2>2, <2>3 DEF Working
<1>15. CASE CommitUnanswered(r)
  <2>1. stage[r] = "commit" /\ UNCHANGED survivors
    BY <1>15 DEF CommitUnanswered
  <2>2. \/ NextDesign(r)
        \/ stage'[r] = "discard" /\ UNCHANGED at /\ lost' = lost \cup {FileOf(r)}
    BY <1>5, <1>15 DEF CommitUnanswered
  <2>3. CASE stage'[r] = "discard" /\ UNCHANGED at /\ lost' = lost \cup {FileOf(r)}
    <3>1. FileOfTurn(r)'
      BY <1>4, <2>1, <2>3 DEF FileOfTurn
    <3> QED
      BY <1>3, <2>1, <2>3, <3>1 DEF Working
  <2> QED
    BY <1>2, <2>1, <2>2, <2>3 DEF Working
<1>16. CASE RunDies(r)
  <2>1. stage'[r] = "dead"
    BY <1>5, <1>16 DEF RunDies
  <2> QED
    BY <2>1 DEF TurnOf, OneTurnPerDesign, NotYetImported, FileOfTurn, Working
<1> QED
  BY <1>6, <1>7, <1>8, <1>9, <1>10, <1>11, <1>12, <1>13, <1>14, <1>15, <1>16
     DEF ImportStep, ImportTrouble

(* A step of a run answers for the file of its design alone.               *)
LEMMA FileAccounted ==
  ASSUME ImportedFilesMatchAssets, NEW r \in Run, Touches(r), strays \subseteq strays',
         FileOf(r) \in assets' => FileOf(r) \in files' \cup lost',
         FileOf(r) \in files' \ assets' =>
           \/ FileOf(r) \in strays'
           \/ stage'[r] \in {"commit", "discard"} /\ UNCHANGED FileOf(r)
  PROVE  ImportedFilesMatchAssets'
<1>1. assets' \ files' \subseteq lost'
  BY SMTT(30) DEF Touches, ImportedFilesMatchAssets
<1>2. ASSUME NEW q \in Run, q # r
      PROVE  stage'[q] = stage[q] /\ FileOf(q)' = FileOf(q)
  BY <1>2 DEF Touches, FileOf, Current, Planned, Categorized, IsCategorized
<1>3. ASSUME NEW f \in files' \ assets', f # FileOf(r), f \notin strays'
      PROVE  f[1] \in Run /\ stage'[f[1]] \in {"commit", "discard"} /\ f = FileOf(f[1])'
  <2>1. f \in files \ assets /\ f \notin strays
    BY <1>3 DEF Touches
  <2>2. f[1] \in Run /\ stage[f[1]] \in {"commit", "discard"} /\ f = FileOf(f[1])
    BY <2>1 DEF ImportedFilesMatchAssets
  <2>3. f[1] # r
    BY <1>3, <2>2
  <2> QED
    BY <1>2, <2>2, <2>3
<1>4. FileOf(r)[1] = r
  BY DEF FileOf
<1> QED
  BY <1>1, <1>3, <1>4 DEF ImportedFilesMatchAssets

LEMMA RunKeepsFiles ==
  ASSUME ImportTypeOK, ImportedFilesMatchAssets, NEW r \in Run, TurnOf(r),
         ImportStep(r) \/ ImportTrouble(r)
  PROVE  ImportedFilesMatchAssets'
<1> USE DEF readVars, tableVars
<1>1. Touches(r)
  BY RunTouches
<1>2. ASSUME UNCHANGED <<survivors, at>>
      PROVE  FileOf(r)' = FileOf(r)
  BY <1>1, <1>2 DEF Touches, FileOf, Current, Planned, Categorized, IsCategorized
<1>3. ASSUME NEW next, GoOn(r, next)
      PROVE  stage'[r] = next
  BY <1>3 DEF GoOn, ImportTypeOK
<1>4. /\ assets \ files \subseteq lost
      /\ FileOf(r) \in files \ assets =>
           FileOf(r) \in strays \/ stage[r] \in {"commit", "discard"}
  <2>1. FileOf(r)[1] = r
    BY DEF FileOf
  <2> QED
    BY <2>1 DEF ImportedFilesMatchAssets
<1>5. ASSUME UNCHANGED <<files, assets, lost, strays>>, stage[r] \notin {"commit", "discard"}
      PROVE  ImportedFilesMatchAssets'
  BY <1>1, <1>4, <1>5, FileAccounted
<1>6. CASE Scan(r) \/ Preflight(r) \/ FindProduct(r) \/ CountExisting(r)
  BY <1>5, <1>6 DEF Scan, Preflight, FindProduct, CountExisting
<1>7. CASE SavePhoto(r)
  <2>1. /\ stage'[r] = "commit" /\ files' = files \cup {FileOf(r)}
        /\ UNCHANGED <<survivors, at, assets, strays>>
    BY <1>3, <1>7 DEF SavePhoto
  <2> QED
    BY <1>1, <1>2, <2>1, FileAccounted
<1>8. CASE Commit(r)
  <2>1. UNCHANGED <<files, strays>> /\ Apply(r) /\ stage[r] = "commit"
    BY <1>8 DEF Commit
  <2>2. \/ pictured[r] /\ FileOf(r) \notin files \cup assets /\ UNCHANGED assets
        \/ FileOf(r) \in files /\ assets' = assets \cup {FileOf(r)}
    BY <2>1 DEF Apply, TurnOf, FileOfTurn, ImportTypeOK
  <2> QED
    BY <1>1, <2>1, <2>2, FileAccounted
<1>9. CASE Discard(r)
  <2>1. /\ stage[r] = "discard" /\ UNCHANGED <<assets, lost>>
        /\ \/ files' = files \ {FileOf(r)} /\ UNCHANGED strays
           \/ strays' = strays \cup {FileOf(r)} /\ UNCHANGED files
    BY <1>9 DEF Discard
  <2>2. FileOf(r) \in assets => FileOf(r) \in lost
    BY <2>1 DEF TurnOf, FileOfTurn
  <2> QED
    BY <1>1, <2>1, <2>2, FileAccounted
<1>10. CASE SavePhotoFails(r)
  <2>1. /\ stage[r] = "save" /\ UNCHANGED <<assets, lost>>
        /\ \/ UNCHANGED <<files, strays>>
           \/ files' = files \cup {FileOf(r)} /\ strays' = strays \cup {FileOf(r)}
    BY <1>10 DEF SavePhotoFails
  <2>2. FileOf(r) \notin files \cup assets
    BY <2>1 DEF TurnOf, FileOfTurn
  <2> QED
    BY <1>1, <2>1, <2>2, FileAccounted
<1>11. CASE CommitFails(r)
  <2>1. stage[r] = "commit" /\ UNCHANGED <<survivors, files, assets, lost, strays>>
    BY <1>11 DEF CommitFails
  <2>2. pictured[r] \/ (stage'[r] = "discard" /\ UNCHANGED at)
    BY <1>3, <1>11 DEF CommitFails
  <2>3. FileOf(r) \notin assets /\ (FileOf(r) \in files <=> ~pictured[r])
    BY <2>1 DEF TurnOf, FileOfTurn
  <2>4. FileOf(r) \in files => stage'[r] = "discard" /\ FileOf(r)' = FileOf(r)
    BY <1>2, <2>1, <2>2, <2>3
  <2> QED
    BY <1>1, <2>1, <2>3, <2>4, FileAccounted
<1>12. CASE CommitUnanswered(r)
  <2>1. stage[r] = "commit" /\ Apply(r) /\ UNCHANGED <<files, strays>>
    BY <1>12 DEF CommitUnanswered
  <2>2. FileOf(r) \notin assets /\ (FileOf(r) \in files <=> ~pictured[r])
    BY <2>1 DEF TurnOf, FileOfTurn
  <2>3. \/ pictured[r] /\ UNCHANGED <<assets, lost>>
        \/ assets' = assets \cup {FileOf(r)} /\ lost' = lost \cup {FileOf(r)}
    BY <1>12, <2>1 DEF CommitUnanswered, Apply
  <2> QED
    BY <1>1, <2>1, <2>2, <2>3, FileAccounted
<1>13. CASE RunDies(r)
  <2>1. UNCHANGED <<files, assets, lost>> /\ strays' = strays \cup {FileOf(r)}
    BY <1>13 DEF RunDies
  <2> QED
    BY <1>1, <1>4, <2>1, FileAccounted
<1> QED
  BY <1>6, <1>7, <1>8, <1>9, <1>10, <1>11, <1>12, <1>13 DEF ImportStep, ImportTrouble

LEMMA ImportStart ==
  ASSUME Init
  PROVE  ImportInv
<1>1. /\ RunsIdle
      /\ IsScan(photos)
      /\ \E then, combos : EarlierImport(then, combos)
  <2>1. ASSUME photos = <<>>
        PROVE  IsScan(photos)
    <3>1. DOMAIN photos = {} /\ \A S : <<>> \in Seq(S)
      BY <2>1
    <3>2. photos \in Seq({photos[i] : i \in DOMAIN photos})
      BY <2>1, <3>1
    <3> QED
      BY <3>1, <3>2 DEF IsScan
  <2> QED
    BY <2>1 DEF Init, NoImport, ImportInit, ScanInit
<1>2. files = assets /\ \A f \in assets : f[1] = Earlier
  BY <1>1 DEF EarlierImport
<1>3. ImportTypeOK
  <2>1. IsFiniteSet(DOMAIN <<>>)
    <3>1. DOMAIN <<>> = {}
      OBVIOUS
    <3> QED
      BY <3>1, FS_EmptySet
  <2> QED
    BY <1>1, <2>1 DEF RunsIdle, ImportTypeOK
<1>4. ASSUME NEW r \in Run
      PROVE  stage[r] = "start" /\ at[r] = 1 /\ \A f \in files \cup assets : f[1] # r
  BY <1>1, <1>2 DEF RunsIdle
<1> QED
  BY <1>1, <1>2, <1>3, <1>4 DEF ImportInv, ImportedFilesMatchAssets, TurnOf,
                                OneTurnPerDesign, NotYetImported, FileOfTurn, Working

LEMMA ImportStays ==
  ASSUME ImportInv, UNCHANGED <<photos, runVars, files, assets, lost, strays>>
  PROVE  ImportInv'
<1>1. \A r \in Run : Planned(r)' = Planned(r) /\ FileOf(r)' = FileOf(r)
  BY DEF runVars, Planned, Categorized, IsCategorized, FileOf, Current
<1>2. ImportTypeOK' /\ ImportedFilesMatchAssets'
  BY <1>1 DEF runVars, readVars, ImportInv, ImportTypeOK, ImportedFilesMatchAssets
<1>3. ASSUME NEW r \in Run
      PROVE  TurnOf(r)'
  BY <1>1 DEF runVars, readVars, ImportInv, TurnOf, OneTurnPerDesign, NotYetImported,
              FileOfTurn
<1> QED
  BY <1>2, <1>3 DEF ImportInv

(* The seed and staff leave runs and files alone.                          *)
LEMMA ImportStepCases ==
  ASSUME ImportNext
  PROVE  \/ \E r \in Run : ImportStep(r) \/ ImportTrouble(r)
         \/ UNCHANGED <<photos, runVars, files, assets, lost, strays>>
<1>1. CASE Seed
  BY <1>1 DEF Seed, tableVars
<1>2. ASSUME NEW p, StaffOwn(p)
      PROVE  UNCHANGED <<photos, runVars, files, assets, lost, strays>>
  BY <1>2 DEF StaffOwn
<1>3. ASSUME NEW p, NEW f, StaffDetach(p, f)
      PROVE  UNCHANGED <<photos, runVars, files, assets, lost, strays>>
  BY <1>3 DEF StaffDetach
<1>4. ASSUME NEW p, NEW c, NEW sku, StaffVariant(p, c, sku)
      PROVE  UNCHANGED <<photos, runVars, files, assets, lost, strays>>
  BY <1>4 DEF StaffVariant
<1> QED
  BY <1>1, <1>2, <1>3, <1>4 DEF ImportNext

LEMMA ImportInvStep ==
  ASSUME ImportInv, [Next]_vars
  PROVE  ImportInv'
<1>1. ASSUME NEW r \in Run, ImportStep(r) \/ ImportTrouble(r)
      PROVE  ImportInv'
  <2>1. ImportTypeOK' /\ ImportedFilesMatchAssets'
    BY <1>1, ImportTypeStep, RunKeepsFiles DEF ImportInv
  <2>2. ASSUME NEW q \in Run
        PROVE  TurnOf(q)'
    BY <1>1, RunTouches, RunKeepsTurn, OthersKeepTurn DEF ImportInv
  <2> QED
    BY <2>1, <2>2 DEF ImportInv
<1>2. CASE ImportNext
  BY <1>1, <1>2, ImportStays, ImportStepCases
<1>3. CASE UNCHANGED importVars
  BY <1>3, ImportStays DEF importVars, tableVars
<1>4. CASE \E r \in Run : Scan(r)
  BY <1>1, <1>4 DEF ImportStep
<1> QED
  BY <1>2, <1>3, <1>4 DEF Next, vars

LEMMA ImportInvariant == Spec => []ImportInv
BY ImportStart, ImportInvStep, PTL DEF Spec

(* However runs, failures and edits of staff overlap, a photo is on the    *)
(* disk exactly for an asset that names it, up to what died with its run,  *)
(* was refused to be removed, or was committed without an answer.          *)
THEOREM ImportedFilesAlwaysMatchAssets == Spec => []ImportedFilesMatchAssets
<1>1. ImportInv => ImportedFilesMatchAssets
  BY DEF ImportInv
<1> QED
  BY <1>1, ImportInvariant, PTL

(* What a run reports as created or reconciled has an image and, of the    *)
(* variants it was seen to lack, all whose SKU is free.                    *)
THEOREM ReportedProductsAlwaysComplete == Spec => ReportedProductsAreComplete
<1> DEFINE Whole(r, p) ==
             /\ ~pictured[r] => \E f \in files' : <<p, f>> \in pictures'
             /\ \A c \in Combo \ seen[r] : \E v \in variants' :
                  <<v.product, v.combo>> = <<p, c>> \/ v.sku = BuildSku(p, c)
           All == \A r \in Run : \A p \in reported'[r] \ reported[r] : Whole(r, p)
<1>1. ASSUME ImportInv, NEW r \in Run, Commit(r)
      PROVE  /\ reported' = [reported EXCEPT ![r] = @ \cup {Current(r)}]
             /\ Whole(r, Current(r))
  <2> DEFINE p == Current(r)
  <2>1. /\ reported' = [reported EXCEPT ![r] = @ \cup {p}]
        /\ stage[r] = "commit" /\ Apply(r) /\ UNCHANGED files
    BY <1>1 DEF Commit
  <2>2. ~pictured[r] => FileOf(r) \in files' /\ <<p, FileOf(r)>> \in pictures'
    BY <2>1, <1>1 DEF Apply, ImportInv, TurnOf, FileOfTurn
  <2>3. ASSUME NEW c \in Combo \ seen[r]
        PROVE  \E v \in variants' : <<v.product, v.combo>> = <<p, c>> \/ v.sku = BuildSku(p, c)
    <3> DEFINE new == [product |-> p, combo |-> c, sku |-> BuildSku(p, c)]
    <3>1. variants \subseteq variants'
      BY <2>1 DEF Apply, CreateMany
    <3>2. CASE \A v \in variants : /\ v.sku # BuildSku(p, c)
                                   /\ <<v.product, v.combo>> # <<p, c>>
      <4>1. new \in variants'
        BY <2>1, <2>3, <3>2 DEF Apply, CreateMany, Missing
      <4> QED
        BY <4>1
    <3> QED
      BY <3>1, <3>2
  <2> QED
    BY <2>1, <2>2, <2>3
<1> HIDE DEF Whole
<1>2. ASSUME ImportInv, [Next]_vars
      PROVE  All \/ UNCHANGED importVars
  <2>1. ASSUME NEW r \in Run, Commit(r)
        PROVE  All
    BY <1>1, <1>2, <2>1 DEF ImportInv, ImportTypeOK
  <2>2. ASSUME UNCHANGED reported
        PROVE  All
    BY <2>2
  <2>3. ASSUME NEW r \in Run, ImportStep(r) \/ ImportTrouble(r)
        PROVE  All
    BY <2>1, <2>2, <2>3
       DEF ImportStep, ImportTrouble, Scan, Preflight, FindProduct, CountExisting, SavePhoto,
           Discard, SavePhotoFails, CommitFails, CommitUnanswered, RunDies
  <2>4. CASE ImportNext
    BY <2>2, <2>3, <2>4, ImportStepCases DEF runVars
  <2>5. CASE \E r \in Run : Scan(r)
    BY <2>3, <2>5 DEF ImportStep
  <2> QED
    BY <1>2, <2>4, <2>5 DEF Next, vars
<1>3. ImportInv /\ [Next]_vars => [All]_importVars
  BY <1>2
<1>4. [][All]_importVars => ReportedProductsAreComplete
  BY DEF ReportedProductsAreComplete, Whole
<1> QED
  BY <1>3, <1>4, ImportInvariant, PTL DEF Spec

(* Whatever the folder holds, and in whatever order its photos are         *)
(* compared, a scan makes one design of those that a chain of photos of the*)
(* same bytes or the same source joins, and takes the best of them.        *)
THEOREM PhotosAlwaysGroupedByChains == Spec => PhotosGroupedByChains
<1> DEFINE Grouping(r) == stage[r] = "start" /\ stage'[r] = "preflight" =>
             {survivors'[r][n] : n \in DOMAIN survivors'[r]} = Best
           All == \A r \in Run : Grouping(r)
<1>1. ASSUME ImportInv, NEW q \in Run, ImportStep(q) \/ ImportTrouble(q), NEW r \in Run
      PROVE  Grouping(r)
  <2>1. SUFFICES ASSUME stage[r] = "start", stage'[r] = "preflight"
                 PROVE  {survivors'[r][n] : n \in DOMAIN survivors'[r]} = Best
    OBVIOUS
  <2>2. ImportTypeOK
    BY <1>1 DEF ImportInv
  <2>3. q = r
    BY <1>1, <2>1, <2>2, RunTouches DEF Touches
  <2>4. Scan(r)
    BY <1>1, <2>1, <2>3
       DEF ImportStep, ImportTrouble, Preflight, FindProduct, CountExisting, SavePhoto, Commit,
           Discard, SavePhotoFails, CommitFails, CommitUnanswered, RunDies
  <2>5. survivors'[r] = Survivors(photos)
    BY <2>2, <2>4 DEF Scan, ImportTypeOK
  <2> QED
    BY <2>2, <2>5, SurvivorsAreBest DEF ImportTypeOK
<1> HIDE DEF Grouping
<1>2. ASSUME ImportInv, [Next]_vars
      PROVE  All \/ UNCHANGED importVars
  <2>1. ASSUME NEW q \in Run, ImportStep(q) \/ ImportTrouble(q)
        PROVE  All
    BY <1>1, <1>2, <2>1
  <2>2. ASSUME UNCHANGED stage
        PROVE  All
    BY <2>2 DEF Grouping
  <2>3. CASE ImportNext
    BY <2>1, <2>2, <2>3, ImportStepCases DEF runVars
  <2>4. CASE \E r \in Run : Scan(r)
    BY <2>1, <2>4 DEF ImportStep
  <2> QED
    BY <1>2, <2>3, <2>4 DEF Next, vars
<1>3. ImportInv /\ [Next]_vars => [All]_importVars
  BY <1>2
<1>4. [][All]_importVars => PhotosGroupedByChains
  BY DEF PhotosGroupedByChains, Grouping
<1> QED
  BY <1>3, <1>4, ImportInvariant, PTL DEF Spec

-----------------------------------------------------------------------------
(* Images                                                                  *)

(* A transaction writes only rows that it holds, and promotes only the     *)
(* image that it was asked to.                                             *)
Chosen(e) == IF task[e].op = "reorder" THEN task[e].order[1] ELSE task[e].media

HoldsRows(e) ==
  /\ Active(e) => task[e] \in Task
  /\ ~Active(e) => draft[e] = Unchanged /\ todo[e] = {}
  /\ step[e] \in {"demote", "demoting"} => task[e].isPrimary /\ task[e].op # "reorder"
  /\ step[e] = "demote" => draft[e] = Unchanged /\ todo[e] = {}
  /\ \A n \in Media :
       /\ draft[e][n] # "same" => writer[n] = e
       /\ draft[e][n] \in {"plain", "primary"} =>
            n \in Rows \/ (task[e].op = "attach" /\ n = task[e].media)
       /\ draft[e][n] = "primary" => task[e].isPrimary /\ n = Chosen(e)

(* Of an order, a first part is written; at the end, all of it.            *)
WrittenUpTo(e, i) ==
  /\ \A j \in DOMAIN task[e].order : draft[e][task[e].order[j]] = "same" <=> j >= i
  /\ \A n \in Media : draft[e][n] # "same" => \E j \in DOMAIN task[e].order : task[e].order[j] = n

WritesInOrder(e) ==
  Active(e) /\ task[e].op = "reorder" =>
    /\ step[e] \in {"write", "commit"}
    /\ step[e] = "write" => \E i \in DOMAIN task[e].order : WrittenUpTo(e, i)
    /\ step[e] = "commit" => WrittenUpTo(e, Len(task[e].order) + 1)

(* While nothing raced, one that promotes sees all images there are: no    *)
(* other adds one, and each that was there is visited.                     *)
Sees(e) ==
  ~raced /\ Active(e) /\ task[e].isPrimary =>
    /\ \A f \in Editor : f # e /\ Active(f) => task[f].op # "attach"
    /\ task[e].op = "reorder" =>
         \A n \in Rows : \E j \in DOMAIN task[e].order : task[e].order[j] = n
    /\ task[e].op # "reorder" /\ step[e] # "demote" =>
         \A n \in Rows : n = task[e].media \/ n \in todo[e] \/ draft[e][n] = "plain"
    /\ step[e] \in {"write", "commit"} => todo[e] = {}

OnePrimary ==
  ~raced => \A m, n \in Media : shown[m] = "primary" /\ shown[n] = "primary" => m = n

EditorInv(e) == HoldsRows(e) /\ WritesInOrder(e) /\ Sees(e)

GalleryInv == GalleryTypeOK /\ OnePrimary /\ \A e \in Editor : EditorInv(e)

LEMMA EndEditKeepsType ==
  ASSUME GalleryTypeOK, NEW e \in Editor, EndEdit(e)
  PROVE  /\ writer' \in [Media -> Editor \cup {Nobody}]
         /\ draft' \in [Editor -> [Media -> {"same", "NONE", "plain", "primary"}]]
         /\ todo' \in [Editor -> SUBSET Media]
         /\ step' \in [Editor -> {"start", "demote", "demoting", "write", "commit", "done"}]
         /\ UNCHANGED <<task, raced>>
BY DEF GalleryTypeOK, EndEdit, GotoStep, Unchanged

LEMMA WriteKeepsGalleryType ==
  ASSUME GalleryTypeOK, NEW e \in Editor, NEW m,
         NEW value \in {"same", "NONE", "plain", "primary"}, Write(e, m, value)
  PROVE  /\ writer' \in [Media -> Editor \cup {Nobody}]
         /\ draft' \in [Editor -> [Media -> {"same", "NONE", "plain", "primary"}]]
BY DEF GalleryTypeOK, Write

LEMMA GalleryTypeStep ==
  ASSUME GalleryTypeOK, GalleryNext
  PROVE  GalleryTypeOK'
<1> PICK e \in Editor :
      \/ \E t \in Task : BeginEdit(e, t)
      \/ StartDemoting(e)
      \/ \E m \in todo[e] : DemoteRow(e, m)
      \/ EndDemoting(e)
      \/ WriteRow(e)
      \/ DetachRow(e)
      \/ ReorderRow(e)
      \/ CommitEdit(e)
      \/ AbortEdit(e)
  BY DEF GalleryNext
<1> USE DEF GalleryTypeOK
<1>1. CASE \E t \in Task : BeginEdit(e, t)
  BY <1>1 DEF BeginEdit, GotoStep
<1>2. CASE StartDemoting(e)
  BY <1>2 DEF StartDemoting, GotoStep, Rows
<1>3. CASE \E m \in todo[e] : DemoteRow(e, m)
  BY <1>3, WriteKeepsGalleryType DEF DemoteRow
<1>4. CASE EndDemoting(e)
  BY <1>4 DEF EndDemoting, GotoStep
<1>5. CASE WriteRow(e)
  BY <1>5, WriteKeepsGalleryType, EndEditKeepsType DEF WriteRow, RowConflicts, GotoStep
<1>6. CASE DetachRow(e)
  BY <1>6, WriteKeepsGalleryType DEF DetachRow, GotoStep
<1>7. CASE ReorderRow(e)
  BY <1>7, WriteKeepsGalleryType, EndEditKeepsType DEF ReorderRow, RowConflicts, GotoStep
<1>8. CASE CommitEdit(e)
  BY <1>8, EndEditKeepsType DEF CommitEdit
<1>9. CASE AbortEdit(e)
  BY <1>9, EndEditKeepsType DEF AbortEdit
<1> QED
  BY <1>1, <1>2, <1>3, <1>4, <1>5, <1>6, <1>7, <1>8, <1>9

(* A transaction minds another one only where it adds an image.            *)
LEMMA OtherEditor ==
  ASSUME GalleryTypeOK, NEW q \in Editor, EditorInv(q),
         UNCHANGED <<draft[q], todo[q], task[q], step[q]>>,
         raced => raced',
         \A n \in Media : writer[n] = q => writer'[n] = q /\ shown'[n] = shown[n],
         ~raced' /\ Active(q) /\ task[q].isPrimary =>
           /\ Rows' \subseteq Rows
           /\ \A f \in Editor : f # q /\ Active(f)' => task'[f].op # "attach"
  PROVE  EditorInv(q)'
<1>1. Active(q)' = Active(q) /\ Chosen(q)' = Chosen(q)
  BY DEF Active, Chosen
<1>2. HoldsRows(q)'
  BY <1>1 DEF EditorInv, HoldsRows, Rows, Unchanged
<1>3. WritesInOrder(q)'
  BY <1>1 DEF EditorInv, WritesInOrder, WrittenUpTo
<1>4. Sees(q)'
  BY <1>1 DEF EditorInv, Sees
<1> QED
  BY <1>2, <1>3, <1>4 DEF EditorInv

LEMMA BeginKeepsEditors ==
  ASSUME GalleryInv, NEW e \in Editor, NEW t \in Task, BeginEdit(e, t)
  PROVE  \A q \in Editor : EditorInv(q)'
<1> USE DEF GalleryInv
<1>1. /\ step[e] = "start" /\ ~Active(e) /\ draft[e] = Unchanged /\ todo[e] = {}
      /\ task'[e] = t /\ UNCHANGED <<shown, writer, draft, todo>>
      /\ step'[e] = IF t.isPrimary /\ t.op # "reorder" THEN "demote" ELSE "write"
      /\ raced' = (raced \/ \E f \in Editor : Active(f) /\ Races(t, task[f]))
      /\ Acceptable(t)
  BY DEF BeginEdit, GotoStep, GalleryTypeOK, EditorInv, HoldsRows, Active
<1>2. ASSUME NEW q \in Editor, q # e
      PROVE  UNCHANGED <<task[q], step[q]>> /\ Active(q)' = Active(q)
  BY <1>2 DEF BeginEdit, GotoStep, GalleryTypeOK, Active
<1>3. Rows' = Rows
  BY <1>1 DEF Rows
<1>4. ASSUME NEW q \in Editor, q # e
      PROVE  EditorInv(q)'
  <2>1. ASSUME ~raced', Active(q), task[q].isPrimary
        PROVE  \A f \in Editor : f # q /\ Active(f)' => task'[f].op # "attach"
    <3>1. \A f \in Editor : f # q /\ f # e /\ Active(f)' => task'[f].op # "attach"
      <4>1. ~raced /\ Sees(q)
        BY <1>1, <2>1 DEF EditorInv
      <4>2. \A f \in Editor : f # q /\ Active(f) => task[f].op # "attach"
        BY <2>1, <4>1 DEF Sees
      <4> QED
        BY <1>2, <4>2
    <3>2. t.op # "attach"
      BY <1>1, <1>4, <2>1 DEF Races
    <3> QED
      BY <1>1, <3>1, <3>2
  <2> QED
    BY <1>1, <1>2, <1>3, <1>4, <2>1, OtherEditor
<1>5. \A n \in Media : draft[e][n] = "same"
  BY <1>1 DEF Unchanged
<1>6. HoldsRows(e)'
  BY <1>1, <1>5 DEF HoldsRows, Active
<1>7. ASSUME t.op = "reorder"
      PROVE  /\ t.order \in Seq(Media) /\ DOMAIN t.order = 1 .. Len(t.order)
             /\ Len(t.order) \in Nat \ {0}
             /\ t.isPrimary
             /\ {t.order[i] : i \in DOMAIN t.order} = Rows
  <2>1. t.order \in Order /\ t.isPrimary
    BY <1>7 DEF Task
  <2>2. t.order \in Seq(Media) /\ t.order # <<>>
    BY <2>1
  <2>3. {t.order[i] : i \in DOMAIN t.order} = Rows
    BY <1>1, <1>7 DEF Acceptable
  <2> QED
    BY <2>1, <2>2, <2>3, LenProperties
<1>8. WritesInOrder(e)'
  <2> SUFFICES ASSUME t.op = "reorder"
               PROVE  step'[e] = "write" /\ \E i \in DOMAIN t.order : WrittenUpTo(e, i)'
    BY <1>1 DEF WritesInOrder
  <2>1. 1 \in DOMAIN t.order /\ \A j \in DOMAIN t.order : t.order[j] \in Media /\ j >= 1
    BY <1>7
  <2>2. WrittenUpTo(e, 1)'
    BY <1>1, <1>5, <2>1 DEF WrittenUpTo
  <2> QED
    BY <1>1, <2>1, <2>2 DEF WrittenUpTo
<1>9. Sees(e)'
  <2> SUFFICES ASSUME ~raced', t.isPrimary
               PROVE  /\ \A f \in Editor : f # e /\ Active(f)' => task'[f].op # "attach"
                      /\ t.op = "reorder" =>
                           \A n \in Rows : \E j \in DOMAIN t.order : t.order[j] = n
                      /\ step'[e] \in {"demote", "write"}
                      /\ step'[e] = "write" => t.op = "reorder" /\ todo[e] = {}
    BY <1>1, <1>3 DEF Sees
  <2>1. \A f \in Editor : f # e /\ Active(f)' => task'[f].op # "attach"
    BY <1>1, <1>2 DEF Races
  <2>2. t.op = "reorder" => \A n \in Rows : \E j \in DOMAIN t.order : t.order[j] = n
    BY <1>7
  <2> QED
    BY <1>1, <2>1, <2>2
<1> QED
  BY <1>4, <1>6, <1>8, <1>9 DEF EditorInv

(* Until a transaction commits, it changes nothing for the others.         *)
LEMMA QuietForOthers ==
  ASSUME GalleryInv, NEW e \in Editor, Active(e), UNCHANGED <<shown, task, raced>>,
         \A q \in Editor : q # e => UNCHANGED <<draft[q], todo[q], step[q]>>,
         \A q \in Editor, n \in Media : q # e /\ writer[n] = q => writer'[n] = q,
         NEW q \in Editor, q # e
  PROVE  EditorInv(q)'
<1>1. Rows' = Rows
  BY DEF Rows
<1>2. \A f \in Editor : Active(f)' => Active(f)
  BY DEF Active
<1>3. EditorInv(q) /\ GalleryTypeOK
  BY DEF GalleryInv
<1>4. ~raced' /\ Active(q) /\ task[q].isPrimary =>
        \A f \in Editor : f # q /\ Active(f)' => task'[f].op # "attach"
  BY <1>2, <1>3 DEF EditorInv, Sees
<1> QED
  BY <1>1, <1>3, <1>4, OtherEditor

LEMMA EndEditKeepsEditor ==
  ASSUME GalleryTypeOK, NEW e \in Editor, EndEdit(e)
  PROVE  /\ EditorInv(e)'
         /\ \A q \in Editor : q # e => UNCHANGED <<draft[q], todo[q], step[q]>>
         /\ \A q \in Editor, n \in Media : q # e /\ writer[n] = q => writer'[n] = q
<1>1. /\ step'[e] = "done" /\ draft'[e] = Unchanged /\ todo'[e] = {}
      /\ \A n \in Media : draft'[e][n] = "same"
  BY DEF EndEdit, GotoStep, GalleryTypeOK, Unchanged
<1>2. EditorInv(e)'
  BY <1>1 DEF EditorInv, HoldsRows, WritesInOrder, Sees, Active
<1>3. ASSUME NEW q \in Editor, q # e
      PROVE  UNCHANGED <<draft[q], todo[q], step[q]>>
  BY <1>3 DEF EndEdit, GotoStep, GalleryTypeOK
<1>4. ASSUME NEW q \in Editor, NEW n \in Media, q # e, writer[n] = q
      PROVE  writer'[n] = q
  BY <1>4 DEF EndEdit
<1> QED
  BY <1>2, <1>3, <1>4

LEMMA QuietEnd ==
  ASSUME GalleryInv, NEW e \in Editor, Active(e), EndEdit(e), UNCHANGED shown
  PROVE  \A q \in Editor : EditorInv(q)'
<1>1. GalleryTypeOK /\ UNCHANGED <<task, raced>>
  BY DEF GalleryInv, EndEdit
<1> QED
  BY <1>1, EndEditKeepsEditor, QuietForOthers

LEMMA WriteChangesOneRow ==
  ASSUME GalleryTypeOK, NEW e \in Editor, NEW m \in Media, NEW value, Write(e, m, value)
  PROVE  /\ \A q \in Editor : q # e => draft'[q] = draft[q]
         /\ \A q \in Editor, n \in Media : q # e /\ writer[n] = q => writer'[n] = q
         /\ \A n \in Media : draft'[e][n] = IF n = m THEN value ELSE draft[e][n]
         /\ \A n \in Media : writer[n] = e \/ n = m => writer'[n] = e
<1>1. /\ writer[m] \in {Nobody, e}
      /\ writer' = [writer EXCEPT ![m] = e]
      /\ draft' = [draft EXCEPT ![e][m] = value]
  BY DEF Write
<1>2. ASSUME NEW q \in Editor, NEW n \in Media, q # e, writer[n] = q
      PROVE  writer'[n] = q
  BY <1>1, <1>2 DEF GalleryTypeOK
<1> QED
  BY <1>1, <1>2 DEF GalleryTypeOK

LEMMA DemotionKeepsEditors ==
  ASSUME GalleryInv, NEW e \in Editor,
         StartDemoting(e) \/ EndDemoting(e) \/ \E m \in todo[e] : DemoteRow(e, m)
  PROVE  \A q \in Editor : EditorInv(q)'
<1> USE DEF GalleryInv
<1>1. EditorInv(e) /\ GalleryTypeOK
  OBVIOUS
<1>2. CASE StartDemoting(e)
  <2>1. /\ step[e] = "demote" /\ step'[e] = "demoting" /\ UNCHANGED <<shown, writer, draft, task, raced>>
        /\ todo'[e] = IF task[e].op = "update" THEN Rows \ {task[e].media} ELSE Rows
        /\ \A q \in Editor : q # e => UNCHANGED <<draft[q], todo[q], step[q]>>
    BY <1>2 DEF StartDemoting, GotoStep, GalleryTypeOK
  <2>2. Active(e) /\ Active(e)' /\ Rows' = Rows /\ Chosen(e)' = Chosen(e)
        /\ \A f \in Editor : Active(f)' = Active(f)
    BY <2>1 DEF Active, Rows, Chosen
  <2>3. HoldsRows(e)'
    BY <1>1, <2>1, <2>2 DEF EditorInv, HoldsRows
  <2>4. WritesInOrder(e)' /\ Sees(e)'
    BY <1>1, <2>1, <2>2 DEF EditorInv, WritesInOrder, Sees, HoldsRows
  <2> QED
    BY <2>1, <2>2, <2>3, <2>4, QuietForOthers DEF EditorInv
<1>3. CASE EndDemoting(e)
  <2>1. /\ step[e] = "demoting" /\ step'[e] = "write" /\ todo[e] = {}
        /\ UNCHANGED <<shown, writer, draft, todo, task, raced>>
        /\ \A q \in Editor : q # e => UNCHANGED <<draft[q], todo[q], step[q]>>
    BY <1>3 DEF EndDemoting, GotoStep, GalleryTypeOK
  <2>2. Active(e) /\ Active(e)' /\ Rows' = Rows /\ Chosen(e)' = Chosen(e)
        /\ \A f \in Editor : Active(f)' = Active(f)
    BY <2>1 DEF Active, Rows, Chosen
  <2>3. HoldsRows(e)'
    BY <1>1, <2>1, <2>2 DEF EditorInv, HoldsRows
  <2>4. WritesInOrder(e)' /\ Sees(e)'
    BY <1>1, <2>1, <2>2 DEF EditorInv, WritesInOrder, Sees, HoldsRows
  <2> QED
    BY <2>1, <2>2, <2>3, <2>4, QuietForOthers DEF EditorInv
<1>4. ASSUME NEW m \in todo[e], DemoteRow(e, m)
      PROVE  \A q \in Editor : EditorInv(q)'
  <2>1. /\ step[e] = "demoting" /\ UNCHANGED <<shown, task, raced, step>>
        /\ todo'[e] = todo[e] \ {m}
        /\ \A q \in Editor : q # e => UNCHANGED <<todo[q], step[q]>>
        /\ m \in Media
    BY <1>4 DEF DemoteRow, GalleryTypeOK
  <2>2. Active(e) /\ Active(e)' /\ Rows' = Rows /\ Chosen(e)' = Chosen(e)
        /\ \A f \in Editor : Active(f)' = Active(f)
    BY <2>1 DEF Active, Rows, Chosen
  <2>3. /\ \A q \in Editor : q # e => draft'[q] = draft[q]
        /\ \A q \in Editor, n \in Media : q # e /\ writer[n] = q => writer'[n] = q
        /\ \A n \in Media : \/ draft'[e][n] = draft[e][n] /\ (n # m \/ m \notin Rows)
                            \/ n = m /\ m \in Rows /\ draft'[e][n] = "plain"
        /\ \A n \in Media : writer[n] = e => writer'[n] = e
        /\ m \in Rows => writer'[m] = e
    <3>1. CASE m \in Rows /\ Write(e, m, "plain")
      BY <1>1, <2>1, <3>1, WriteChangesOneRow
    <3>2. CASE m \notin Rows /\ UNCHANGED <<writer, draft>>
      BY <3>2
    <3> QED
      BY <1>4, <3>1, <3>2 DEF DemoteRow
  <2>4. HoldsRows(e)'
    BY <1>1, <2>1, <2>2, <2>3 DEF EditorInv, HoldsRows
  <2>5. WritesInOrder(e)'
    BY <1>1, <2>1, <2>2 DEF EditorInv, WritesInOrder, HoldsRows
  <2>6. Sees(e)'
    <3>1. task[e].op # "reorder"
      BY <1>1, <2>1 DEF EditorInv, HoldsRows
    <3>2. Rows \subseteq Media
      BY DEF Rows
    <3> QED
      BY <1>1, <2>1, <2>2, <2>3, <3>1, <3>2 DEF EditorInv, Sees
  <2> QED
    BY <2>1, <2>2, <2>3, <2>4, <2>5, <2>6, QuietForOthers DEF EditorInv
<1> QED
  BY <1>2, <1>3, <1>4

LEMMA WritesKeepEditors ==
  ASSUME GalleryInv, NEW e \in Editor, WriteRow(e) \/ DetachRow(e)
  PROVE  \A q \in Editor : EditorInv(q)'
<1> USE DEF GalleryInv
<1> DEFINE t == task[e]
           m == t.media
<1>1. /\ EditorInv(e) /\ GalleryTypeOK /\ step[e] = "write" /\ Active(e) /\ t \in Task
      /\ t.op \in {"attach", "update", "detach"}
  BY DEF WriteRow, DetachRow, Active, EditorInv, HoldsRows
<1>2. m \in Media /\ (t.op = "detach" => ~t.isPrimary)
  BY <1>1 DEF Task
<1>3. CASE RowConflicts(e, m)
  BY <1>1, <1>3, QuietEnd DEF RowConflicts
<1>4. ASSUME NEW value \in {"same", "NONE", "plain", "primary"},
             Write(e, m, value), GotoStep(e, "commit"), UNCHANGED <<shown, todo, task, raced>>,
             value = "primary" => t.isPrimary,
             value \in {"plain", "primary"} => m \in Rows \/ t.op = "attach"
      PROVE  \A q \in Editor : EditorInv(q)'
  <2>1. /\ \A q \in Editor : q # e => draft'[q] = draft[q]
        /\ \A q \in Editor, n \in Media : q # e /\ writer[n] = q => writer'[n] = q
        /\ \A n \in Media : draft'[e][n] = IF n = m THEN value ELSE draft[e][n]
        /\ \A n \in Media : writer[n] = e \/ n = m => writer'[n] = e
    BY <1>1, <1>2, <1>4, WriteChangesOneRow
  <2>2. /\ step'[e] = "commit" /\ \A q \in Editor : q # e => step'[q] = step[q]
        /\ Active(e)' /\ Rows' = Rows /\ Chosen(e)' = Chosen(e) /\ Chosen(e) = m
        /\ \A f \in Editor : Active(f)' = Active(f)
    BY <1>1, <1>4 DEF GotoStep, GalleryTypeOK, Active, Rows, Chosen
  <2>3. HoldsRows(e)'
    BY <1>1, <1>2, <1>4, <2>1, <2>2 DEF EditorInv, HoldsRows
  <2>4. WritesInOrder(e)'
    BY <1>1, <1>4 DEF WritesInOrder
  <2>5. Sees(e)'
    <3>1. Rows \subseteq Media
      BY DEF Rows
    <3> QED
      BY <1>1, <1>4, <2>1, <2>2, <3>1 DEF EditorInv, Sees
  <2> QED
    BY <1>1, <1>4, <2>1, <2>2, <2>3, <2>4, <2>5, QuietForOthers DEF EditorInv
<1>5. CASE DetachRow(e)
  BY <1>4, <1>5 DEF DetachRow
<1>6. CASE WriteRow(e) /\ ~RowConflicts(e, m)
  <2>1. (t.op = "attach") # (m \in Rows) /\ t.op \in {"attach", "update"}
    BY <1>6 DEF WriteRow
  <2> DEFINE value == IF t.isPrimary THEN "primary"
                      ELSE IF t.op = "attach" THEN "plain" ELSE "same"
  <2>2. Write(e, m, value) /\ GotoStep(e, "commit") /\ UNCHANGED <<shown, todo, task, raced>>
    BY <1>6 DEF WriteRow
  <2> QED
    BY <1>4, <2>1, <2>2
<1> QED
  BY <1>3, <1>5, <1>6 DEF WriteRow

(* The row that comes next is the first one that is not written, and the   *)
(* last one when all others are.                                           *)
LEMMA NextInOrderIs ==
  ASSUME GalleryTypeOK, NEW e \in Editor, NEW k \in Nat, DOMAIN task[e].order = 1 .. k,
         Len(task[e].order) = k,
         task[e].order \in Seq(Media),
         \A i, j \in 1 .. k : task[e].order[i] = task[e].order[j] => i = j,
         NEW i \in 1 .. k, WrittenUpTo(e, i)
  PROVE  /\ NextInOrder(e) = task[e].order[i]
         /\ Cardinality({n \in Media : draft[e][n] # "same"}) = i - 1
<1> DEFINE o == task[e].order
           D == {n \in Media : draft[e][n] # "same"}
           Is(x) == \E j \in DOMAIN task[e].order :
                      /\ task[e].order[j] = x
                      /\ \A l \in 1 .. Len(task[e].order) :
                           draft[e][task[e].order[l]] = "same" <=> l >= j
<1>1. \A j \in 1 .. k : o[j] \in Media /\ (draft[e][o[j]] = "same" <=> j >= i)
  BY DEF WrittenUpTo
<1>2. o[i] \in Media /\ Is(o[i])
  BY <1>1
<1>3. ASSUME NEW x \in Media, Is(x)
      PROVE  x = o[i]
  <2>1. PICK j \in 1 .. k : o[j] = x /\ \A l \in 1 .. k : draft[e][o[l]] = "same" <=> l >= j
    BY <1>3
  <2>2. i >= j /\ j >= i
    BY <1>1, <2>1
  <2>3. i = j
    BY <2>2
  <2> QED
    BY <2>1, <2>3
<1>4. NextInOrder(e) = CHOOSE x \in Media : Is(x)
  BY DEF NextInOrder
<1>5. NextInOrder(e) = o[i]
  <2> HIDE DEF Is, o
  <2> QED
    BY <1>2, <1>3, <1>4
<1>6. Cardinality(D) = i - 1
  <2> DEFINE f == [j \in 1 .. (i - 1) |-> o[j]]
  <2>1. \A j \in 1 .. (i - 1) : j \in 1 .. k /\ ~(j >= i)
    OBVIOUS
  <2>2. f \in [1 .. (i - 1) -> D]
    BY <1>1, <2>1
  <2>3. \A n \in D : \E j \in 1 .. (i - 1) : f[j] = n
    <3>1. ASSUME NEW n \in D
          PROVE  \E j \in 1 .. (i - 1) : f[j] = n
      <4>1. PICK j \in 1 .. k : o[j] = n
        BY DEF WrittenUpTo
      <4>2. ~(j >= i)
        BY <1>1, <4>1
      <4>3. j \in 1 .. (i - 1)
        BY <4>2
      <4> QED
        BY <4>1, <4>3
    <3> QED
      BY <3>1
  <2>4. \A a, b \in 1 .. (i - 1) : f[a] = f[b] => a = b
    BY <2>1
  <2> HIDE DEF f, D, o
  <2>5. f \in Bijection(1 .. (i - 1), D)
    BY <2>2, <2>3, <2>4 DEF Bijection, Injection, Surjection, IsInjective
  <2>6. IsFiniteSet(1 .. (i - 1)) /\ Cardinality(1 .. (i - 1)) = i - 1
    BY FS_Interval
  <2> QED
    BY <2>5, <2>6, FS_Bijection DEF ExistsBijection
<1> QED
  BY <1>5, <1>6

LEMMA ReorderKeepsEditors ==
  ASSUME GalleryInv, NEW e \in Editor, ReorderRow(e)
  PROVE  \A q \in Editor : EditorInv(q)'
<1> USE DEF GalleryInv
<1> DEFINE o == task[e].order
           k == Len(o)
           m == NextInOrder(e)
           D == {n \in Media : draft[e][n] # "same"}
           rest == Cardinality(D) + 1 < k
           value == IF m = o[1] THEN "primary" ELSE "plain"
<1>1. /\ EditorInv(e) /\ GalleryTypeOK /\ step[e] = "write" /\ Active(e)
      /\ task[e] \in Task /\ task[e].op = "reorder"
  BY DEF ReorderRow, Active, EditorInv, HoldsRows
<1>2. CASE RowConflicts(e, m)
  BY <1>1, <1>2, QuietEnd DEF RowConflicts
<1>3. CASE ~RowConflicts(e, m)
  <2>1. /\ m \in Rows /\ Write(e, m, value) /\ GotoStep(e, IF rest THEN "write" ELSE "commit")
        /\ UNCHANGED <<shown, todo, task, raced>>
    BY <1>3 DEF ReorderRow
  <2>2. /\ o \in Seq(Media) /\ task[e].isPrimary
        /\ \A i, j \in DOMAIN o : o[i] = o[j] => i = j
    BY <1>1 DEF Task
  <2>3. k \in Nat /\ DOMAIN o = 1 .. k
    BY <2>2, LenProperties
  <2>4. PICK i \in 1 .. k : WrittenUpTo(e, i)
    BY <1>1, <2>3 DEF EditorInv, WritesInOrder
  <2>5. m = o[i] /\ Cardinality(D) = i - 1 /\ m \in Media
    <3>1. m = o[i] /\ Cardinality(D) = i - 1
      BY <1>1, <2>2, <2>3, <2>4, NextInOrderIs
    <3> QED
      BY <2>1, <3>1 DEF Rows
  <2>6. rest <=> i < k
    BY <2>3, <2>5
  <2>7. /\ \A q \in Editor : q # e => draft'[q] = draft[q]
        /\ \A q \in Editor, n \in Media : q # e /\ writer[n] = q => writer'[n] = q
        /\ \A n \in Media : draft'[e][n] = IF n = m THEN value ELSE draft[e][n]
        /\ \A n \in Media : writer[n] = e \/ n = m => writer'[n] = e
    BY <1>1, <2>1, <2>5, WriteChangesOneRow
  <2>8. /\ step'[e] = IF i < k THEN "write" ELSE "commit"
        /\ \A q \in Editor : q # e => step'[q] = step[q]
        /\ Rows' = Rows /\ Chosen(e)' = Chosen(e) /\ Chosen(e) = o[1]
    BY <1>1, <2>1, <2>6 DEF GotoStep, GalleryTypeOK, Rows, Chosen
  <2>9. Active(e)' /\ \A f \in Editor : Active(f)' = Active(f)
    BY <1>1, <2>8 DEF Active
  <2>10. HoldsRows(e)'
    BY <1>1, <2>1, <2>2, <2>7, <2>8, <2>9 DEF EditorInv, HoldsRows
  <2>11. WrittenUpTo(e, i + 1)'
    <3>1. \A j \in 1 .. k : /\ o[j] \in Media
                            /\ draft[e][o[j]] = "same" <=> j >= i
                            /\ o[j] = m <=> j = i
      BY <2>2, <2>3, <2>4, <2>5 DEF WrittenUpTo
    <3>2. \A j \in 1 .. k : draft'[e][o[j]] = "same" <=> j >= i /\ j # i
      BY <2>7, <3>1
    <3>3. \A j \in 1 .. k : j >= i /\ j # i <=> j >= i + 1
      BY <2>3
    <3>4. \A n \in Media : draft'[e][n] # "same" => \E j \in 1 .. k : o[j] = n
      BY <2>3, <2>4, <2>5, <2>7 DEF WrittenUpTo
    <3> QED
      BY <2>1, <2>3, <3>2, <3>3, <3>4 DEF WrittenUpTo
  <2>12. WritesInOrder(e)'
    <3>1. CASE i < k
      <4>1. i + 1 \in 1 .. k /\ step'[e] = "write"
        BY <2>3, <2>8, <3>1
      <4> QED
        BY <2>1, <2>3, <2>11, <4>1 DEF WritesInOrder
    <3>2. CASE ~(i < k)
      <4>1. i + 1 = k + 1 /\ step'[e] = "commit"
        BY <2>3, <2>8, <3>2
      <4> QED
        BY <2>1, <2>3, <2>11, <4>1 DEF WritesInOrder
    <3> QED
      BY <3>1, <3>2
  <2>13. Sees(e)'
    BY <1>1, <2>1, <2>8, <2>9 DEF EditorInv, Sees
  <2> QED
    BY <1>1, <2>1, <2>7, <2>8, <2>10, <2>12, <2>13, QuietForOthers DEF EditorInv
<1> QED
  BY <1>2, <1>3

LEMMA CommitKeepsEditors ==
  ASSUME GalleryInv, NEW e \in Editor, CommitEdit(e)
  PROVE  (\A q \in Editor : EditorInv(q))' /\ OnePrimary'
<1> USE DEF GalleryInv
<1>1. /\ EditorInv(e) /\ GalleryTypeOK /\ step[e] = "commit" /\ Active(e) /\ task[e] \in Task
      /\ UNCHANGED <<task, raced>> /\ EndEdit(e)
      /\ \A n \in Media : shown'[n] = IF draft[e][n] = "same" THEN shown[n] ELSE draft[e][n]
  BY DEF CommitEdit, EndEdit, Active, EditorInv, HoldsRows
<1>2. /\ EditorInv(e)'
      /\ \A q \in Editor : q # e => UNCHANGED <<draft[q], todo[q], step[q]>>
      /\ \A q \in Editor, n \in Media : q # e /\ writer[n] = q => writer'[n] = q
  BY <1>1, EndEditKeepsEditor
<1>3. \A f \in Editor : Active(f)' => Active(f) /\ f # e
  BY <1>2, <1>1 DEF Active, EndEdit, GotoStep, GalleryTypeOK
<1>4. ASSUME NEW n \in Rows' \ Rows
      PROVE  task[e].op = "attach"
  <2>1. n \in Media /\ draft[e][n] \in {"plain", "primary"}
    BY <1>1, <1>4 DEF Rows, GalleryTypeOK
  <2> QED
    BY <1>1, <1>4, <2>1 DEF EditorInv, HoldsRows
<1>5. ASSUME NEW q \in Editor, q # e
      PROVE  EditorInv(q)'
  <2>1. \A n \in Media : writer[n] = q => shown'[n] = shown[n]
    BY <1>1, <1>5 DEF EditorInv, HoldsRows
  <2>2. ASSUME ~raced', Active(q), task[q].isPrimary
        PROVE  /\ Rows' \subseteq Rows
               /\ \A f \in Editor : f # q /\ Active(f)' => task'[f].op # "attach"
    <3>1. \A f \in Editor : f # q /\ Active(f) => task[f].op # "attach"
      BY <1>1, <2>2 DEF EditorInv, Sees
    <3> QED
      BY <1>1, <1>3, <1>4, <1>5, <3>1
  <2> QED
    BY <1>1, <1>2, <1>5, <2>1, <2>2, OtherEditor
<1>6. OnePrimary'
  <2> SUFFICES ASSUME ~raced, NEW m \in Media, NEW n \in Media,
                      shown'[m] = "primary", shown'[n] = "primary"
               PROVE  m = n
    BY <1>1 DEF OnePrimary
  <2>1. CASE ~task[e].isPrimary
    <3>1. shown[m] = "primary" /\ shown[n] = "primary"
      BY <1>1, <2>1 DEF EditorInv, HoldsRows
    <3> QED
      BY <3>1 DEF OnePrimary
  <2>2. CASE task[e].isPrimary
    <3>1. ASSUME NEW x \in Media, shown'[x] = "primary"
          PROVE  x = Chosen(e)
      <4>1. CASE draft[e][x] = "primary"
        BY <1>1, <4>1 DEF EditorInv, HoldsRows
      <4>2. CASE draft[e][x] = "same" /\ shown[x] = "primary"
        <5>1. x \in Rows
          BY <4>2 DEF Rows
        <5>2. CASE task[e].op = "reorder"
          <6>1. PICK j \in DOMAIN task[e].order : task[e].order[j] = x
            BY <1>1, <2>2, <5>1, <5>2 DEF EditorInv, Sees
          <6>2. task[e].order \in Seq(Media)
            BY <1>1, <5>2 DEF Task
          <6>3. WrittenUpTo(e, Len(task[e].order) + 1) /\ j \in 1 .. Len(task[e].order)
                /\ Len(task[e].order) \in Nat
            BY <1>1, <5>2, <6>2, LenProperties DEF EditorInv, WritesInOrder
          <6>4. ~(j >= Len(task[e].order) + 1)
            BY <6>3
          <6>5. draft[e][x] # "same"
            BY <6>1, <6>3, <6>4 DEF WrittenUpTo
          <6> QED
            BY <4>2, <6>5
        <5>3. CASE task[e].op # "reorder"
          BY <1>1, <2>2, <4>2, <5>1, <5>3 DEF EditorInv, Sees, Chosen
        <5> QED
          BY <5>2, <5>3
      <4> QED
        BY <1>1, <3>1, <4>1, <4>2
    <3> QED
      BY <3>1
  <2> QED
    BY <2>1, <2>2
<1> QED
  BY <1>2, <1>5, <1>6

LEMMA GalleryInvStep ==
  ASSUME GalleryInv, [Next]_vars
  PROVE  GalleryInv'
<1>1. CASE GalleryNext
  <2> PICK e \in Editor :
        \/ \E t \in Task : BeginEdit(e, t)
        \/ StartDemoting(e)
        \/ \E m \in todo[e] : DemoteRow(e, m)
        \/ EndDemoting(e)
        \/ WriteRow(e)
        \/ DetachRow(e)
        \/ ReorderRow(e)
        \/ CommitEdit(e)
        \/ AbortEdit(e)
    BY <1>1 DEF GalleryNext
  <2>1. GalleryTypeOK'
    BY <1>1, GalleryTypeStep DEF GalleryInv
  <2>2. \A q \in Editor : EditorInv(q)'
    <3>1. CASE AbortEdit(e)
      BY <3>1, QuietEnd DEF AbortEdit
    <3> QED
      BY <3>1, BeginKeepsEditors, DemotionKeepsEditors, WritesKeepEditors,
         ReorderKeepsEditors, CommitKeepsEditors
  <2>3. OnePrimary'
    <3>1. CASE CommitEdit(e)
      BY <3>1, CommitKeepsEditors
    <3>2. CASE ~CommitEdit(e)
      <4>1. shown' = shown
        BY <3>2 DEF BeginEdit, StartDemoting, DemoteRow, EndDemoting, WriteRow, DetachRow,
                    ReorderRow, RowConflicts, AbortEdit
      <4>2. raced => raced'
        BY <3>2 DEF BeginEdit, StartDemoting, DemoteRow, EndDemoting, WriteRow, DetachRow,
                    ReorderRow, RowConflicts, AbortEdit, EndEdit
      <4> QED
        BY <4>1, <4>2 DEF GalleryInv, OnePrimary
    <3> QED
      BY <3>1, <3>2
  <2> QED
    BY <2>1, <2>2, <2>3 DEF GalleryInv
<1>2. CASE UNCHANGED galleryVars
  BY <1>2 DEF galleryVars, GalleryInv, GalleryTypeOK, OnePrimary, EditorInv, HoldsRows,
              WritesInOrder, WrittenUpTo, Sees, Active, Chosen, Rows
<1> QED
  BY <1>1, <1>2 DEF Next, vars

LEMMA GalleryStart ==
  ASSUME Init
  PROVE  GalleryInv
<1>1. GalleryInit
  BY DEF Init, NoGallery
<1>2. GalleryTypeOK
  BY <1>1 DEF GalleryInit, GalleryTypeOK, Unchanged
<1>3. OnePrimary
  <2> DEFINE S == {m \in Media : shown[m] = "primary"}
  <2>1. Cardinality(S) <= 1
    BY <1>1 DEF GalleryInit
  <2>2. IsFiniteSet(S)
    BY FS_Subset
  <2>3. ASSUME NEW m \in S, NEW n \in S, m # n
        PROVE  FALSE
    <3> DEFINE T == {m} \cup {n}
    <3>1. T \in SUBSET S
      OBVIOUS
    <3>2. Cardinality(T) = 2
      <4>1. IsFiniteSet({m}) /\ Cardinality({m}) = 1 /\ n \notin {m}
        BY <2>3, FS_Singleton
      <4>2. \A X : IsFiniteSet(X) /\ n \notin X => Cardinality(X \cup {n}) = Cardinality(X) + 1
        BY FS_AddElement
      <4> QED
        BY <4>1, <4>2
    <3> HIDE DEF S, T
    <3>3. Cardinality(T) <= Cardinality(S) /\ Cardinality(S) \in Nat
      BY <2>2, <3>1, FS_Subset, FS_CardinalityType
    <3> QED
      BY <2>1, <3>2, <3>3
  <2> QED
    BY <2>3 DEF OnePrimary
<1>4. ASSUME NEW e \in Editor
      PROVE  EditorInv(e)
  <2>1. ~Active(e) /\ step[e] = "start" /\ \A n \in Media : draft[e][n] = "same"
    BY <1>1, <1>4 DEF GalleryInit, Active, Unchanged
  <2> QED
    BY <1>1, <2>1 DEF GalleryInit, EditorInv, HoldsRows, WritesInOrder, Sees
<1> QED
  BY <1>2, <1>3, <1>4 DEF GalleryInv

LEMMA GalleryInvariant == Spec => []GalleryInv
BY GalleryStart, GalleryInvStep, PTL DEF Spec

(* In whatever order requests lock the rows of a product's images, two     *)
(* primary images take an attachment that overlapped a change of the       *)
(* primary image.                                                          *)
THEOREM OnePrimaryAlwaysUnlessAttachRaced == Spec => []OnePrimaryUnlessAttachRaced
<1>1. GalleryInv => OnePrimaryUnlessAttachRaced
  <2> SUFFICES ASSUME GalleryInv, ~raced,
                      Cardinality({m \in Media : shown[m] = "primary"}) > 1
               PROVE  FALSE
    BY DEF OnePrimaryUnlessAttachRaced
  <2> DEFINE S == {m \in Media : shown[m] = "primary"}
  <2>1. \A m, n \in S : m = n
    BY DEF GalleryInv, OnePrimary
  <2>2. Cardinality(S) > 1
    OBVIOUS
  <2>3. S = {} \/ \E m \in S : S = {m}
    BY <2>1
  <2> HIDE DEF S
  <2>4. Cardinality(S) \in {0, 1}
    BY <2>3, FS_EmptySet, FS_Singleton
  <2> QED
    BY <2>2, <2>4
<1> QED
  BY <1>1, GalleryInvariant, PTL

=============================================================================
